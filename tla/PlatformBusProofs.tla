-------------------------- MODULE PlatformBusProofs --------------------------
(***************************************************************************)
(* Theorems about PlatformBus, for every number of devices, insmods and    *)
(* threads.                                                                *)
(***************************************************************************)
EXTENDS PlatformBus, TLAPS

Distinct(s) == \A i, j \in 1 .. Len(s) : s[i] = s[j] => i = j

Cap(n) == NumDevices * n

-----------------------------------------------------------------------------
(* The invariant: the command and the devices of the bus.                    *)

Attaching == command.op \in {"register", "attach"}

Detaching == command.op \in {"unregister", "detach"}

AtProbe == command.at \in {"class", "alloc", "buffer", "link", "init", "list"}

AtRemove == command.at \in {"unlist", "deregister", "free"}

BusTypes ==
  /\ loaded \subseteq {"device", "driver"}
  /\ command \in CommandOK
  /\ registered \in Seq(Devices) /\ bound \in Seq(Devices)
  /\ loads \in 0 .. MaxLoads /\ made \in Nat

\* Which module the command needs, and where it can be.
CommandWhere ==
  /\ AtProbe => Attaching
  /\ AtRemove => Detaching
  /\ command.op \in {"attach", "detach"} \/ command.at /= "next" => "driver" \in loaded
  /\ command.op \in {"register", "unregister"} => "device" \in loaded

\* The device that is being probed or removed, and those still to come.
Busy == IF command.at = "next" THEN {} ELSE {command.device}

ToCome == Elements(command.todo)

DevicesWhere ==
  /\ Distinct(registered) /\ Distinct(bound) /\ Distinct(command.todo)
  /\ Busy \cap ToCome = {}
  /\ "device" \notin loaded => registered = <<>>
  /\ "driver" \notin loaded => bound = <<>>
  /\ command.op = "register" => Elements(registered) \cap ToCome = {}
  /\ command.op = "register" => Busy \subseteq Elements(registered)
  /\ command.op = "attach" => ToCome \cup Busy \subseteq Elements(registered)
  /\ command.op = "unregister" => Elements(registered) \subseteq ToCome
  /\ command.op /= "unregister" => Elements(bound) \subseteq Elements(registered)
  /\ Attaching => Elements(bound) \cap (ToCome \cup Busy) = {}
  /\ Detaching => Elements(bound) \subseteq ToCome \cup Busy
  /\ AtRemove => Busy \subseteq Elements(bound)

\* No insmod makes more structs than there are devices.
Coming(op) == IF op THEN Len(command.todo) ELSE 0

Due == IF command.at \in {"class", "alloc"} THEN 1 ELSE 0

Budget ==
  /\ Len(registered) + Coming(command.op = "register") <= NumDevices
  /\ made + Coming(Attaching) + Due <= Cap(loads)

BusInv == BusTypes /\ CommandWhere /\ DevicesWhere /\ Budget

-----------------------------------------------------------------------------
(* The structs: the list at HEAD goes down from the newest, and has every    *)
(* struct that this driver has linked.                                       *)

ObjectTypes ==
  /\ hcsr_dev \in [Objects -> [device : Devices, next : Objects \cup {NULL},
                               ready : BOOLEAN]]
  /\ freed \subseteq 1 .. made /\ failed \subseteq 1 .. made
  /\ linked \subseteq 1 .. made /\ misc \subseteq 1 .. made
  /\ base \in 0 .. made

ListDown ==
  /\ HEAD \in linked \cup {NULL}
  /\ \A x \in Objects : hcsr_dev[x].next \in linked \cup {NULL}
  /\ \A y \in linked : base < y => y <= HEAD
  /\ \A x, y \in linked : base < y /\ y < x => y <= hcsr_dev[x].next

\* The struct the command is about.
ObjectWhere ==
  /\ command.at \in {"buffer", "link", "init", "list"} =>
       /\ command.obj = made /\ base < command.obj
       /\ hcsr_dev[command.obj].device = command.device
  /\ command.at \in {"buffer", "link"} => command.obj \notin linked
  /\ command.at \in {"init", "list", "deregister", "free"} =>
       command.obj \in linked /\ base < command.obj

Walk ==
  /\ open \in [asked : Objects \cup {NULL}, temp : linked \cup {NULL},
               linked : BOOLEAN]
  /\ open.asked /= NULL /\ open.linked =>
       open.asked \in linked /\ open.temp \in linked /\ open.asked <= open.temp

ObjectInv == ObjectTypes /\ ListDown /\ ObjectWhere /\ Walk

-----------------------------------------------------------------------------
(* device_list, the miscdevices and the class: each bound device has one     *)
(* struct, and nothing else has a miscdevice but what failed probes left.    *)

Listed == Elements(device_list)

Dev(o) == hcsr_dev[o].device

Current(labels) == IF command.at \in labels THEN {command.obj} ELSE {}

Deleted == command.at \in {"deregister", "free"}

ListTypes ==
  /\ device_list \in Seq(1 .. made) /\ class \in Seq(1 .. made)
  /\ first \in BOOLEAN /\ gko_class \in BOOLEAN
  /\ gko_device \in [Devices -> Objects \cup {NULL}]
  /\ file \in linked \cup {NULL} /\ sampling \subseteq linked
  /\ fault \in {"none", "oops", "freed", "unready"}
  /\ events \subseteq {"open in probe", "open in remove", "removed in use"}

OneEach ==
  /\ Distinct(device_list)
  /\ Listed \subseteq linked /\ \A o \in Listed : base < o
  /\ Listed \cap Current({"init", "list", "deregister", "free"}) = {}
  /\ \A o \in Listed : Dev(o) \in Elements(bound)
  /\ Deleted => \A o \in Listed : Dev(o) /= command.device
  /\ \A o, p \in Listed : Dev(o) = Dev(p) => o = p
  /\ \A d \in Elements(bound) :
       (\E o \in Listed : Dev(o) = d) \/ (Deleted /\ d = command.device)

Accounted ==
  /\ misc \cap linked \subseteq Listed \cup Current({"init", "list", "deregister"})
  /\ misc \subseteq failed \cup Listed
                \cup Current({"buffer", "link", "init", "list", "deregister"})
  /\ 1 .. made \subseteq freed \cup failed \cup Listed
       \cup Current({"buffer", "link", "init", "list", "deregister", "free"})
  /\ Len(class) = Len(bound) - IF Deleted THEN 1 ELSE 0

ListInv == ListTypes /\ (fault = "none" => OneEach /\ Accounted)

Inv == BusInv /\ ObjectInv /\ ListInv

\* What is there of a struct, whatever happens: what is freed was linked; the array of a
\* buffer is there from alloc_buffer on, and never goes; and a struct that failed with
\* the driver's buffer has its miscdevice.
RemainsInv ==
  /\ arrays \subseteq {"all_samples", "result"} \X Objects
  /\ all_samples \in Objects \cup {NULL}
  /\ freed \subseteq linked /\ linked \cap failed = {}
  /\ \A o \in Objects : <<"result", o>> \in arrays <=> o \in linked \cup Current({"link"})
  /\ \A o \in Objects : <<"all_samples", o>> \in arrays => o \in linked \cup misc
  /\ Current({"buffer", "link"}) \subseteq misc \ (linked \cup failed)

-----------------------------------------------------------------------------
(* Sequences and the sets of their elements.                                 *)

LEMMA ElementsSeq ==
  ASSUME NEW S, NEW s \in Seq(S)
  PROVE  /\ Elements(s) \subseteq S
         /\ s = <<>> <=> Elements(s) = {}
         /\ \A x : x \in Elements(s) <=> \E i \in 1 .. Len(s) : s[i] = x
<1>1. Len(s) \in Nat /\ \A i \in 1 .. Len(s) : s[i] \in S
  OBVIOUS
<1>2. s /= <<>> => s[1] \in Elements(s)
  BY <1>1 DEF Elements
<1>3. \A x : x \in Elements(s) <=> \E i \in 1 .. Len(s) : s[i] = x
  BY DEF Elements
<1>4. s = <<>> => Elements(s) = {}
  BY DEF Elements
<1> QED
  BY <1>1, <1>2, <1>3, <1>4

LEMMA EmptySeqDistinct == Distinct(<<>>) /\ Elements(<<>>) = {} /\ Len(<<>>) = 0
  BY DEF Distinct, Elements

LEMMA TailElements ==
  ASSUME NEW S, NEW s \in Seq(S), s /= <<>>, Distinct(s)
  PROVE  /\ Head(s) \in S /\ Tail(s) \in Seq(S) /\ Len(Tail(s)) = Len(s) - 1
         /\ Distinct(Tail(s))
         /\ Elements(s) = {Head(s)} \cup Elements(Tail(s))
         /\ Head(s) \notin Elements(Tail(s))
<1>1. /\ Head(s) = s[1] /\ Tail(s) \in Seq(S) /\ Len(s) \in Nat \ {0}
      /\ Len(Tail(s)) = Len(s) - 1
      /\ \A i \in 1 .. Len(s) - 1 : Tail(s)[i] = s[i + 1]
  OBVIOUS
<1>2. Distinct(Tail(s))
  BY <1>1 DEF Distinct
<1>3. ASSUME NEW x
      PROVE  x \in Elements(s) <=> x = Head(s) \/ x \in Elements(Tail(s))
  <2>1. ASSUME NEW i \in 1 .. Len(s), x = s[i], i /= 1
        PROVE  x \in Elements(Tail(s))
    <3>1. i - 1 \in 1 .. Len(s) - 1 /\ Tail(s)[i - 1] = x
      BY <1>1, <2>1
    <3> QED
      BY <1>1, <3>1 DEF Elements
  <2>2. ASSUME NEW i \in 1 .. Len(s) - 1, x = Tail(s)[i]
        PROVE  x \in Elements(s)
    <3>1. i + 1 \in 1 .. Len(s) /\ s[i + 1] = x
      BY <1>1, <2>2
    <3> QED
      BY <3>1 DEF Elements
  <2> QED
    BY <1>1, <2>1, <2>2 DEF Elements
<1>4. Head(s) \notin Elements(Tail(s))
  <2> SUFFICES ASSUME NEW i \in 1 .. Len(s) - 1, s[1] = s[i + 1]
               PROVE  FALSE
    BY <1>1 DEF Elements
  <2> QED
    BY <1>1 DEF Distinct
<1> QED
  BY <1>1, <1>2, <1>3, <1>4

LEMMA AppendElements ==
  ASSUME NEW S, NEW s \in Seq(S), NEW x \in S
  PROVE  /\ Append(s, x) \in Seq(S) /\ Len(Append(s, x)) = Len(s) + 1
         /\ Elements(Append(s, x)) = Elements(s) \cup {x}
         /\ Distinct(s) /\ x \notin Elements(s) => Distinct(Append(s, x))
<1> DEFINE t == Append(s, x)
<1>1. /\ t \in Seq(S) /\ Len(s) \in Nat /\ Len(t) = Len(s) + 1
      /\ t[Len(s) + 1] = x /\ \A i \in 1 .. Len(s) : t[i] = s[i]
  OBVIOUS
<1> HIDE DEF t
<1>2. Elements(t) = Elements(s) \cup {x}
  BY <1>1 DEF Elements
<1>3. Distinct(s) /\ x \notin Elements(s) => Distinct(t)
  <2> SUFFICES ASSUME Distinct(s), x \notin Elements(s),
                      NEW i \in 1 .. Len(s) + 1, NEW j \in 1 .. Len(s) + 1, t[i] = t[j]
               PROVE  i = j
    BY <1>1 DEF Distinct
  <2>1. \A k \in 1 .. Len(s) : s[k] /= x
    BY DEF Elements
  <2> QED
    BY <1>1, <2>1 DEF Distinct
<1> QED
  BY <1>1, <1>2, <1>3 DEF t

\* list_add.
Cons(x, s) == <<x>> \o s

LEMMA ConsElements ==
  ASSUME NEW S, NEW s \in Seq(S), NEW x \in S
  PROVE  /\ Cons(x, s) \in Seq(S) /\ Elements(Cons(x, s)) = Elements(s) \cup {x}
         /\ Distinct(s) /\ x \notin Elements(s) => Distinct(Cons(x, s))
<1> DEFINE t == Cons(x, s)
<1>1. /\ t \in Seq(S) /\ Len(s) \in Nat /\ Len(t) = Len(s) + 1
      /\ t[1] = x /\ \A i \in 1 .. Len(s) : t[i + 1] = s[i]
  BY DEF Cons
<1> HIDE DEF t
<1>2. \A i \in 1 .. Len(t) : i /= 1 => i - 1 \in 1 .. Len(s) /\ t[i] = s[i - 1]
  BY <1>1
<1>3. Elements(t) = Elements(s) \cup {x}
  <2>1. ASSUME NEW i \in 1 .. Len(s)
        PROVE  s[i] \in Elements(t)
    <3>1. i + 1 \in 1 .. Len(t) /\ t[i + 1] = s[i]
      BY <1>1
    <3> QED
      BY <3>1 DEF Elements
  <2>2. x \in Elements(t)
    BY <1>1 DEF Elements
  <2>3. ASSUME NEW i \in 1 .. Len(t)
        PROVE  t[i] \in Elements(s) \cup {x}
    BY <1>1, <1>2 DEF Elements
  <2>4. Elements(s) \subseteq Elements(t)
    BY <2>1 DEF Elements
  <2>5. Elements(t) \subseteq Elements(s) \cup {x}
    BY <2>3 DEF Elements
  <2> QED
    BY <2>2, <2>4, <2>5
<1>4. Distinct(s) /\ x \notin Elements(s) => Distinct(t)
  <2> SUFFICES ASSUME Distinct(s), x \notin Elements(s),
                      NEW i \in 1 .. Len(t), NEW j \in 1 .. Len(t), t[i] = t[j]
               PROVE  i = j
    BY DEF Distinct
  <2>1. \A k \in 1 .. Len(s) : s[k] /= x
    BY DEF Elements
  <2>2. CASE i = 1 \/ j = 1
    BY <1>1, <1>2, <2>1, <2>2
  <2>3. CASE i /= 1 /\ j /= 1
    <3>1. i - 1 = j - 1
      BY <1>2, <2>3 DEF Distinct
    <3> QED
      BY <1>1, <3>1
  <2> QED
    BY <2>2, <2>3
<1> QED
  BY <1>1, <1>3, <1>4 DEF t

LEMMA WithoutAt ==
  ASSUME NEW S, NEW s \in Seq(S), Distinct(s), NEW k \in 1 .. Len(s)
  PROVE  /\ Without(s, s[k]) \in Seq(S) /\ Len(Without(s, s[k])) = Len(s) - 1
         /\ \A i \in 1 .. Len(s) - 1 :
              Without(s, s[k])[i] = IF i < k THEN s[i] ELSE s[i + 1]
<1> DEFINE p == SubSeq(s, 1, k - 1)
           q == SubSeq(s, k + 1, Len(s))
           t == p \o q
<1>1. (CHOOSE j \in 1 .. Len(s) : s[j] = s[k]) = k
  BY DEF Distinct
<1>2. Without(s, s[k]) = t
  BY <1>1 DEF Without, Elements
<1>3. /\ p \in Seq(S) /\ Len(p) = k - 1
      /\ \A i \in 1 .. k - 1 : p[i] = s[i]
  OBVIOUS
<1>4. /\ q \in Seq(S) /\ Len(q) = Len(s) - k
      /\ \A i \in 1 .. Len(s) - k : q[i] = s[k + i]
  OBVIOUS
<1> HIDE DEF p, q
<1>5. /\ t \in Seq(S) /\ Len(t) = Len(s) - 1
      /\ \A i \in 1 .. Len(s) - 1 : t[i] = IF i < k THEN s[i] ELSE s[i + 1]
  <2>1. t \in Seq(S) /\ Len(t) = Len(p) + Len(q)
    <3>1. p \in Seq(S) /\ q \in Seq(S)
      BY <1>3, <1>4
    <3> QED
      BY <3>1
  <2>2. /\ \A i \in 1 .. Len(p) : t[i] = p[i]
        /\ \A i \in 1 .. Len(q) : t[Len(p) + i] = q[i]
    BY <1>3, <1>4
  <2> HIDE DEF t
  <2>3. ASSUME NEW i \in 1 .. Len(s) - 1
        PROVE  t[i] = IF i < k THEN s[i] ELSE s[i + 1]
    <3>1. CASE i < k
      <4>1. i \in 1 .. k - 1
        BY <3>1
      <4> QED
        BY <1>3, <2>2, <3>1, <4>1
    <3>2. CASE ~ (i < k)
      <4>1. /\ i - (k - 1) \in 1 .. Len(s) - k /\ k + (i - (k - 1)) = i + 1
            /\ (k - 1) + (i - (k - 1)) = i
        BY <3>2
      <4>2. t[i] = q[i - (k - 1)]
        BY <1>3, <1>4, <2>2, <4>1
      <4>3. t[i] = s[k + (i - (k - 1))]
        BY <1>4, <4>1, <4>2
      <4> QED
        BY <3>2, <4>1, <4>3
    <3> QED
      BY <3>1, <3>2
  <2> QED
    BY <1>3, <1>4, <2>1, <2>3
<1> QED
  BY <1>2, <1>5

LEMMA WithoutElements ==
  ASSUME NEW S, NEW s \in Seq(S), Distinct(s), NEW x
  PROVE  /\ Without(s, x) \in Seq(S) /\ Distinct(Without(s, x))
         /\ Elements(Without(s, x)) = Elements(s) \ {x}
         /\ Len(Without(s, x)) = Len(s) - IF x \in Elements(s) THEN 1 ELSE 0
<1>1. CASE x \notin Elements(s)
  BY <1>1 DEF Without
<1>2. CASE x \in Elements(s)
  <2>1. PICK k \in 1 .. Len(s) : s[k] = x
    BY <1>2 DEF Elements
  <2> DEFINE t == Without(s, x)
  <2>2. /\ t \in Seq(S) /\ Len(t) = Len(s) - 1
        /\ \A i \in 1 .. Len(s) - 1 : t[i] = IF i < k THEN s[i] ELSE s[i + 1]
    BY <2>1, WithoutAt
  <2> HIDE DEF t
  <2>3. Len(s) \in Nat /\ k \in 1 .. Len(s)
    BY <2>1
  <2>4. Distinct(t)
    <3> SUFFICES ASSUME NEW i \in 1 .. Len(s) - 1, NEW j \in 1 .. Len(s) - 1, t[i] = t[j]
                 PROVE  i = j
      BY <2>2 DEF Distinct
    <3> DEFINE a == IF i < k THEN i ELSE i + 1
               b == IF j < k THEN j ELSE j + 1
    <3>1. a \in 1 .. Len(s) /\ b \in 1 .. Len(s) /\ s[a] = s[b]
      BY <2>2, <2>3
    <3>2. a = b
      BY <3>1 DEF Distinct
    <3> QED
      BY <2>3, <3>2
  <2>5. ASSUME NEW y
        PROVE  y \in Elements(t) <=> y \in Elements(s) /\ y /= x
    <3>1. ASSUME NEW i \in 1 .. Len(s) - 1, y = t[i]
          PROVE  y \in Elements(s) /\ y /= x
      <4> DEFINE a == IF i < k THEN i ELSE i + 1
      <4>1. a \in 1 .. Len(s) /\ a /= k /\ y = s[a]
        BY <2>2, <2>3, <3>1
      <4> QED
        BY <2>1, <4>1 DEF Elements, Distinct
    <3>2. ASSUME NEW j \in 1 .. Len(s), y = s[j], y /= x
          PROVE  y \in Elements(t)
      <4> DEFINE a == IF j < k THEN j ELSE j - 1
      <4>1. j /= k
        BY <2>1, <3>2
      <4>2. a \in 1 .. Len(s) - 1 /\ y = t[a]
        BY <2>2, <2>3, <3>2, <4>1
      <4> QED
        BY <2>2, <4>2 DEF Elements
    <3> QED
      BY <2>2, <3>1, <3>2 DEF Elements
  <2> QED
    BY <1>2, <2>2, <2>4, <2>5 DEF t
<1> QED
  BY <1>1, <1>2

-----------------------------------------------------------------------------
(* The command and the bus.                                                  *)

bus == <<loaded, command, registered, bound, loads, made>>

LEMMA CapStep ==
  \A n \in Nat : Cap(n) \in Nat /\ Cap(n + 1) = Cap(n) + NumDevices
  BY BusAssumption DEF Cap

LEMMA Caps ==
  /\ \A n \in Nat : Cap(n) \in Nat
  /\ \A n \in 0 .. MaxLoads : Cap(n) <= Cap(MaxLoads)
  /\ Cap(0) = 0 /\ Objects = 1 .. Cap(MaxLoads)
<1>1. \A n \in Nat : Cap(n) \in Nat
  BY CapStep
<1>2. ASSUME NEW n \in 0 .. MaxLoads
      PROVE  NumDevices * n <= NumDevices * MaxLoads
  <2>1. NumDevices * (MaxLoads - n) >= 0
    BY BusAssumption
  <2>2. NumDevices * (MaxLoads - n) = NumDevices * MaxLoads - NumDevices * n
    BY BusAssumption
  <2> QED
    BY BusAssumption, <2>1, <2>2
<1> QED
  BY BusAssumption, <1>1, <1>2 DEF Cap, Objects

LEMMA Sums ==
  /\ \A k, m, n, c, d, e \in Nat : m + c + d <= k /\ n + e <= m + d => n + c + e <= k
  /\ \A k, l, m, c \in Nat, d \in {0, 1} : m + c + d <= k /\ k <= l =>
       m <= l /\ (d = 1 => m + 1 \in 1 .. l)
  OBVIOUS

\* What the insmods leave room for.
LEMMA MadeFits ==
  ASSUME BusInv
  PROVE  /\ made \in 0 .. Cap(MaxLoads)
         /\ command.at \in {"class", "alloc"} => made + 1 \in Objects
<1>1. made \in Nat /\ loads \in 0 .. MaxLoads /\ Len(command.todo) \in Nat
  BY DEF BusInv, BusTypes, CommandOK
<1>2. Coming(Attaching) \in Nat /\ Due \in {0, 1}
  BY <1>1 DEF Coming, Due
<1>3. made + Coming(Attaching) + Due <= Cap(loads)
  BY DEF BusInv, Budget
<1>4. Cap(loads) <= Cap(MaxLoads)
  BY <1>1, Caps
<1>5. loads \in Nat /\ MaxLoads \in Nat
  BY <1>1, BusAssumption
<1>6. Cap(loads) \in Nat /\ Cap(MaxLoads) \in Nat
  BY <1>5, Caps
<1>7. made <= Cap(MaxLoads) /\ (Due = 1 => made + 1 \in 1 .. Cap(MaxLoads))
  BY <1>1, <1>2, <1>3, <1>4, <1>6, Sums, Zenon
<1>8. command.at \in {"class", "alloc"} => Due = 1
  BY DEF Due
<1>9. made \in 0 .. Cap(MaxLoads)
  BY <1>1, <1>6, <1>7
<1> QED
  BY <1>7, <1>8, <1>9, Caps, Zenon

LEMMA BusUntouched == BusInv /\ UNCHANGED bus => BusInv'
<1> SUFFICES ASSUME BusInv, UNCHANGED bus
             PROVE  BusInv'
  OBVIOUS
<1>1. /\ Attaching' = Attaching /\ Detaching' = Detaching /\ AtProbe' = AtProbe
      /\ AtRemove' = AtRemove /\ Busy' = Busy /\ ToCome' = ToCome /\ Due' = Due
      /\ \A op : Coming(op)' = Coming(op)
      /\ command' = command
  BY DEF bus, Attaching, Detaching, AtProbe, AtRemove, Busy, ToCome, Due, Coming
<1>2. BusTypes' /\ CommandWhere'
  BY <1>1 DEF bus, BusInv, BusTypes, CommandWhere
<1>3. DevicesWhere'
  BY <1>1 DEF bus, BusInv, DevicesWhere, Distinct
<1>4. Budget'
  BY <1>1 DEF bus, BusInv, Budget, Coming
<1> QED
  BY <1>2, <1>3, <1>4 DEF BusInv

LEMMA InitBus == Init => BusInv
<1> SUFFICES ASSUME Init
             PROVE  BusInv
  OBVIOUS
<1>1. BusTypes
  BY BusAssumption DEF Init, BusTypes, CommandOK, Idle, Devices, NULL
<1>2. CommandWhere
  BY DEF Init, CommandWhere, AtProbe, AtRemove, Idle
<1>3. DevicesWhere
  BY EmptySeqDistinct DEF Init, DevicesWhere, Busy, ToCome, AtRemove, Idle, Attaching,
     Detaching
<1>4. Budget
  BY EmptySeqDistinct, Caps, BusAssumption DEF Init, Budget, Idle, Attaching, Coming, Due
<1> QED
  BY <1>1, <1>2, <1>3, <1>4 DEF BusInv

\* A step of a probe or a remove, and the end of a probe that failed.
LEMMA BusMoves ==
  ASSUME BusInv, UNCHANGED <<loaded, registered, bound, loads>>,
         command' \in CommandOK, made' \in Nat,
         command'.op = command.op, command'.todo = command.todo,
         command'.device = command.device,
         \/ AtProbe /\ (AtProbe' \/ command'.at = "next")
         \/ AtRemove /\ AtRemove',
         made' + Due' <= made + Due
  PROVE  BusInv'
<1>1. BusTypes'
  BY DEF BusInv, BusTypes
<1>2. CommandWhere'
  BY DEF BusInv, CommandWhere, AtProbe, AtRemove, Attaching, Detaching
<1>3. Busy' \subseteq Busy /\ ToCome' = ToCome /\ Attaching' = Attaching
      /\ Detaching' = Detaching
  BY DEF Busy, ToCome, Attaching, Detaching, AtProbe, AtRemove
<1>4. AtRemove => Busy' = Busy
  BY DEF Busy, AtProbe, AtRemove
<1>5. AtProbe => Attaching
  BY DEF BusInv, CommandWhere
<1>6. Attaching => ~ Detaching
  BY DEF Attaching, Detaching
<1>7. AtRemove' => AtRemove
  BY DEF AtProbe, AtRemove
<1>8. DevicesWhere'
  <2>1. Detaching => Elements(bound) \subseteq ToCome' \cup Busy'
    <3>1. CASE AtRemove
      BY <1>3, <1>4, <3>1 DEF BusInv, DevicesWhere
    <3>2. CASE ~ AtRemove
      BY <1>5, <1>6, <3>2
    <3> QED
      BY <3>1, <3>2
  <2>2. Distinct(registered)' /\ Distinct(bound)' /\ Distinct(command.todo)'
    BY DEF BusInv, DevicesWhere, Distinct
  <2> QED
    BY <1>3, <1>4, <1>7, <2>1, <2>2 DEF BusInv, DevicesWhere
<1>9. Budget'
  <2>1. made \in Nat /\ loads \in 0 .. MaxLoads /\ Len(command.todo) \in Nat
    BY DEF BusInv, BusTypes, CommandOK
  <2>2. loads \in Nat
    BY <2>1, BusAssumption
  <2>3. Cap(loads) \in Nat
    BY <2>2, Caps
  <2>4. Due \in {0, 1} /\ Due' \in {0, 1} /\ Coming(Attaching) \in Nat
    BY <2>1 DEF Due, Coming
  <2>5. /\ Coming(Attaching)' = Coming(Attaching)
        /\ Coming(command.op = "register")' = Coming(command.op = "register")
    BY <1>3 DEF Coming
  <2>6. /\ Len(registered)' = Len(registered) /\ Cap(loads)' = Cap(loads)
        /\ made + Coming(Attaching) + Due <= Cap(loads)
        /\ Len(registered) + Coming(command.op = "register") <= NumDevices
    BY DEF BusInv, Budget
  <2>7. made' + Coming(Attaching) + Due' <= Cap(loads)
    <3>1. Due \in Nat /\ Due' \in Nat
      BY <2>4
    <3> QED
      BY <2>1, <2>4, <2>6, <2>3, <3>1, Sums, Zenon
  <2> QED
    BY <2>5, <2>6, <2>7 DEF Budget
<1> QED
  BY <1>1, <1>2, <1>8, <1>9 DEF BusInv

LEMMA OrderSeq ==
  ASSUME BusInv, NEW op \in {"register", "attach", "unregister", "detach"}
  PROVE  /\ Order(op) \in Seq(Devices) /\ Distinct(Order(op))
         /\ op \in {"attach", "unregister"} => Order(op) = registered
         /\ op = "register" => Len(Order(op)) = NumDevices
         /\ op = "detach" => Elements(bound) \subseteq Elements(Order(op))
<1>1. /\ registered \in Seq(Devices) /\ bound \in Seq(Devices)
      /\ Distinct(registered) /\ Distinct(bound)
  BY DEF BusInv, BusTypes, DevicesWhere
<1>2. CASE op \in {"attach", "unregister"}
  BY <1>1, <1>2 DEF Order
<1>3. CASE op = "register"
  <2> DEFINE s == [i \in Devices |-> i]
  <2>1. s \in Seq(Devices) /\ Len(s) = NumDevices /\ \A i \in 1 .. NumDevices : s[i] = i
    BY BusAssumption DEF Devices
  <2> HIDE DEF s
  <2>2. Distinct(s)
    BY <2>1 DEF Distinct
  <2>3. Order(op) = s
    BY <1>3 DEF Order, s
  <2> QED
    BY <1>3, <2>1, <2>2, <2>3
<1>4. CASE op = "detach"
  <2> DEFINE n == Len(bound)
             s == [i \in 1 .. n |-> bound[n + 1 - i]]
  <2>1. n \in Nat /\ \A i \in 1 .. n : n + 1 - i \in 1 .. n /\ bound[i] \in Devices
    BY <1>1
  <2> HIDE DEF n
  <2>2. s \in Seq(Devices) /\ Len(s) = n /\ \A i \in 1 .. n : s[i] = bound[n + 1 - i]
    BY <2>1
  <2>3. Order(op) = s
    BY <1>4 DEF Order, s, n
  <2> HIDE DEF s
  <2>4. Distinct(s)
    <3> SUFFICES ASSUME NEW i \in 1 .. n, NEW j \in 1 .. n, s[i] = s[j]
                 PROVE  i = j
      BY <2>2 DEF Distinct
    <3>1. n + 1 - i = n + 1 - j
      BY <1>1, <2>1, <2>2 DEF Distinct, n
    <3> QED
      BY <2>1, <3>1
  <2>5. Elements(bound) \subseteq Elements(s)
    <3> SUFFICES ASSUME NEW i \in 1 .. n
                 PROVE  bound[i] \in Elements(s)
      BY DEF Elements, n
    <3>1. n + 1 - i \in 1 .. n /\ n + 1 - (n + 1 - i) = i
      BY <2>1
    <3>2. s[n + 1 - i] = bound[i]
      BY <2>2, <3>1
    <3> QED
      BY <2>2, <3>1, <3>2 DEF Elements
  <2> QED
    BY <1>4, <2>2, <2>3, <2>4, <2>5
<1> QED
  BY <1>2, <1>3, <1>4

\* What is left of a command that has just begun.
LEMMA Begins ==
  ASSUME BusInv, NEW op \in {"register", "attach", "unregister", "detach"}, Begin(op)
  PROVE  /\ command.op = "none" /\ command' \in CommandOK
         /\ command' = [op |-> op, todo |-> Order(op), at |-> "next", device |-> 1,
                        obj |-> NULL]
         /\ ~ AtProbe' /\ ~ AtRemove' /\ Busy' = {} /\ ToCome' = Elements(Order(op))
         /\ Due' = 0 /\ Due = 0 /\ command.at = "next" /\ Busy = {}
<1>1. command.op = "none"
  BY DEF Begin
<1>2. command' = [op |-> op, todo |-> Order(op), at |-> "next", device |-> 1,
                  obj |-> NULL]
  BY DEF Begin, Idle
<1>3. command' \in CommandOK
  BY <1>2, OrderSeq, BusAssumption DEF CommandOK, Devices
<1>4. ~ AtProbe' /\ ~ AtRemove' /\ Busy' = {} /\ ToCome' = Elements(Order(op)) /\ Due' = 0
  BY <1>2 DEF AtProbe, AtRemove, Busy, ToCome, Due
<1>5. command.at = "next"
  BY <1>1 DEF BusInv, BusTypes, CommandOK, CommandWhere, AtProbe, AtRemove, Attaching,
     Detaching
<1>6. Due = 0 /\ Busy = {}
  BY <1>5 DEF Due, Busy
<1> QED
  BY <1>1, <1>2, <1>3, <1>4, <1>5, <1>6

LEMMA InsmodBus ==
  ASSUME BusInv, InsmodDevice \/ InsmodDriver
  PROVE  BusInv'
<1> DEFINE op == command'.op
<1>1. /\ UNCHANGED <<registered, bound, made>> /\ loads < MaxLoads /\ loads' = loads + 1
      /\ \/ op = "register" /\ Begin("register") /\ "device" \notin loaded
            /\ loaded' = loaded \cup {"device"}
         \/ op = "attach" /\ Begin("attach") /\ "driver" \notin loaded
            /\ loaded' = loaded \cup {"driver"}
  <2>1. Begin("register") => op = "register"
    BY DEF Begin, Idle
  <2>2. Begin("attach") => op = "attach"
    BY DEF Begin, Idle
  <2> QED
    BY <2>1, <2>2 DEF InsmodDevice, InsmodDriver, objects
<1> HIDE DEF op
<1>2. op \in {"register", "attach"} /\ Begin(op)
  BY <1>1
<1>3. /\ command.op = "none" /\ command' \in CommandOK
      /\ command'.todo = Order(op) /\ command'.op = op /\ command'.at = "next"
      /\ ~ AtProbe' /\ ~ AtRemove' /\ Busy' = {} /\ ToCome' = Elements(Order(op))
      /\ Due' = 0 /\ Due = 0
  BY <1>2, Begins
<1>4. /\ Order(op) \in Seq(Devices) /\ Distinct(Order(op))
      /\ op = "attach" => Order(op) = registered
      /\ op = "register" => Len(Order(op)) = NumDevices
  BY <1>2, OrderSeq
<1>5. BusTypes'
  <2>1. loads' \in 0 .. MaxLoads
    BY <1>1, BusAssumption DEF BusInv, BusTypes
  <2> QED
    BY <1>1, <1>3, <2>1 DEF BusInv, BusTypes
<1>6. CommandWhere'
  BY <1>1, <1>3 DEF CommandWhere
<1>7. DevicesWhere'
  <2>1. /\ Distinct(registered)' /\ Distinct(bound)' /\ Distinct(command.todo)'
    BY <1>1, <1>3, <1>4 DEF BusInv, DevicesWhere, Distinct
  <2>2. Attaching' /\ ~ Detaching'
    BY <1>1, <1>3 DEF Attaching, Detaching
  <2>3. /\ "device" \notin loaded => registered = <<>>
        /\ "driver" \notin loaded => bound = <<>>
        /\ Elements(bound) \subseteq Elements(registered)
    BY <1>3 DEF BusInv, DevicesWhere
  <2>4. CASE op = "register" /\ "device" \notin loaded
    BY <1>1, <1>3, <2>1, <2>2, <2>3, <2>4, EmptySeqDistinct DEF DevicesWhere
  <2>5. CASE op = "attach" /\ "driver" \notin loaded
    BY <1>1, <1>3, <1>4, <2>1, <2>2, <2>3, <2>5, EmptySeqDistinct DEF DevicesWhere
  <2> QED
    BY <1>1, <2>4, <2>5
<1>8. Budget'
  <2>1. /\ made \in Nat /\ loads \in Nat /\ Len(registered) \in Nat
    BY BusAssumption DEF BusInv, BusTypes
  <2>2. Cap(loads) \in Nat /\ Cap(loads') = Cap(loads) + NumDevices
    BY <1>1, <2>1, CapStep
  <2>3. Len(registered) <= NumDevices /\ made <= Cap(loads)
    <3>1. ~ Attaching /\ command.op /= "register"
      BY <1>3 DEF Attaching
    <3>2. Coming(Attaching) = 0 /\ Coming(command.op = "register") = 0
      BY <3>1 DEF Coming
    <3>3. Len(registered) + 0 <= NumDevices /\ made + 0 + 0 <= Cap(loads)
      BY <1>3, <3>2 DEF BusInv, Budget
    <3> QED
      BY <2>1, <3>3
  <2>4. Len(Order(op)) \in 0 .. NumDevices
    <3>1. CASE op = "register"
      BY <1>4, <3>1, BusAssumption
    <3>2. CASE op = "attach"
      BY <1>4, <2>1, <2>3, <3>2, BusAssumption
    <3> QED
      BY <1>2, <3>1, <3>2
  <2>5. Coming(Attaching)' = Len(Order(op))
    BY <1>2, <1>3 DEF Coming, Attaching
  <2>6. made' + Coming(Attaching)' + Due' <= Cap(loads')
    <3>1. made + Len(Order(op)) + 0 <= Cap(loads')
      BY <2>1, <2>2, <2>3, <2>4, BusAssumption
    <3> QED
      BY <1>1, <1>3, <2>5, <3>1
  <2>7. Len(registered') + Coming(command.op = "register")' <= NumDevices
    <3>1. CASE op = "register"
      <4>1. registered = <<>> /\ Coming(command.op = "register")' = NumDevices
        <5>1. "device" \notin loaded
          BY <1>1, <3>1
        <5> QED
          BY <1>3, <1>4, <3>1, <5>1 DEF Coming, BusInv, DevicesWhere
      <4> QED
        BY <1>1, <4>1, EmptySeqDistinct, BusAssumption
    <3>2. CASE op = "attach"
      <4>1. Coming(command.op = "register")' = 0
        BY <1>3, <3>2 DEF Coming
      <4> QED
        BY <1>1, <2>1, <2>3, <4>1
    <3> QED
      BY <1>2, <3>1, <3>2
  <2> QED
    BY <2>6, <2>7 DEF Budget
<1> QED
  BY <1>5, <1>6, <1>7, <1>8 DEF BusInv

LEMMA RmmodBus ==
  ASSUME BusInv, Rmmod
  PROVE  BusInv'
<1> DEFINE op == command'.op
<1>1. /\ UNCHANGED <<loaded, registered, bound, made, loads>>
      /\ \/ op = "unregister" /\ Begin("unregister") /\ "device" \in loaded
         \/ op = "detach" /\ Begin("detach") /\ "driver" \in loaded
  <2>1. Begin("unregister") => op = "unregister"
    BY DEF Begin, Idle
  <2>2. Begin("detach") => op = "detach"
    BY DEF Begin, Idle
  <2> QED
    BY <2>1, <2>2 DEF Rmmod, objects
<1> HIDE DEF op
<1>2. op \in {"unregister", "detach"} /\ Begin(op)
  BY <1>1
<1>3. /\ command.op = "none" /\ command' \in CommandOK
      /\ command'.todo = Order(op) /\ command'.op = op /\ command'.at = "next"
      /\ ~ AtProbe' /\ ~ AtRemove' /\ Busy' = {} /\ ToCome' = Elements(Order(op))
      /\ Due' = 0 /\ Due = 0
  BY <1>2, Begins
<1>4. /\ Distinct(Order(op))
      /\ op = "unregister" => Order(op) = registered
      /\ op = "detach" => Elements(bound) \subseteq Elements(Order(op))
  BY <1>2, OrderSeq
<1>5. BusTypes'
  BY <1>1, <1>3 DEF BusInv, BusTypes
<1>6. CommandWhere'
  BY <1>1, <1>3 DEF CommandWhere
<1>7. DevicesWhere'
  <2>1. /\ Distinct(registered)' /\ Distinct(bound)' /\ Distinct(command.todo)'
    BY <1>1, <1>3, <1>4 DEF BusInv, DevicesWhere, Distinct
  <2>2. ~ Attaching' /\ Detaching'
    BY <1>2, <1>3 DEF Attaching, Detaching
  <2>3. /\ "device" \notin loaded => registered = <<>>
        /\ "driver" \notin loaded => bound = <<>>
        /\ Elements(bound) \subseteq Elements(registered)
    BY <1>3 DEF BusInv, DevicesWhere
  <2> QED
    BY <1>1, <1>2, <1>3, <1>4, <2>1, <2>2, <2>3 DEF DevicesWhere
<1>8. Budget'
  <2>1. ~ Attaching /\ command.op /= "register" /\ ~ Attaching' /\ op /= "register"
    BY <1>2, <1>3 DEF Attaching
  <2>2. /\ Coming(Attaching)' = Coming(Attaching)
        /\ Coming(command.op = "register")' = Coming(command.op = "register")
    BY <1>3, <2>1 DEF Coming
  <2> QED
    BY <1>1, <1>3, <2>2 DEF BusInv, Budget
<1> QED
  BY <1>5, <1>6, <1>7, <1>8 DEF BusInv

LEMMA NextDeviceBus ==
  ASSUME BusInv, NextDevice
  PROVE  BusInv'
<1> DEFINE d == Head(command.todo)
<1>1. /\ command \in CommandOK /\ command.op /= "none" /\ command.at = "next"
      /\ command.todo /= <<>> /\ command.todo \in Seq(Devices)
      /\ Distinct(command.todo) /\ Distinct(registered) /\ Distinct(bound)
      /\ registered \in Seq(Devices) /\ bound \in Seq(Devices)
      /\ UNCHANGED <<loaded, bound, loads, made>>
  BY DEF NextDevice, BusInv, BusTypes, CommandOK, DevicesWhere, objects
<1>2. /\ d \in Devices /\ Tail(command.todo) \in Seq(Devices)
      /\ Len(Tail(command.todo)) = Len(command.todo) - 1
      /\ Distinct(Tail(command.todo))
      /\ ToCome = {d} \cup Elements(Tail(command.todo))
      /\ d \notin Elements(Tail(command.todo))
  BY <1>1, TailElements DEF ToCome
<1>3. /\ command'.op = command.op /\ command'.todo = Tail(command.todo)
      /\ command'.device = d /\ command'.obj = command.obj
      /\ \/ command'.at = "class" /\ Attaching /\ "driver" \in loaded
         \/ command'.at = "class" /\ command.op = "attach"
         \/ command'.at = "unlist" /\ Detaching /\ d \in Elements(bound)
         \/ command'.at = "next" /\ ~ (Detaching /\ d \in Elements(bound))
      /\ command' \in CommandOK
  <2>1. \E label \in {"class", "unlist", "next"} :
          command' = [command EXCEPT !.todo = Tail(@), !.device = d, !.at = label]
    BY DEF NextDevice
  <2>2. /\ command'.op = command.op /\ command'.todo = Tail(command.todo)
        /\ command'.device = d /\ command'.obj = command.obj /\ command' \in CommandOK
    BY <1>1, <1>2, <2>1 DEF CommandOK
  <2>3. \/ command'.at = "class" /\ Attaching /\ "driver" \in loaded
        \/ command'.at = "class" /\ command.op = "attach"
        \/ command'.at = "unlist" /\ Detaching /\ d \in Elements(bound)
        \/ command'.at = "next" /\ ~ (Detaching /\ d \in Elements(bound))
    BY <1>1 DEF NextDevice, CommandOK, Attaching, Detaching
  <2> QED
    BY <2>2, <2>3
<1>4. /\ command.op = "register" =>
           registered' = Append(registered, d)
      /\ command.op = "unregister" => registered' = Without(registered, d)
      /\ command.op \in {"attach", "detach"} => registered' = registered
  BY <1>1 DEF NextDevice
<1>5. /\ ToCome' = Elements(Tail(command.todo))
      /\ Attaching' = Attaching /\ Detaching' = Detaching /\ Busy = {}
      /\ Busy' \subseteq {d} /\ Due = 0
      /\ ~ AtProbe /\ ~ AtRemove
  BY <1>1, <1>3 DEF ToCome, Attaching, Detaching, Busy, Due, AtProbe, AtRemove
<1>6. command.op \in {"register", "attach", "unregister", "detach"}
  BY <1>1 DEF CommandOK
<1>7. /\ command.op = "register" =>
           /\ registered' \in Seq(Devices) /\ Len(registered') = Len(registered) + 1
           /\ Elements(registered') = Elements(registered) \cup {d}
           /\ d \notin Elements(registered) => Distinct(registered')
      /\ command.op = "unregister" =>
           /\ registered' \in Seq(Devices)
           /\ Len(registered') = Len(registered)
                                   - IF d \in Elements(registered) THEN 1 ELSE 0
           /\ Elements(registered') = Elements(registered) \ {d} /\ Distinct(registered')
  <2> HIDE DEF d
  <2>1. /\ Append(registered, d) \in Seq(Devices)
        /\ Len(Append(registered, d)) = Len(registered) + 1
        /\ Elements(Append(registered, d)) = Elements(registered) \cup {d}
        /\ d \notin Elements(registered) => Distinct(Append(registered, d))
    BY <1>1, <1>2, AppendElements
  <2>2. /\ Without(registered, d) \in Seq(Devices) /\ Distinct(Without(registered, d))
        /\ Elements(Without(registered, d)) = Elements(registered) \ {d}
        /\ Len(Without(registered, d))
             = Len(registered) - IF d \in Elements(registered) THEN 1 ELSE 0
    BY <1>1, WithoutElements
  <2>3. CASE command.op = "register"
    BY <1>4, <2>1, <2>3
  <2>4. CASE command.op = "unregister"
    BY <1>4, <2>2, <2>4
  <2> QED
    BY <2>3, <2>4
<1>8. BusTypes'
  BY <1>1, <1>3, <1>4, <1>6, <1>7 DEF BusInv, BusTypes
<1>9. CommandWhere'
  <2>1. AtProbe' => Attaching' /\ "driver" \in loaded
    BY <1>3, <1>5 DEF AtProbe, Attaching, BusInv, CommandWhere
  <2>2. AtRemove' => Detaching' /\ d \in Elements(bound)
    BY <1>3, <1>5 DEF AtRemove
  <2>3. d \in Elements(bound) => "driver" \in loaded
    BY EmptySeqDistinct DEF BusInv, DevicesWhere
  <2>4. command'.at /= "next" => AtProbe' \/ AtRemove'
    BY <1>3 DEF AtProbe, AtRemove
  <2> QED
    BY <1>1, <1>3, <2>1, <2>2, <2>3, <2>4 DEF BusInv, CommandWhere
<1>10. DevicesWhere'
  <2>1. CASE command.op = "register"
    <3>1. Attaching /\ ~ Detaching
      BY <2>1 DEF Attaching, Detaching
    <3>2. /\ Elements(registered) \cap ToCome = {}
          /\ Elements(bound) \subseteq Elements(registered)
          /\ Elements(bound) \cap ToCome = {}
          /\ "device" \in loaded
          /\ "driver" \notin loaded => bound = <<>>
      BY <2>1, <3>1 DEF BusInv, DevicesWhere, CommandWhere
    <3>3. Distinct(registered) ' /\ Distinct(bound)' /\ Distinct(command.todo)'
      BY <1>1, <1>2, <1>3, <1>7, <2>1, <3>2 DEF Distinct
    <3>4. ~ AtRemove'
      BY <1>3, <3>1 DEF AtRemove
    <3> QED
      BY <1>1, <1>2, <1>3, <1>5, <1>7, <2>1, <3>1, <3>2, <3>3, <3>4 DEF DevicesWhere
  <2>2. CASE command.op = "attach"
    <3>1. Attaching /\ ~ Detaching
      BY <2>2 DEF Attaching, Detaching
    <3>2. /\ ToCome \subseteq Elements(registered)
          /\ Elements(bound) \subseteq Elements(registered)
          /\ Elements(bound) \cap ToCome = {}
          /\ "driver" \in loaded
          /\ "device" \notin loaded => registered = <<>>
      BY <2>2, <3>1 DEF BusInv, DevicesWhere, CommandWhere
    <3>3. Distinct(registered) ' /\ Distinct(bound)' /\ Distinct(command.todo)'
      BY <1>1, <1>2, <1>3, <1>4, <2>2 DEF Distinct
    <3>4. ~ AtRemove' /\ registered' = registered
      BY <1>3, <1>4, <2>2, <3>1 DEF AtRemove
    <3> QED
      BY <1>1, <1>2, <1>3, <1>5, <2>2, <3>1, <3>2, <3>3, <3>4 DEF DevicesWhere
  <2>3. CASE command.op = "unregister"
    <3>1. ~ Attaching /\ Detaching
      BY <2>3 DEF Attaching, Detaching
    <3>2. /\ Elements(registered) \subseteq ToCome
          /\ Elements(bound) \subseteq ToCome
          /\ "device" \in loaded
          /\ "driver" \notin loaded => bound = <<>>
      BY <1>5, <2>3, <3>1 DEF BusInv, DevicesWhere, CommandWhere
    <3>3. Distinct(registered) ' /\ Distinct(bound)' /\ Distinct(command.todo)'
      BY <1>1, <1>2, <1>3, <1>7, <2>3 DEF Distinct
    <3>4. /\ AtRemove' => Busy' \subseteq Elements(bound)
          /\ d \in Elements(bound) => Busy' = {d}
      BY <1>3, <3>1 DEF AtRemove, Busy, Attaching
    <3>5. Elements(bound) \subseteq ToCome' \cup Busy'
      BY <1>2, <1>5, <3>2, <3>4
    <3> QED
      BY <1>1, <1>2, <1>3, <1>5, <1>7, <2>3, <3>1, <3>2, <3>3, <3>4, <3>5
         DEF DevicesWhere
  <2>4. CASE command.op = "detach"
    <3>1. ~ Attaching /\ Detaching
      BY <2>4 DEF Attaching, Detaching
    <3>2. /\ Elements(bound) \subseteq ToCome
          /\ Elements(bound) \subseteq Elements(registered)
          /\ "device" \notin loaded => registered = <<>>
          /\ "driver" \notin loaded => bound = <<>>
      BY <1>5, <2>4, <3>1 DEF BusInv, DevicesWhere
    <3>3. Distinct(registered) ' /\ Distinct(bound)' /\ Distinct(command.todo)'
      BY <1>1, <1>2, <1>3, <1>4, <2>4 DEF Distinct
    <3>4. /\ AtRemove' => Busy' \subseteq Elements(bound)
          /\ d \in Elements(bound) => Busy' = {d}
      BY <1>3, <2>4, <3>1 DEF AtRemove, Busy, Attaching
    <3>5. Elements(bound) \subseteq ToCome' \cup Busy'
      BY <1>2, <1>5, <3>2, <3>4
    <3>6. registered' = registered
      BY <1>4, <2>4
    <3> QED
      BY <1>1, <1>2, <1>3, <1>5, <2>4, <3>1, <3>2, <3>3, <3>4, <3>5, <3>6
         DEF DevicesWhere
  <2> QED
    BY <1>6, <2>1, <2>2, <2>3, <2>4
<1>11. Budget'
  <2>1. /\ made \in Nat /\ Len(command.todo) \in Nat /\ Len(registered) \in Nat
        /\ Len(command.todo) - 1 \in Nat
        /\ Len(Tail(command.todo)) = Len(command.todo) - 1
    BY <1>1, <1>2 DEF BusInv, BusTypes
  <2>2. /\ Len(registered) + Coming(command.op = "register") <= NumDevices
        /\ made + Coming(Attaching) + 0 <= Cap(loads)
    BY <1>5 DEF BusInv, Budget
  <2>3. CASE Attaching
    <3>1. /\ Coming(Attaching) = Len(command.todo)
          /\ Coming(Attaching)' = Len(command.todo) - 1
      BY <1>3, <1>5, <2>1, <2>3 DEF Coming
    <3>2. Due' \in {0, 1}
      BY DEF Due
    <3>3. loads \in Nat
      BY BusAssumption DEF BusInv, BusTypes
    <3>4. Cap(loads) \in Nat
      BY <3>3, Caps
    <3>5. made + (Len(command.todo) - 1) + Due' <= Cap(loads)
      BY <2>1, <2>2, <3>1, <3>2, <3>4
    <3>6. made' + Coming(Attaching)' + Due' <= Cap(loads')
      BY <1>1, <3>1, <3>5
    <3>7. Len(registered') + Coming(command.op = "register")' <= NumDevices
      <4>1. CASE command.op = "register"
        <5>1. /\ Coming(command.op = "register") = Len(command.todo)
              /\ Coming(command.op = "register")' = Len(command.todo) - 1
          BY <1>3, <2>1, <4>1 DEF Coming
        <5>2. Len(registered') = Len(registered) + 1
          BY <1>7, <4>1
        <5> QED
          BY <2>1, <2>2, <5>1, <5>2, BusAssumption
      <4>2. CASE command.op = "attach"
        <5>1. /\ Coming(command.op = "register") = 0
              /\ Coming(command.op = "register")' = 0
          BY <1>3, <4>2 DEF Coming
        <5> QED
          BY <1>4, <2>2, <4>2, <5>1
      <4> QED
        BY <2>3, <4>1, <4>2 DEF Attaching
    <3> QED
      BY <3>6, <3>7 DEF Budget
  <2>4. CASE Detaching
    <3>1. ~ Attaching /\ command.op /= "register"
      BY <2>4 DEF Attaching, Detaching
    <3>2. /\ Coming(Attaching) = 0 /\ Coming(Attaching)' = 0
          /\ Coming(command.op = "register") = 0
          /\ Coming(command.op = "register")' = 0
      BY <1>3, <1>5, <3>1 DEF Coming
    <3>3. Due' = 0
      BY <1>3, <2>4, <3>1 DEF Due, Detaching
    <3>4. Len(registered') <= Len(registered) /\ Len(registered') \in Nat
      <4>1. CASE command.op = "unregister"
        BY <1>7, <2>1, <4>1
      <4>2. CASE command.op = "detach"
        BY <1>4, <2>1, <4>2
      <4> QED
        BY <2>4, <4>1, <4>2 DEF Detaching
    <3>5. Len(registered') + 0 <= NumDevices
      BY <2>1, <2>2, <3>2, <3>4, BusAssumption
    <3> QED
      BY <1>1, <2>2, <3>2, <3>3, <3>5 DEF Budget
  <2> QED
    BY <1>6, <2>3, <2>4 DEF Attaching, Detaching
<1> QED
  BY <1>8, <1>9, <1>10, <1>11 DEF BusInv

LEMMA CommandEndsBus ==
  ASSUME BusInv, CommandEnds
  PROVE  BusInv'
<1>1. /\ command \in CommandOK /\ command.op /= "none" /\ command.at = "next"
      /\ command.todo = <<>> /\ registered \in Seq(Devices) /\ bound \in Seq(Devices)
      /\ UNCHANGED <<registered, bound, loads, made>>
  BY DEF CommandEnds, BusInv, BusTypes, objects
<1>2. /\ command'.op = "none" /\ command'.at = "next" /\ command'.todo = <<>>
      /\ command' \in CommandOK
  BY BusAssumption DEF CommandEnds, Idle, CommandOK, Devices
<1>3. /\ ~ AtProbe' /\ ~ AtRemove' /\ ~ Attaching' /\ ~ Detaching'
      /\ Busy = {} /\ Busy' = {} /\ ToCome = {} /\ ToCome' = {} /\ Due' = 0 /\ Due = 0
  BY <1>1, <1>2, EmptySeqDistinct DEF AtProbe, AtRemove, Attaching, Detaching, Busy,
     ToCome, Due
<1>4. /\ loaded' \subseteq loaded
      /\ "device" \in loaded \ loaded' => command.op = "unregister"
      /\ "driver" \in loaded \ loaded' => command.op = "detach"
  BY DEF CommandEnds
<1>5. /\ command.op = "unregister" => registered = <<>> /\ bound = <<>>
      /\ command.op = "detach" => bound = <<>>
  <2>1. /\ command.op = "unregister" =>
             Elements(registered) \subseteq {} /\ Elements(bound) \subseteq {}
        /\ command.op = "detach" => Elements(bound) \subseteq {}
    BY <1>3 DEF BusInv, DevicesWhere, Detaching
  <2> QED
    BY <1>1, <2>1, ElementsSeq
<1>6. BusTypes'
  BY <1>1, <1>2, <1>4 DEF BusInv, BusTypes
<1>7. CommandWhere'
  BY <1>2, <1>3 DEF CommandWhere
<1>8. DevicesWhere'
  <2>1. Distinct(registered)' /\ Distinct(bound)' /\ Distinct(command.todo)'
    BY <1>1, <1>2, EmptySeqDistinct DEF BusInv, DevicesWhere, Distinct
  <2>2. /\ "device" \notin loaded' => registered = <<>>
        /\ "driver" \notin loaded' => bound = <<>>
    BY <1>4, <1>5 DEF BusInv, DevicesWhere
  <2>3. Elements(bound) \subseteq Elements(registered)
    BY <1>5 DEF BusInv, DevicesWhere
  <2> QED
    BY <1>1, <1>2, <1>3, <2>1, <2>2, <2>3 DEF DevicesWhere
<1>9. Budget'
  <2>1. /\ Coming(Attaching) = 0 /\ Coming(Attaching)' = 0
        /\ Coming(command.op = "register") = 0
        /\ Coming(command.op = "register")' = 0
    BY <1>1, <1>2, EmptySeqDistinct DEF Coming
  <2> QED
    BY <1>1, <1>3, <2>1 DEF BusInv, Budget
<1> QED
  BY <1>6, <1>7, <1>8, <1>9 DEF BusInv

\* The struct of a device that is being removed is in device_list.
LEMMA RemovedListed ==
  ASSUME Inv, fault = "none", At("unlist")
  PROVE  /\ Removed \in Listed /\ Dev(Removed) = command.device
         /\ Removed \in Objects /\ Removed \in linked /\ base < Removed
<1>1. AtRemove /\ ~ Deleted /\ command.at /= "next"
  BY DEF At, AtRemove, Deleted
<1>2. command.device \in Elements(bound)
  BY <1>1 DEF Inv, BusInv, DevicesWhere, Busy
<1>3. \E o \in Listed : Dev(o) = command.device
  BY <1>1, <1>2 DEF Inv, ListInv, OneEach
<1>4. Removed \in Listed /\ Dev(Removed) = command.device
  BY <1>3 DEF Removed, Listed, Dev
<1>5. Listed \subseteq linked /\ \A o \in Listed : base < o
  BY DEF Inv, ListInv, OneEach
<1>6. linked \subseteq Objects
  <2>1. linked \subseteq 1 .. made /\ made \in 0 .. Cap(MaxLoads)
    BY MadeFits DEF Inv, ObjectInv, ObjectTypes
  <2>2. 1 .. made \subseteq 1 .. Cap(MaxLoads)
    <3>1. Cap(MaxLoads) \in Nat
      BY Caps, BusAssumption
    <3> QED
      BY <2>1, <3>1
  <2> QED
    BY <2>1, <2>2, Caps
<1> QED
  BY <1>4, <1>5, <1>6

\* The steps of a probe and a remove that bind nothing and let nothing go.
LEMMA StepBus ==
  ASSUME Inv, fault = "none",
         \/ MakeClass \/ NewDevice \/ AllocBuffer \/ Link \/ InitBuffer
         \/ Unlist \/ Deregister
  PROVE  BusInv'
<1>1. BusInv /\ command \in CommandOK /\ made \in Nat
  BY DEF Inv, BusInv, BusTypes
<1>2. ASSUME MakeClass \/ Link \/ InitBuffer \/ Deregister
      PROVE  BusInv'
  <2>1. /\ UNCHANGED <<loaded, registered, bound, loads, made>>
        /\ \/ At("class") /\ (Goto("alloc") \/ UNCHANGED command)
           \/ At("link") /\ Goto("init")
           \/ At("init") /\ Goto("list")
           \/ At("deregister") /\ Goto("free")
    BY <1>2 DEF MakeClass, Link, InitBuffer, Deregister, objects
  <2>2. CASE UNCHANGED command
    BY <1>1, <2>1, <2>2, BusUntouched DEF bus
  <2>3. ASSUME NEW from, NEW to, At(from), Goto(to),
               <<from, to>> \in {<<"class", "alloc">>, <<"link", "init">>,
                                 <<"init", "list">>, <<"deregister", "free">>}
        PROVE  BusInv'
    <3>1. /\ command' \in CommandOK /\ command.at = from /\ command'.at = to
          /\ command'.op = command.op /\ command'.todo = command.todo
          /\ command'.device = command.device
      BY <1>1, <2>3 DEF At, Goto, CommandOK
    <3>2. (AtProbe /\ AtProbe') \/ (AtRemove /\ AtRemove')
      BY <2>3, <3>1 DEF AtProbe, AtRemove
    <3>3. Due' = Due
      BY <2>3, <3>1 DEF Due
    <3>4. made' \in Nat /\ made' + Due' <= made + Due
      BY <1>1, <2>1, <3>3 DEF Due
    <3> QED
      BY <1>1, <2>1, <3>1, <3>2, <3>4, BusMoves
  <2> QED
    BY <2>1, <2>2, <2>3
<1>3. CASE NewDevice
  <2>1. /\ UNCHANGED <<loaded, registered, bound, loads>> /\ made' = made + 1
        /\ At("alloc")
        /\ \/ command' = [command EXCEPT !.at = "buffer", !.obj = made + 1]
           \/ command' = [command EXCEPT !.at = "next", !.obj = NULL]
    BY <1>3 DEF NewDevice, Unprobed
  <2>2. made + 1 \in Objects /\ command.at = "alloc"
    BY <1>1, <2>1, MadeFits DEF At
  <2>3. /\ command' \in CommandOK /\ command'.at \in {"buffer", "next"}
        /\ command'.op = command.op /\ command'.todo = command.todo
        /\ command'.device = command.device
    BY <1>1, <2>1, <2>2 DEF CommandOK
  <2>4. AtProbe /\ (AtProbe' \/ command'.at = "next")
    BY <2>2, <2>3 DEF AtProbe
  <2>5. Due = 1 /\ Due' = 0
    BY <2>2, <2>3 DEF Due
  <2>6. made' \in Nat /\ made' + Due' <= made + Due
    BY <1>1, <2>1, <2>5
  <2> QED
    BY <1>1, <2>1, <2>3, <2>4, <2>6, BusMoves
<1>4. CASE AllocBuffer
  <2>1. /\ UNCHANGED <<loaded, registered, bound, loads, made>> /\ At("buffer")
        /\ \/ command' = [command EXCEPT !.at = "link"]
           \/ command' = [command EXCEPT !.at = "next", !.obj = NULL]
    BY <1>4 DEF AllocBuffer, Unprobed, Goto
  <2>2. /\ command' \in CommandOK /\ command'.at \in {"link", "next"}
        /\ command'.op = command.op /\ command'.todo = command.todo
        /\ command'.device = command.device /\ command.at = "buffer"
    BY <1>1, <2>1 DEF CommandOK, At
  <2>3. AtProbe /\ (AtProbe' \/ command'.at = "next")
    BY <2>2 DEF AtProbe
  <2>4. Due = 0 /\ Due' = 0
    BY <2>2 DEF Due
  <2>5. made' \in Nat /\ made' + Due' <= made + Due
    BY <1>1, <2>1, <2>4
  <2> QED
    BY <1>1, <2>1, <2>2, <2>3, <2>5, BusMoves
<1>5. CASE Unlist
  <2>1. /\ UNCHANGED <<loaded, registered, bound, loads, made>> /\ At("unlist")
        /\ \/ command' = [command EXCEPT !.at = "deregister", !.obj = Removed]
           \/ UNCHANGED command
    BY <1>5 DEF Unlist, objects
  <2>2. CASE UNCHANGED command
    BY <1>1, <2>1, <2>2, BusUntouched DEF bus
  <2>3. CASE command' = [command EXCEPT !.at = "deregister", !.obj = Removed]
    <3>1. Removed \in Objects
      BY <2>1, RemovedListed
    <3>2. /\ command' \in CommandOK /\ command'.at = "deregister"
          /\ command'.op = command.op /\ command'.todo = command.todo
          /\ command'.device = command.device /\ command.at = "unlist"
      BY <1>1, <2>1, <2>3, <3>1 DEF CommandOK, At
    <3>3. AtRemove /\ AtRemove'
      BY <3>2 DEF AtRemove
    <3>4. Due = 0 /\ Due' = 0
      BY <3>2 DEF Due
    <3>5. made' \in Nat /\ made' + Due' <= made + Due
      BY <1>1, <2>1, <3>4
    <3> QED
      BY <1>1, <2>1, <3>2, <3>3, <3>5, BusMoves
  <2> QED
    BY <2>1, <2>2, <2>3
<1> QED
  BY <1>2, <1>3, <1>4, <1>5

\* A probe or a remove that is done: the driver has the device, or has it no more.
LEMMA DoneBus ==
  ASSUME BusInv, AddDevice \/ Free
  PROVE  BusInv'
<1> DEFINE d == command.device
<1>1. /\ command \in CommandOK /\ d \in Devices /\ bound \in Seq(Devices)
      /\ Distinct(bound) /\ made \in Nat
      /\ UNCHANGED <<loaded, registered, loads, made>>
  BY DEF BusInv, BusTypes, CommandOK, DevicesWhere, AddDevice, Free, objects
<1>2. CASE UNCHANGED <<command, bound>>
  BY <1>1, <1>2, BusUntouched DEF bus
<1>3. CASE command' = [command EXCEPT !.at = "next", !.obj = NULL]
           /\ \/ At("list") /\ bound' = Append(bound, d)
              \/ At("free") /\ bound' = Without(bound, d)
  <2>1. /\ command' \in CommandOK /\ command'.at = "next"
        /\ command'.op = command.op /\ command'.todo = command.todo
    BY <1>1, <1>3 DEF CommandOK
  <2>2. /\ Busy = {d} /\ Busy' = {} /\ ToCome' = ToCome
        /\ Attaching' = Attaching /\ Detaching' = Detaching
        /\ Due = 0 /\ Due' = 0 /\ ~ AtProbe' /\ ~ AtRemove'
    BY <1>3, <2>1 DEF At, Busy, ToCome, Attaching, Detaching, Due, AtProbe, AtRemove
  <2>3. \/ Attaching /\ ~ Detaching /\ At("list") /\ d \notin Elements(bound)
           /\ bound' = Append(bound, d)
        \/ Detaching /\ ~ Attaching /\ At("free") /\ bound' = Without(bound, d)
    <3>1. CASE At("list")
      <4>1. Attaching
        BY <3>1 DEF At, AtProbe, BusInv, CommandWhere
      <4>2. d \notin Elements(bound)
        BY <2>2, <4>1 DEF BusInv, DevicesWhere
      <4> QED
        BY <1>3, <3>1, <4>1, <4>2 DEF At, Attaching, Detaching
    <3>2. CASE At("free")
      <4>1. Detaching
        BY <3>2 DEF At, AtRemove, BusInv, CommandWhere
      <4> QED
        BY <1>3, <3>2, <4>1 DEF At, Attaching, Detaching
    <3> QED
      BY <1>3, <3>1, <3>2
  <2> HIDE DEF d
  <2>10. /\ Append(bound, d) \in Seq(Devices)
         /\ Elements(Append(bound, d)) = Elements(bound) \cup {d}
         /\ d \notin Elements(bound) => Distinct(Append(bound, d))
    BY <1>1, AppendElements
  <2>12. /\ Without(bound, d) \in Seq(Devices) /\ Distinct(Without(bound, d))
         /\ Elements(Without(bound, d)) = Elements(bound) \ {d}
    BY <1>1, WithoutElements
  <2>4. \/ /\ Attaching /\ ~ Detaching /\ Elements(bound') = Elements(bound) \cup {d}
        \/ /\ Detaching /\ ~ Attaching /\ Elements(bound') = Elements(bound) \ {d}
    BY <2>3, <2>10, <2>12
  <2>5. bound' \in Seq(Devices) /\ Distinct(bound')
    BY <2>3, <2>10, <2>12
  <2>6. BusTypes'
    BY <1>1, <2>1, <2>5 DEF BusInv, BusTypes
  <2>7. CommandWhere'
    BY <1>1, <2>1, <2>2 DEF BusInv, CommandWhere
  <2>8. DevicesWhere'
    <3>1. "driver" \in loaded
      BY <2>2 DEF BusInv, CommandWhere, Busy
    <3>2. Distinct(registered)' /\ Distinct(bound)' /\ Distinct(command.todo)'
      BY <1>1, <2>1, <2>5 DEF BusInv, DevicesWhere, Distinct
    <3>3. CASE Attaching /\ ~ Detaching /\ Elements(bound') = Elements(bound) \cup {d}
      <4>1. command.op /= "unregister" /\ command.op \in {"register", "attach"}
        BY <3>3 DEF Attaching
      <4>2. d \in Elements(registered) /\ Elements(bound) \subseteq Elements(registered)
        BY <2>2, <4>1 DEF BusInv, DevicesWhere
      <4>3. Elements(bound') \cap ToCome = {}
        BY <2>2, <3>3 DEF BusInv, DevicesWhere
      <4> QED
        BY <1>1, <2>1, <2>2, <3>1, <3>2, <3>3, <4>2, <4>3 DEF BusInv, DevicesWhere
    <3>4. CASE Detaching /\ ~ Attaching /\ Elements(bound') = Elements(bound) \ {d}
      <4>1. Elements(bound') \subseteq ToCome
        BY <2>2, <3>4 DEF BusInv, DevicesWhere
      <4> QED
        BY <1>1, <2>1, <2>2, <3>1, <3>2, <3>4, <4>1 DEF BusInv, DevicesWhere
    <3> QED
      BY <2>4, <3>3, <3>4
  <2>9. Budget'
    <3>1. /\ Coming(Attaching)' = Coming(Attaching)
          /\ Coming(command.op = "register")' = Coming(command.op = "register")
      BY <2>1, <2>2 DEF Coming
    <3> QED
      BY <1>1, <2>2, <3>1 DEF BusInv, Budget
  <2> QED
    BY <2>6, <2>7, <2>8, <2>9 DEF BusInv
<1> QED
  BY <1>2, <1>3 DEF AddDevice, Free

LEMMA NextBus ==
  ASSUME Inv, Next
  PROVE  BusInv'
<1>1. fault = "none" /\ BusInv
  BY DEF Next, Inv
<1>2. CASE Administrator
  BY <1>1, <1>2, InsmodBus, RmmodBus, NextDeviceBus, CommandEndsBus DEF Administrator
<1>3. CASE Probe \/ Remove
  BY <1>1, <1>3, StepBus, DoneBus DEF Probe, Remove
<1>4. CASE Open \/ Use
  <2>1. UNCHANGED bus
    BY <1>4 DEF Open, OpenBegin, OpenWalk, OpenEnd, Use, Call, Close, Enable, ThreadEnds,
       bus, objects
  <2> QED
    BY <1>1, <2>1, BusUntouched
<1> QED
  BY <1>2, <1>3, <1>4 DEF Next

-----------------------------------------------------------------------------
(* The structs.                                                              *)

structs == <<hcsr_dev, freed, failed, linked, misc, base, made, HEAD>>

LEMMA MadeObjects ==
  ASSUME BusInv
  PROVE  1 .. made \subseteq Objects
<1>1. made \in 0 .. Cap(MaxLoads)
  BY MadeFits
<1>2. Cap(MaxLoads) \in Nat
  BY Caps, BusAssumption
<1> QED
  BY <1>1, <1>2, Caps

LEMMA InitObjects == Init => ObjectInv
<1> SUFFICES ASSUME Init
             PROVE  ObjectInv
  OBVIOUS
<1>1. command.at = "next"
  BY DEF Init, Idle
<1>2. ObjectTypes
  BY BusAssumption DEF Init, ObjectTypes, Devices
<1>3. ListDown
  BY DEF Init, ListDown
<1>4. ObjectWhere
  BY <1>1 DEF ObjectWhere
<1>5. Walk
  BY DEF Init, Walk, NoOpen
<1> QED
  BY <1>2, <1>3, <1>4, <1>5 DEF ObjectInv

\* The command goes on, and the structs stay as they are.
LEMMA CommandObjects ==
  ASSUME ObjectInv, UNCHANGED <<structs, open>>,
         \/ command'.at \in {"next", "class", "alloc", "unlist"}
         \/ /\ command'.at = command.at /\ command'.obj = command.obj
            /\ command'.device = command.device
  PROVE  ObjectInv'
<1>1. ObjectTypes'
  BY DEF structs, ObjectInv, ObjectTypes
<1>2. ListDown'
  BY DEF structs, ObjectInv, ListDown
<1>3. ObjectWhere'
  BY DEF structs, ObjectInv, ObjectWhere
<1>4. Walk'
  BY DEF structs, ObjectInv, Walk
<1> QED
  BY <1>1, <1>2, <1>3, <1>4 DEF ObjectInv

LEMMA AdministratorObjects ==
  ASSUME Inv, Administrator
  PROVE  ObjectInv'
<1>1. ObjectInv
  BY DEF Inv
<1>2. CASE InsmodDevice \/ Rmmod \/ NextDevice \/ CommandEnds
  <2>1. UNCHANGED <<structs, open>>
    BY <1>2 DEF InsmodDevice, Rmmod, NextDevice, CommandEnds, structs, objects, driver,
       kernel, users
  <2>2. command'.at \in {"next", "class", "unlist"}
    <3>1. CASE NextDevice
      <4>1. command \in CommandOK
        BY DEF Inv, BusInv, BusTypes
      <4> QED
        BY <3>1, <4>1 DEF NextDevice, CommandOK
    <3>2. CASE InsmodDevice \/ Rmmod \/ CommandEnds
      <4>1. \A op : Begin(op) => command'.at = "next"
        BY DEF Begin, Idle
      <4>2. CommandEnds => command'.at = "next"
        BY DEF CommandEnds, Idle
      <4> QED
        BY <3>2, <4>1, <4>2 DEF InsmodDevice, Rmmod
    <3> QED
      BY <1>2, <3>1, <3>2
  <2> QED
    BY <1>1, <2>1, <2>2, CommandObjects
<1>3. CASE InsmodDriver
  <2>1. /\ HEAD' = NULL /\ base' = made /\ command'.at = "next"
        /\ UNCHANGED <<hcsr_dev, freed, failed, linked, misc, made, open>>
    BY <1>3 DEF InsmodDriver, Begin, Idle, objects, kernel, users
  <2>2. made \in Nat /\ linked \subseteq 1 .. made
    BY DEF Inv, BusInv, BusTypes, ObjectInv, ObjectTypes
  <2>3. ObjectTypes'
    BY <1>1, <2>1, <2>2 DEF ObjectInv, ObjectTypes
  <2>4. ListDown'
    <3>1. \A y \in linked : ~ (base' < y)
      BY <2>1, <2>2
    <3> QED
      BY <1>1, <2>1, <3>1 DEF ObjectInv, ListDown
  <2>5. ObjectWhere'
    BY <2>1 DEF ObjectWhere
  <2>6. Walk'
    BY <1>1, <2>1 DEF ObjectInv, Walk
  <2> QED
    BY <2>3, <2>4, <2>5, <2>6 DEF ObjectInv
<1> QED
  BY <1>2, <1>3 DEF Administrator

LEMMA NewDeviceObjects ==
  ASSUME Inv, NewDevice
  PROVE  ObjectInv'
<1> DEFINE n == made + 1
<1>1. /\ made' = n /\ made \in Nat /\ command.at = "alloc" /\ command \in CommandOK
      /\ hcsr_dev' = [hcsr_dev EXCEPT ![n] =
           [device |-> command.device, next |-> NULL, ready |-> FALSE]]
      /\ \/ /\ misc' = misc \cup {n} /\ failed' = failed
            /\ command' = [command EXCEPT !.at = "buffer", !.obj = n]
         \/ /\ failed' = failed \cup {n} /\ misc' = misc
            /\ command' = [command EXCEPT !.at = "next", !.obj = NULL]
      /\ UNCHANGED <<freed, linked, HEAD, base, open>>
      /\ open.asked = NULL
  BY DEF NewDevice, Unprobed, At, driver, users, Inv, BusInv, BusTypes
<1>2. n \in Objects
  BY <1>1, MadeFits DEF Inv
<1>3. /\ freed \subseteq 1 .. made /\ failed \subseteq 1 .. made
      /\ linked \subseteq 1 .. made /\ misc \subseteq 1 .. made /\ base \in 0 .. made
  BY DEF Inv, ObjectInv, ObjectTypes
<1>4. n \notin linked /\ base < n /\ n \in 1 .. n /\ 1 .. made \subseteq 1 .. n
      /\ base \in 0 .. n
  BY <1>1, <1>3
<1>5. /\ command.device \in Devices
      /\ \/ command'.at = "next"
         \/ /\ command'.at = "buffer" /\ command'.obj = n
            /\ command'.device = command.device
  BY <1>1 DEF CommandOK
<1>6. hcsr_dev \in [Objects -> [device : Devices, next : Objects \cup {NULL},
                                ready : BOOLEAN]]
  BY DEF Inv, ObjectInv, ObjectTypes
<1> HIDE DEF n
<1>7. /\ hcsr_dev' \in [Objects -> [device : Devices, next : Objects \cup {NULL},
                                    ready : BOOLEAN]]
      /\ hcsr_dev'[n].next = NULL /\ hcsr_dev'[n].device = command.device
      /\ \A x \in Objects : x /= n => hcsr_dev'[x] = hcsr_dev[x]
  BY <1>1, <1>2, <1>5, <1>6
<1>8. ObjectTypes'
  BY <1>1, <1>3, <1>4, <1>7 DEF ObjectTypes
<1>9. ListDown'
  <2>1. linked \subseteq Objects
    BY <1>3, MadeObjects DEF Inv
  <2>2. \A x \in linked : hcsr_dev'[x] = hcsr_dev[x]
    BY <1>4, <1>7, <2>1
  <2>3. \A x \in Objects : hcsr_dev'[x].next \in linked \cup {NULL}
    BY <1>7 DEF Inv, ObjectInv, ListDown
  <2> QED
    BY <1>1, <2>2, <2>3 DEF Inv, ObjectInv, ListDown
<1>10. ObjectWhere'
  BY <1>1, <1>4, <1>5, <1>7 DEF ObjectWhere
<1>11. Walk'
  BY <1>1 DEF Inv, ObjectInv, Walk
<1> QED
  BY <1>8, <1>9, <1>10, <1>11 DEF ObjectInv

LEMMA LinkObjects ==
  ASSUME Inv, Link
  PROVE  ObjectInv'
<1> DEFINE c == command.obj
<1>1. /\ hcsr_dev' = [hcsr_dev EXCEPT ![c].next = HEAD]
      /\ HEAD' = c /\ linked' = linked \cup {c}
      /\ command' = [command EXCEPT !.at = "init"]
      /\ command.at = "link" /\ command \in CommandOK
      /\ UNCHANGED <<freed, made, failed, misc, base, open>>
  BY DEF Link, Goto, At, kernel, users, Inv, BusInv, BusTypes
<1>2. /\ c = made /\ base < c /\ c \notin linked
      /\ hcsr_dev[c].device = command.device
      /\ made \in Nat /\ base \in 0 .. made /\ linked \subseteq 1 .. made
      /\ hcsr_dev \in [Objects -> [device : Devices, next : Objects \cup {NULL},
                                   ready : BOOLEAN]]
  BY <1>1 DEF Inv, BusInv, BusTypes, ObjectInv, ObjectWhere, ObjectTypes
<1>3. /\ command'.at = "init" /\ command'.obj = c /\ command'.device = command.device
  BY <1>1 DEF CommandOK
<1> HIDE DEF c
<1>4. c \in 1 .. made /\ c /= NULL /\ \A y \in linked : y < c
  BY <1>2 DEF NULL
<1>5. c \in Objects /\ linked \subseteq Objects
  BY <1>2, <1>4, MadeObjects DEF Inv
<1>6. HEAD \in linked \cup {NULL}
  BY DEF Inv, ObjectInv, ListDown
<1>7. /\ hcsr_dev' \in [Objects -> [device : Devices, next : Objects \cup {NULL},
                                    ready : BOOLEAN]]
      /\ hcsr_dev'[c].next = HEAD /\ hcsr_dev'[c].device = command.device
      /\ \A x \in Objects : x /= c => hcsr_dev'[x] = hcsr_dev[x]
  BY <1>1, <1>2, <1>5, <1>6
<1>8. ObjectTypes'
  BY <1>1, <1>2, <1>4, <1>7 DEF Inv, ObjectInv, ObjectTypes
<1>9. ListDown'
  <2>1. \A x \in Objects : hcsr_dev'[x].next \in linked \cup {NULL}
    BY <1>6, <1>7 DEF Inv, ObjectInv, ListDown
  <2>2. /\ \A y \in linked : base < y => y <= HEAD
        /\ \A x, y \in linked : base < y /\ y < x => y <= hcsr_dev[x].next
    BY DEF Inv, ObjectInv, ListDown
  <2>3. ASSUME NEW x \in linked', NEW y \in linked', base < y, y < x
        PROVE  y <= hcsr_dev'[x].next
    <3>1. y \in linked
      BY <1>1, <1>2, <1>4, <2>3
    <3>2. CASE x = c
      BY <1>7, <2>2, <2>3, <3>1, <3>2
    <3>3. CASE x /= c
      <4>1. x \in linked /\ hcsr_dev'[x] = hcsr_dev[x]
        BY <1>1, <1>5, <1>7, <3>3
      <4> QED
        BY <2>2, <2>3, <3>1, <4>1
    <3> QED
      BY <3>2, <3>3
  <2>4. \A y \in linked' : y <= c
    BY <1>1, <1>2, <1>4
  <2> QED
    BY <1>1, <2>1, <2>3, <2>4 DEF ListDown
<1>10. ObjectWhere'
  BY <1>1, <1>2, <1>3, <1>7 DEF ObjectWhere
<1>11. Walk'
  BY <1>1 DEF Inv, ObjectInv, Walk
<1> QED
  BY <1>8, <1>9, <1>10, <1>11 DEF ObjectInv

\* The other steps of a probe.
LEMMA ProbeObjects ==
  ASSUME Inv, fault = "none", MakeClass \/ AllocBuffer \/ InitBuffer \/ AddDevice
  PROVE  ObjectInv'
<1>1. ObjectInv /\ command \in CommandOK /\ BusInv
  BY DEF Inv, BusInv, BusTypes
<1>2. CASE MakeClass
  <2>1. UNCHANGED <<structs, open>> /\ (UNCHANGED command \/ Goto("alloc"))
    BY <1>2 DEF MakeClass, structs, objects, users
  <2>2. command'.at = "alloc" \/ UNCHANGED command
    BY <1>1, <2>1 DEF Goto, CommandOK
  <2> QED
    BY <1>1, <2>1, <2>2, CommandObjects
<1>3. CASE AddDevice
  <2>1. /\ UNCHANGED <<structs, open>>
        /\ UNCHANGED command \/ command' = [command EXCEPT !.at = "next", !.obj = NULL]
    BY <1>3 DEF AddDevice, structs, objects, users
  <2>2. command'.at = "next" \/ UNCHANGED command
    BY <1>1, <2>1 DEF CommandOK
  <2> QED
    BY <1>1, <2>1, <2>2, CommandObjects
<1>4. CASE AllocBuffer
  <2>1. /\ UNCHANGED <<hcsr_dev, freed, linked, misc, base, made, HEAD, open>>
        /\ command.at = "buffer"
        /\ \/ failed' = failed /\ Goto("link")
           \/ failed' = failed \cup {command.obj} /\ Unprobed
    BY <1>4 DEF AllocBuffer, At, driver, kernel, users
  <2>2. /\ command.obj = made /\ base < command.obj /\ command.obj \notin linked
        /\ hcsr_dev[command.obj].device = command.device
        /\ made \in Nat /\ base \in 0 .. made
    BY <1>1, <2>1 DEF BusInv, BusTypes, ObjectInv, ObjectWhere, ObjectTypes
  <2>3. /\ command'.obj = command.obj /\ command'.device = command.device
           /\ command'.at = "link"
        \/ command'.at = "next"
    BY <1>1, <2>1 DEF Goto, Unprobed, CommandOK
  <2>4. made \in 1 .. made
    BY <2>2
  <2>5. ObjectTypes'
    BY <1>1, <2>1, <2>2, <2>4 DEF ObjectInv, ObjectTypes
  <2>6. ObjectWhere'
    BY <2>1, <2>2, <2>3 DEF ObjectWhere
  <2>7. ListDown' /\ Walk'
    BY <1>1, <2>1 DEF ObjectInv, ListDown, Walk
  <2> QED
    BY <2>5, <2>6, <2>7 DEF ObjectInv
<1>5. CASE InitBuffer
  <2> DEFINE c == command.obj
  <2>1. /\ hcsr_dev' = [hcsr_dev EXCEPT ![c].ready = TRUE]
        /\ command.at = "init" /\ Goto("list")
        /\ UNCHANGED <<freed, failed, linked, misc, base, made, HEAD, open>>
    BY <1>5 DEF InitBuffer, At, driver, kernel, users
  <2>2. /\ command'.at = "list" /\ command'.obj = c
        /\ command'.device = command.device
    BY <1>1, <2>1 DEF Goto, CommandOK
  <2>3. /\ c = made /\ base < c /\ c \in linked /\ hcsr_dev[c].device = command.device
        /\ linked \subseteq 1 .. made
        /\ hcsr_dev \in [Objects -> [device : Devices, next : Objects \cup {NULL},
                                     ready : BOOLEAN]]
    BY <1>1, <2>1 DEF ObjectInv, ObjectWhere, ObjectTypes
  <2>4. c \in Objects /\ linked \subseteq Objects
    BY <1>1, <2>3, MadeObjects
  <2> HIDE DEF c
  <2>5. /\ hcsr_dev' \in [Objects -> [device : Devices, next : Objects \cup {NULL},
                                      ready : BOOLEAN]]
        /\ \A x \in Objects : /\ hcsr_dev'[x].next = hcsr_dev[x].next
                              /\ hcsr_dev'[x].device = hcsr_dev[x].device
    BY <2>1, <2>3, <2>4
  <2>6. ObjectTypes'
    BY <1>1, <2>1, <2>5 DEF ObjectInv, ObjectTypes
  <2>7. ListDown'
    <3>1. \A x \in linked : hcsr_dev'[x].next = hcsr_dev[x].next
      BY <2>4, <2>5
    <3> QED
      BY <1>1, <2>1, <2>5, <3>1 DEF ObjectInv, ListDown
  <2>8. ObjectWhere'
    BY <2>1, <2>2, <2>3, <2>4, <2>5 DEF ObjectWhere
  <2>9. Walk'
    BY <1>1, <2>1 DEF ObjectInv, Walk
  <2> QED
    BY <2>6, <2>7, <2>8, <2>9 DEF ObjectInv
<1> QED
  BY <1>2, <1>3, <1>4, <1>5

LEMMA RemoveObjects ==
  ASSUME Inv, fault = "none", Remove
  PROVE  ObjectInv'
<1>1. ObjectInv /\ command \in CommandOK /\ BusInv
  BY DEF Inv, BusInv, BusTypes
<1>2. CASE Unlist
  <2>1. /\ UNCHANGED <<structs, open>>
        /\ \/ UNCHANGED command
           \/ /\ At("unlist")
              /\ command' = [command EXCEPT !.at = "deregister", !.obj = Removed]
    BY <1>2 DEF Unlist, structs, objects, users
  <2>2. CASE UNCHANGED command
    BY <1>1, <2>1, <2>2, CommandObjects
  <2>3. CASE /\ At("unlist")
             /\ command' = [command EXCEPT !.at = "deregister", !.obj = Removed]
    <3>1. Removed \in linked /\ base < Removed
      BY <2>3, RemovedListed
    <3>2. command'.at = "deregister" /\ command'.obj = Removed
      BY <1>1, <2>3 DEF CommandOK
    <3>3. ObjectTypes' /\ ListDown' /\ Walk'
      BY <1>1, <2>1 DEF ObjectInv, structs, ObjectTypes, ListDown, Walk
    <3>4. ObjectWhere'
      BY <2>1, <3>1, <3>2 DEF ObjectWhere, structs
    <3> QED
      BY <3>3, <3>4 DEF ObjectInv
  <2> QED
    BY <2>1, <2>2, <2>3
<1>3. CASE Deregister
  <2>1. /\ misc' = misc \ {command.obj} /\ command.at = "deregister" /\ Goto("free")
        /\ UNCHANGED <<hcsr_dev, freed, failed, linked, base, made, HEAD, open>>
    BY <1>3 DEF Deregister, At, objects, driver, users
  <2>2. command'.at = "free" /\ command'.obj = command.obj
    BY <1>1, <2>1 DEF Goto, CommandOK
  <2>3. ObjectTypes' /\ ListDown' /\ Walk'
    BY <1>1, <2>1 DEF ObjectInv, ObjectTypes, ListDown, Walk
  <2>4. ObjectWhere'
    BY <1>1, <2>1, <2>2 DEF ObjectInv, ObjectWhere
  <2> QED
    BY <2>3, <2>4 DEF ObjectInv
<1>4. CASE Free
  <2>1. /\ freed' = freed \cup {command.obj} /\ command.at = "free"
        /\ command' = [command EXCEPT !.at = "next", !.obj = NULL]
        /\ UNCHANGED <<hcsr_dev, misc, failed, linked, base, made, HEAD, open>>
    BY <1>4 DEF Free, At, driver, kernel, users
  <2>2. command'.at = "next" /\ command.obj \in linked
    BY <1>1, <2>1 DEF CommandOK, ObjectInv, ObjectWhere
  <2>3. ObjectTypes' /\ ListDown' /\ Walk'
    BY <1>1, <2>1, <2>2 DEF ObjectInv, ObjectTypes, ListDown, Walk
  <2>4. ObjectWhere'
    BY <2>2 DEF ObjectWhere
  <2> QED
    BY <2>3, <2>4 DEF ObjectInv
<1> QED
  BY <1>2, <1>3, <1>4 DEF Remove

\* A linked device that is registered is of the driver that is there.
LEMMA MiscOfDriver ==
  ASSUME Inv, fault = "none", NEW o \in misc \cap linked
  PROVE  base < o /\ "driver" \in loaded
<1>1. o \in Listed \/ o \in Current({"init", "list", "deregister"})
  BY DEF Inv, ListInv, Accounted
<1>2. CASE o \in Listed
  <2>1. base < o /\ Dev(o) \in Elements(bound)
    BY <1>2 DEF Inv, ListInv, OneEach
  <2>2. bound /= <<>>
    BY <2>1, EmptySeqDistinct
  <2> QED
    BY <2>1, <2>2 DEF Inv, BusInv, DevicesWhere
<1>3. CASE o \in Current({"init", "list", "deregister"})
  <2>1. command.at \in {"init", "list", "deregister"} /\ o = command.obj
    BY <1>3 DEF Current
  <2>2. base < o
    BY <2>1 DEF Inv, ObjectInv, ObjectWhere
  <2>3. "driver" \in loaded
    BY <2>1 DEF Inv, BusInv, CommandWhere
  <2> QED
    BY <2>2, <2>3
<1> QED
  BY <1>1, <1>2, <1>3

LEMMA OpenObjects ==
  ASSUME Inv, fault = "none", Open
  PROVE  ObjectInv'
<1>1. /\ BusInv /\ ObjectTypes /\ ListDown /\ ObjectWhere /\ Walk
      /\ linked \subseteq 1 .. made /\ misc \subseteq 1 .. made /\ base \in 0 .. made
      /\ 1 .. made \subseteq Objects
  BY MadeObjects DEF Inv, ObjectInv, ObjectTypes
<1>2. UNCHANGED <<structs, command>>
  BY DEF Open, OpenBegin, OpenWalk, OpenEnd, structs, objects, driver, kernel
<1>3. ObjectTypes' /\ ListDown' /\ ObjectWhere'
  BY <1>1, <1>2 DEF structs, ObjectTypes, ListDown, ObjectWhere
<1>4. ASSUME NEW o \in misc, OpenBegin(o)
      PROVE  Walk'
  <2>1. open' = [asked |-> o, temp |-> HEAD, linked |-> o \in linked]
    BY <1>4 DEF OpenBegin
  <2>2. o \in Objects /\ HEAD \in linked \cup {NULL} /\ linked' = linked
    BY <1>1, <1>2 DEF ListDown, structs
  <2>3. ASSUME o \in linked
        PROVE  HEAD \in linked /\ o <= HEAD
    <3>1. o <= HEAD
      BY <1>1, <2>3, MiscOfDriver DEF ListDown
    <3>2. o \in 1 .. made
      BY <1>1
    <3>3. HEAD /= NULL
      BY <3>1, <3>2 DEF NULL
    <3> QED
      BY <2>2, <3>1, <3>3
  <2>4. CASE o \in linked
    <3>1. open' = [asked |-> o, temp |-> HEAD, linked |-> TRUE]
      BY <2>1, <2>4
    <3> QED
      BY <2>2, <2>3, <2>4, <3>1 DEF Walk
  <2>5. CASE o \notin linked
    <3>1. (o \in linked) = FALSE
      BY <2>5
    <3>2. open' = [asked |-> o, temp |-> HEAD, linked |-> FALSE]
      BY <2>1, <3>1, Zenon
    <3> QED
      BY <2>2, <3>2 DEF Walk
  <2> QED
    BY <2>4, <2>5
<1>5. ASSUME OpenWalk
      PROVE  Walk'
  <2>1. CASE UNCHANGED open
    BY <1>1, <1>2, <2>1 DEF Walk, structs
  <2>2. CASE /\ fault' = "none"
             /\ open' = [open EXCEPT !.temp = hcsr_dev[@].next]
    <3>1. /\ open.asked /= NULL /\ open.temp \notin {NULL, open.asked}
          /\ fault' \in {"freed", Fault(open.asked)}
      BY <1>5 DEF OpenWalk
    <3>2. /\ open.asked \in Objects \cup {NULL} /\ open.temp \in linked
          /\ open.linked \in BOOLEAN
          /\ open.linked => open.asked \in linked /\ open.asked <= open.temp
      BY <1>1, <3>1 DEF Walk
    <3>3. /\ open'.asked = open.asked /\ open'.linked = open.linked
          /\ open'.temp = hcsr_dev[open.temp].next
          /\ open' \in [asked : Objects \cup {NULL}, temp : linked \cup {NULL},
                        linked : BOOLEAN]
      <4>1. hcsr_dev[open.temp].next \in linked \cup {NULL}
        BY <1>1, <3>2 DEF ListDown
      <4> QED
        BY <1>1, <2>2, <4>1 DEF Walk
    <3>4. ASSUME open.linked
          PROVE  open'.temp \in linked /\ open.asked <= open'.temp
      <4>1. ~ Gone(open.asked)
        BY <2>2, <3>1 DEF Fault
      <4>2. open.asked \in 1 .. made /\ open.temp \in 1 .. made /\ made \in Nat
            /\ open.temp /= open.asked /\ open.asked <= open.temp
        BY <1>1, <3>1, <3>2, <3>4 DEF BusInv, BusTypes
      <4>3. base < open.asked /\ open.asked < open.temp
        <5>1. ~ (open.asked <= base)
          BY <4>1 DEF Gone
        <5> QED
          BY <1>1, <4>2, <5>1
      <4>4. open.asked <= open'.temp
        BY <1>1, <3>2, <3>3, <3>4, <4>3 DEF ListDown
      <4>5. open'.temp /= NULL
        BY <4>2, <4>4 DEF NULL
      <4> QED
        BY <3>3, <4>4, <4>5
    <3> QED
      BY <1>2, <3>2, <3>3, <3>4 DEF Walk, structs
  <2> QED
    BY <1>5, <2>1, <2>2 DEF OpenWalk
<1>6. ASSUME OpenEnd
      PROVE  Walk'
  <2>1. open' = open \/ open' = NoOpen
    BY <1>6 DEF OpenEnd
  <2>2. CASE open' = open
    BY <1>1, <1>2, <2>2 DEF Walk, structs
  <2>3. CASE open' = NoOpen
    BY <2>3 DEF Walk, NoOpen
  <2> QED
    BY <2>1, <2>2, <2>3
<1> QED
  BY <1>3, <1>4, <1>5, <1>6 DEF Open, ObjectInv

LEMMA NextObjects ==
  ASSUME Inv, Next
  PROVE  ObjectInv'
<1>1. fault = "none" /\ ObjectInv
  BY DEF Next, Inv
<1>2. CASE Use
  <2>1. UNCHANGED <<structs, open, command>>
    BY <1>2 DEF Use, Call, Close, Enable, ThreadEnds, structs, objects, driver, kernel
  <2> QED
    BY <1>1, <2>1, CommandObjects
<1> QED
  BY <1>1, <1>2, AdministratorObjects, NewDeviceObjects, LinkObjects, ProbeObjects,
     RemoveObjects, OpenObjects DEF Next, Probe

-----------------------------------------------------------------------------
(* device_list, the miscdevices and the class.                               *)

lists == <<device_list, class, bound, linked, base, misc, failed, freed, made, hcsr_dev>>

Lists == OneEach /\ Accounted

LEMMA InitLists == Init => ListInv
<1> SUFFICES ASSUME Init
             PROVE  ListInv
  OBVIOUS
<1>1. command.at = "next"
  BY DEF Init, Idle
<1>2. ListTypes
  <2>1. device_list \in Seq(1 .. made) /\ class \in Seq(1 .. made)
    BY DEF Init
  <2>2. gko_device \in [Devices -> Objects \cup {NULL}]
    BY DEF Init
  <2>3. fault \in {"none", "oops", "freed", "unready"} /\ events = {}
    BY DEF Init
  <2> QED
    BY <2>1, <2>2, <2>3 DEF Init, ListTypes
<1>3. Listed = {} /\ ~ Deleted /\ \A labels : "next" \notin labels => Current(labels) = {}
  BY <1>1, EmptySeqDistinct DEF Init, Listed, Deleted, Current
<1>4. OneEach
  BY <1>3, EmptySeqDistinct DEF Init, OneEach
<1>5. Accounted
  BY <1>3, EmptySeqDistinct DEF Init, Accounted
<1> QED
  BY <1>2, <1>4, <1>5 DEF ListInv

\* Where the command has no struct in hand.
NoStruct == command.at \in {"next", "class", "alloc", "unlist"}

LEMMA NoCurrent ==
  ASSUME NoStruct
  PROVE  /\ ~ Deleted
         /\ Current({"init", "list", "deregister", "free"}) = {}
         /\ Current({"init", "list", "deregister"}) = {}
         /\ Current({"buffer", "link", "init", "list", "deregister"}) = {}
         /\ Current({"buffer", "link", "init", "list", "deregister", "free"}) = {}
  BY DEF NoStruct, Deleted, Current

LEMMA QuietLists ==
  ASSUME Lists, UNCHANGED lists,
         (NoStruct /\ NoStruct') \/ UNCHANGED command
  PROVE  Lists'
<1>1. /\ Listed' = Listed /\ \A o : Dev(o)' = Dev(o)
      /\ UNCHANGED <<bound, linked, base, misc, failed, freed, made, class>>
  BY DEF lists, Listed, Dev
<1>2. CASE NoStruct /\ NoStruct'
  <2>1. /\ ~ Deleted'
        /\ Current({"init", "list", "deregister", "free"})' = {}
        /\ Current({"init", "list", "deregister"})' = {}
        /\ Current({"buffer", "link", "init", "list", "deregister"})' = {}
        /\ Current({"buffer", "link", "init", "list", "deregister", "free"})' = {}
    BY <1>2 DEF NoStruct, Deleted, Current
  <2>2. OneEach'
    BY <1>1, <1>2, <2>1, NoCurrent DEF Lists, OneEach, lists, Distinct
  <2>3. Accounted'
    BY <1>1, <1>2, <2>1, NoCurrent DEF Lists, Accounted
  <2> QED
    BY <2>2, <2>3 DEF Lists
<1>3. CASE UNCHANGED command
  <2>1. Deleted' = Deleted /\ \A labels : Current(labels)' = Current(labels)
    BY <1>3 DEF Deleted, Current
  <2>2. OneEach'
    BY <1>1, <1>3, <2>1 DEF Lists, OneEach, lists, Distinct
  <2>3. Accounted'
    BY <1>1, <2>1 DEF Lists, Accounted
  <2> QED
    BY <2>2, <2>3 DEF Lists
<1> QED
  BY <1>2, <1>3

LEMMA QuietSteps ==
  ASSUME Inv, fault = "none", fault' = "none",
         \/ InsmodDevice \/ Rmmod \/ NextDevice \/ CommandEnds \/ MakeClass
         \/ Open \/ Use
  PROVE  Lists'
<1>1. Lists /\ command \in CommandOK /\ BusInv
  BY DEF Inv, ListInv, Lists, BusInv, BusTypes
<1>2. CASE Open \/ Use
  <2>1. UNCHANGED lists /\ UNCHANGED command
    BY <1>2 DEF Open, OpenBegin, OpenWalk, OpenEnd, Use, Call, Close, Enable, ThreadEnds,
       lists, objects, driver, kernel
  <2> QED
    BY <1>1, <2>1, QuietLists
<1>3. CASE MakeClass
  <2>1. UNCHANGED lists /\ command.at = "class" /\ Goto("alloc")
    BY <1>3 DEF MakeClass, At, lists, objects
  <2>2. NoStruct /\ NoStruct'
    BY <1>1, <2>1 DEF NoStruct, Goto, CommandOK
  <2> QED
    BY <1>1, <2>1, <2>2, QuietLists
<1>4. CASE InsmodDevice \/ Rmmod \/ NextDevice \/ CommandEnds
  <2>1. UNCHANGED lists
    BY <1>4 DEF InsmodDevice, Rmmod, NextDevice, CommandEnds, lists, objects, driver,
       kernel
  <2>2. command.at = "next"
    <3>1. CASE InsmodDevice \/ Rmmod
      <4>1. \E op \in {"register", "unregister", "detach"} : Begin(op)
        BY <3>1 DEF InsmodDevice, Rmmod
      <4> QED
        BY <1>1, <4>1, Begins
    <3>2. CASE NextDevice \/ CommandEnds
      BY <3>2 DEF NextDevice, CommandEnds
    <3> QED
      BY <1>4, <3>1, <3>2
  <2>3. command'.at \in {"next", "class", "unlist"}
    <3>1. CASE InsmodDevice \/ Rmmod \/ CommandEnds
      <4>1. \A op : Begin(op) => command'.at = "next"
        BY DEF Begin, Idle
      <4>2. CommandEnds => command'.at = "next"
        BY DEF CommandEnds, Idle
      <4> QED
        BY <3>1, <4>1, <4>2 DEF InsmodDevice, Rmmod
    <3>2. CASE NextDevice
      BY <1>1, <3>2 DEF NextDevice, CommandOK
    <3> QED
      BY <1>4, <3>1, <3>2
  <2> QED
    BY <1>1, <2>1, <2>2, <2>3, QuietLists DEF NoStruct
<1> QED
  BY <1>2, <1>3, <1>4

LEMMA InsmodDriverLists ==
  ASSUME Inv, fault = "none", InsmodDriver
  PROVE  Lists'
<1>1. /\ device_list' = <<>> /\ base' = made /\ "driver" \notin loaded
      /\ UNCHANGED <<class, bound, linked, misc, failed, freed, made, hcsr_dev>>
  BY DEF InsmodDriver, objects, kernel
<1>2. /\ OneEach /\ Accounted /\ BusInv
      /\ command.at = "next" /\ command'.at = "next"
  <2>1. Begin("attach") /\ BusInv
    BY DEF InsmodDriver, Inv
  <2>2. command.at = "next" /\ command'.at = "next"
    BY <2>1, Begins
  <2> QED
    BY <2>2 DEF Inv, ListInv
<1>3. bound = <<>>
  BY <1>1, <1>2 DEF BusInv, DevicesWhere
<1>4. NoStruct
  BY <1>2 DEF NoStruct
<1>5. Listed = {}
  BY <1>2, <1>3, EmptySeqDistinct DEF OneEach
<1>6. Listed' = {} /\ Distinct(device_list')
  BY <1>1, EmptySeqDistinct DEF Listed
<1>7. /\ ~ Deleted'
      /\ Current({"init", "list", "deregister", "free"})' = {}
      /\ Current({"init", "list", "deregister"})' = {}
      /\ Current({"buffer", "link", "init", "list", "deregister"})' = {}
      /\ Current({"buffer", "link", "init", "list", "deregister", "free"})' = {}
  BY <1>2 DEF Deleted, Current
<1>8. Elements(bound') = {}
  BY <1>1, <1>3, EmptySeqDistinct
<1>9. OneEach'
  BY <1>6, <1>7, <1>8 DEF OneEach, Distinct
<1>10. Accounted'
  BY <1>1, <1>2, <1>4, <1>5, <1>6, <1>7, NoCurrent DEF Accounted
<1> QED
  BY <1>9, <1>10 DEF Lists

LEMMA NewDeviceLists ==
  ASSUME Inv, fault = "none", NewDevice
  PROVE  Lists'
<1> DEFINE n == made + 1
<1>1. /\ made' = n /\ made \in Nat /\ command.at = "alloc" /\ command \in CommandOK
      /\ hcsr_dev' = [hcsr_dev EXCEPT ![n] =
           [device |-> command.device, next |-> NULL, ready |-> FALSE]]
      /\ \/ /\ misc' = misc \cup {n} /\ failed' = failed
            /\ command' = [command EXCEPT !.at = "buffer", !.obj = n]
         \/ /\ failed' = failed \cup {n} /\ misc' = misc
            /\ command' = [command EXCEPT !.at = "next", !.obj = NULL]
      /\ UNCHANGED <<device_list, class, bound, freed, linked, base>>
  BY DEF NewDevice, Unprobed, At, driver, users, Inv, BusInv, BusTypes
<1>2. /\ linked \subseteq 1 .. made
      /\ hcsr_dev \in [Objects -> [device : Devices, next : Objects \cup {NULL},
                                   ready : BOOLEAN]]
      /\ OneEach /\ Accounted /\ BusInv
  BY DEF Inv, ObjectInv, ObjectTypes, ListInv
<1>3. n \notin linked /\ 1 .. n = (1 .. made) \cup {n}
  BY <1>1, <1>2
<1>4. \/ /\ misc' = misc \cup {n} /\ failed' = failed
         /\ command'.at = "buffer" /\ command'.obj = n
      \/ /\ failed' = failed \cup {n} /\ misc' = misc /\ command'.at = "next"
  BY <1>1 DEF CommandOK
<1> HIDE DEF n
<1>5. Listed' = Listed /\ Listed \subseteq linked
  BY <1>1, <1>2 DEF Listed, OneEach
<1>6. \A o \in Listed : Dev(o)' = Dev(o)
  <2>1. Listed \subseteq Objects /\ n \notin Listed
    BY <1>2, <1>3, <1>5, MadeObjects
  <2> QED
    BY <1>1, <1>2, <2>1 DEF Dev
<1>7. ~ Deleted /\ ~ Deleted'
  BY <1>1, <1>4 DEF Deleted
<1>8. NoStruct
  BY <1>1 DEF NoStruct
<1>9. /\ Current({"init", "list", "deregister", "free"})' = {}
      /\ Current({"init", "list", "deregister"})' = {}
      /\ command'.at = "buffer" =>
           /\ Current({"buffer", "link", "init", "list", "deregister"})' = {n}
           /\ Current({"buffer", "link", "init", "list", "deregister", "free"})' = {n}
  BY <1>4 DEF Current
<1>10. OneEach'
  BY <1>1, <1>2, <1>5, <1>6, <1>7, <1>9 DEF OneEach, Distinct
<1>11. Accounted'
  <2>1. /\ misc \cap linked \subseteq Listed
        /\ misc \subseteq failed \cup Listed
        /\ 1 .. made \subseteq freed \cup failed \cup Listed
        /\ Len(class) = Len(bound) - IF Deleted THEN 1 ELSE 0
    BY <1>2, <1>8, NoCurrent DEF Accounted
  <2>2. misc' \cap linked' \subseteq Listed'
    BY <1>1, <1>3, <1>5, <2>1
  <2>3. /\ misc' \subseteq failed' \cup Listed'
                  \cup Current({"buffer", "link", "init", "list", "deregister"})'
        /\ 1 .. made' \subseteq freed' \cup failed' \cup Listed'
             \cup Current({"buffer", "link", "init", "list", "deregister", "free"})'
    BY <1>1, <1>3, <1>4, <1>5, <1>9, <2>1
  <2>4. Len(class') = Len(bound') - IF Deleted' THEN 1 ELSE 0
    BY <1>1, <1>7, <2>1
  <2> QED
    BY <2>2, <2>3, <2>4 DEF Accounted
<1> QED
  BY <1>10, <1>11 DEF Lists

\* The steps of a probe on a struct that is registered.
LEMMA ProbeLists ==
  ASSUME Inv, fault = "none", AllocBuffer \/ Link \/ InitBuffer
  PROVE  Lists'
<1> DEFINE c == command.obj
<1>1. /\ command \in CommandOK /\ BusInv /\ OneEach /\ Accounted
      /\ linked \subseteq 1 .. made /\ 1 .. made \subseteq Objects
      /\ hcsr_dev \in [Objects -> [device : Devices, next : Objects \cup {NULL},
                                   ready : BOOLEAN]]
  BY MadeObjects DEF Inv, BusInv, BusTypes, ObjectInv, ObjectTypes, ListInv
<1>2. /\ UNCHANGED <<device_list, class, bound, base, misc, freed, made>>
      /\ \/ /\ command.at = "buffer" /\ UNCHANGED <<hcsr_dev, linked>>
            /\ \/ Goto("link") /\ failed' = failed
               \/ Unprobed /\ failed' = failed \cup {c}
         \/ /\ command.at = "link" /\ Goto("init") /\ failed' = failed
            /\ linked' = linked \cup {c}
            /\ hcsr_dev' = [hcsr_dev EXCEPT ![c].next = HEAD]
         \/ /\ command.at = "init" /\ Goto("list") /\ failed' = failed
            /\ linked' = linked
            /\ hcsr_dev' = [hcsr_dev EXCEPT ![c].ready = TRUE]
  BY DEF AllocBuffer, Link, InitBuffer, At, objects, driver, kernel
<1>3. /\ command'.device = command.device
      /\ \/ command'.at \in {"link", "init", "list"} /\ command'.obj = c
         \/ command'.at = "next" /\ failed' = failed \cup {c}
      /\ command'.at \in {"link", "next"} => linked' = linked
  BY <1>1, <1>2 DEF Goto, Unprobed, CommandOK
<1>4. /\ command.at \in {"buffer", "link", "init"}
      /\ failed \subseteq failed' /\ linked \subseteq linked'
      /\ linked' \subseteq linked \cup {c}
      /\ command'.at = "list" => command.at = "init" /\ linked' = linked
  BY <1>1, <1>2 DEF Goto, Unprobed, CommandOK
<1>5. /\ Current({"init", "list", "deregister", "free"}) \subseteq {c}
      /\ Current({"init", "list", "deregister"}) \subseteq {c}
      /\ Current({"buffer", "link", "init", "list", "deregister"}) = {c}
      /\ Current({"buffer", "link", "init", "list", "deregister", "free"}) = {c}
      /\ ~ Deleted
      /\ command.at \in {"buffer", "link"} => Current({"init", "list", "deregister"}) = {}
      /\ command.at = "init" => Current({"init", "list", "deregister", "free"}) = {c}
  BY <1>4 DEF Current, Deleted
<1>6. /\ ~ Deleted'
      /\ Current({"init", "list", "deregister", "free"})' \subseteq {c}
      /\ command'.at \in {"init", "list"} => Current({"init", "list", "deregister"})' = {c}
      /\ command'.at /= "next" =>
           /\ Current({"buffer", "link", "init", "list", "deregister"})' = {c}
           /\ Current({"buffer", "link", "init", "list", "deregister", "free"})' = {c}
  BY <1>3 DEF Current, Deleted
<1>7. c \notin Listed
  <2>1. CASE command.at \in {"buffer", "link"}
    BY <1>1, <2>1 DEF Inv, ObjectInv, ObjectWhere, OneEach
  <2>2. CASE command.at = "init"
    BY <1>1, <1>5, <2>2 DEF OneEach
  <2> QED
    BY <1>4, <2>1, <2>2
<1>8. Listed' = Listed /\ Listed \subseteq linked
  BY <1>1, <1>2 DEF Listed, OneEach
<1> HIDE DEF c
<1>9. \A o \in Listed : Dev(o)' = Dev(o)
  <2>1. Listed \subseteq Objects
    BY <1>1, <1>8
  <2>2. \A o \in Objects : hcsr_dev'[o].device = hcsr_dev[o].device
    BY <1>1, <1>2
  <2> QED
    BY <2>1, <2>2 DEF Dev
<1>10. OneEach'
  <2>1. /\ UNCHANGED <<device_list, bound, base>> /\ OneEach /\ ~ Deleted
        /\ linked \subseteq linked'
    BY <1>1, <1>2, <1>4, <1>5
  <2>2. Distinct(device_list)'
    BY <2>1 DEF OneEach, Distinct
  <2>3. Listed' \cap Current({"init", "list", "deregister", "free"})' = {}
    BY <1>6, <1>7, <1>8
  <2>4. /\ \A d \in Elements(bound)' : \E o \in Listed' : Dev(o)' = d
        /\ \A o, p \in Listed' : Dev(o)' = Dev(p)' => o = p
        /\ \A o \in Listed' : Dev(o)' \in Elements(bound)'
    BY <1>8, <1>9, <2>1 DEF OneEach
  <2>5. Listed' \subseteq linked' /\ \A o \in Listed' : base' < o
    BY <1>8, <2>1 DEF OneEach
  <2> QED
    BY <1>6, <2>2, <2>3, <2>4, <2>5 DEF OneEach
<1>11. Accounted'
  <2>1. /\ misc \cap linked \subseteq Listed \cup Current({"init", "list", "deregister"})
        /\ misc \subseteq failed \cup Listed \cup {c}
        /\ 1 .. made \subseteq freed \cup failed \cup Listed \cup {c}
        /\ Len(class) = Len(bound) - IF Deleted THEN 1 ELSE 0
    BY <1>1, <1>5 DEF Accounted
  <2>2. misc' \cap linked' \subseteq Listed' \cup Current({"init", "list", "deregister"})'
    <3>1. CASE command'.at \in {"init", "list"}
      BY <1>2, <1>4, <1>5, <1>6, <1>8, <2>1, <3>1
    <3>2. CASE command'.at \in {"link", "next"}
      <4>1. command.at = "buffer" /\ linked' = linked
        BY <1>1, <1>2, <1>3, <3>2 DEF Goto, CommandOK
      <4> QED
        BY <1>2, <1>5, <1>8, <2>1, <4>1
    <3> QED
      BY <1>3, <3>1, <3>2
  <2>3. /\ misc' \subseteq failed' \cup Listed'
                  \cup Current({"buffer", "link", "init", "list", "deregister"})'
        /\ 1 .. made' \subseteq freed' \cup failed' \cup Listed'
             \cup Current({"buffer", "link", "init", "list", "deregister", "free"})'
    <3>1. CASE command'.at = "next"
      BY <1>2, <1>3, <1>8, <2>1, <3>1
    <3>2. CASE command'.at /= "next"
      BY <1>2, <1>4, <1>6, <1>8, <2>1, <3>2
    <3> QED
      BY <3>1, <3>2
  <2>4. Len(class') = Len(bound') - IF Deleted' THEN 1 ELSE 0
    BY <1>2, <1>5, <1>6, <2>1
  <2> QED
    BY <2>2, <2>3, <2>4 DEF Accounted
<1> QED
  BY <1>10, <1>11 DEF Lists

LEMMA AddDeviceLists ==
  ASSUME Inv, fault = "none", fault' = "none", AddDevice
  PROVE  Lists'
<1> DEFINE c == command.obj
           d == command.device
<1>1. /\ device_list' = <<c>> \o device_list /\ bound' = Append(bound, d)
      /\ class' = Append(class, c) /\ command.at = "list"
      /\ command' = [command EXCEPT !.at = "next", !.obj = NULL]
      /\ UNCHANGED <<hcsr_dev, freed, failed, linked, misc, base, made>>
  BY DEF AddDevice, At, objects
<1>2. /\ command \in CommandOK /\ BusInv /\ OneEach /\ Accounted
      /\ linked \subseteq 1 .. made /\ device_list \in Seq(1 .. made)
      /\ class \in Seq(1 .. made) /\ bound \in Seq(Devices)
  BY DEF Inv, BusInv, BusTypes, ObjectInv, ObjectTypes, ListInv, ListTypes
<1>3. /\ c \in linked /\ base < c /\ Dev(c) = d /\ c \in 1 .. made /\ d \in Devices
  BY <1>1, <1>2 DEF Inv, ObjectInv, ObjectWhere, Dev, CommandOK
<1>4. d \notin Elements(bound)
  <2>1. Attaching /\ Busy = {d}
    BY <1>1, <1>2 DEF BusInv, CommandWhere, AtProbe, Busy
  <2> QED
    BY <1>2, <2>1 DEF BusInv, DevicesWhere
<1>5. command'.at = "next"
  BY <1>1, <1>2 DEF CommandOK
<1>6. /\ ~ Deleted
      /\ Current({"init", "list", "deregister", "free"}) = {c}
      /\ Current({"init", "list", "deregister"}) = {c}
      /\ Current({"buffer", "link", "init", "list", "deregister"}) = {c}
      /\ Current({"buffer", "link", "init", "list", "deregister", "free"}) = {c}
  BY <1>1 DEF Deleted, Current
<1>7. /\ ~ Deleted'
      /\ Current({"init", "list", "deregister", "free"})' = {}
      /\ Current({"init", "list", "deregister"})' = {}
      /\ Current({"buffer", "link", "init", "list", "deregister"})' = {}
      /\ Current({"buffer", "link", "init", "list", "deregister", "free"})' = {}
  BY <1>5 DEF Deleted, Current
<1> HIDE DEF c, d
<1>8. c \notin Listed
  BY <1>2, <1>6 DEF OneEach
<1>9. Listed' = Listed \cup {c} /\ Distinct(device_list')
  <2>1. device_list' = Cons(c, device_list)
    BY <1>1 DEF Cons
  <2>2. Distinct(device_list) /\ c \notin Elements(device_list)
    BY <1>2, <1>8 DEF Listed, OneEach
  <2>3. /\ Elements(Cons(c, device_list)) = Elements(device_list) \cup {c}
        /\ Distinct(device_list) /\ c \notin Elements(device_list) =>
             Distinct(Cons(c, device_list))
    <3> DEFINE M == 1 .. made
    <3>1. device_list \in Seq(M) /\ c \in M
      BY <1>2, <1>3
    <3> HIDE DEF M
    <3> QED
      BY <3>1, ConsElements
  <2> QED
    BY <2>1, <2>2, <2>3 DEF Listed
<1>10. Elements(bound') = Elements(bound) \cup {d} /\ Len(bound') = Len(bound) + 1
  BY <1>1, <1>2, <1>3, AppendElements
<1>11. Len(class') = Len(class) + 1
  BY <1>1, <1>2, <1>3, AppendElements
<1>12. \A o : Dev(o)' = Dev(o)
  BY <1>1 DEF Dev
<1>13. OneEach'
  <2>1. \A o \in Listed : Dev(o) \in Elements(bound) /\ Dev(o) /= d
    BY <1>2, <1>4 DEF OneEach
  <2>2. \A o, p \in Listed \cup {c} : Dev(o) = Dev(p) => o = p
    BY <1>2, <1>3, <2>1 DEF OneEach
  <2>3. \A o \in Listed \cup {c} : Dev(o) \in Elements(bound) \cup {d}
    BY <1>3, <2>1
  <2>4. \A e \in Elements(bound) \cup {d} : \E o \in Listed \cup {c} : Dev(o) = e
    BY <1>2, <1>3, <1>6 DEF OneEach
  <2>5. Listed \cup {c} \subseteq linked /\ \A o \in Listed \cup {c} : base < o
    BY <1>2, <1>3 DEF OneEach
  <2> QED
    BY <1>1, <1>7, <1>9, <1>10, <1>12, <2>2, <2>3, <2>4, <2>5 DEF OneEach, Distinct
<1>14. Accounted'
  <2>1. Len(class') = Len(bound')
    <3>1. Len(class) = Len(bound) - 0
      BY <1>2, <1>6 DEF Accounted
    <3> QED
      BY <1>2, <1>10, <1>11, <3>1
  <2>2. Len(class') = Len(bound') - 0
    BY <1>2, <1>10, <2>1
  <2>3. /\ misc \cap linked \subseteq Listed \cup {c}
        /\ misc \subseteq failed \cup Listed \cup {c}
        /\ 1 .. made \subseteq freed \cup failed \cup Listed \cup {c}
    BY <1>2, <1>6 DEF Accounted
  <2> QED
    BY <1>1, <1>7, <1>9, <2>2, <2>3 DEF Accounted
<1> QED
  BY <1>13, <1>14 DEF Lists

LEMMA UnlistLists ==
  ASSUME Inv, fault = "none", fault' = "none", Unlist
  PROVE  Lists'
<1> DEFINE c == Removed
           d == command.device
<1>1. /\ device_list' = Without(device_list, c)
      /\ gko_device[d] \in Elements(class) /\ class' = Tail(class)
      /\ command.at = "unlist" /\ At("unlist")
      /\ command' = [command EXCEPT !.at = "deregister", !.obj = c]
      /\ UNCHANGED <<hcsr_dev, freed, failed, linked, misc, base, made, bound>>
  BY DEF Unlist, At, objects
<1>2. /\ command \in CommandOK /\ OneEach /\ Accounted
      /\ device_list \in Seq(1 .. made) /\ class \in Seq(1 .. made)
      /\ bound \in Seq(Devices)
  BY DEF Inv, BusInv, BusTypes, ListInv, ListTypes
<1>3. c \in Listed /\ Dev(c) = d
  BY <1>1, RemovedListed
<1> HIDE DEF c
<1>4. command'.at = "deregister" /\ command'.obj = c /\ command'.device = d
  BY <1>1, <1>2 DEF CommandOK
<1>5. NoStruct /\ Deleted'
      /\ Current({"init", "list", "deregister", "free"})' = {c}
      /\ Current({"init", "list", "deregister"})' = {c}
      /\ Current({"buffer", "link", "init", "list", "deregister"})' = {c}
      /\ Current({"buffer", "link", "init", "list", "deregister", "free"})' = {c}
  BY <1>1, <1>4 DEF NoStruct, Deleted, Current
<1> HIDE DEF d
<1>6. Listed' = Listed \ {c} /\ Distinct(device_list')
  BY <1>1, <1>2, WithoutElements DEF Listed, OneEach
<1>7. \A o : Dev(o)' = Dev(o)
  BY <1>1 DEF Dev
<1>8. OneEach'
  <2>1. \A o \in Listed \ {c} : Dev(o) \in Elements(bound) /\ Dev(o) /= d
    BY <1>2, <1>3 DEF OneEach
  <2>2. \A e \in Elements(bound) : (\E o \in Listed \ {c} : Dev(o) = e) \/ e = d
    BY <1>2, <1>3, <1>5, NoCurrent DEF OneEach
  <2>3. \A o, p \in Listed \ {c} : Dev(o) = Dev(p) => o = p
    BY <1>2 DEF OneEach
  <2>4. Listed \ {c} \subseteq linked /\ \A o \in Listed \ {c} : base < o
    BY <1>2 DEF OneEach
  <2> QED
    BY <1>1, <1>4, <1>5, <1>6, <1>7, <2>1, <2>2, <2>3, <2>4 DEF OneEach, Distinct
<1>9. Accounted'
  <2>1. class /= <<>>
    BY <1>1, EmptySeqDistinct
  <2>2. Len(class') = Len(class) - 1
    BY <1>1, <1>2, <2>1
  <2>3. Len(class) = Len(bound) - 0
    BY <1>2, <1>5, NoCurrent DEF Accounted
  <2>4. Len(class') = Len(bound') - 1
    BY <1>1, <1>2, <2>2, <2>3
  <2>5. /\ misc \cap linked \subseteq Listed
        /\ misc \subseteq failed \cup Listed
        /\ 1 .. made \subseteq freed \cup failed \cup Listed
    BY <1>2, <1>5, NoCurrent DEF Accounted
  <2> QED
    BY <1>1, <1>5, <1>6, <2>4, <2>5 DEF Accounted
<1> QED
  BY <1>8, <1>9 DEF Lists

LEMMA DeregisterLists ==
  ASSUME Inv, fault = "none", Deregister
  PROVE  Lists'
<1> DEFINE c == command.obj
<1>1. /\ misc' = misc \ {c} /\ command.at = "deregister" /\ Goto("free")
      /\ UNCHANGED <<device_list, class, bound, hcsr_dev, freed, failed, linked, base, made>>
  BY DEF Deregister, At, objects, driver
<1>2. command \in CommandOK /\ OneEach /\ Accounted
  BY DEF Inv, BusInv, BusTypes, ListInv
<1>3. command'.at = "free" /\ command'.obj = c /\ command'.device = command.device
  BY <1>1, <1>2 DEF Goto, CommandOK
<1>4. /\ Deleted /\ Deleted'
      /\ Current({"init", "list", "deregister", "free"}) = {c}
      /\ Current({"init", "list", "deregister"}) = {c}
      /\ Current({"buffer", "link", "init", "list", "deregister"}) = {c}
      /\ Current({"buffer", "link", "init", "list", "deregister", "free"}) = {c}
      /\ Current({"init", "list", "deregister", "free"})' = {c}
      /\ Current({"init", "list", "deregister"})' = {}
      /\ Current({"buffer", "link", "init", "list", "deregister"})' = {}
      /\ Current({"buffer", "link", "init", "list", "deregister", "free"})' = {c}
  BY <1>1, <1>3 DEF Deleted, Current
<1> HIDE DEF c
<1>5. Listed' = Listed /\ \A o : Dev(o)' = Dev(o)
  BY <1>1 DEF Listed, Dev
<1>6. OneEach'
  BY <1>1, <1>2, <1>3, <1>4, <1>5 DEF OneEach, Distinct
<1>7. Accounted'
  BY <1>1, <1>2, <1>4, <1>5 DEF Accounted
<1> QED
  BY <1>6, <1>7 DEF Lists

LEMMA FreeLists ==
  ASSUME Inv, fault = "none", Free
  PROVE  Lists'
<1> DEFINE c == command.obj
           d == command.device
<1>1. /\ freed' = freed \cup {c} /\ command.at = "free"
      /\ bound' = Without(bound, d)
      /\ command' = [command EXCEPT !.at = "next", !.obj = NULL]
      /\ UNCHANGED <<device_list, class, hcsr_dev, misc, failed, linked, base, made>>
  BY DEF Free, At, driver, kernel
<1>2. /\ command \in CommandOK /\ BusInv /\ OneEach /\ Accounted
      /\ bound \in Seq(Devices) /\ Distinct(bound)
  BY DEF Inv, BusInv, BusTypes, DevicesWhere, ListInv
<1>3. d \in Elements(bound)
  <2>1. AtRemove /\ Busy = {d}
    BY <1>1 DEF AtRemove, Busy
  <2> QED
    BY <1>2, <2>1 DEF BusInv, DevicesWhere
<1>4. command'.at = "next"
  BY <1>1, <1>2 DEF CommandOK
<1>5. /\ Deleted
      /\ Current({"init", "list", "deregister"}) = {}
      /\ Current({"buffer", "link", "init", "list", "deregister"}) = {}
      /\ Current({"buffer", "link", "init", "list", "deregister", "free"}) = {c}
  BY <1>1 DEF Deleted, Current
<1>6. /\ ~ Deleted'
      /\ Current({"init", "list", "deregister", "free"})' = {}
      /\ Current({"init", "list", "deregister"})' = {}
      /\ Current({"buffer", "link", "init", "list", "deregister"})' = {}
      /\ Current({"buffer", "link", "init", "list", "deregister", "free"})' = {}
  BY <1>4 DEF Deleted, Current
<1>7. \A o \in Listed : Dev(o) /= d
  BY <1>2, <1>5 DEF OneEach
<1>8. \A e \in Elements(bound) : (\E o \in Listed : Dev(o) = e) \/ e = d
  BY <1>2 DEF OneEach
<1> HIDE DEF c, d
<1>9. Elements(bound') = Elements(bound) \ {d} /\ Len(bound') = Len(bound) - 1
  BY <1>1, <1>2, <1>3, WithoutElements
<1>10. Listed' = Listed /\ \A o : Dev(o)' = Dev(o)
  BY <1>1 DEF Listed, Dev
<1>11. OneEach'
  <2>1. /\ Distinct(device_list)' /\ Listed \subseteq linked
        /\ \A o \in Listed : base < o
        /\ \A o \in Listed : Dev(o) \in Elements(bound)
        /\ \A o, p \in Listed : Dev(o) = Dev(p) => o = p
    BY <1>1, <1>2 DEF OneEach, Distinct
  <2> QED
    BY <1>1, <1>6, <1>7, <1>8, <1>9, <1>10, <2>1 DEF OneEach
<1>12. Accounted'
  <2>1. /\ misc \cap linked \subseteq Listed
        /\ misc \subseteq failed \cup Listed
        /\ 1 .. made \subseteq freed \cup failed \cup Listed \cup {c}
    BY <1>2, <1>5 DEF Accounted
  <2>2. Len(class) = Len(bound) - 1
    BY <1>2, <1>5 DEF Accounted
  <2>3. Len(class') = Len(bound') - 0
    BY <1>1, <1>2, <1>9, <2>2
  <2> QED
    BY <1>1, <1>6, <1>10, <2>1, <2>3 DEF Accounted
<1> QED
  BY <1>11, <1>12 DEF Lists

-----------------------------------------------------------------------------
(* The invariant.                                                            *)

listTypes == <<device_list, class, first, gko_class, gko_device, file, sampling,
               fault, events, linked, made>>

LEMMA Seqs ==
  ASSUME NEW m \in Nat, NEW n \in Nat, m <= n, NEW s \in Seq(1 .. m)
  PROVE  s \in Seq(1 .. n)
<1>1. 1 .. m \subseteq 1 .. n
  OBVIOUS
<1> QED
  BY <1>1

LEMMA FaultTypes ==
  ASSUME NEW o
  PROVE  Fault(o) \in {"none", "freed"}
BY DEF Fault

LEMMA ModuleListTypes ==
  ASSUME Inv, Administrator \/ Deregister \/ Free
  PROVE  ListTypes'
<1>1. ListTypes
  BY DEF Inv, ListInv
<1>2. CASE InsmodDriver
  <2>1. /\ device_list' = <<>> /\ first' = TRUE
        /\ UNCHANGED <<class, gko_class, gko_device, file, sampling, fault, events,
                       linked, made>>
    BY <1>2 DEF InsmodDriver, objects, kernel, users
  <2>2. device_list' \in Seq(1 .. made')
    BY <2>1
  <2> QED
    BY <1>1, <2>1, <2>2 DEF ListTypes
<1>3. CASE InsmodDevice \/ Rmmod \/ NextDevice \/ CommandEnds \/ Deregister \/ Free
  <2>1. UNCHANGED listTypes
    BY <1>3 DEF InsmodDevice, Rmmod, NextDevice, CommandEnds, Deregister, Free,
       listTypes, objects, driver, kernel, users
  <2> QED
    BY <1>1, <2>1 DEF ListTypes, listTypes
<1> QED
  BY <1>2, <1>3 DEF Administrator

LEMMA ProbeListTypes ==
  ASSUME Inv, Probe
  PROVE  ListTypes'
<1>1. /\ ListTypes /\ command \in CommandOK /\ made \in Nat
      /\ device_list \in Seq(1 .. made) /\ class \in Seq(1 .. made)
  BY DEF Inv, ListInv, ListTypes, BusInv, BusTypes
<1>2. CASE MakeClass
  BY <1>1, <1>2 DEF MakeClass, objects, users, ListTypes
<1>3. CASE NewDevice
  <2>1. /\ made' = made + 1
        /\ UNCHANGED <<device_list, class, first, gko_class, gko_device, file,
                       sampling, fault, events, linked>>
    BY <1>3 DEF NewDevice, driver, users
  <2>2. made' \in Nat /\ made <= made'
    BY <1>1, <2>1
  <2>3. device_list \in Seq(1 .. made') /\ class \in Seq(1 .. made')
    BY <1>1, <2>2, Seqs
  <2> QED
    BY <1>1, <2>1, <2>3 DEF ListTypes
<1>4. CASE AllocBuffer \/ InitBuffer
  <2>1. UNCHANGED listTypes
    BY <1>4 DEF AllocBuffer, InitBuffer, listTypes, driver, kernel, users
  <2> QED
    BY <1>1, <2>1 DEF ListTypes, listTypes
<1>5. CASE Link
  <2>1. /\ linked' = linked \cup {command.obj}
        /\ UNCHANGED <<device_list, class, first, gko_class, gko_device, file,
                       sampling, fault, events, made>>
    BY <1>5 DEF Link, kernel, users
  <2> QED
    BY <1>1, <2>1 DEF ListTypes
<1>6. CASE AddDevice
  <2> DEFINE c == command.obj
  <2>1. /\ device_list' = <<c>> \o device_list
        /\ \/ /\ gko_device' = [gko_device EXCEPT ![command.device] = c]
              /\ class' = Append(class, c) /\ UNCHANGED <<gko_class, fault>>
           \/ /\ class' = (IF class = <<>> THEN <<>> ELSE Tail(class))
              /\ gko_class' = FALSE /\ fault' = "oops" /\ UNCHANGED gko_device
        /\ UNCHANGED <<first, file, sampling, events, linked, made>>
    BY <1>6 DEF AddDevice, objects, users
  <2>2. c \in 1 .. made /\ c \in Objects
    <3>1. command.at = "list"
      BY <1>6 DEF AddDevice, At
    <3> QED
      BY <3>1, MadeObjects DEF Inv, ObjectInv, ObjectTypes, ObjectWhere
  <2> HIDE DEF c
  <2>3. <<c>> \o device_list \in Seq(1 .. made)
    BY <1>1, <2>2
  <2>4. Append(class, c) \in Seq(1 .. made)
    BY <1>1, <2>2, AppendElements
  <2>5. (IF class = <<>> THEN <<>> ELSE Tail(class)) \in Seq(1 .. made)
    <3>1. class \in Seq(1 .. made) /\ <<>> \in Seq(1 .. made)
      BY <1>1
    <3>2. class /= <<>> => Tail(class) \in Seq(1 .. made)
      BY <3>1
    <3> QED
      BY <3>1, <3>2
  <2>6. [gko_device EXCEPT ![command.device] = c] \in [Devices -> Objects \cup {NULL}]
    BY <1>1, <2>2 DEF ListTypes
  <2> QED
    BY <1>1, <2>1, <2>3, <2>4, <2>5, <2>6 DEF ListTypes
<1> QED
  BY <1>2, <1>3, <1>4, <1>5, <1>6 DEF Probe

LEMMA UnlistListTypes ==
  ASSUME Inv, fault = "none", Unlist
  PROVE  ListTypes'
<1>1. /\ ListTypes /\ Distinct(device_list)
      /\ device_list \in Seq(1 .. made) /\ class \in Seq(1 .. made)
  BY DEF Inv, ListInv, ListTypes, OneEach
<1>2. /\ device_list' = Without(device_list, Removed)
      /\ \/ /\ gko_device[command.device] \in Elements(class)
            /\ class' = Tail(class) /\ UNCHANGED fault
         \/ fault' = "freed" /\ UNCHANGED class
      /\ events' \subseteq events \cup {"removed in use"}
      /\ UNCHANGED <<first, gko_class, gko_device, file, sampling, linked, made>>
  BY DEF Unlist, objects, users
<1>3. device_list' \in Seq(1 .. made)
  BY <1>1, <1>2, WithoutElements
<1>4. class' \in Seq(1 .. made)
  <2>1. class = <<>> => Elements(class) = {}
    BY EmptySeqDistinct
  <2>2. class /= <<>> => Tail(class) \in Seq(1 .. made)
    BY <1>1
  <2> QED
    BY <1>1, <1>2, <2>1, <2>2
<1> QED
  BY <1>1, <1>2, <1>3, <1>4 DEF ListTypes

LEMMA ProgramListTypes ==
  ASSUME Inv, fault = "none", Open \/ Use
  PROVE  ListTypes'
<1>1. ListTypes /\ Walk /\ Listed \subseteq linked
  BY DEF Inv, ListInv, OneEach, ObjectInv
<1>2. UNCHANGED <<device_list, class, first, gko_class, gko_device, linked, made>>
  BY DEF Open, OpenBegin, OpenWalk, OpenEnd, Use, Call, Close, Enable, ThreadEnds,
     objects, driver, kernel
<1>3. file' \in linked' \cup {NULL}
  BY <1>1, <1>2 DEF Open, OpenBegin, OpenWalk, OpenEnd, Use, Call, Close, Enable,
     ThreadEnds, ListTypes, Walk
<1>4. sampling' \subseteq linked'
  BY <1>1, <1>2 DEF Open, OpenBegin, OpenWalk, OpenEnd, Use, Call, Close, Enable,
     ThreadEnds, StartSampling, ListTypes, Listed
<1>5. fault' \in {"none", "oops", "freed", "unready"}
  BY <1>1, FaultTypes DEF Open, OpenBegin, OpenWalk, OpenEnd, Use, Call, Close, Enable,
     ThreadEnds, ListTypes
<1>6. events' \subseteq {"open in probe", "open in remove", "removed in use"}
  BY <1>1 DEF Open, OpenBegin, OpenWalk, OpenEnd, Use, Call, Close, Enable,
     ThreadEnds, ListTypes
<1> QED
  BY <1>1, <1>2, <1>3, <1>4, <1>5, <1>6 DEF ListTypes

LEMMA NextLists ==
  ASSUME Inv, Next
  PROVE  ListInv'
<1>1. fault = "none"
  BY DEF Next
<1>2. ListTypes'
  BY <1>1, ModuleListTypes, ProbeListTypes, UnlistListTypes, ProgramListTypes
  DEF Next, Remove
<1>3. ASSUME fault' = "none"
      PROVE  Lists'
  BY <1>1, <1>3, QuietSteps, InsmodDriverLists, NewDeviceLists, ProbeLists,
     AddDeviceLists, UnlistLists, DeregisterLists, FreeLists
  DEF Next, Administrator, Probe, Remove
<1> QED
  BY <1>2, <1>3 DEF ListInv, Lists

LEMMA Stutter ==
  ASSUME Inv, UNCHANGED vars
  PROVE  Inv'
<1>1. BusInv'
  BY BusUntouched DEF Inv, vars, bus, objects
<1>2. ObjectInv'
  BY CommandObjects DEF Inv, vars, structs, objects, driver, kernel, users
<1>3. ListTypes'
  BY DEF Inv, ListInv, ListTypes, vars, objects, driver, kernel, users
<1>4. ASSUME fault' = "none"
      PROVE  Lists'
  <2>1. Lists /\ UNCHANGED lists /\ UNCHANGED command
    BY <1>4 DEF Inv, ListInv, Lists, vars, lists, objects, driver, kernel
  <2> QED
    BY <2>1, QuietLists
<1> QED
  BY <1>1, <1>2, <1>3, <1>4 DEF Inv, ListInv, Lists

LEMMA Invariant == Spec => []Inv
<1>1. Init => Inv
  BY InitBus, InitObjects, InitLists DEF Inv
<1>2. Inv /\ [Next]_vars => Inv'
  BY NextBus, NextObjects, NextLists, Stutter DEF Inv
<1> QED
  BY <1>1, <1>2, PTL DEF Spec

-----------------------------------------------------------------------------
(* What stays of the structs.                                                *)

remains == <<freed, arrays, all_samples, linked, failed, misc>>

LEMMA RemainsUntouched ==
  ASSUME RemainsInv, UNCHANGED <<freed, arrays, linked, failed, misc>>,
         all_samples' \in {all_samples, NULL},
         \/ UNCHANGED command
         \/ command.at \notin {"buffer", "link"} /\ command'.at \notin {"buffer", "link"}
  PROVE  RemainsInv'
<1>1. /\ Current({"link"})' = Current({"link"})
      /\ Current({"buffer", "link"})' = Current({"buffer", "link"})
  BY DEF Current
<1> QED
  BY <1>1 DEF RemainsInv

LEMMA RemainsAlloc ==
  ASSUME Inv, RemainsInv, NewDevice \/ AllocBuffer \/ Link
  PROVE  RemainsInv'
<1> DEFINE c == command.obj
<1>1. /\ command \in CommandOK /\ made \in Nat /\ 1 .. made \subseteq Objects
      /\ ObjectTypes /\ ObjectWhere
  BY MadeObjects DEF Inv, BusInv, BusTypes, ObjectInv
<1>2. CASE NewDevice
  <2>1. /\ made + 1 \in Objects /\ made + 1 \notin linked \cup failed
        /\ Current({"link"}) = {}
    BY <1>1, <1>2, MadeFits DEF Inv, NewDevice, At, Current, ObjectTypes
  <2>2. UNCHANGED <<freed, arrays, linked, all_samples>>
    BY <1>2 DEF NewDevice, driver
  <2>3. CASE misc' = misc \cup {made + 1} /\ UNCHANGED failed
             /\ command' = [command EXCEPT !.at = "buffer", !.obj = made + 1]
    <3>1. Current({"link"})' = {} /\ Current({"buffer", "link"})' = {made + 1}
      BY <1>1, <2>3 DEF Current, CommandOK
    <3> QED
      BY <2>1, <2>2, <2>3, <3>1 DEF RemainsInv
  <2>4. CASE failed' = failed \cup {made + 1} /\ UNCHANGED misc /\ Unprobed
    <3>1. Current({"link"})' = {} /\ Current({"buffer", "link"})' = {}
      BY <1>1, <2>4 DEF Current, CommandOK, Unprobed
    <3>2. linked \cap failed' = {}
      BY <2>1, <2>4 DEF RemainsInv
    <3> QED
      BY <2>1, <2>2, <2>4, <3>1, <3>2 DEF RemainsInv
  <2> QED
    BY <1>2, <2>3, <2>4 DEF NewDevice
<1>3. CASE AllocBuffer
  <2>1. /\ command.at = "buffer" /\ c \in Objects /\ Current({"link"}) = {}
        /\ Current({"buffer", "link"}) = {c} /\ c \in misc \ (linked \cup failed)
    <3>1. command.at = "buffer"
      BY <1>3 DEF AllocBuffer, At
    <3>2. Current({"link"}) = {} /\ Current({"buffer", "link"}) = {c}
      BY <3>1 DEF Current
    <3>3. c \in misc /\ misc \subseteq 1 .. made
      BY <1>1, <3>2 DEF RemainsInv, ObjectTypes
    <3> QED
      BY <1>1, <3>1, <3>2, <3>3 DEF RemainsInv
  <2>2. UNCHANGED <<freed, linked, misc>> /\ all_samples' \in {c, NULL}
    BY <1>3 DEF AllocBuffer, kernel
  <2>3. PICK result \in BOOLEAN :
          /\ arrays' = arrays \cup {<<"all_samples", o>> : o \in {all_samples'} \ {NULL}}
                              \cup IF result THEN {<<"result", c>>} ELSE {}
          /\ IF result THEN Goto("link") /\ UNCHANGED failed
                       ELSE Unprobed /\ failed' = failed \cup {c}
    BY <1>3 DEF AllocBuffer
  <2> HIDE DEF c
  <2>4. /\ arrays' \subseteq {"all_samples", "result"} \X Objects
        /\ all_samples' \in Objects \cup {NULL}
        /\ \A o \in Objects : <<"all_samples", o>> \in arrays' =>
             <<"all_samples", o>> \in arrays \/ o = c
        /\ \A o \in Objects : <<"result", o>> \in arrays' <=>
             <<"result", o>> \in arrays \/ (result /\ o = c)
    BY <2>1, <2>2, <2>3 DEF RemainsInv
  <2>5. CASE result
    <3>1. command' = [command EXCEPT !.at = "link"] /\ UNCHANGED failed
      BY <2>3, <2>5 DEF Goto
    <3>2. Current({"link"})' = {c} /\ Current({"buffer", "link"})' = {c}
      BY <1>1, <3>1 DEF Current, CommandOK, c
    <3> QED
      BY <2>1, <2>2, <2>4, <2>5, <3>1, <3>2 DEF RemainsInv
  <2>6. CASE ~ result
    <3>1. /\ command' = [command EXCEPT !.at = "next", !.obj = NULL]
          /\ failed' = failed \cup {c}
      BY <2>3, <2>6 DEF Unprobed
    <3>2. Current({"link"})' = {} /\ Current({"buffer", "link"})' = {}
      BY <1>1, <3>1 DEF Current, CommandOK
    <3> QED
      BY <2>1, <2>2, <2>4, <2>6, <3>1, <3>2 DEF RemainsInv
  <2> QED
    BY <2>5, <2>6
<1>4. CASE Link
  <2>1. Current({"link"}) = {c} /\ Current({"buffer", "link"}) = {c}
    BY <1>4 DEF Link, At, Current
  <2>2. /\ linked' = linked \cup {c} /\ command' = [command EXCEPT !.at = "init"]
        /\ UNCHANGED <<freed, arrays, failed, misc, all_samples>>
    BY <1>4 DEF Link, Goto, kernel
  <2>3. Current({"link"})' = {} /\ Current({"buffer", "link"})' = {}
    BY <1>1, <2>2 DEF Current, CommandOK
  <2> QED
    BY <2>1, <2>2, <2>3 DEF RemainsInv
<1> QED
  BY <1>2, <1>3, <1>4

LEMMA RemainsGone ==
  ASSUME Inv, RemainsInv, Deregister \/ Free
  PROVE  RemainsInv'
<1>1. command.at \in {"deregister", "free"} /\ command \in CommandOK
  BY DEF Deregister, Free, At, Inv, BusInv, BusTypes
<1>2. command.obj \in linked
  BY <1>1 DEF Inv, ObjectInv, ObjectWhere
<1>3. command'.at \in {"free", "next"}
  BY <1>1 DEF Deregister, Free, Goto, CommandOK
<1>4. /\ Current({"link"}) = {} /\ Current({"buffer", "link"}) = {}
      /\ Current({"link"})' = {} /\ Current({"buffer", "link"})' = {}
  BY <1>1, <1>3 DEF Current
<1>5. /\ freed' \subseteq freed \cup {command.obj} /\ misc \ {command.obj} \subseteq misc'
      /\ UNCHANGED <<arrays, all_samples, linked, failed>>
  BY DEF Deregister, Free, objects, driver, kernel
<1> QED
  BY <1>2, <1>4, <1>5 DEF RemainsInv

LEMMA RemainsStep ==
  ASSUME Inv, RemainsInv, [Next]_vars
  PROVE  RemainsInv'
<1>1. command \in CommandOK /\ (command.op = "none" => command.at = "next")
  BY DEF Inv, BusInv, BusTypes, CommandWhere, AtProbe, AtRemove, Attaching, Detaching,
     CommandOK
<1>2. CASE Administrator
  <2>1. /\ UNCHANGED <<freed, arrays, linked, failed, misc>>
        /\ all_samples' \in {all_samples, NULL}
    BY <1>2 DEF Administrator, InsmodDevice, InsmodDriver, Rmmod, NextDevice,
       CommandEnds, objects, driver, kernel
  <2>2. command.at = "next" /\ command'.at \in {"next", "class", "unlist"}
    <3>1. ASSUME NEW op, Begin(op)
          PROVE  command.at = "next" /\ command'.at = "next"
      BY <1>1, <3>1 DEF Begin, Idle
    <3>2. CASE NextDevice
      <4>1. /\ command.at = "next"
            /\ \E todo, d : \E at \in {"next", "class", "unlist"} :
                 command' = [command EXCEPT !.todo = todo, !.device = d, !.at = at]
        BY <3>2 DEF NextDevice
      <4> QED
        BY <1>1, <4>1 DEF CommandOK
    <3>3. CASE CommandEnds
      BY <3>3 DEF CommandEnds, Idle
    <3> QED
      BY <1>2, <3>1, <3>2, <3>3 DEF Administrator, InsmodDevice, InsmodDriver, Rmmod
  <2> QED
    BY <2>1, <2>2, RemainsUntouched
<1>3. CASE MakeClass \/ InitBuffer \/ AddDevice \/ Unlist
  <2>1. UNCHANGED remains
    BY <1>3 DEF MakeClass, InitBuffer, AddDevice, Unlist, remains, objects, driver,
       kernel
  <2>2. /\ command.at \in {"class", "init", "list", "unlist"}
        /\ command'.at \in {"class", "alloc", "list", "next", "unlist", "deregister"}
    BY <1>1, <1>3 DEF MakeClass, InitBuffer, AddDevice, Unlist, At, Goto, CommandOK
  <2> QED
    BY <2>1, <2>2, RemainsUntouched DEF remains
<1>4. CASE Open \/ Use \/ UNCHANGED vars
  <2>1. UNCHANGED remains /\ UNCHANGED command
    BY <1>4 DEF Open, OpenBegin, OpenWalk, OpenEnd, Use, Call, Close, Enable,
       ThreadEnds, vars, remains, objects, driver, kernel
  <2> QED
    BY <2>1, RemainsUntouched DEF remains
<1> QED
  BY <1>2, <1>3, <1>4, RemainsAlloc, RemainsGone DEF Next, Probe, Remove

LEMMA RemainsInvariant == Spec => []RemainsInv
<1>1. Init => RemainsInv
  BY DEF Init, Idle, RemainsInv, Current, NULL
<1> QED
  BY <1>1, RemainsStep, Invariant, PTL DEF Spec

-----------------------------------------------------------------------------
(* The theorems.                                                             *)

\* Every variable stays in its range: no insmod makes more structs than the memory
\* has room for, and the driver's lists, its users and its threads have structs that
\* were made and linked.
THEOREM TypeCorrect == Spec => []TypeOK
<1>1. Inv /\ RemainsInv => TypeOK
  <2> SUFFICES ASSUME Inv, RemainsInv
               PROVE  TypeOK
    OBVIOUS
  <2>1. /\ BusTypes /\ ObjectTypes /\ ListDown /\ Walk /\ ListTypes
        /\ 1 .. made \subseteq Objects
    BY MadeObjects DEF Inv, BusInv, ObjectInv, ListInv
  <2>2. made \in 0 .. NumDevices * MaxLoads
    BY MadeFits DEF Inv, Cap
  <2>3. /\ freed \subseteq Objects /\ linked \subseteq Objects
        /\ failed \subseteq Objects /\ misc \subseteq Objects
        /\ HEAD \in Objects \cup {NULL}
    BY <2>1 DEF ObjectTypes, ListDown
  <2>4. open \in [asked : Objects \cup {NULL}, temp : Objects \cup {NULL},
                  linked : BOOLEAN]
    BY <2>1, <2>3 DEF Walk
  <2> QED
    BY <2>1, <2>2, <2>3, <2>4 DEF BusTypes, ObjectTypes, ListTypes, RemainsInv,
       TypeOK
<1> QED
  BY <1>1, Invariant, RemainsInvariant, PTL

\* device_open, which takes no lock, finds every device that was in the list when it
\* began: the list goes down from the newest struct, structs leave it for no walk, and
\* a removed one is not taken out of it.
THEOREM OpenFinds == Spec => []OpenFindsLinked
<1>1. Inv => OpenFindsLinked
  <2> SUFFICES ASSUME Inv, open.asked /= NULL, open.linked
               PROVE  open.temp /= NULL
    BY DEF OpenFindsLinked
  <2>1. open.temp \in 1 .. made
    BY DEF Inv, ObjectInv, ObjectTypes, Walk
  <2> QED
    BY <2>1 DEF NULL
<1> QED
  BY <1>1, Invariant, PTL

\* Once platform_device is unloaded the driver has no device, its lists and its class
\* are empty; of every device that was bound just its arrays stay, and of a probe that
\* failed just its struct, what the kernel has of it, and the driver's buffer.
THEOREM ArraysLeft == Spec => []UnloadLeavesArrays
<1>1. Inv /\ RemainsInv => UnloadLeavesArrays
  <2> SUFFICES ASSUME Inv, RemainsInv, fault = "none", command.op = "none",
                      "device" \notin loaded
               PROVE  /\ bound = <<>> /\ device_list = <<>> /\ class = <<>>
                      /\ \A o \in 1 .. made : Remains(o) \in
                           IF o \in failed
                             THEN {{"struct"}, {"struct", "miscdevice"},
                                   {"struct", "miscdevice", "all_samples"}}
                             ELSE {{"result"}, {"result", "all_samples"}}
    BY DEF UnloadLeavesArrays
  <2>1. /\ CommandWhere /\ DevicesWhere /\ OneEach /\ Accounted
        /\ bound \in Seq(Devices) /\ device_list \in Seq(1 .. made)
        /\ class \in Seq(1 .. made) /\ command \in CommandOK
    BY DEF Inv, BusInv, BusTypes, ListInv, ListTypes
  <2>2. command.at = "next"
    BY <2>1 DEF CommandWhere, AtProbe, AtRemove, Attaching, Detaching, CommandOK
  <2>3. registered = <<>> /\ Elements(bound) \subseteq Elements(registered)
    BY <2>1 DEF DevicesWhere
  <2>4. bound = <<>>
    BY <2>1, <2>3, EmptySeqDistinct, ElementsSeq
  <2>5. Listed = {}
    BY <2>1, <2>4, EmptySeqDistinct DEF OneEach
  <2>6. device_list = <<>>
    BY <2>1, <2>5, ElementsSeq DEF Listed
  <2>7. NoStruct
    BY <2>2 DEF NoStruct
  <2>8. /\ misc \subseteq failed /\ 1 .. made \subseteq freed \cup failed
        /\ Len(class) = Len(bound) - 0
    BY <2>1, <2>5, <2>7, NoCurrent DEF Accounted
  <2>9. class = <<>>
    BY <2>1, <2>4, <2>8
  <2>10. Current({"link"}) = {}
    BY <2>2 DEF Current
  <2>11. 1 .. made \subseteq Objects
    BY MadeObjects DEF Inv
  <2>12. ASSUME NEW o \in 1 .. made
         PROVE  Remains(o) \in
                  IF o \in failed THEN {{"struct"}, {"struct", "miscdevice"},
                                        {"struct", "miscdevice", "all_samples"}}
                                  ELSE {{"result"}, {"result", "all_samples"}}
    <3>1. CASE o \in failed
      <4>1. /\ o \notin freed /\ <<"result", o>> \notin arrays
            /\ <<"all_samples", o>> \in arrays => o \in misc
        BY <2>10, <2>11, <3>1 DEF RemainsInv
      <4> QED
        BY <3>1, <4>1 DEF Remains
    <3>2. CASE o \notin failed
      <4>1. o \in freed /\ o \notin misc /\ <<"result", o>> \in arrays
        BY <2>8, <2>11, <3>2 DEF RemainsInv
      <4> QED
        BY <3>2, <4>1 DEF Remains
    <3> QED
      BY <3>1, <3>2
  <2> QED
    BY <2>4, <2>6, <2>9, <2>12
<1> QED
  BY <1>1, Invariant, RemainsInvariant, PTL
==============================================================================
