-------------------------- MODULE CharModuleProofs --------------------------
(***************************************************************************)
(* Theorems about CharModule, for every number of devices, programs and    *)
(* insmods.                                                                *)
(***************************************************************************)
EXTENDS CharModule, TLAPS

(* The devices of the insmod that counts, in order: those made, those in the *)
(* list, those exit_gpio_driver has not deregistered, has not freed.         *)

D(k) == <<loads, k>>

Linked == IF at = "prepare" THEN i + 1 ELSE i

Made == IF at \in {"link", "prepare"} THEN i + 1 ELSE i

Taken == IF temp = NULL THEN i ELSE temp[2]

Deregistered ==
  CASE at = "take" -> Taken [] at = "deregister" -> device[2]
    [] at = "free" -> device[2] + 1 [] OTHER -> 0

Freed ==
  CASE at = "take" -> Taken [] at \in {"deregister", "free"} -> device[2]
    [] OTHER -> 0

Types ==
  /\ loads \in 0 .. MaxLoads
  /\ number_of_device \in 0 .. NumDevices /\ i \in 0 .. number_of_device
  /\ HEAD \in Objects \cup {NULL} /\ temp \in Objects \cup {NULL}
  /\ device \in Objects \cup {NULL}
  /\ next \in [Objects -> Objects \cup {NULL}]
  /\ misc \subseteq Objects /\ complete \subseteq Objects /\ freed \subseteq Objects
  /\ sampling \subseteq Objects
  /\ file \in [Programs -> Objects \cup {NULL}]
  /\ reading \subseteq {p \in Programs : file[p] /= NULL}
  /\ open.by \in Programs \cup {"nobody"}
  /\ open.by /= "nobody" => file[open.by] = NULL
  /\ open.asked \in Objects \cup {NULL} /\ open.temp \in Objects \cup {NULL}
  /\ fault \in {"none", "freed", "gone", "unready"}

\* Where the loader is, and its local variables.
Place ==
  \/ /\ state = "out" /\ at = "end"
  \/ /\ state = "coming" /\ at = "register" /\ loads >= 1
     /\ temp = IF i = 0 THEN NULL ELSE D(i - 1)
  \/ /\ state = "coming" /\ at = "link" /\ loads >= 1 /\ i < number_of_device
     /\ device = D(i) /\ next[D(i)] = NULL
     /\ temp = IF i = 0 THEN NULL ELSE D(i - 1)
  \/ /\ state = "coming" /\ at = "prepare" /\ loads >= 1 /\ i < number_of_device
     /\ device = D(i) /\ temp = D(i)
  \/ /\ state = "live" /\ at = "end" /\ loads >= 1 /\ i = number_of_device
  \/ /\ state = "going" /\ at = "take" /\ loads >= 1 /\ i = number_of_device
     /\ temp = NULL \/ \E k \in 0 .. i - 1 : temp = D(k)
  \/ /\ state = "going" /\ at \in {"deregister", "free"} /\ loads >= 1
     /\ i = number_of_device
     /\ \E k \in 0 .. i - 1 :
          device = D(k) /\ temp = IF k + 1 < i THEN D(k + 1) ELSE NULL

ListInOrder ==
  state /= "out" =>
    /\ HEAD = IF Linked = 0 THEN NULL ELSE D(0)
    /\ \A k \in 0 .. Linked - 1 :
         next[D(k)] = IF k + 1 < Linked THEN D(k + 1) ELSE NULL

\* The registered devices of the module.
Registered ==
  state /= "out" =>
    \A k \in 0 .. NumDevices - 1 : D(k) \in misc <=> Deregistered <= k /\ k < Made

\* Those of an earlier insmod were left by a failed one, and keep a later one from
\* registering its first device.
LeftBehind ==
  /\ \A o \in misc : o[1] <= loads
  /\ (\E o \in misc : Gone(o)) =>
       "init failed" \in events /\ \E o \in misc : Gone(o) /\ o[2] = 0
  /\ state /= "out" /\ Made > 0 => \A o \in misc : o[1] = loads

\* Buffers that are ready and structs that are freed.
Memory ==
  state /= "out" =>
    \A k \in 0 .. NumDevices - 1 :
      (D(k) \in complete <=> k < i) /\ (D(k) \in freed <=> k < Freed)

NoLeak ==
  /\ \A o \in complete \cup freed : o[1] <= loads
  /\ "init failed" \notin events => \A o \in complete : Gone(o) => o \in freed

\* The devices a program or a thread has, and why it may have them no more.
Used(o) ==
  \/ o \in sampling \/ \E p \in Programs : file[p] = o
  \/ open.by /= "nobody" /\ open.asked = o

ExitCause == "exit in use" \in events \/ "open in exit" \in events

Excused(o) ==
  /\ o[1] <= loads
  /\ (o[1] = loads /\ state = "going") \/ o \in freed => ExitCause
  /\ Gone(o) => ExitCause \/ "init failed" \in events
  /\ o[1] = loads /\ state \in {"coming", "live"} => o \in misc
  /\ o \in complete \/ "open in init" \in events

UsedOK == \A o \in Objects : Used(o) => Excused(o)

\* device_open comes from before what it looks for.
Walk ==
  open.by /= "nobody" =>
    /\ open.asked \in Objects
    /\ open.temp /= NULL =>
         /\ open.temp[1] = open.asked[1]
         /\ open.temp[1] = loads /\ state /= "out" => open.temp[2] < Linked
    /\ open.temp \in freed => ExitCause
    /\ open.linked =>
         /\ open.temp /= NULL /\ open.temp[2] <= open.asked[2]
         /\ open.asked[1] = loads /\ state /= "out" => open.asked[2] < Linked

Inv ==
  /\ Types /\ Place /\ ListInOrder /\ Registered /\ LeftBehind /\ Memory /\ NoLeak
  /\ UsedOK /\ Walk
  /\ open.by = "nobody" => ~ open.linked

-----------------------------------------------------------------------------
(* Objects are pairs.                                                        *)

LEMMA Pairs ==
  /\ \A o \in Objects : /\ o = <<o[1], o[2]>> /\ o /= NULL
                        /\ o[1] \in 1 .. MaxLoads /\ o[2] \in 0 .. NumDevices - 1
  /\ \A a \in 1 .. MaxLoads, b \in 0 .. NumDevices - 1 :
       <<a, b>> \in Objects /\ <<a, b>> /= NULL
  /\ \A a, b, c, d : <<a, b>> = <<c, d>> <=> a = c /\ b = d
  /\ \A a, b : <<a, b>>[1] = a /\ <<a, b>>[2] = b
<1>1. \A a, b, c, d : <<a, b>> = <<c, d>> <=> a = c /\ b = d
  OBVIOUS
<1>2. \A o \in Objects : \E a \in 1 .. MaxLoads, b \in 0 .. NumDevices - 1 : o = <<a, b>>
  BY DEF Objects
<1>3. \A a \in 1 .. MaxLoads, b \in 0 .. NumDevices - 1 :
        <<a, b>> \in Objects /\ <<a, b>> /= NULL
  BY ModuleAssumption, <1>1 DEF Objects, NULL
<1>4. \A a, b : <<a, b>>[1] = a /\ <<a, b>>[2] = b
  OBVIOUS
<1> QED
  BY <1>1, <1>2, <1>3, <1>4

\* The steps of programs and threads, and what they leave alone.
User ==
  \/ device_open \/ \E p \in Programs : Program(p)
  \/ \E o \in sampling : ThreadEnds(o)

LEMMA UserFrame ==
  ASSUME User
  PROVE  /\ UNCHANGED <<state, number_of_device, at, i, temp, device, loads,
                        HEAD, next, complete, freed, misc>>
         /\ events \subseteq events'
  BY DEF User, device_open, OpenWalk, OpenEnd, Program, OpenBegin, Call, ReadReturns,
     Close, ThreadEnds, init, list, objects

LEMMA LoaderFrame ==
  ASSUME Loader
  PROVE  UNCHANGED <<open, file, reading, sampling>> /\ events \subseteq events'
  BY DEF Loader, Insmod, Register, InitFails, Link, Prepare, InitReturns, Rmmod,
     ExitTake, Deregister, Free, ExitReturns, users

LEMMA InitInv == Init => Inv
<1> SUFFICES ASSUME Init PROVE Inv
  OBVIOUS
<1>1. Types
  BY ModuleAssumption DEF Init, Types, NoOpen
<1>2. Place /\ ListInOrder
  BY DEF Init, Place, ListInOrder
<1>3. Registered /\ LeftBehind /\ Memory /\ NoLeak
  BY DEF Init, Registered, LeftBehind, Memory, NoLeak
<1>4. UsedOK /\ Walk /\ (open.by = "nobody" => ~ open.linked)
  BY Pairs DEF Init, UsedOK, Excused, Used, Walk, NoOpen
<1> QED
  BY <1>1, <1>2, <1>3, <1>4 DEF Inv

-----------------------------------------------------------------------------
(* Every step preserves each conjunct.                                       *)

LEMMA Devices ==
  ASSUME Types, loads >= 1
  PROVE  \A k \in 0 .. NumDevices - 1 :
           /\ D(k) \in Objects /\ D(k) /= NULL /\ D(k)[1] = loads /\ D(k)[2] = k
           /\ \A j : D(j) = D(k) <=> j = k
           /\ ~ Gone(D(k)) <=> state /= "out"
BY Pairs, ModuleAssumption DEF D, Types, Gone

LEMMA Steps ==
  ASSUME Next
  PROVE  Loader \/ User
BY DEF Next, User

LEMMA TypesStep ==
  ASSUME Inv, Next
  PROVE  Types'
<1> USE ModuleAssumption
<1>0. Types /\ Place
  BY DEF Inv
<1>1. CASE \E n \in 0 .. NumDevices : Insmod(n)
  BY <1>0, <1>1 DEF Insmod, Types, objects, users
<1>2. CASE Register
  <2>1. <<loads, i>> \in Objects
    BY <1>0, <1>2, Pairs DEF Register, Types, Place
  <2> QED
    BY <1>0, <1>2, <2>1 DEF Register, InitFails, Types, users
<1>3. CASE Link
  <2>1. device \in Objects
    BY <1>0, <1>3, Devices DEF Link, Place, Types
  <2> QED
    BY <1>0, <1>3, <2>1 DEF Link, Types, objects, users
<1>4. CASE Prepare
  <2>1. device \in Objects /\ i < number_of_device
    BY <1>0, <1>4, Devices DEF Prepare, Place, Types
  <2>2. i' \in 0 .. number_of_device' /\ complete' \subseteq Objects
    <3>1. number_of_device' = number_of_device /\ i' \in {i, i + 1}
          /\ complete' \in {complete, complete \cup {device}}
      BY <1>4 DEF Prepare, InitFails
    <3> QED
      BY <1>0, <2>1, <3>1 DEF Types
  <2>3. UNCHANGED <<number_of_device, temp, loads, device, list, freed, misc, users, fault>>
    BY <1>4 DEF Prepare, InitFails
  <2> QED
    BY <1>0, <2>2, <2>3 DEF Types, list, users
<1>5. CASE InitReturns \/ Rmmod \/ ExitReturns
  BY <1>0, <1>5 DEF InitReturns, Rmmod, ExitReturns, Types, list, objects, users
<1>6. CASE ExitTake
  BY <1>0, <1>6 DEF ExitTake, Types, list, objects, users
<1>7. CASE Deregister
  BY <1>0, <1>7 DEF Deregister, Types, list, users
<1>8. CASE Free
  <2>1. device \in Objects
    BY <1>0, <1>8, Devices DEF Free, Place, Types
  <2> QED
    BY <1>0, <1>8, <2>1 DEF Free, Types, list, users
<1>9. CASE User
  <2>1. UNCHANGED <<state, number_of_device, at, i, temp, device, loads,
                    HEAD, next, complete, freed, misc>>
    BY <1>9, UserFrame
  <2>2. CASE \E p \in Programs, o \in misc : OpenBegin(p, o)
    <3>1. PICK p \in Programs, o \in misc : OpenBegin(p, o)
      BY <2>2
    <3>2. o \in Objects
      BY <1>0 DEF Types
    <3>3. \/ open' = open
          \/ open' = [by |-> p, asked |-> o, temp |-> HEAD,
                      linked |-> at /= "link" \/ o /= device]
      BY <3>1, Zenon DEF OpenBegin
    <3>4. /\ UNCHANGED <<file, reading, sampling>> /\ file[p] = NULL
          /\ fault' \in {fault, "gone"}
      BY <3>1 DEF OpenBegin
    <3> QED
      BY <1>0, <2>1, <3>2, <3>3, <3>4 DEF Types
  <2>3. CASE OpenWalk
    <3>1. open.temp \in Objects
      BY <1>0, <2>3 DEF OpenWalk, Types
    <3> QED
      BY <1>0, <2>1, <2>3, <3>1 DEF OpenWalk, Types, Fault
  <2>4. CASE OpenEnd
    <3>1. fault' = Fault(open.asked) /\ UNCHANGED <<reading, sampling>>
      BY <2>4 DEF OpenEnd
    <3>2. CASE fault' = "none"
      BY <1>0, <2>1, <2>4, <3>1, <3>2 DEF OpenEnd, Types, MiscFree, NoOpen
    <3>3. CASE fault' /= "none"
      BY <1>0, <2>1, <2>4, <3>1, <3>3 DEF OpenEnd, Types, Fault
    <3> QED
      BY <3>2, <3>3
  <2>5. CASE \E p \in Programs : Call(p)
    BY <1>0, <2>1, <2>5 DEF Call, Types, Fault
  <2>6. CASE \E p \in Programs : ReadReturns(p)
    BY <1>0, <2>1, <2>6 DEF ReadReturns, Types, Fault
  <2>7. CASE \E p \in Programs : Close(p)
    BY <1>0, <2>1, <2>7 DEF Close, Types
  <2>8. CASE \E o \in sampling : ThreadEnds(o)
    BY <1>0, <2>1, <2>8 DEF ThreadEnds, Types, Fault
  <2> QED
    BY <1>9, <2>2, <2>3, <2>4, <2>5, <2>6, <2>7, <2>8
    DEF User, device_open, Program
<1> QED
  BY <1>1, <1>2, <1>3, <1>4, <1>5, <1>6, <1>7, <1>8, <1>9, Steps DEF Loader

\* What a failing insmod, the only other end of Register and Prepare, does.
LEMMA FailedInit ==
  ASSUME InitFails
  PROVE  /\ state' = "out" /\ at' = "end"
         /\ UNCHANGED <<number_of_device, i, temp, loads>>
         /\ events \subseteq events'
         /\ (\E o \in misc : TRUE) => "init failed" \in events'
BY DEF InitFails

\* exit_gpio_driver's temp is ahead of what it frees.
LEMMA TakenNotFreed ==
  ASSUME Inv, ExitTake
  PROVE  temp \notin freed
<1> USE ModuleAssumption
<1>0. /\ Types /\ Place /\ Memory /\ state = "going" /\ loads >= 1
      /\ i \in 0 .. NumDevices
  BY DEF Inv, ExitTake, Types, Place
<1>1. PICK k \in 0 .. i - 1 : temp = D(k)
  BY <1>0 DEF ExitTake, Place
<1>2. k \in 0 .. NumDevices - 1 /\ ~ (k < k)
  BY <1>0
<1>3. temp /= NULL /\ temp[2] = k
  BY <1>0, <1>1, <1>2, Devices
<1>4. Freed = k
  BY <1>3 DEF ExitTake, Freed, Taken
<1>5. D(k) \in freed <=> k < Freed
  BY <1>0, <1>2, Zenon DEF Memory
<1> QED
  BY <1>1, <1>2, <1>4, <1>5

LEMMA PlaceStep ==
  ASSUME Inv, Next
  PROVE  Place'
<1> USE ModuleAssumption
<1>0. Types /\ Place /\ ListInOrder
  BY DEF Inv
<1>1. CASE \E n \in 0 .. NumDevices : Insmod(n)
  BY <1>0, <1>1 DEF Insmod, Types, Place
<1>2. CASE Register
  <2>1. CASE InitFails
    BY <2>1, FailedInit DEF Place
  <2>2. CASE ~ InitFails
    <3>1. /\ i < number_of_device /\ state = "coming" /\ loads >= 1
          /\ temp = IF i = 0 THEN NULL ELSE D(i - 1)
      BY <1>0, <1>2 DEF Register, Place
    <3>2. /\ at' = "link" /\ device' = D(i) /\ next' = [next EXCEPT ![D(i)] = NULL]
          /\ UNCHANGED <<state, number_of_device, i, temp, loads>>
      BY <1>2, <2>2 DEF Register, D
    <3>3. D(i) \in Objects
      BY <1>0, <3>1, Devices DEF Types
    <3> QED
      BY <1>0, <3>1, <3>2, <3>3 DEF Types, Place, D
  <2> QED
    BY <2>1, <2>2
<1>3. CASE Link
  BY <1>0, <1>3 DEF Link, Place, D
<1>4. CASE Prepare
  <2>1. CASE InitFails
    BY <2>1, FailedInit DEF Place
  <2>2. CASE ~ InitFails
    <3>1. /\ state = "coming" /\ loads >= 1 /\ i < number_of_device
          /\ device = D(i) /\ temp = D(i)
      BY <1>0, <1>4 DEF Prepare, Place
    <3>2. /\ at' = "register" /\ i' = i + 1
          /\ UNCHANGED <<state, number_of_device, temp, loads>>
      BY <1>4, <2>2 DEF Prepare
    <3> QED
      BY <1>0, <3>1, <3>2 DEF Types, Place, D
  <2> QED
    BY <2>1, <2>2
<1>5. CASE InitReturns
  BY <1>0, <1>5 DEF InitReturns, Types, Place
<1>6. CASE Rmmod
  <2>1. HEAD = IF i = 0 THEN NULL ELSE D(0)
    BY <1>0, <1>6 DEF Rmmod, Place, ListInOrder, Linked
  <2>2. /\ state' = "going" /\ at' = "take" /\ temp' = HEAD /\ loads >= 1
        /\ i = number_of_device /\ UNCHANGED <<number_of_device, i, loads>>
    BY <1>0, <1>6 DEF Rmmod, Place
  <2> QED
    BY <1>0, <2>1, <2>2 DEF Types, Place, D
<1>7. CASE ExitTake
  <2>1. PICK k \in 0 .. i - 1 : temp = D(k)
    BY <1>0, <1>7 DEF ExitTake, Place
  <2>2. next[D(k)] = IF k + 1 < i THEN D(k + 1) ELSE NULL
    BY <1>0, <1>7 DEF ExitTake, Place, ListInOrder, Linked
  <2>3. temp \notin freed
    BY <1>7, TakenNotFreed
  <2>4. /\ device' = temp /\ temp' = next[temp] /\ at' = "deregister"
        /\ UNCHANGED <<state, number_of_device, i, loads>>
    BY <1>7, <2>3 DEF ExitTake
  <2>5. state = "going" /\ loads >= 1 /\ i = number_of_device
    BY <1>0, <1>7 DEF ExitTake, Place
  <2> QED
    BY <2>1, <2>2, <2>4, <2>5 DEF Place, D
<1>8. CASE Deregister \/ Free \/ ExitReturns
  BY <1>0, <1>8 DEF Deregister, Free, ExitReturns, Types, Place, D
<1>9. CASE User
  BY <1>0, <1>9, UserFrame DEF Place, D
<1> QED
  BY <1>1, <1>2, <1>3, <1>4, <1>5, <1>6, <1>7, <1>8, <1>9, Steps DEF Loader

LEMMA ListStep ==
  ASSUME Inv, Next
  PROVE  ListInOrder'
<1> USE ModuleAssumption
<1>0. Types /\ Place /\ ListInOrder
  BY DEF Inv
<1>1. CASE \E n \in 0 .. NumDevices : Insmod(n)
  BY <1>1 DEF Insmod, ListInOrder, Linked
<1>2. CASE Register
  <2>1. CASE InitFails
    BY <2>1, FailedInit DEF ListInOrder
  <2>2. CASE ~ InitFails
    <3>1. /\ i < number_of_device /\ state = "coming" /\ loads >= 1
      BY <1>0, <1>2 DEF Register, Place
    <3>2. /\ at' = "link" /\ next' = [next EXCEPT ![D(i)] = NULL] /\ at = "register"
          /\ UNCHANGED <<state, i, loads, HEAD>>
      BY <1>2, <2>2 DEF Register, D
    <3>3. \A k \in 0 .. i : D(k) \in Objects /\ (D(k) = D(i) <=> k = i)
      BY <1>0, <3>1, Devices DEF Types
    <3> QED
      BY <1>0, <3>1, <3>2, <3>3 DEF Types, ListInOrder, Linked, D
  <2> QED
    BY <2>1, <2>2
<1>3. CASE Link
  <2>1. /\ at = "link" /\ state = "coming" /\ loads >= 1 /\ i < number_of_device
        /\ device = D(i) /\ next[D(i)] = NULL /\ HEAD = IF i = 0 THEN NULL ELSE D(0)
        /\ i > 0 => temp = D(i - 1)
    BY <1>0, <1>3 DEF Link, Place, ListInOrder, Linked
  <2>2. \A k \in 0 .. i :
          /\ D(k) \in Objects /\ D(k) /= NULL
          /\ \A j \in 0 .. i : D(j) = D(k) <=> j = k
    BY <1>0, <2>1, Devices DEF Types
  <2>3. at' = "prepare" /\ UNCHANGED <<state, i, loads>>
    BY <1>3 DEF Link
  <2>4. CASE i = 0
    BY <1>0, <1>3, <2>1, <2>2, <2>3, <2>4 DEF Link, Types, ListInOrder, Linked, D
  <2>5. CASE i > 0
    <3>1. next' = [next EXCEPT ![D(i - 1)] = D(i)] /\ HEAD' = HEAD
      BY <1>0, <1>3, <2>1, <2>2, <2>5 DEF Link, Types
    <3>2. \A k \in 0 .. i - 1 : next[D(k)] = IF k + 1 < i THEN D(k + 1) ELSE NULL
      BY <1>0, <2>1 DEF ListInOrder, Linked
    <3>3. \A k \in 0 .. i : next'[D(k)] = IF k + 1 < i + 1 THEN D(k + 1) ELSE NULL
      BY <1>0, <2>1, <2>2, <2>5, <3>1, <3>2 DEF Types
    <3> QED
      BY <1>0, <2>1, <2>3, <2>5, <3>1, <3>3 DEF Types, ListInOrder, Linked, D
  <2> QED
    BY <1>0, <2>4, <2>5 DEF Types
<1>4. CASE Prepare
  <2>1. CASE InitFails
    BY <2>1, FailedInit DEF ListInOrder
  <2>2. CASE ~ InitFails
    <3>1. /\ at' = "register" /\ i' = i + 1 /\ at = "prepare" /\ state = "coming"
          /\ UNCHANGED <<state, loads, HEAD, next>>
      BY <1>0, <1>4, <2>2 DEF Prepare, list, Place
    <3> QED
      BY <1>0, <3>1 DEF Types, ListInOrder, Linked, D
  <2> QED
    BY <2>1, <2>2
<1>5. CASE InitReturns \/ Rmmod \/ ExitTake \/ Deregister \/ Free \/ ExitReturns
  <2>1. UNCHANGED <<i, loads, HEAD, next>> /\ state \in {"coming", "live", "going"}
    BY <1>0, <1>5 DEF InitReturns, Rmmod, ExitTake, Deregister, Free, ExitReturns, list,
       Place
  <2>2. at /= "prepare" /\ at' /= "prepare"
    BY <1>0, <1>5 DEF InitReturns, Rmmod, ExitTake, Deregister, Free, ExitReturns, Place
  <2> QED
    BY <1>0, <2>1, <2>2 DEF ListInOrder, Linked, D
<1>6. CASE User
  BY <1>0, <1>6, UserFrame DEF ListInOrder, Linked, D
<1> QED
  BY <1>1, <1>2, <1>3, <1>4, <1>5, <1>6, Steps DEF Loader

LEMMA RegisteredStep ==
  ASSUME Inv, Next
  PROVE  Registered'
<1> USE ModuleAssumption
<1>0. Types /\ Place /\ Registered
  BY DEF Inv
<1>1. CASE \E n \in 0 .. NumDevices : Insmod(n)
  <2>1. /\ loads' = loads + 1 /\ misc' = misc /\ at' = "register" /\ i' = 0
    BY <1>1 DEF Insmod, objects
  <2>2. \A o \in misc : o[1] <= loads
    BY DEF Inv, LeftBehind
  <2> QED
    BY <1>0, <2>1, <2>2, Pairs DEF Types, Registered, Made, Deregistered, D
<1>2. CASE Register
  <2>1. CASE InitFails
    BY <2>1, FailedInit DEF Registered
  <2>2. CASE ~ InitFails
    <3>1. /\ at = "register" /\ i < number_of_device /\ state = "coming" /\ loads >= 1
      BY <1>0, <1>2 DEF Register, Place
    <3>2. /\ at' = "link" /\ misc' = misc \cup {D(i)} /\ UNCHANGED <<state, i, loads>>
      BY <1>2, <2>2 DEF Register, D
    <3>3. \A k \in 0 .. NumDevices - 1 : D(k) = D(i) <=> k = i
      BY <1>0, <3>1, Devices DEF Types
    <3> QED
      BY <1>0, <3>1, <3>2, <3>3 DEF Types, Registered, Made, Deregistered, D
  <2> QED
    BY <2>1, <2>2
<1>3. CASE Link
  <2>1. at = "link" /\ at' = "prepare" /\ UNCHANGED <<state, i, loads, misc>>
    BY <1>3 DEF Link, objects
  <2> QED
    BY <1>0, <2>1 DEF Registered, Made, Deregistered, D
<1>4. CASE Prepare
  <2>1. CASE InitFails
    BY <2>1, FailedInit DEF Registered
  <2>2. CASE ~ InitFails
    <3>1. /\ at = "prepare" /\ at' = "register" /\ i' = i + 1
          /\ UNCHANGED <<state, loads, misc>>
      BY <1>4, <2>2 DEF Prepare
    <3> QED
      BY <1>0, <3>1 DEF Types, Registered, Made, Deregistered, D
  <2> QED
    BY <2>1, <2>2
<1>5. CASE InitReturns
  <2>1. /\ at = "register" /\ at' = "end" /\ state = "coming"
        /\ UNCHANGED <<i, loads, misc>>
    BY <1>0, <1>5 DEF InitReturns, objects, Place
  <2> QED
    BY <1>0, <2>1 DEF Registered, Made, Deregistered, D
<1>6. CASE Rmmod
  <2>1. /\ at = "end" /\ at' = "take" /\ state = "live" /\ temp' = HEAD /\ loads >= 1
        /\ UNCHANGED <<i, loads, misc>>
    BY <1>0, <1>6 DEF Rmmod, objects, Place
  <2>2. HEAD = IF i = 0 THEN NULL ELSE D(0)
    BY <2>1 DEF Inv, ListInOrder, Linked
  <2>3. (Taken = 0)'
    BY <1>0, <2>1, <2>2, Devices DEF Types, Taken
  <2> QED
    BY <1>0, <2>1, <2>3 DEF Registered, Made, Deregistered, D
<1>7. CASE ExitTake
  <2>1. /\ at = "take" /\ at' = "deregister" /\ temp /= NULL /\ device' = temp
        /\ UNCHANGED <<state, i, loads, misc>>
    BY <1>7 DEF ExitTake, objects
  <2> QED
    BY <1>0, <2>1 DEF Registered, Made, Deregistered, Taken, D
<1>8. CASE Deregister
  <2>1. /\ at = "deregister" /\ at' = "free" /\ state = "going" /\ loads >= 1
        /\ misc' = misc \ {device} /\ UNCHANGED <<state, device, i, loads>>
    BY <1>0, <1>8 DEF Deregister, Place
  <2>2. PICK k \in 0 .. i - 1 : device = D(k)
    BY <1>0, <2>1 DEF Place
  <2>3. /\ k \in 0 .. NumDevices - 1 /\ device[2] = k
        /\ \A j \in 0 .. NumDevices - 1 : D(j) = device <=> j = k
    BY <1>0, <2>1, <2>2, Devices DEF Types
  <2> QED
    BY <1>0, <2>1, <2>3 DEF Registered, Made, Deregistered, D
<1>9. CASE Free
  <2>1. /\ at = "free" /\ at' = "take" /\ state = "going" /\ loads >= 1
        /\ UNCHANGED <<state, temp, i, loads, misc>>
    BY <1>0, <1>9 DEF Free, Place
  <2>2. PICK k \in 0 .. i - 1 :
          device = D(k) /\ temp = IF k + 1 < i THEN D(k + 1) ELSE NULL
    BY <1>0, <2>1 DEF Place
  <2>3. device[2] = k /\ Taken = k + 1
    BY <1>0, <2>1, <2>2, Devices DEF Types, Taken
  <2> QED
    BY <1>0, <2>1, <2>3 DEF Registered, Made, Deregistered, Taken, D
<1>10. CASE ExitReturns
  BY <1>10 DEF ExitReturns, Registered
<1>11. CASE User
  BY <1>0, <1>11, UserFrame DEF Registered, Made, Deregistered, Taken, D
<1> QED
  BY <1>1, <1>2, <1>3, <1>4, <1>5, <1>6, <1>7, <1>8, <1>9, <1>10, <1>11, Steps
  DEF Loader

LEMMA MemoryStep ==
  ASSUME Inv, Next
  PROVE  Memory'
<1> USE ModuleAssumption
<1>0. Types /\ Place /\ Memory
  BY DEF Inv
<1>1. CASE \E n \in 0 .. NumDevices : Insmod(n)
  <2>1. /\ loads' = loads + 1 /\ at' = "register" /\ i' = 0
        /\ UNCHANGED <<complete, freed>>
    BY <1>1 DEF Insmod, objects
  <2>2. \A o \in complete \cup freed : o[1] <= loads
    BY DEF Inv, NoLeak
  <2> QED
    BY <1>0, <2>1, <2>2, Pairs DEF Types, Memory, Freed, D
<1>2. CASE Register
  <2>1. CASE InitFails
    BY <2>1, FailedInit DEF Memory
  <2>2. CASE ~ InitFails
    <3>1. at = "register" /\ at' = "link" /\ UNCHANGED <<state, i, loads, complete, freed>>
      BY <1>2, <2>2 DEF Register
    <3> QED
      BY <1>0, <3>1 DEF Memory, Freed, D
  <2> QED
    BY <2>1, <2>2
<1>3. CASE Link \/ InitReturns
  <2>1. /\ at \in {"link", "register"} /\ at' \in {"prepare", "end"} /\ state = "coming"
        /\ UNCHANGED <<i, loads, complete, freed>>
    BY <1>0, <1>3 DEF Link, InitReturns, Place, objects
  <2> QED
    BY <1>0, <2>1 DEF Memory, Freed, D
<1>4. CASE Prepare
  <2>1. CASE InitFails
    BY <2>1, FailedInit DEF Memory
  <2>2. CASE ~ InitFails
    <3>1. /\ at = "prepare" /\ at' = "register" /\ i' = i + 1
          /\ complete' = complete \cup {device} /\ UNCHANGED <<state, loads, freed>>
      BY <1>4, <2>2 DEF Prepare
    <3>2. device = D(i) /\ i < number_of_device /\ loads >= 1
      BY <1>0, <3>1 DEF Place
    <3>3. \A k \in 0 .. NumDevices - 1 : D(k) = D(i) <=> k = i
      BY <1>0, <3>2, Devices DEF Types
    <3> QED
      BY <1>0, <3>1, <3>2, <3>3 DEF Types, Memory, Freed, D
  <2> QED
    BY <2>1, <2>2
<1>5. CASE Rmmod
  <2>1. /\ at = "end" /\ at' = "take" /\ state = "live" /\ temp' = HEAD /\ loads >= 1
        /\ UNCHANGED <<i, loads, complete, freed>>
    BY <1>0, <1>5 DEF Rmmod, objects, Place
  <2>2. HEAD = IF i = 0 THEN NULL ELSE D(0)
    BY <2>1 DEF Inv, ListInOrder, Linked
  <2>3. (Taken = 0)'
    BY <1>0, <2>1, <2>2, Devices DEF Types, Taken
  <2> QED
    BY <1>0, <2>1, <2>3 DEF Memory, Freed, D
<1>6. CASE ExitTake
  <2>1. /\ at = "take" /\ at' = "deregister" /\ temp /= NULL /\ device' = temp
        /\ UNCHANGED <<state, i, loads, complete, freed>>
    BY <1>6 DEF ExitTake, objects
  <2> QED
    BY <1>0, <2>1 DEF Memory, Freed, Taken, D
<1>7. CASE Deregister
  <2>1. /\ at = "deregister" /\ at' = "free"
        /\ UNCHANGED <<state, device, i, loads, complete, freed>>
    BY <1>7 DEF Deregister
  <2> QED
    BY <1>0, <2>1 DEF Memory, Freed, D
<1>8. CASE Free
  <2>1. /\ at = "free" /\ at' = "take" /\ state = "going" /\ loads >= 1
        /\ freed' = freed \cup {device} /\ UNCHANGED <<state, temp, i, loads, complete>>
    BY <1>0, <1>8 DEF Free, Place
  <2>2. PICK k \in 0 .. i - 1 :
          device = D(k) /\ temp = IF k + 1 < i THEN D(k + 1) ELSE NULL
    BY <1>0, <2>1 DEF Place
  <2>3. /\ device[2] = k /\ Taken = k + 1 /\ k \in 0 .. NumDevices - 1
        /\ \A j \in 0 .. NumDevices - 1 : D(j) = device <=> j = k
    BY <1>0, <2>1, <2>2, Devices DEF Types, Taken
  <2> QED
    BY <1>0, <2>1, <2>3 DEF Memory, Freed, Taken, D
<1>9. CASE ExitReturns
  BY <1>9 DEF ExitReturns, Memory
<1>10. CASE User
  BY <1>0, <1>10, UserFrame DEF Memory, Freed, Taken, D
<1> QED
  BY <1>1, <1>2, <1>3, <1>4, <1>5, <1>6, <1>7, <1>8, <1>9, <1>10, Steps DEF Loader

LEMMA LeftBehindStep ==
  ASSUME Inv, Next
  PROVE  LeftBehind'
<1> USE ModuleAssumption
<1>0. /\ Types /\ Place /\ Registered /\ LeftBehind
      /\ \A o \in misc : o \in Objects /\ o = <<o[1], o[2]>> /\ o[2] \in 0 .. NumDevices - 1
  BY Pairs DEF Inv, Types
<1>1. CASE \E n \in 0 .. NumDevices : Insmod(n)
  <2>1. /\ loads' = loads + 1 /\ at' = "register" /\ i' = 0 /\ state' = "coming"
        /\ state = "out" /\ UNCHANGED <<misc, events>>
    BY <1>1 DEF Insmod, objects
  <2>2. \A o \in misc : o[1] \in Nat /\ o[1] <= loads' /\ Gone(o) /\ Gone(o)'
    <3>1. \A o \in misc : o[1] <= loads /\ o[1] \in 1 .. MaxLoads
      BY <1>0, Pairs DEF LeftBehind
    <3> QED
      BY <1>0, <2>1, <3>1 DEF Types, Gone
  <2>3. ~ (Made > 0)'
    BY <2>1 DEF Made
  <2> QED
    BY <1>0, <2>1, <2>2, <2>3 DEF LeftBehind
<1>2. ASSUME InitFails, misc' = misc, misc /= {}, state = "coming",
             Deregistered = 0, Made = 0 \/ Made > 0, Made <= NumDevices
      PROVE  LeftBehind'
  <2>1. state' = "out" /\ loads' = loads /\ "init failed" \in events'
    BY <1>2, FailedInit
  <2>2. CASE Made > 0
    <3>1. D(0) \in misc /\ D(0)[2] = 0
      BY <1>0, <1>2, <2>2, Pairs DEF Registered, D
    <3> QED
      BY <1>0, <1>2, <2>1, <3>1 DEF LeftBehind, Gone
  <2>3. CASE Made = 0
    <3>1. \A o \in misc : Gone(o)
      BY <1>0, <1>2, <2>3 DEF Registered, Gone, D
    <3> QED
      BY <1>0, <1>2, <2>1, <3>1 DEF LeftBehind, Gone
  <2> QED
    BY <1>2, <2>2, <2>3
<1>3. CASE Register
  <2>1. /\ at = "register" /\ i < number_of_device /\ state = "coming" /\ loads >= 1
        /\ Deregistered = 0 /\ Made = i
    BY <1>0, <1>3 DEF Register, Place, Deregistered, Made
  <2>2. CASE InitFails
    <3>1. misc' = misc
      BY <1>3, <2>2 DEF Register, InitFails
    <3>2. CASE misc = {}
      BY <3>1, <3>2, <2>2, FailedInit DEF LeftBehind
    <3> QED
      BY <1>0, <1>2, <2>1, <2>2, <3>1, <3>2 DEF Types
  <2>3. CASE ~ InitFails
    <3>1. /\ misc' = misc \cup {D(i)} /\ \A o \in misc : o[2] /= i
          /\ UNCHANGED <<state, i, loads, events>>
      BY <1>3, <2>3 DEF Register, D
    <3>2. D(i) \in Objects /\ D(i)[1] = loads /\ ~ Gone(D(i))
      BY <1>0, <2>1, Devices DEF Types
    <3>3. \A o \in misc : o[1] = loads
      <4>1. CASE i = 0
        <5>1. \A o \in misc : ~ Gone(o)
          BY <1>0, <3>1, <4>1, Zenon DEF LeftBehind
        <5> QED
          BY <5>1 DEF Gone
      <4>2. CASE i /= 0
        <5>1. Made > 0 /\ state /= "out"
          BY <1>0, <2>1, <4>2 DEF Types
        <5> QED
          BY <1>0, <5>1, Zenon DEF LeftBehind
      <4> QED
        BY <4>1, <4>2
    <3>4. \A o \in misc' : o[1] = loads' /\ ~ Gone(o)'
      BY <2>1, <3>1, <3>2, <3>3 DEF Gone
    <3>5. \A o \in misc' : o[1] <= loads'
      BY <1>0, <3>1, <3>4 DEF Types
    <3> QED
      BY <3>4, <3>5, Zenon DEF LeftBehind
  <2> QED
    BY <2>2, <2>3
<1>4. ASSUME UNCHANGED <<state, loads, misc>>, events \subseteq events',
             state /= "out" => Made' = Made
      PROVE  LeftBehind'
  BY <1>0, <1>4 DEF LeftBehind, Gone
<1>5. CASE Link
  BY <1>4, <1>5 DEF Link, Made, objects
<1>6. CASE Prepare
  <2>1. at = "prepare" /\ misc' = misc
    BY <1>6 DEF Prepare
  <2>2. CASE InitFails
    <3>1. /\ state = "coming" /\ loads >= 1 /\ Made = i + 1 /\ Deregistered = 0
          /\ i < number_of_device
      BY <1>0, <2>1 DEF Place, Made, Deregistered
    <3>2. D(0) \in misc
      BY <1>0, <3>1 DEF Registered, Types
    <3> QED
      BY <1>0, <1>2, <2>1, <2>2, <3>1, <3>2 DEF Types
  <2>3. CASE ~ InitFails
    BY <1>4, <1>6, <2>1, <2>3 DEF Prepare, Made
  <2> QED
    BY <2>2, <2>3
<1>7. CASE InitReturns
  <2>1. /\ at = "register" /\ at' = "end" /\ state = "coming" /\ state' = "live"
        /\ UNCHANGED <<i, loads, misc, events>>
    BY <1>0, <1>7 DEF InitReturns, objects, Place
  <2> QED
    BY <1>0, <2>1 DEF LeftBehind, Made, Gone
<1>8. CASE Rmmod
  <2>1. /\ at = "end" /\ at' = "take" /\ state = "live" /\ state' = "going"
        /\ UNCHANGED <<i, loads, misc>>
    BY <1>0, <1>8 DEF Rmmod, objects, Place
  <2>2. events \subseteq events'
    BY <1>8, LoaderFrame DEF Loader
  <2> QED
    BY <1>0, <2>1, <2>2 DEF LeftBehind, Made, Gone
<1>9. CASE ExitTake \/ Free
  BY <1>4, <1>9 DEF ExitTake, Free, Made, objects
<1>10. CASE Deregister
  <2>1. /\ at = "deregister" /\ at' = "free" /\ state = "going" /\ loads >= 1
        /\ misc' = misc \ {device} /\ UNCHANGED <<state, i, loads, events>>
    BY <1>0, <1>10 DEF Deregister, Place
  <2>2. ~ Gone(device)
    <3>1. PICK k \in 0 .. i - 1 : device = D(k)
      BY <1>0, <2>1 DEF Place
    <3> QED
      BY <1>0, <2>1, <3>1, Devices DEF Types
  <2> QED
    BY <1>0, <2>1, <2>2 DEF LeftBehind, Made, Gone
<1>11. CASE ExitReturns
  <2>1. /\ at = "take" /\ temp = NULL /\ state = "going" /\ state' = "out"
        /\ UNCHANGED <<loads, misc, events>>
    BY <1>0, <1>11 DEF ExitReturns, objects, Place
  <2>2. Deregistered = i /\ Made = i
    BY <2>1 DEF Deregistered, Taken, Made
  <2>3. \A o \in misc : Gone(o)
    BY <1>0, <2>1, <2>2 DEF Types, Registered, Gone, D
  <2> QED
    BY <1>0, <2>1, <2>3 DEF LeftBehind, Gone
<1>12. CASE User
  BY <1>4, <1>12, UserFrame DEF Made
<1> QED
  BY <1>1, <1>3, <1>5, <1>6, <1>7, <1>8, <1>9, <1>10, <1>11, <1>12, Steps DEF Loader

LEMMA NoLeakStep ==
  ASSUME Inv, Next
  PROVE  NoLeak'
<1> USE ModuleAssumption
<1>0. /\ Types /\ Place /\ Registered /\ Memory /\ NoLeak
      /\ \A o \in complete \cup freed :
           o \in Objects /\ o = <<o[1], o[2]>> /\ o[2] \in 0 .. NumDevices - 1
  BY Pairs DEF Inv, Types
<1>1. CASE \E n \in 0 .. NumDevices : Insmod(n)
  <2>1. /\ loads' = loads + 1 /\ state = "out" /\ UNCHANGED <<complete, freed, events>>
    BY <1>1 DEF Insmod, objects
  <2>2. \A o \in complete \cup freed : o[1] <= loads'
    <3>1. \A o \in complete \cup freed : o[1] <= loads /\ o[1] \in 1 .. MaxLoads
      BY <1>0, Pairs DEF NoLeak
    <3> QED
      BY <1>0, <2>1, <3>1 DEF Types
  <2> QED
    BY <1>0, <2>1, <2>2 DEF NoLeak, Gone
<1>2. ASSUME InitFails, UNCHANGED <<complete, freed, misc>>, misc /= {}
      PROVE  NoLeak'
  BY <1>0, <1>2, FailedInit DEF NoLeak
<1>3. ASSUME UNCHANGED <<complete, loads>>, state = "out" <=> state' = "out",
             freed \subseteq freed', \A o \in freed' : o \in freed \/ o[1] <= loads,
             events \subseteq events'
      PROVE  NoLeak'
  BY <1>0, <1>3 DEF NoLeak, Gone
<1>4. CASE Register
  <2>1. /\ at = "register" /\ i < number_of_device /\ state = "coming" /\ loads >= 1
        /\ UNCHANGED <<complete, freed>>
    BY <1>0, <1>4 DEF Register, Place
  <2>2. CASE InitFails
    <3>1. misc' = misc
      BY <1>4, <2>2 DEF Register, InitFails
    <3>2. CASE misc = {}
      <4>1. i = 0
        <5>1. Deregistered = 0 /\ Made = i
          BY <2>1 DEF Deregistered, Made
        <5> QED
          BY <1>0, <2>1, <3>2, <5>1 DEF Types, Registered
      <4>2. \A o \in complete : Gone(o)
        BY <1>0, <2>1, <4>1 DEF Memory, Gone, D
      <4> QED
        BY <1>0, <2>1, <2>2, <4>2, FailedInit DEF NoLeak
    <3> QED
      BY <1>2, <2>1, <2>2, <3>1, <3>2
  <2>3. CASE ~ InitFails
    <3>1. UNCHANGED <<state, loads, events>>
      BY <1>4, <2>3 DEF Register
    <3> QED
      BY <1>3, <2>1, <3>1
  <2> QED
    BY <2>2, <2>3
<1>5. CASE Link
  BY <1>3, <1>5 DEF Link, objects
<1>6. CASE Prepare
  <2>1. /\ at = "prepare" /\ state = "coming" /\ loads >= 1 /\ i < number_of_device
        /\ device = D(i) /\ UNCHANGED <<freed, misc>>
    BY <1>0, <1>6 DEF Prepare, Place
  <2>2. CASE InitFails
    <3>1. Made = i + 1 /\ Deregistered = 0
      BY <2>1 DEF Made, Deregistered
    <3>2. D(0) \in misc
      BY <1>0, <2>1, <3>1 DEF Registered, Types
    <3>3. complete' = complete
      BY <1>6, <2>1, <2>2, FailedInit DEF Prepare
    <3> QED
      BY <1>2, <2>1, <2>2, <3>2, <3>3
  <2>3. CASE ~ InitFails
    <3>1. complete' = complete \cup {device} /\ UNCHANGED <<state, loads, events>>
      BY <1>6, <2>3 DEF Prepare
    <3>2. device[1] = loads /\ ~ Gone(device)
      BY <1>0, <2>1, Devices DEF Types
    <3>3. loads <= loads
      BY <1>0 DEF Types
    <3> QED
      BY <1>0, <2>1, <3>1, <3>2, <3>3 DEF NoLeak, Gone
  <2> QED
    BY <2>2, <2>3
<1>7. CASE InitReturns \/ Rmmod
  <2>1. /\ state \in {"coming", "live"} /\ state' \in {"live", "going"}
        /\ UNCHANGED <<loads, complete, freed>> /\ events \subseteq events'
    BY <1>0, <1>7, LoaderFrame DEF InitReturns, Rmmod, objects, Place, Loader
  <2> QED
    BY <1>3, <2>1
<1>8. CASE ExitTake \/ Deregister
  BY <1>3, <1>8 DEF ExitTake, Deregister, objects
<1>9. CASE Free
  <2>1. /\ at = "free" /\ state = "going" /\ loads >= 1
        /\ freed' = freed \cup {device} /\ UNCHANGED <<state, loads, complete, events>>
    BY <1>0, <1>9 DEF Free, Place
  <2>2. PICK k \in 0 .. i - 1 : device = D(k)
    BY <1>0, <2>1 DEF Place
  <2>3. device[1] <= loads
    BY <1>0, <2>1, <2>2, Devices DEF Types
  <2> QED
    BY <1>3, <2>1, <2>3
<1>10. CASE ExitReturns
  <2>1. /\ at = "take" /\ temp = NULL /\ state = "going" /\ state' = "out"
        /\ UNCHANGED <<loads, complete, freed, events>>
    BY <1>0, <1>10 DEF ExitReturns, objects, Place
  <2>2. Freed = i
    BY <2>1 DEF Freed, Taken
  <2>3. \A o \in complete : Gone(o) \/ o \in freed
    BY <1>0, <2>1, <2>2 DEF Types, Memory, Gone, D
  <2> QED
    BY <1>0, <2>1, <2>3 DEF NoLeak
<1>11. CASE User
  BY <1>3, <1>11, UserFrame
<1> QED
  BY <1>1, <1>4, <1>5, <1>6, <1>7, <1>8, <1>9, <1>10, <1>11, Steps DEF Loader

\* The loader finds the devices in use excused, and leaves them so.
LEMMA LoaderExcuses ==
  ASSUME Inv, Loader, NEW o \in Objects, Used(o)
  PROVE  Excused(o)'
<1> USE ModuleAssumption
<1>0. /\ Types /\ Place /\ Excused(o) /\ o[1] \in 1 .. MaxLoads
      /\ o[2] \in 0 .. NumDevices - 1 /\ o = <<o[1], o[2]>>
  BY Pairs DEF Inv, UsedOK
<1>1. events \subseteq events' /\ (ExitCause => ExitCause')
  BY LoaderFrame DEF ExitCause
<1>2. ASSUME UNCHANGED <<state, loads, freed>>, misc \subseteq misc',
             complete \subseteq complete'
      PROVE  Excused(o)'
  BY <1>0, <1>1, <1>2 DEF Excused, Gone
<1>3. ASSUME state = "coming", InitFails, UNCHANGED <<misc, freed, complete>>
      PROVE  Excused(o)'
  <2>1. o[1] = loads => o \in misc
    BY <1>0, <1>3 DEF Excused
  <2>2. Gone(o) \/ o \in misc
    BY <1>3, <2>1 DEF Gone
  <2>3. ExitCause' \/ "init failed" \in events'
    BY <1>0, <1>1, <1>3, <2>2, FailedInit DEF Excused
  <2> QED
    BY <1>0, <1>1, <1>3, <2>3, FailedInit DEF Excused, ExitCause
<1>4. CASE \E n \in 0 .. NumDevices : Insmod(n)
  <2>1. /\ state = "out" /\ state' = "coming" /\ loads' = loads + 1
        /\ UNCHANGED <<misc, freed, complete, events>>
    BY <1>4 DEF Insmod, objects
  <2>2. o[1] <= loads
    BY <1>0, Zenon DEF Excused
  <2>3. o[1] <= loads' /\ o[1] /= loads'
    BY <1>0, <2>1, <2>2 DEF Types
  <2> QED
    BY <1>0, <2>1, <2>3 DEF Excused, ExitCause, Gone
<1>5. CASE Register
  <2>1. state = "coming" /\ UNCHANGED <<freed, complete>>
    BY <1>0, <1>5 DEF Register, Place
  <2>2. CASE InitFails
    <3>1. misc' = misc
      BY <1>5, <2>2, FailedInit DEF Register
    <3> QED
      BY <1>3, <2>1, <2>2, <3>1
  <2> QED
    BY <1>2, <1>3, <1>5, <2>1, <2>2 DEF Register
<1>6. CASE Link
  BY <1>2, <1>6 DEF Link, objects
<1>7. CASE Prepare
  <2>1. state = "coming" /\ UNCHANGED <<freed, misc>>
    BY <1>0, <1>7 DEF Prepare, Place
  <2>2. CASE InitFails
    <3>1. complete' = complete
      BY <1>7, <2>2, FailedInit DEF Prepare
    <3> QED
      BY <1>3, <2>1, <2>2, <3>1
  <2> QED
    BY <1>2, <1>7, <2>1, <2>2 DEF Prepare
<1>8. CASE InitReturns
  <2>1. /\ state = "coming" /\ state' = "live"
        /\ UNCHANGED <<loads, misc, freed, complete, events>>
    BY <1>0, <1>8 DEF InitReturns, Place, objects
  <2> QED
    BY <1>0, <2>1 DEF Excused, ExitCause, Gone
<1>9. CASE Rmmod
  <2>1. /\ state' = "going" /\ UNCHANGED <<loads, misc, freed, complete>>
        /\ state = "live"
    BY <1>9 DEF Rmmod, objects
  <2>2. InUse
    <3>1. CASE open.by /= "nobody"
      BY <3>1 DEF InUse, NoOpen
    <3> QED
      BY <3>1, Pairs DEF Used, InUse
  <2>3. ExitCause'
    BY <1>9, <2>2 DEF Rmmod, ExitCause
  <2> QED
    BY <1>0, <1>1, <2>1, <2>3 DEF Excused
<1>10. CASE ExitTake
  BY <1>2, <1>10 DEF ExitTake, objects
<1>11. CASE Deregister
  <2>1. state = "going" /\ UNCHANGED <<state, loads, freed, complete, events>>
    BY <1>0, <1>11 DEF Deregister, Place
  <2> QED
    BY <1>0, <2>1 DEF Excused, ExitCause, Gone
<1>12. CASE Free
  <2>1. /\ state = "going" /\ freed' = freed \cup {device} /\ loads >= 1
        /\ UNCHANGED <<state, loads, misc, complete, events>>
        /\ \E k \in 0 .. i - 1 : device = D(k)
    BY <1>0, <1>12 DEF Free, Place
  <2>2. device[1] = loads
    BY <1>0, <2>1, Devices DEF Types
  <2> QED
    BY <1>0, <2>1, <2>2 DEF Excused, ExitCause, Gone
<1>13. CASE ExitReturns
  <2>1. /\ state = "going" /\ state' = "out"
        /\ UNCHANGED <<loads, misc, freed, complete, events>>
    BY <1>0, <1>13 DEF ExitReturns, Place, objects
  <2> QED
    BY <1>0, <2>1 DEF Excused, ExitCause, Gone
<1> QED
  BY <1>4, <1>5, <1>6, <1>7, <1>8, <1>9, <1>10, <1>11, <1>12, <1>13 DEF Loader

\* Programs come to use a device only by opening it.
LEMMA UserUses ==
  ASSUME Inv, User, NEW o \in Objects, Used(o)'
  PROVE  \/ Used(o)
         \/ \E p \in Programs :
              /\ OpenBegin(p, o) /\ o \in misc /\ ~ Gone(o)
              /\ open' = [by |-> p, asked |-> o, temp |-> HEAD,
                          linked |-> at /= "link" \/ o /= device]
<1> USE Pairs
<1>0. Types
  BY DEF Inv
<1>1. CASE \E p \in Programs, d \in misc : OpenBegin(p, d)
  <2>1. PICK p \in Programs, d \in misc : OpenBegin(p, d)
    BY <1>1
  <2>2. UNCHANGED <<file, sampling>>
    BY <2>1 DEF OpenBegin
  <2>3. CASE Gone(d)
    BY <2>1, <2>2, <2>3 DEF OpenBegin, Used
  <2>4. CASE ~ Gone(d)
    <3>1. open' = [by |-> p, asked |-> d, temp |-> HEAD,
                   linked |-> at /= "link" \/ d /= device]
      BY <2>1, <2>4, Zenon DEF OpenBegin
    <3>2. Used(o) \/ d = o
      BY <2>2, <3>1 DEF Used
    <3> QED
      BY <2>1, <2>4, <3>1, <3>2
  <2> QED
    BY <2>3, <2>4
<1>2. CASE OpenWalk
  <2>1. UNCHANGED <<file, sampling>>
    BY <1>2 DEF OpenWalk
  <2>2. open' = open \/ open' = [open EXCEPT !.temp = next[@]]
    BY <1>2 DEF OpenWalk
  <2>3. open'.asked = open.asked /\ open.by /= "nobody"
    BY <1>2, <2>2 DEF OpenWalk, MiscFree
  <2> QED
    BY <2>1, <2>3 DEF Used
<1>3. CASE OpenEnd
  <2>1. CASE fault' = "none"
    <3>1. /\ file' = [file EXCEPT ![open.by] = open.temp] /\ open' = NoOpen
          /\ sampling' = sampling /\ open.by /= "nobody" /\ open.by \in Programs
          /\ open.temp \in {NULL, open.asked}
      BY <1>0, <1>3, <2>1 DEF OpenEnd, MiscFree, Types
    <3> QED
      BY <1>0, <3>1 DEF Types, Used, NoOpen
  <2>2. CASE fault' /= "none"
    BY <1>3, <2>2 DEF OpenEnd, Used
  <2> QED
    BY <2>1, <2>2
<1>4. CASE \E p \in Programs : Call(p)
  <2>1. PICK p \in Programs : Call(p)
    BY <1>4
  <2>2. UNCHANGED <<open, file>> /\ sampling' \subseteq sampling \cup {file[p]}
    BY <2>1 DEF Call
  <2> QED
    BY <2>2 DEF Used
<1>5. CASE \E p \in Programs : ReadReturns(p)
  BY <1>5 DEF ReadReturns, Used
<1>6. CASE \E p \in Programs : Close(p)
  <2>1. PICK p \in Programs : Close(p)
    BY <1>6
  <2>2. UNCHANGED <<open, sampling>> /\ file' = [file EXCEPT ![p] = NULL]
    BY <2>1 DEF Close
  <2> QED
    BY <1>0, <2>2 DEF Types, Used
<1>7. CASE \E d \in sampling : ThreadEnds(d)
  BY <1>7 DEF ThreadEnds, Used
<1> QED
  BY <1>1, <1>2, <1>3, <1>4, <1>5, <1>6, <1>7 DEF User, device_open, Program

\* What can be opened: a device that is made and not destroyed.
LEMMA Openable ==
  ASSUME Inv, NEW o \in misc, ~ Gone(o)
  PROVE  /\ o \in Objects /\ o = D(o[2]) /\ o[1] = loads /\ loads >= 1
         /\ state /= "out" /\ o[2] \in 0 .. NumDevices - 1
         /\ o \notin freed /\ o[2] < Made
         /\ o \in complete \/ state = "coming"
<1> USE ModuleAssumption
<1>0. /\ Types /\ Place /\ o \in Objects /\ o = <<o[1], o[2]>> /\ o[1] = loads
      /\ loads >= 1 /\ state /= "out" /\ o[2] \in 0 .. NumDevices - 1
  BY Pairs DEF Inv, Types, Gone
<1>1. o = D(o[2]) /\ Deregistered <= o[2] /\ o[2] < Made
  BY <1>0 DEF Inv, Registered, D
<1>2. (o \in complete <=> o[2] < i) /\ (o \in freed <=> o[2] < Freed)
  BY <1>0 DEF Inv, Memory, D
<1>3. Freed \in Nat /\ Deregistered \in Nat /\ Freed <= Deregistered
  <2>1. CASE at = "take"
    <3>1. Taken \in Nat
      BY <1>0, Pairs DEF Types, Taken
    <3> QED
      BY <2>1, <3>1 DEF Freed, Deregistered
  <2>2. CASE at \in {"deregister", "free"}
    <3>1. device[2] \in Nat
      BY <1>0, <2>2, Pairs, Devices DEF Place, Types
    <3> QED
      BY <2>2, <3>1 DEF Freed, Deregistered
  <2>3. CASE at \notin {"take", "deregister", "free"}
    BY <2>3 DEF Freed, Deregistered
  <2> QED
    BY <2>1, <2>2, <2>3
<1>4. o \notin freed
  BY <1>0, <1>1, <1>2, <1>3
<1>5. state /= "coming" => Made = i
  BY <1>0 DEF Place, Made
<1> QED
  BY <1>0, <1>1, <1>2, <1>4, <1>5

LEMMA UsedStep ==
  ASSUME Inv, Next
  PROVE  UsedOK'
<1> SUFFICES ASSUME NEW o \in Objects, Used(o)' PROVE Excused(o)'
  BY DEF UsedOK
<1>1. CASE Loader
  <2>1. Used(o)
    BY <1>1, LoaderFrame DEF Used
  <2> QED
    BY <1>1, <2>1, LoaderExcuses
<1>2. CASE User
  <2>1. /\ UNCHANGED <<state, loads, complete, freed, misc>> /\ events \subseteq events'
    BY <1>2, UserFrame
  <2>2. CASE Used(o)
    BY <2>1, <2>2 DEF Inv, UsedOK, Excused, ExitCause, Gone
  <2>3. CASE ~ Used(o)
    <3>1. PICK p \in Programs : OpenBegin(p, o) /\ o \in misc /\ ~ Gone(o)
      BY <1>2, <2>3, UserUses
    <3>2. /\ state = "coming" => "open in init" \in events'
          /\ state = "going" => ExitCause'
      BY <3>1 DEF OpenBegin, ExitCause
    <3>3. o[1] <= loads
      BY <3>1 DEF Inv, LeftBehind
    <3> QED
      BY <2>1, <3>1, <3>2, <3>3, Openable DEF Excused, Gone
  <2> QED
    BY <2>2, <2>3
<1> QED
  BY <1>1, <1>2, Steps

LEMMA LinkedGrows ==
  ASSUME Inv, Loader, state /= "out", state' /= "out"
  PROVE  loads' = loads /\ Linked \in Nat /\ Linked' \in Nat /\ Linked <= Linked'
<1> USE ModuleAssumption
<1>0. Types /\ Place
  BY DEF Inv
<1>1. CASE \E n \in 0 .. NumDevices : Insmod(n)
  BY <1>1 DEF Insmod
<1>2. CASE Register
  <2>1. ~ InitFails
    BY FailedInit
  <2> QED
    BY <1>0, <1>2, <2>1 DEF Register, Linked, Types
<1>3. CASE Link
  BY <1>0, <1>3 DEF Link, Linked, Types
<1>4. CASE Prepare
  <2>1. ~ InitFails
    BY FailedInit
  <2> QED
    BY <1>0, <1>4, <2>1 DEF Prepare, Linked, Types
<1>5. CASE InitReturns \/ Rmmod \/ ExitTake \/ Deregister \/ Free \/ ExitReturns
  <2>1. UNCHANGED <<i, loads>> /\ at /= "prepare" /\ at' /= "prepare"
    BY <1>0, <1>5 DEF InitReturns, Rmmod, ExitTake, Deregister, Free, ExitReturns, Place
  <2> QED
    BY <1>0, <2>1 DEF Linked, Types
<1> QED
  BY <1>1, <1>2, <1>3, <1>4, <1>5 DEF Loader

\* The loader does not disturb a device_open on its way.
LEMMA LoaderWalk ==
  ASSUME Inv, Loader
  PROVE  Walk'
<1> USE ModuleAssumption
<1>0. Types /\ Place /\ Walk /\ UsedOK
  BY DEF Inv
<1> SUFFICES ASSUME open.by /= "nobody" PROVE Walk'
  BY LoaderFrame DEF Walk
<1>1. open' = open /\ (ExitCause => ExitCause') /\ open.asked \in Objects
  BY <1>0, LoaderFrame DEF ExitCause, Walk
<1>2. Used(open.asked) /\ Excused(open.asked) /\ Excused(open.asked)'
  BY <1>0, <1>1, LoaderExcuses DEF Used, UsedOK
<1>3. open.temp \in freed' => ExitCause'
  <2>1. CASE Free
    <3>1. /\ state = "going" /\ loads >= 1 /\ freed' = freed \cup {device}
          /\ \E k \in 0 .. i - 1 : device = D(k)
      BY <1>0, <2>1 DEF Free, Place
    <3>2. device[1] = loads /\ device /= NULL
      BY <1>0, <3>1, Devices DEF Types
    <3>3. open.temp = device => ExitCause
      BY <1>0, <1>2, <3>1, <3>2 DEF Walk, Excused
    <3> QED
      BY <1>0, <1>1, <3>1, <3>3 DEF Walk
  <2>2. CASE ~ Free
    <3>1. freed' = freed
      BY <2>2 DEF Loader, Insmod, Register, Link, Prepare, InitReturns, Rmmod,
         ExitTake, Deregister, ExitReturns, objects
    <3> QED
      BY <1>0, <1>1, <3>1 DEF Walk
  <2> QED
    BY <2>1, <2>2
<1>4. CASE state' = "out"
  BY <1>0, <1>1, <1>3, <1>4 DEF Walk
<1>5. CASE state = "out"
  <2>1. loads' = loads + 1
    BY <1>0, <1>5 DEF Loader, Insmod, Register, Link, Prepare, InitReturns, Rmmod,
       ExitTake, Deregister, Free, ExitReturns, Place
  <2>2. open.asked[1] <= loads /\ open.asked[1] \in Nat
    <3>1. open.asked[1] \in 1 .. MaxLoads
      BY <1>1, Pairs
    <3>2. open.asked[1] <= loads
      BY <1>2, Zenon DEF Excused
    <3> QED
      BY <3>1, <3>2
  <2>3. open.asked[1] /= loads'
    BY <1>0, <2>1, <2>2 DEF Types
  <2> QED
    BY <1>0, <1>1, <1>3, <2>3 DEF Walk
<1>6. CASE state /= "out" /\ state' /= "out"
  <2>1. /\ loads' = loads /\ Linked \in Nat /\ Linked' \in Nat /\ Linked <= Linked'
        /\ open.asked[2] \in Int /\ (open.temp /= NULL => open.temp[2] \in Int)
    BY <1>0, <1>1, <1>6, LinkedGrows, Pairs DEF Types
  <2>2. \A x \in Int : x < Linked => x < Linked'
    BY <2>1
  <2> QED
    BY <1>0, <1>1, <1>3, <1>6, <2>1, <2>2 DEF Walk
<1> QED
  BY <1>4, <1>5, <1>6

LEMMA WalkStep ==
  ASSUME Inv, Next
  PROVE  Walk' /\ (open.by = "nobody" => ~ open.linked)'
<1> USE ModuleAssumption
<1>0. Types /\ Place /\ Walk /\ UsedOK /\ ListInOrder /\ Memory
      /\ (open.by = "nobody" => ~ open.linked)
  BY DEF Inv
<1>1. CASE Loader
  BY <1>0, <1>1, LoaderWalk, LoaderFrame
<1>2. ASSUME User, open' = open
      PROVE  Walk' /\ (open.by = "nobody" => ~ open.linked)'
  BY <1>0, <1>2, UserFrame DEF Walk, ExitCause, Linked
<1>3. CASE \E p \in Programs, o \in misc : OpenBegin(p, o)
  <2>1. PICK p \in Programs, o \in misc : OpenBegin(p, o)
    BY <1>3
  <2>2. User
    BY <2>1 DEF User, Program
  <2>3. CASE Gone(o)
    BY <1>2, <2>1, <2>2, <2>3 DEF OpenBegin
  <2>4. CASE ~ Gone(o)
    <3>1. /\ open'.by = p /\ open'.asked = o /\ open'.temp = HEAD
          /\ open'.linked = (at /= "link" \/ o /= device)
      <4>1. open' = [by |-> p, asked |-> o, temp |-> HEAD,
                     linked |-> at /= "link" \/ o /= device]
        BY <2>1, <2>4, Zenon DEF OpenBegin
      <4> QED
        BY <4>1
    <3>2. UNCHANGED <<state, at, i, loads, freed>> /\ (state = "going" => ExitCause')
      BY <2>1, <2>2, UserFrame DEF OpenBegin, ExitCause
    <3>3. /\ o \in Objects /\ o = D(o[2]) /\ o[1] = loads /\ loads >= 1
          /\ state /= "out" /\ o[2] \in 0 .. NumDevices - 1 /\ o[2] < Made
      BY <2>4, Openable
    <3>4. /\ HEAD = (IF Linked = 0 THEN NULL ELSE D(0)) /\ Linked \in Nat
          /\ D(0) /= NULL /\ D(0)[1] = loads /\ D(0)[2] = 0
          /\ (D(0) \in freed <=> 0 < Freed)
      BY <1>0, <3>3, Devices DEF ListInOrder, Linked, Types, Memory
    <3>5. 0 < Freed => state = "going"
      BY <1>0, <3>3 DEF Freed, Place
    <3>6. open'.linked => o[2] < Linked
      <4>1. at /= "link" => Linked = Made
        BY DEF Linked, Made
      <4>2. CASE at = "link" /\ o /= device
        <5>1. o[2] /= i /\ Made = i + 1 /\ Linked = i
          BY <1>0, <3>3, <4>2 DEF Place, Made, Linked
        <5> QED
          BY <1>0, <3>3, <5>1 DEF Types
      <4> QED
        BY <3>1, <3>3, <4>1, <4>2
    <3>7. open'.temp \in freed' => ExitCause'
      BY <1>0, <3>1, <3>2, <3>4, <3>5, Pairs DEF Types
    <3>8. Linked' = Linked
      BY <3>2 DEF Linked
    <3>9. open'.temp /= NULL => open'.temp[1] = loads /\ open'.temp[2] = 0 /\ 0 < Linked
      BY <3>1, <3>4
    <3>10. open'.linked => open'.temp /= NULL /\ 0 <= o[2]
      BY <3>1, <3>3, <3>4, <3>6
    <3>11. p /= "nobody"
      OBVIOUS
    <3> QED
      BY <3>1, <3>2, <3>3, <3>6, <3>7, <3>8, <3>9, <3>10, <3>11 DEF Walk
  <2> QED
    BY <2>3, <2>4
<1>4. CASE OpenWalk
  <2>1. User /\ open.by /= "nobody" /\ open.temp /= NULL /\ open.temp /= open.asked
    BY <1>4 DEF User, device_open, OpenWalk, MiscFree
  <2>2. CASE open' = open
    BY <1>2, <2>1, <2>2
  <2>3. CASE open' /= open
    <3>1. open' = [open EXCEPT !.temp = next[@]] /\ Fault(open.temp) = "none"
      BY <1>4, <2>3 DEF OpenWalk
    <3>2. /\ open'.by = open.by /\ open'.asked = open.asked
          /\ open'.linked = open.linked /\ open'.temp = next[open.temp]
      BY <3>1
    <3>3. state /= "out" /\ open.temp[1] = loads /\ open.temp \notin freed
      BY <3>1 DEF Fault, Gone
    <3>4. UNCHANGED <<state, at, i, loads, freed>> /\ (ExitCause => ExitCause')
      BY <2>1, UserFrame DEF ExitCause
    <3>5. /\ open.asked \in Objects /\ open.asked[1] = loads /\ open.temp[2] < Linked
          /\ (open.linked => open.temp[2] <= open.asked[2] /\ open.asked[2] < Linked)
      BY <1>0, <2>1, <3>3 DEF Walk
    <3>6. /\ open.temp = D(open.temp[2]) /\ open.temp[2] \in 0 .. NumDevices - 1
          /\ open.asked = D(open.asked[2]) /\ open.asked[2] \in 0 .. NumDevices - 1
          /\ loads >= 1
      BY <1>0, <2>1, <3>3, <3>5, Pairs DEF Types, D
    <3> DEFINE j == open.temp[2]
    <3>7. next[open.temp] = (IF j + 1 < Linked THEN D(j + 1) ELSE NULL)
      <4>1. j \in 0 .. Linked - 1
        BY <1>0, <3>5, <3>6 DEF Types, Linked
      <4> HIDE DEF j
      <4> QED
        BY <1>0, <3>3, <3>6, <4>1 DEF ListInOrder, j
    <3>8. Linked \in Nat /\ Linked <= NumDevices /\ Linked' = Linked
      BY <1>0, <3>3, <3>4 DEF Types, Linked, Place
    <3>9. j + 1 < Linked =>
            /\ D(j + 1) /= NULL /\ D(j + 1)[1] = loads /\ D(j + 1)[2] = j + 1
            /\ (D(j + 1) \in freed => state = "going")
      <4>1. j + 1 < Linked => j + 1 \in 0 .. NumDevices - 1
        BY <3>6, <3>8
      <4>2. 0 < Freed => state = "going"
        BY <1>0, <3>3 DEF Freed, Place
      <4>3. ASSUME j + 1 < Linked, D(j + 1) \in freed
            PROVE  state = "going"
        <5>1. j + 1 < Freed
          BY <1>0, <3>3, <4>1, <4>3 DEF Memory
        <5>2. at \in {"take", "deregister", "free"}
          BY <3>6, <5>1 DEF Freed
        <5> QED
          BY <1>0, <5>2 DEF Place
      <4> QED
        BY <1>0, <3>6, <4>1, <4>3, Devices
    <3>10. state = "going" => ExitCause
      BY <1>0, <2>1, <3>5 DEF UsedOK, Used, Excused
    <3>11. NULL \notin freed
      BY <1>0, Pairs DEF Types
    <3>12. open.linked => j + 1 < Linked /\ j + 1 <= open.asked[2]
      BY <2>1, <3>5, <3>6, <3>8
    <3> HIDE DEF j
    <3> QED
      BY <2>1, <3>2, <3>3, <3>4, <3>5, <3>7, <3>8, <3>9, <3>10, <3>11, <3>12 DEF Walk
  <2> QED
    BY <2>2, <2>3
<1>5. CASE OpenEnd
  <2>1. CASE open' = open
    BY <1>2, <1>5, <2>1 DEF User, device_open
  <2>2. CASE open' /= open
    BY <1>5, <2>2 DEF OpenEnd, NoOpen, Walk
  <2> QED
    BY <2>1, <2>2
<1>6. CASE \/ \E p \in Programs : Call(p) \/ ReadReturns(p) \/ Close(p)
           \/ \E o \in sampling : ThreadEnds(o)
  BY <1>2, <1>6 DEF Call, ReadReturns, Close, ThreadEnds, User, Program
<1> QED
  BY <1>1, <1>3, <1>4, <1>5, <1>6, Steps DEF User, device_open, Program

LEMMA InvStep == Inv /\ [Next]_vars => Inv'
<1> SUFFICES ASSUME Inv, [Next]_vars PROVE Inv'
  OBVIOUS
<1>1. CASE Next
  <2>1. Types' /\ Place' /\ ListInOrder' /\ Registered'
    BY <1>1, TypesStep, PlaceStep, ListStep, RegisteredStep
  <2>2. LeftBehind' /\ Memory' /\ NoLeak' /\ UsedOK'
    BY <1>1, LeftBehindStep, MemoryStep, NoLeakStep, UsedStep
  <2>3. Walk' /\ (open.by = "nobody" => ~ open.linked)'
    BY <1>1, WalkStep
  <2> QED
    BY <2>1, <2>2, <2>3 DEF Inv
<1>2. CASE UNCHANGED vars
  <2>1. UNCHANGED <<state, number_of_device, at, i, temp, device, HEAD, next, complete,
                    freed, misc, open, file, reading, sampling, fault, loads, events>>
    BY <1>2 DEF vars, init, list, objects, users
  <2>2. Types' /\ Place' /\ ListInOrder'
    BY <2>1 DEF Inv, Types, Place, ListInOrder, Linked, D
  <2>3. Registered' /\ LeftBehind' /\ Memory' /\ NoLeak'
    BY <2>1 DEF Inv, Registered, LeftBehind, Memory, NoLeak, Deregistered, Made, Freed,
       Taken, Gone, D
  <2>4. UsedOK' /\ Walk' /\ (open.by = "nobody" => ~ open.linked)'
    BY <2>1 DEF Inv, UsedOK, Used, Excused, Walk, ExitCause, Linked, Gone
  <2> QED
    BY <2>2, <2>3, <2>4 DEF Inv
<1> QED
  BY <1>1, <1>2

\* The inductive invariant: where the loader is says which devices are registered, in
\* the list, ready and freed, and why a device in use may no longer be there.
THEOREM Invariant == Spec => []Inv
BY InitInv, InvStep, PTL DEF Spec

-----------------------------------------------------------------------------
(* What follows from them.                                                   *)

Events ==
  events \subseteq {"init failed", "open in init", "open in exit", "exit in use"}

LEMMA EventsStep == Events /\ [Next]_vars => Events'
BY DEF Events, Next, Loader, Insmod, Register, InitFails, Link, Prepare, InitReturns, Rmmod,
   ExitTake, Deregister, Free, ExitReturns, device_open, OpenWalk, OpenEnd, Program,
   OpenBegin, Call, ReadReturns, Close, ThreadEnds, vars

\* The type invariant.
THEOREM TypeCorrect == Spec => []TypeOK
<1>1. Init => Events
  BY DEF Init, Events
<1>2. Spec => []Events
  BY <1>1, EventsStep, PTL DEF Spec
<1>3. Inv /\ Events => TypeOK
  <2> SUFFICES ASSUME Inv, Events PROVE TypeOK
    OBVIOUS
  <2>1. /\ state \in {"out", "coming", "live", "going"}
        /\ at \in {"register", "link", "prepare", "take", "deregister", "free", "end"}
    BY DEF Inv, Place
  <2> QED
    BY <2>1, Zenon DEF Inv, Types, Events, TypeOK
<1> QED
  BY <1>2, <1>3, Invariant, PTL

\* When insmod has succeeded, the registered devices are its own, complete and in
\* the list in order: init_gpio_module's misc_register refuses the first name when
\* an earlier insmod has left a device behind.
THEOREM LiveWhole == Spec => []LiveIsWhole
<1>1. Inv => LiveIsWhole
  <2> USE ModuleAssumption
  <2> SUFFICES ASSUME Inv, state = "live", number_of_device > 0
               PROVE  LiveIsWhole
    BY DEF LiveIsWhole
  <2>1. /\ Types /\ at = "end" /\ i = number_of_device /\ loads >= 1
        /\ Linked = i /\ Made = i /\ Deregistered = 0 /\ Freed = 0
    BY DEF Inv, Place, Linked, Made, Deregistered, Freed
  <2>2. \A k \in 0 .. NumDevices - 1 :
          /\ D(k) \in misc <=> k < i
          /\ D(k) \in complete <=> k < i
          /\ D(k) \notin freed
    BY <2>1 DEF Inv, Registered, Memory
  <2>3. \A o \in misc : o = D(o[2]) /\ o[2] \in 0 .. NumDevices - 1
    <3>1. Made > 0 /\ state /= "out"
      BY <2>1
    <3>2. \A o \in misc : o \in Objects /\ o[1] = loads
      BY <2>1, <3>1, Zenon DEF Inv, LeftBehind, Types
    <3> QED
      BY <3>2, Pairs DEF D
  <2>4. misc = {D(k) : k \in 0 .. number_of_device - 1}
    BY <2>1, <2>2, <2>3 DEF Types
  <2>5. misc \subseteq complete \ freed
    BY <2>2, <2>3
  <2>6. HEAD = D(0)
    BY <2>1 DEF Inv, ListInOrder
  <2>7. \A k \in 0 .. number_of_device - 1 :
          next[D(k)] = IF k + 1 < number_of_device THEN D(k + 1) ELSE NULL
    BY <2>1 DEF Inv, ListInOrder
  <2> DEFINE Of(k) == IF k < number_of_device THEN <<loads, k>> ELSE NULL
  <2>8. /\ \A k \in 0 .. number_of_device - 1 : Of(k) = D(k)
        /\ \A k \in 0 .. number_of_device - 1 :
             Of(k + 1) = IF k + 1 < number_of_device THEN D(k + 1) ELSE NULL
        /\ 0 \in 0 .. number_of_device - 1
    BY <2>1 DEF Types, D
  <2> HIDE DEF Of
  <2>9. /\ misc = {Of(k) : k \in 0 .. number_of_device - 1} /\ HEAD = Of(0)
        /\ \A k \in 0 .. number_of_device - 1 : next[Of(k)] = Of(k + 1)
    BY <2>4, <2>6, <2>7, <2>8
  <2> QED
    BY <2>5, <2>9 DEF LiveIsWhole, Of
<1> QED
  BY <1>1, Invariant, PTL

\* device_open reaches every device of the list, although the list grows behind it
\* and its devices are freed.
THEOREM FindsLinked == Spec => []OpenFindsLinked
<1>1. Inv => OpenFindsLinked
  BY DEF Inv, Types, Walk, OpenFindsLinked
<1> QED
  BY <1>1, Invariant, PTL

\* exit_gpio_driver leaves no device of its module.
THEOREM NothingLeft == Spec => []ExitLeavesNothing
<1>1. Inv => ExitLeavesNothing
  BY DEF Inv, LeftBehind, NoLeak, Gone, ExitLeavesNothing
<1> QED
  BY <1>1, Invariant, PTL

\* What each step may use.
LEMMA FaultStep ==
  ASSUME Inv, FaultsHaveCause, Next
  PROVE  FaultsHaveCause'
<1>0. Types /\ UsedOK /\ Walk
  BY DEF Inv
<1>1. events \subseteq events' /\ (ExitCause => ExitCause')
  BY Steps, UserFrame, LoaderFrame DEF ExitCause
<1>2. CASE fault' = "none"
  BY <1>2 DEF FaultsHaveCause
<1>3. ASSUME NEW o \in Objects, Used(o), fault' = Fault(o)
      PROVE  FaultsHaveCause'
  BY <1>0, <1>1, <1>3 DEF UsedOK, Excused, Fault, FaultsHaveCause, ExitCause
<1>4. CASE Loader
  <2>1. CASE ExitTake
    <3>1. fault = "none" /\ fault' \in {fault, "freed"}
      BY <2>1 DEF Next, ExitTake
    <3>2. temp \notin freed
      BY <2>1, TakenNotFreed
    <3> QED
      BY <1>2, <2>1, <3>1, <3>2 DEF ExitTake
  <2>2. CASE ~ ExitTake
    <3>1. fault' = fault /\ fault = "none"
      BY <1>4, <2>2 DEF Next, Loader, Insmod, Register, Link, Prepare, InitReturns, Rmmod,
         Deregister, Free, ExitReturns
    <3> QED
      BY <1>2, <3>1
  <2> QED
    BY <2>1, <2>2
<1>5. CASE \E p \in Programs, o \in misc : OpenBegin(p, o)
  <2>1. PICK p \in Programs, o \in misc : OpenBegin(p, o)
    BY <1>5
  <2>2. CASE Gone(o)
    <3>1. "init failed" \in events /\ fault' = "gone"
      BY <2>1, <2>2 DEF Inv, LeftBehind, OpenBegin
    <3> QED
      BY <1>1, <3>1 DEF FaultsHaveCause
  <2>3. CASE ~ Gone(o)
    <3>1. fault' = "none"
      BY <2>1, <2>3 DEF Next, OpenBegin
    <3> QED
      BY <1>2, <3>1
  <2> QED
    BY <2>2, <2>3
<1>6. CASE OpenWalk
  <2>1. /\ open.by /= "nobody" /\ open.temp /= NULL /\ open.asked \in Objects
        /\ fault' = Fault(open.temp)
    BY <1>0, <1>6 DEF OpenWalk, MiscFree, Walk
  <2>2. /\ open.temp[1] = open.asked[1] /\ (open.temp \in freed => ExitCause)
        /\ Excused(open.asked)
    BY <1>0, <2>1 DEF Walk, UsedOK, Used
  <2>3. Gone(open.temp) => ExitCause \/ "init failed" \in events
    BY <2>2 DEF Gone, Excused
  <2> QED
    BY <1>1, <2>1, <2>2, <2>3 DEF Fault, FaultsHaveCause, ExitCause
<1>7. CASE OpenEnd
  <2>1. /\ open.by /= "nobody" /\ open.asked \in Objects /\ fault' = Fault(open.asked)
    BY <1>0, <1>7 DEF OpenEnd, MiscFree, Walk
  <2> QED
    BY <1>3, <2>1 DEF Used
<1>8. CASE \E p \in Programs : Call(p)
  <2>1. PICK p \in Programs : Call(p)
    BY <1>8
  <2>2. /\ file[p] \in Objects /\ Used(file[p])
        /\ fault' = IF Fault(file[p]) = "none" /\ file[p] \notin complete
                    THEN "unready" ELSE Fault(file[p])
    BY <1>0, <2>1 DEF Types, Call, Used
  <2>3. CASE fault' = Fault(file[p])
    BY <1>3, <2>2, <2>3
  <2>4. CASE fault' = "unready" /\ file[p] \notin complete
    BY <1>0, <1>1, <2>2, <2>4 DEF UsedOK, Excused, FaultsHaveCause
  <2> QED
    BY <2>2, <2>3, <2>4
<1>9. CASE \E p \in Programs : ReadReturns(p)
  <2>1. PICK p \in Programs : ReadReturns(p)
    BY <1>9
  <2>2. file[p] \in Objects /\ Used(file[p]) /\ fault' = Fault(file[p])
    BY <1>0, <2>1 DEF Types, ReadReturns, Used
  <2> QED
    BY <1>3, <2>2
<1>10. CASE \E p \in Programs : Close(p)
  <2>1. PICK p \in Programs : Close(p)
    BY <1>10
  <2>2. /\ file[p] \in Objects /\ Used(file[p])
        /\ fault' = IF Gone(file[p]) THEN "gone" ELSE "none"
    BY <1>0, <2>1 DEF Types, Close, Used
  <2> QED
    BY <1>0, <1>1, <2>2 DEF UsedOK, Excused, FaultsHaveCause, ExitCause
<1>11. CASE \E o \in sampling : ThreadEnds(o)
  <2>1. PICK o \in sampling : ThreadEnds(o)
    BY <1>11
  <2>2. o \in Objects /\ Used(o) /\ fault' = Fault(o)
    BY <1>0, <2>1 DEF Types, ThreadEnds, Used
  <2> QED
    BY <1>3, <2>2
<1> QED
  BY <1>4, <1>5, <1>6, <1>7, <1>8, <1>9, <1>10, <1>11, Steps
  DEF User, device_open, Program

\* Memory, code or a buffer that is not there is used only by a program that opened
\* the device while its module came or went, after an exit with the device in use, or
\* after an insmod that failed half way.
THEOREM FaultsCaused == Spec => []FaultsHaveCause
<1>1. Init => FaultsHaveCause
  BY DEF Init, FaultsHaveCause
<1>2. Inv /\ FaultsHaveCause /\ [Next]_vars => FaultsHaveCause'
  <2> SUFFICES ASSUME Inv, FaultsHaveCause, [Next]_vars PROVE FaultsHaveCause'
    OBVIOUS
  <2>1. CASE UNCHANGED vars
    BY <2>1 DEF vars, FaultsHaveCause
  <2> QED
    BY <2>1, FaultStep
<1> QED
  BY <1>1, <1>2, Invariant, PTL DEF Spec
=============================================================================
