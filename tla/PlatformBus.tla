---------------------------- MODULE PlatformBus ----------------------------
(***************************************************************************)
(* The platform driver and its devices coming and going: the two modules   *)
(* platform_device.ko and platform_driver.ko are loaded and unloaded in    *)
(* any order by one administrator; the bus probes and removes; and a       *)
(* program opens the misc devices and uses them meanwhile.  device_open    *)
(* walks the list at HEAD without a lock, while misc_open keeps            *)
(* misc_register and misc_deregister out.  The operations have no owner,   *)
(* so nothing counts the users of a device or of the driver.               *)
(***************************************************************************)
EXTENDS Integers, Sequences, FiniteSets

CONSTANTS
  NumDevices,  \* the platform devices, in the order they are registered
  MaxLoads,    \* bound: insmods
  MaxThreads   \* bound: devices that sample at the same time

ASSUME BusAssumption ==
  NumDevices \in Nat \ {0} /\ MaxLoads \in Nat /\ MaxThreads \in Nat

Devices == 1 .. NumDevices

\* The structs hcsr_dev, in the order they are allocated; each stands for its
\* minor number, too.
Objects == 1 .. NumDevices * MaxLoads

NULL == 0

VARIABLES
  loaded,       \* the modules that are loaded
  command,      \* the insmod or rmmod under way: what is left of it, and where
                \* it is in the probe or remove of a device
  registered,   \* the platform devices on the bus, in order
  bound,        \* those the driver has, in order
  \* the driver's memory
  hcsr_dev,     \* of each object: its device, next, and whether it has a buffer
  freed,        \* the objects that are freed
  arrays,       \* what init_device allocates besides the struct, and is never freed
  HEAD, device_list, first,
  all_samples,  \* the buffer of the last probe, named as its object
  base,         \* the objects up to this one are of a driver that is gone
  gko_device,   \* of each device: its class device, named as its object
  \* the kernel's
  misc,         \* the objects whose miscdevice is registered
  gko_class,    \* whether /sys/class/HCSR is there,
  class,        \* and its devices, in order
  open,         \* the device_open under way, and where its walk is
  \* the users'
  file,         \* the device the program has open
  sampling,     \* the objects with a sampling thread
  fault,        \* "oops", or the first use of memory or code that is "freed" or
                \* of a buffer that is "unready"
  \* history
  loads, made, linked, failed, events

driver  == <<HEAD, device_list, first, all_samples, base, gko_device>>
kernel  == <<misc, gko_class, class>>
objects == <<hcsr_dev, freed, arrays, made, linked, failed>>
users   == <<open, file, sampling>>
vars    == <<loaded, command, registered, bound, objects, driver, kernel, users,
             fault, loads, events>>

Idle == [op |-> "none", todo |-> <<>>, at |-> "next", device |-> 1, obj |-> NULL]

NoOpen == [asked |-> NULL, temp |-> NULL, linked |-> FALSE]

Init ==
  /\ loaded = {} /\ command = Idle /\ registered = <<>> /\ bound = <<>>
  /\ hcsr_dev = [o \in Objects |-> [device |-> 1, next |-> NULL, ready |-> FALSE]]
  /\ freed = {} /\ arrays = {}
  /\ HEAD = NULL /\ device_list = <<>> /\ first = TRUE /\ all_samples = NULL
  /\ base = 0
  /\ gko_device = [d \in Devices |-> NULL]
  /\ misc = {} /\ gko_class = FALSE /\ class = <<>>
  /\ open = NoOpen /\ file = NULL /\ sampling = {} /\ fault = "none"
  /\ loads = 0 /\ made = 0 /\ linked = {} /\ failed = {} /\ events = {}

Elements(s) == {s[i] : i \in 1 .. Len(s)}

\* list_del: s without its first x.
Without(s, x) ==
  IF x \notin Elements(s) THEN s
  ELSE LET i == CHOOSE j \in 1 .. Len(s) : s[j] = x
       IN SubSeq(s, 1, i - 1) \o SubSeq(s, i + 1, Len(s))

-----------------------------------------------------------------------------
(* insmod and rmmod.                                                       *)

\* The devices that the driver core goes through: registering and attaching in
\* order, and detaching from the last one bound.
Order(op) ==
  CASE op = "register"   -> [i \in Devices |-> i]
    [] op = "attach"     -> registered
    [] op = "unregister" -> registered
    [] op = "detach"     -> [i \in 1 .. Len(bound) |-> bound[Len(bound) + 1 - i]]

Begin(op) ==
  /\ command.op = "none"
  /\ command' = [Idle EXCEPT !.op = op, !.todo = Order(op)]

InsmodDevice ==
  /\ "device" \notin loaded /\ loads < MaxLoads
  /\ Begin("register")
  /\ loaded' = loaded \cup {"device"} /\ loads' = loads + 1
  /\ UNCHANGED <<registered, bound, objects, driver, kernel, users, fault,
                 events>>

\* A driver loaded again starts with its static variables as they were.
InsmodDriver ==
  /\ "driver" \notin loaded /\ loads < MaxLoads
  /\ Begin("attach")
  /\ loaded' = loaded \cup {"driver"} /\ loads' = loads + 1
  /\ HEAD' = NULL /\ device_list' = <<>> /\ first' = TRUE /\ all_samples' = NULL
  /\ base' = made
  /\ UNCHANGED <<registered, bound, objects, gko_device, kernel, users, fault,
                 events>>

Rmmod ==
  /\ \/ "device" \in loaded /\ Begin("unregister")
     \/ "driver" \in loaded /\ Begin("detach")
  /\ UNCHANGED <<loaded, registered, bound, objects, driver, kernel, users, fault,
                 loads, events>>

\* The bus goes on with the next device: a probe if the driver is there, a remove
\* if it has the device.
NextDevice ==
  LET d == Head(command.todo)
      probes == \/ command.op = "register" /\ "driver" \in loaded
                \/ command.op = "attach"
      removes == command.op \in {"unregister", "detach"} /\ d \in Elements(bound)
  IN
  /\ command.op /= "none" /\ command.at = "next" /\ command.todo /= <<>>
  /\ command' = [command EXCEPT !.todo = Tail(@), !.device = d,
       !.at = IF probes THEN "class" ELSE IF removes THEN "unlist" ELSE "next"]
  /\ registered' = CASE command.op = "register"   -> Append(registered, d)
                     [] command.op = "unregister" -> Without(registered, d)
                     [] OTHER                     -> registered
  /\ UNCHANGED <<loaded, bound, objects, driver, kernel, users, fault, loads,
                 events>>

CommandEnds ==
  /\ command.op /= "none" /\ command.at = "next" /\ command.todo = <<>>
  /\ loaded' = CASE command.op = "unregister" -> loaded \ {"device"}
                 [] command.op = "detach"     -> loaded \ {"driver"}
                 [] OTHER                     -> loaded
  /\ command' = Idle
  /\ UNCHANGED <<registered, bound, objects, driver, kernel, users, fault, loads,
                 events>>

At(label) == command.op /= "none" /\ command.at = label

Goto(label) == command' = [command EXCEPT !.at = label]

-----------------------------------------------------------------------------
(* Plat_driver_probe and init_device.                                      *)

\* class_create refuses a name that is there; class_unregister is then called
\* with what it returned, an error and not a class.
MakeClass ==
  /\ At("class")
  /\ first' = (first /\ gko_class)
  /\ gko_class' = TRUE
  /\ IF first /\ gko_class
       THEN fault' = "oops" /\ UNCHANGED command
       ELSE Goto("alloc") /\ UNCHANGED fault
  /\ UNCHANGED <<loaded, registered, bound, objects, HEAD, device_list, all_samples,
                 base, gko_device, misc, class, users, loads, events>>

\* The probe returns -1, and the device is not bound.
Unprobed == command' = [command EXCEPT !.at = "next", !.obj = NULL]

\* kmalloc and misc_register.  A struct that cannot be registered is not freed.
NewDevice ==
  /\ At("alloc") /\ open.asked = NULL
  /\ made' = made + 1
  /\ hcsr_dev' = [hcsr_dev EXCEPT ![made + 1] =
       [device |-> command.device, next |-> NULL, ready |-> FALSE]]
  /\ \/ /\ misc' = misc \cup {made + 1}
        /\ command' = [command EXCEPT !.at = "buffer", !.obj = made + 1]
        /\ UNCHANGED failed
     \/ /\ failed' = failed \cup {made + 1}
        /\ Unprobed
        /\ UNCHANGED misc
  /\ UNCHANGED <<loaded, registered, bound, freed, arrays, linked, driver, gko_class,
                 class, users, fault, loads, events>>

\* Mutated AllocBuffer: the probe does not notice the failure.
AllocBufferIgnored ==
  /\ At("buffer")
  /\ all_samples' \in {command.obj, NULL}
  /\ \E result \in BOOLEAN :
       /\ arrays' = arrays \cup {<<"all_samples", o>> : o \in {all_samples'} \ {NULL}}
                           \cup IF result THEN {<<"result", command.obj>>} ELSE {}
       /\ IF result THEN Goto("link") /\ UNCHANGED failed
                    ELSE /\ command' = [command EXCEPT !.at = "list", !.obj = NULL]
                         /\ failed' = failed \cup {command.obj}
  /\ UNCHANGED <<loaded, registered, bound, hcsr_dev, freed, made, linked, HEAD,
                 device_list, first, base, gko_device, kernel, users, fault, loads,
                 events>>

\* kmalloc, which is not checked, and alloc_buffer.  If that fails, the miscdevice
\* stays registered.
AllocBuffer ==
  /\ At("buffer")
  /\ all_samples' \in {command.obj, NULL}
  /\ \E result \in BOOLEAN :
       /\ arrays' = arrays \cup {<<"all_samples", o>> : o \in {all_samples'} \ {NULL}}
                           \cup IF result THEN {<<"result", command.obj>>} ELSE {}
       /\ IF result THEN Goto("link") /\ UNCHANGED failed
                    ELSE Unprobed /\ failed' = failed \cup {command.obj}
  /\ UNCHANGED <<loaded, registered, bound, hcsr_dev, freed, made, linked, HEAD,
                 device_list, first, base, gko_device, kernel, users, fault, loads,
                 events>>

\* Mutated Link: the rest of the list is forgotten.
LinkAlone ==
  /\ At("link")
  /\ hcsr_dev' = [hcsr_dev EXCEPT ![command.obj].next = NULL]
  /\ HEAD' = command.obj
  /\ linked' = linked \cup {command.obj}
  /\ Goto("init")
  /\ UNCHANGED <<loaded, registered, bound, freed, arrays, made, failed, device_list,
                 first, all_samples, base, gko_device, kernel, users, fault, loads,
                 events>>

\* The new device becomes the head of the list.
Link ==
  /\ At("link")
  /\ hcsr_dev' = [hcsr_dev EXCEPT ![command.obj].next = HEAD]
  /\ HEAD' = command.obj
  /\ linked' = linked \cup {command.obj}
  /\ Goto("init")
  /\ UNCHANGED <<loaded, registered, bound, freed, arrays, made, failed, device_list,
                 first, all_samples, base, gko_device, kernel, users, fault, loads,
                 events>>

InitBuffer ==
  /\ At("init")
  /\ hcsr_dev' = [hcsr_dev EXCEPT ![command.obj].ready = TRUE]
  /\ Goto("list")
  /\ UNCHANGED <<loaded, registered, bound, freed, arrays, made, linked, failed,
                 driver, kernel, users, fault, loads, events>>

\* Mutated AddDevice: the class device is kept in a variable of the driver, as the
\* class is, and not in its platform device.
AddDeviceShared ==
  /\ At("list")
  /\ device_list' = <<command.obj>> \o device_list
  /\ \/ /\ gko_device' = [d \in Devices |-> command.obj]
        /\ class' = Append(class, command.obj)
        /\ bound' = Append(bound, command.device)
        /\ command' = [command EXCEPT !.at = "next", !.obj = NULL]
        /\ UNCHANGED <<gko_class, fault>>
     \/ /\ class' = IF class = <<>> THEN <<>> ELSE Tail(class)
        /\ gko_class' = FALSE
        /\ fault' = "oops"
        /\ UNCHANGED <<gko_device, bound, command>>
  /\ UNCHANGED <<loaded, registered, objects, HEAD, first, all_samples, base, misc,
                 users, loads, events>>

\* list_add, device_create and the attribute files; the driver has the device.
\* When device_create fails, the class is unregistered, and class_destroy
\* unregisters it again.
AddDevice ==
  /\ At("list")
  /\ device_list' = <<command.obj>> \o device_list
  /\ \/ /\ gko_device' = [gko_device EXCEPT ![command.device] = command.obj]
        /\ class' = Append(class, command.obj)
        /\ bound' = Append(bound, command.device)
        /\ command' = [command EXCEPT !.at = "next", !.obj = NULL]
        /\ UNCHANGED <<gko_class, fault>>
     \/ /\ class' = IF class = <<>> THEN <<>> ELSE Tail(class)
        /\ gko_class' = FALSE
        /\ fault' = "oops"
        /\ UNCHANGED <<gko_device, bound, command>>
  /\ UNCHANGED <<loaded, registered, objects, HEAD, first, all_samples, base, misc,
                 users, loads, events>>

-----------------------------------------------------------------------------
(* Plat_driver_remove.                                                     *)

\* The struct of the device that is being removed.
Removed == CHOOSE o \in Elements(device_list) : hcsr_dev[o].device = command.device

InUse(o) == o \in sampling \cup {file, open.asked}

\* Mutated Unlist: the newest device of the class is destroyed.
UnlistNewest ==
  /\ At("unlist")
  /\ device_list' = Without(device_list, Removed)
  /\ IF gko_device[command.device] \in Elements(class)
       THEN /\ class' = SubSeq(class, 1, Len(class) - 1)
            /\ command' = [command EXCEPT !.at = "deregister", !.obj = Removed]
            /\ UNCHANGED fault
       ELSE fault' = "freed" /\ UNCHANGED <<class, command>>
  /\ events' = IF InUse(Removed) THEN events \cup {"removed in use"} ELSE events
  /\ UNCHANGED <<loaded, registered, bound, objects, HEAD, first, all_samples, base,
                 gko_device, misc, gko_class, users, loads>>

\* Mutated Unlist: list_del is forgotten.
UnlistNot ==
  /\ At("unlist")
  /\ IF gko_device[command.device] \in Elements(class)
       THEN /\ class' = Tail(class)
            /\ command' = [command EXCEPT !.at = "deregister", !.obj = Removed]
            /\ UNCHANGED fault
       ELSE fault' = "freed" /\ UNCHANGED <<class, command>>
  /\ UNCHANGED <<loaded, registered, bound, objects, driver, misc, gko_class, users,
                 loads, events>>

\* list_del, the attribute files, and device_destroy, which destroys the first
\* device of the class with this device number: all have the same.  (The other
\* device_destroy has a minor for a device number, and finds nothing.)
Unlist ==
  /\ At("unlist")
  /\ device_list' = Without(device_list, Removed)
  /\ IF gko_device[command.device] \in Elements(class)
       THEN /\ class' = Tail(class)
            /\ command' = [command EXCEPT !.at = "deregister", !.obj = Removed]
            /\ UNCHANGED fault
       ELSE fault' = "freed" /\ UNCHANGED <<class, command>>
  /\ events' = IF InUse(Removed) THEN events \cup {"removed in use"} ELSE events
  /\ UNCHANGED <<loaded, registered, bound, objects, HEAD, first, all_samples, base,
                 gko_device, misc, gko_class, users, loads>>

\* Mutated Deregister: the miscdevice stays registered.
DeregisterNot ==
  /\ At("deregister") /\ open.asked = NULL
  /\ Goto("free")
  /\ UNCHANGED <<loaded, registered, bound, objects, driver, misc, gko_class, class,
                 users, fault, loads, events>>

Deregister ==
  /\ At("deregister") /\ open.asked = NULL
  /\ misc' = misc \ {command.obj}
  /\ Goto("free")
  /\ UNCHANGED <<loaded, registered, bound, objects, driver, gko_class, class,
                 users, fault, loads, events>>

\* kfree of the struct alone.  The list at HEAD still has it.
Free ==
  /\ At("free")
  /\ freed' = freed \cup {command.obj}
  /\ bound' = Without(bound, command.device)
  /\ command' = [command EXCEPT !.at = "next", !.obj = NULL]
  /\ UNCHANGED <<loaded, registered, hcsr_dev, arrays, made, linked, failed, driver,
                 kernel, users, fault, loads, events>>

-----------------------------------------------------------------------------
(* device_open, called by misc_open.                                       *)

\* The code that an object's operations are.
Gone(o) == "driver" \notin loaded \/ o <= base

Fault(o) == IF o \in freed \/ Gone(o) THEN "freed" ELSE "none"

OpenBegin(o) ==
  /\ open.asked = NULL /\ file = NULL
  /\ open' = [asked |-> o, temp |-> HEAD, linked |-> o \in linked]
  /\ events' = CASE command.obj /= o  -> events
                 [] At("deregister") -> events \cup {"open in remove"}
                 [] OTHER            -> events \cup {"open in probe"}
  /\ UNCHANGED <<loaded, command, registered, bound, objects, driver, kernel, file,
                 sampling, fault, loads>>

\* temp->device.minor is not the one that was opened.
OpenWalk ==
  /\ open.asked /= NULL /\ open.temp \notin {NULL, open.asked}
  /\ fault' = IF open.temp \in freed THEN "freed" ELSE Fault(open.asked)
  /\ IF fault' = "none" THEN open' = [open EXCEPT !.temp = hcsr_dev[@].next]
                        ELSE UNCHANGED open
  /\ UNCHANGED <<loaded, command, registered, bound, objects, driver, kernel, file,
                 sampling, loads, events>>

\* It is, or the list is at its end and the open fails.
OpenEnd ==
  /\ open.asked /= NULL /\ open.temp \in {NULL, open.asked}
  /\ fault' = Fault(open.asked)
  /\ IF fault' = "none" THEN open' = NoOpen /\ file' = open.temp
                        ELSE UNCHANGED <<open, file>>
  /\ UNCHANGED <<loaded, command, registered, bound, objects, driver, kernel,
                 sampling, loads, events>>

-----------------------------------------------------------------------------
(* The use of a device: by the program, the attributes, and threads.       *)

StartSampling(o) ==
  /\ Cardinality(sampling \cup {o}) <= MaxThreads
  /\ sampling' = sampling \cup {o}

\* read, write or ioctl: it may start a thread.  The ioctl of the parameters uses
\* the driver's all_samples.
Call ==
  /\ file /= NULL
  /\ \/ /\ fault' = IF Fault(file) = "none" /\ ~ hcsr_dev[file].ready THEN "unready"
                                                                     ELSE Fault(file)
        /\ StartSampling(file) \/ UNCHANGED sampling
     \/ /\ Fault(file) = "none" /\ all_samples = NULL
        /\ fault' = "oops" /\ UNCHANGED sampling
  /\ UNCHANGED <<loaded, command, registered, bound, objects, driver, kernel, open,
                 file, loads, events>>

\* enable, in the directory of a class device that is not being removed.
Enable(o) ==
  /\ o \in Elements(class)
  /\ StartSampling(o)
  /\ UNCHANGED <<loaded, command, registered, bound, objects, driver, kernel, open,
                 file, fault, loads, events>>

\* start_sampling goes on to its end.
ThreadEnds(o) ==
  /\ o \in sampling
  /\ fault' = Fault(o)
  /\ sampling' = sampling \ {o}
  /\ UNCHANGED <<loaded, command, registered, bound, objects, driver, kernel, open,
                 file, loads, events>>

\* release does nothing, but is code of the driver.
Close ==
  /\ file /= NULL
  /\ fault' = IF Gone(file) THEN "freed" ELSE "none"
  /\ file' = NULL
  /\ UNCHANGED <<loaded, command, registered, bound, objects, driver, kernel, open,
                 sampling, loads, events>>

Administrator == InsmodDevice \/ InsmodDriver \/ Rmmod \/ NextDevice \/ CommandEnds

Probe == MakeClass \/ NewDevice \/ AllocBuffer \/ Link \/ InitBuffer \/ AddDevice

Remove == Unlist \/ Deregister \/ Free

Open == (\E o \in misc : OpenBegin(o)) \/ OpenWalk \/ OpenEnd

Use ==
  \/ Call \/ Close
  \/ \E o \in Elements(device_list) : Enable(o)
  \/ \E o \in sampling : ThreadEnds(o)

\* After a fault nothing is known any more.
Next == fault = "none" /\ (Administrator \/ Probe \/ Remove \/ Open \/ Use)

Spec == Init /\ [][Next]_vars

-----------------------------------------------------------------------------
(* Properties.                                                             *)

CommandOK ==
  [op : {"none", "register", "attach", "unregister", "detach"},
   todo : Seq(Devices),
   at : {"next", "class", "alloc", "buffer", "link", "init", "list", "unlist",
         "deregister", "free"},
   device : Devices, obj : Objects \cup {NULL}]

\* Every variable stays in its range, and the driver's lists have structs that
\* were made.
TypeOK ==
  /\ loaded \subseteq {"device", "driver"}
  /\ command \in CommandOK
  /\ registered \in Seq(Devices) /\ bound \in Seq(Devices)
  /\ hcsr_dev \in [Objects -> [device : Devices, next : Objects \cup {NULL},
                               ready : BOOLEAN]]
  /\ freed \subseteq Objects /\ linked \subseteq Objects /\ failed \subseteq Objects
  /\ arrays \subseteq {"all_samples", "result"} \X Objects
  /\ all_samples \in Objects \cup {NULL}
  /\ misc \subseteq Objects /\ HEAD \in Objects \cup {NULL}
  /\ device_list \in Seq(1 .. made) /\ class \in Seq(1 .. made)
  /\ first \in BOOLEAN /\ gko_class \in BOOLEAN
  /\ gko_device \in [Devices -> Objects \cup {NULL}]
  /\ open \in [asked : Objects \cup {NULL}, temp : Objects \cup {NULL},
               linked : BOOLEAN]
  /\ file \in linked \cup {NULL} /\ sampling \subseteq linked
  /\ fault \in {"none", "oops", "freed", "unready"}
  /\ loads \in 0 .. MaxLoads /\ made \in 0 .. NumDevices * MaxLoads
  /\ base \in 0 .. made
  /\ events \subseteq {"open in probe", "open in remove", "removed in use"}

\* Memory, code or a buffer that is not there is used only in the ways the code
\* leaves open: a driver unloaded before its devices, an open of a device that is not
\* in the list yet, or never will be, and a device opened while it comes or goes, or
\* removed in use.  The structs that stay in the list at HEAD, and a class that
\* destroys the first device it finds, are no other way; a class that is still there
\* stops no driver but one loaded again; and an all_samples that was not allocated
\* stops programs only.
FaultsHaveCause ==
  /\ fault = "unready" => "open in probe" \in events
  /\ fault = "oops" => \/ At("list") \/ (At("class") /\ made > 0)
                       \/ file /= NULL /\ all_samples = NULL
  /\ fault = "freed" => \/ command.op = "detach"
                        \/ open.asked /= NULL /\ ~ open.linked
                        \/ events \cap {"open in remove", "removed in use"} /= {}

\* device_open finds every device in the list, whatever is being probed or
\* removed at the same time.
OpenFindsLinked ==
  open.asked /= NULL /\ open.linked => open.temp /= NULL

\* Between commands the class has just the devices of the driver, each device its
\* own, although removing one does not ask for it.
ClassIsList ==
  fault = "none" /\ command.op = "none" =>
    /\ Len(class) = Len(bound) /\ Len(device_list) = Len(bound)
    /\ \A i \in 1 .. Len(bound) : LET o == class[i] IN
         /\ device_list[Len(bound) + 1 - i] = o /\ hcsr_dev[o].device = bound[i]
         /\ gko_device[bound[i]] = o /\ o \in misc \ freed

\* What is still there of a struct and of what belongs to it.
Remains(o) ==
  {m \in {"struct"} : o \notin freed} \cup {m \in {"miscdevice"} : o \in misc}
    \cup {m \in {"all_samples", "result"} : <<m, o>> \in arrays}

\* Once the devices are unloaded, none of them is in the driver's lists, in the class or
\* on the bus.  What stays in memory for ever is the arrays of every device that was
\* bound, and of a probe that failed the struct, with its miscdevice and the driver's
\* buffer if it came so far.
UnloadLeavesArrays ==
  fault = "none" /\ command.op = "none" /\ "device" \notin loaded =>
    /\ bound = <<>> /\ device_list = <<>> /\ class = <<>>
    /\ \A o \in 1 .. made : Remains(o) \in
         IF o \in failed
           THEN {{"struct"}, {"struct", "miscdevice"},
                 {"struct", "miscdevice", "all_samples"}}
           ELSE {{"result"}, {"result", "all_samples"}}

\* README.md: the order of the two insmods can be interchanged.  With both modules
\* loaded every device is bound, in order, open to programs and complete.
EitherOrder ==
  /\ fault = "none" /\ command.op = "none" /\ loaded = {"device", "driver"}
  /\ failed = {}
  => /\ bound = [i \in Devices |-> i]
     /\ \A i \in Devices : LET o == gko_device[i] IN
          o \in misc \cap linked /\ hcsr_dev[o].ready /\ hcsr_dev[o].device = i
=============================================================================
