----------------------------- MODULE CharModule -----------------------------
(***************************************************************************)
(* The character driver coming and going: insmod and rmmod of hcsr.ko, the *)
(* devices that init_gpio_module makes and exit_gpio_driver destroys, and  *)
(* the programs that open and use them at any moment.  The operations have *)
(* no owner, so the kernel counts no users of the module and lets it go    *)
(* while files are open and threads run.                                   *)
(***************************************************************************)
EXTENDS Integers

CONSTANTS
  Programs,
  NumDevices,  \* the values of number_of_device are those up to this one
  MaxLoads     \* bound: insmods

ASSUME ModuleAssumption ==
  NumDevices \in Nat \ {0} /\ MaxLoads \in Nat /\ "nobody" \notin Programs

\* The struct hcsr_dev of the i-th device made by an insmod; it stands for its
\* minor number, too.  Its name tells only i.
Objects == (1 .. MaxLoads) \X (0 .. NumDevices - 1)

NULL == <<0, 0>>

VARIABLES
  state,     \* of the module: "out", "coming", "live", "going"
  number_of_device,
  at, i, temp, device,  \* init_gpio_module or exit_gpio_driver: where it is, and
                        \* its local variables
  HEAD, next,
  complete,  \* the objects whose buffer is allocated and initialised
  freed,
  misc,      \* the objects whose miscdevice is registered
  open,      \* the device_open under way: who, which, where its walk is, and
             \* whether the device was in the list when it began
  file,      \* the device a program has open
  reading,   \* the programs that sleep in read
  sampling,  \* the objects with a sampling thread
  fault,     \* the first use of memory that is "freed", of a module that is
             \* "gone", or of a buffer that is "unready"
  \* history
  loads, events

init    == <<state, number_of_device, at, i, temp, device, loads>>
list    == <<HEAD, next>>
objects == <<complete, freed, misc>>
users   == <<open, file, reading, sampling>>
vars    == <<init, list, objects, users, fault, events>>

NoOpen == [by |-> "nobody", asked |-> NULL, temp |-> NULL, linked |-> FALSE]

Init ==
  /\ state = "out" /\ number_of_device = 0 /\ loads = 0
  /\ at = "end" /\ i = 0 /\ temp = NULL /\ device = NULL
  /\ HEAD = NULL /\ next = [o \in Objects |-> NULL]
  /\ complete = {} /\ freed = {} /\ misc = {}
  /\ open = NoOpen /\ file = [p \in Programs |-> NULL]
  /\ reading = {} /\ sampling = {}
  /\ fault = "none" /\ events = {}

\* The code and the static variables that an object belongs to.
Gone(o) == state = "out" \/ o[1] /= loads

\* misc_register, misc_deregister and misc_open exclude each other.
MiscFree == open.by = "nobody"

-----------------------------------------------------------------------------
(* insmod: init_gpio_module.                                               *)

Insmod(n) ==
  /\ state = "out" /\ loads < MaxLoads
  /\ state' = "coming" /\ number_of_device' = n /\ loads' = loads + 1
  /\ at' = "register" /\ i' = 0 /\ temp' = NULL /\ device' = NULL /\ HEAD' = NULL
  /\ UNCHANGED <<next, objects, users, fault, events>>

\* An error: nothing is undone, and the kernel unloads the module.
InitFails ==
  /\ state' = "out" /\ at' = "end"
  /\ events' = IF misc = {} THEN events ELSE events \cup {"init failed"}
  /\ UNCHANGED <<number_of_device, i, temp, loads>>

\* Mutated Register: one device too many.
RegisterOneMore ==
  /\ at = "register" /\ i <= number_of_device /\ MiscFree
  /\ device' = <<loads, i>>
  /\ next' = [next EXCEPT ![device'] = NULL]
  /\ \/ /\ \A o \in misc : o[2] /= i
        /\ misc' = misc \cup {device'}
        /\ at' = "link"
        /\ UNCHANGED <<state, number_of_device, i, temp, loads, events>>
     \/ InitFails /\ UNCHANGED misc
  /\ UNCHANGED <<HEAD, complete, freed, users, fault>>

\* kmalloc and misc_register, which refuses the name of a device still there.
Register ==
  /\ at = "register" /\ i < number_of_device /\ MiscFree
  /\ device' = <<loads, i>>
  /\ next' = [next EXCEPT ![device'] = NULL]
  /\ \/ /\ \A o \in misc : o[2] /= i
        /\ misc' = misc \cup {device'}
        /\ at' = "link"
        /\ UNCHANGED <<state, number_of_device, i, temp, loads, events>>
     \/ InitFails /\ UNCHANGED misc
  /\ UNCHANGED <<HEAD, complete, freed, users, fault>>

\* Mutated Link: temp stays at the first device.
LinkToFirst ==
  /\ at = "link"
  /\ IF HEAD = NULL THEN HEAD' = device /\ UNCHANGED next
                    ELSE next' = [next EXCEPT ![temp] = device] /\ UNCHANGED HEAD
  /\ temp' = HEAD'
  /\ at' = "prepare"
  /\ UNCHANGED <<state, number_of_device, i, device, loads, objects, users, fault,
                 events>>

\* Mutated Link: the new device points back at the first.
LinkCircular ==
  /\ at = "link"
  /\ IF HEAD = NULL THEN HEAD' = device /\ UNCHANGED next
                    ELSE /\ next' = [next EXCEPT ![temp] = device, ![device] = HEAD]
                         /\ UNCHANGED HEAD
  /\ temp' = device
  /\ at' = "prepare"
  /\ UNCHANGED <<state, number_of_device, i, device, loads, objects, users, fault,
                 events>>

\* The new device goes to the end of the list.
Link ==
  /\ at = "link"
  /\ IF HEAD = NULL THEN HEAD' = device /\ UNCHANGED next
                    ELSE next' = [next EXCEPT ![temp] = device] /\ UNCHANGED HEAD
  /\ temp' = device
  /\ at' = "prepare"
  /\ UNCHANGED <<state, number_of_device, i, device, loads, objects, users, fault,
                 events>>

\* Mutated Prepare: init_buffer is forgotten.
PrepareNot ==
  /\ at = "prepare"
  /\ \/ /\ at' = "register" /\ i' = i + 1
        /\ UNCHANGED <<complete, state, number_of_device, temp, loads, events>>
     \/ InitFails /\ UNCHANGED complete
  /\ UNCHANGED <<device, list, freed, misc, users, fault>>

\* alloc_buffer, which may fail, and init_buffer.
Prepare ==
  /\ at = "prepare"
  /\ \/ /\ complete' = complete \cup {device}
        /\ at' = "register" /\ i' = i + 1
        /\ UNCHANGED <<state, number_of_device, temp, loads, events>>
     \/ InitFails /\ UNCHANGED complete
  /\ UNCHANGED <<device, list, freed, misc, users, fault>>

InitReturns ==
  /\ at = "register" /\ i >= number_of_device
  /\ state' = "live" /\ at' = "end"
  /\ UNCHANGED <<number_of_device, i, temp, device, loads, list, objects, users,
                 fault, events>>

-----------------------------------------------------------------------------
(* rmmod: exit_gpio_driver.                                                *)

InUse ==
  \/ open /= NoOpen \/ reading /= {} \/ sampling /= {}
  \/ \E p \in Programs : file[p] /= NULL

Rmmod ==
  /\ state = "live"
  /\ state' = "going" /\ at' = "take" /\ temp' = HEAD
  /\ events' = IF InUse THEN events \cup {"exit in use"} ELSE events
  /\ UNCHANGED <<number_of_device, i, device, loads, list, objects, users, fault>>

\* Mutated ExitTake: temp is not moved on.
ExitTakeStays ==
  /\ at = "take" /\ temp /= NULL
  /\ device' = temp
  /\ IF temp \in freed THEN fault' = "freed" /\ UNCHANGED temp
                       ELSE UNCHANGED <<temp, fault>>
  /\ at' = "deregister"
  /\ UNCHANGED <<state, number_of_device, i, loads, list, objects, users, events>>

\* temp goes on before its object is freed.  (mux_free_pins is in MuxTable.)
ExitTake ==
  /\ at = "take" /\ temp /= NULL
  /\ device' = temp
  /\ IF temp \in freed THEN fault' = "freed" /\ UNCHANGED temp
                       ELSE temp' = next[temp] /\ UNCHANGED fault
  /\ at' = "deregister"
  /\ UNCHANGED <<state, number_of_device, i, loads, list, objects, users, events>>

\* Mutated Deregister: the device stays registered.
DeregisterNot ==
  /\ at = "deregister" /\ MiscFree
  /\ at' = "free"
  /\ UNCHANGED <<state, number_of_device, i, temp, device, loads, list, objects,
                 users, fault, events>>

Deregister ==
  /\ at = "deregister" /\ MiscFree
  /\ misc' = misc \ {device}
  /\ at' = "free"
  /\ UNCHANGED <<state, number_of_device, i, temp, device, loads, list, complete,
                 freed, users, fault, events>>

Free ==
  /\ at = "free"
  /\ freed' = freed \cup {device}
  /\ at' = "take"
  /\ UNCHANGED <<state, number_of_device, i, temp, device, loads, list, complete,
                 misc, users, fault, events>>

ExitReturns ==
  /\ at = "take" /\ temp = NULL
  /\ state' = "out" /\ at' = "end"
  /\ UNCHANGED <<number_of_device, i, temp, device, loads, list, objects, users,
                 fault, events>>

-----------------------------------------------------------------------------
(* The programs and the threads.                                           *)

Fault(o) ==
  IF o \in freed THEN "freed" ELSE IF Gone(o) THEN "gone" ELSE "none"

\* misc_open of a device that is registered finds its operations, wherever the
\* module is.
OpenBegin(p, o) ==
  /\ MiscFree /\ file[p] = NULL /\ o \in misc
  /\ IF Gone(o)
       THEN fault' = "gone" /\ UNCHANGED open
       ELSE /\ open' = [by |-> p, asked |-> o, temp |-> HEAD,
                        linked |-> at /= "link" \/ o /= device]
            /\ UNCHANGED fault
  /\ events' = CASE state = "coming" -> events \cup {"open in init"}
                 [] state = "going"  -> events \cup {"open in exit"}
                 [] OTHER            -> events
  /\ UNCHANGED <<init, list, objects, file, reading, sampling>>

\* temp->device.minor is not the one that was opened.
OpenWalk ==
  /\ ~ MiscFree /\ open.temp \notin {NULL, open.asked}
  /\ fault' = Fault(open.temp)
  /\ open' = IF fault' = "none" THEN [open EXCEPT !.temp = next[@]] ELSE open
  /\ UNCHANGED <<init, list, objects, file, reading, sampling, events>>

\* It is, or the list is at its end and the open fails.
OpenEnd ==
  /\ ~ MiscFree /\ open.temp \in {NULL, open.asked}
  /\ fault' = Fault(open.asked)
  /\ file' = IF fault' = "none" THEN [file EXCEPT ![open.by] = open.temp] ELSE file
  /\ open' = IF fault' = "none" THEN NoOpen ELSE open
  /\ UNCHANGED <<init, list, objects, reading, sampling, events>>

\* write, or read: it may start a thread, or sleep, or neither.
Call(p) ==
  LET o == file[p] IN
  /\ o /= NULL /\ p \notin reading
  /\ fault' = IF Fault(o) = "none" /\ o \notin complete THEN "unready" ELSE Fault(o)
  /\ \/ o \in sampling /\ reading' = reading \cup {p} /\ UNCHANGED sampling
     \/ o \notin sampling /\ sampling' = sampling \cup {o} /\ UNCHANGED reading
  /\ UNCHANGED <<init, list, objects, open, file, events>>

\* A read that was woken goes on in read_fifo.
ReadReturns(p) ==
  /\ p \in reading
  /\ fault' = Fault(file[p])
  /\ reading' = reading \ {p}
  /\ UNCHANGED <<init, list, objects, open, file, sampling, events>>

\* start_sampling, or interrupt_handler on its behalf, goes on to its end.
ThreadEnds(o) ==
  /\ o \in sampling
  /\ fault' = Fault(o)
  /\ sampling' = sampling \ {o}
  /\ UNCHANGED <<init, list, objects, open, file, reading, events>>

\* release does nothing, but is code of the module.
Close(p) ==
  /\ file[p] /= NULL /\ p \notin reading
  /\ fault' = IF Gone(file[p]) THEN "gone" ELSE "none"
  /\ file' = [file EXCEPT ![p] = NULL]
  /\ UNCHANGED <<init, list, objects, open, reading, sampling, events>>

Loader ==
  \/ \E n \in 0 .. NumDevices : Insmod(n)
  \/ Register \/ Link \/ Prepare \/ InitReturns
  \/ Rmmod \/ ExitTake \/ Deregister \/ Free \/ ExitReturns

device_open == OpenWalk \/ OpenEnd

Program(p) ==
  (\E o \in misc : OpenBegin(p, o)) \/ Call(p) \/ ReadReturns(p) \/ Close(p)

\* After a fault nothing is known any more.
Next ==
  /\ fault = "none"
  /\ \/ Loader \/ device_open
     \/ \E p \in Programs : Program(p)
     \/ \E o \in sampling : ThreadEnds(o)

Spec == Init /\ [][Next]_vars

\* A program that opens a device runs on.
FairSpec == Spec /\ WF_vars(fault = "none" /\ device_open)

-----------------------------------------------------------------------------
(* Properties.                                                             *)

\* Every variable stays in its range; a program that sleeps in read has a file.
TypeOK ==
  /\ state \in {"out", "coming", "live", "going"}
  /\ number_of_device \in 0 .. NumDevices /\ i \in 0 .. number_of_device
  /\ at \in {"register", "link", "prepare", "take", "deregister", "free", "end"}
  /\ {temp, device, HEAD, open.asked, open.temp} \subseteq Objects \cup {NULL}
  /\ next \in [Objects -> Objects \cup {NULL}]
  /\ complete \subseteq Objects /\ freed \subseteq Objects /\ misc \subseteq Objects
  /\ open.by \in Programs \cup {"nobody"}
  /\ file \in [Programs -> Objects \cup {NULL}]
  /\ reading \subseteq {p \in Programs : file[p] /= NULL}
  /\ sampling \subseteq Objects
  /\ fault \in {"none", "freed", "gone", "unready"}
  /\ loads \in 0 .. MaxLoads
  /\ events \subseteq {"init failed", "open in init", "open in exit", "exit in use"}

\* When insmod has succeeded with a device or more, those are the registered
\* devices, complete and in the list in order, and no other: after an insmod that
\* failed half way none can succeed.
LiveIsWhole ==
  state = "live" /\ number_of_device > 0 =>
    LET Made(k) == IF k < number_of_device THEN <<loads, k>> ELSE NULL IN
    /\ misc = {Made(k) : k \in 0 .. number_of_device - 1}
    /\ misc \subseteq complete \ freed
    /\ HEAD = Made(0)
    /\ \A k \in 0 .. number_of_device - 1 : next[Made(k)] = Made(k + 1)

\* device_open finds every device in the list, whatever is registered or
\* destroyed at the same time.
OpenFindsLinked == open.linked => open.temp /= NULL

\* Memory, code or a buffer that is not there is used only in the ways the code
\* leaves open: a device opened while the module is loaded or unloaded, a module
\* unloaded in use, devices left behind by an insmod that failed.
FaultsHaveCause ==
  /\ fault = "unready" => "open in init" \in events
  /\ fault = "freed" => events \cap {"exit in use", "open in exit"} /= {}
  /\ fault = "gone" => events \cap {"exit in use", "open in exit", "init failed"} /= {}

\* An exit leaves none of the devices of its module registered, and frees the struct
\* of each; the name and the arrays of a device, which it does not free, are left out.
ExitLeavesNothing ==
  state = "out" /\ "init failed" \notin events =>
    misc = {} /\ complete \subseteq freed

\* A device_open comes to an end, while the list is made and destroyed under it.
OpenReturns == ~ MiscFree ~> MiscFree \/ fault /= "none"
=============================================================================
