------------------------------ MODULE MuxTable ------------------------------
(***************************************************************************)
(* The pins of the Galileo board: mux_table (muxtable.h, the same in both  *)
(* drivers), the gpios behind each pin, and the calls that give pins to    *)
(* devices: CONFIG_PINS of both drivers, the stores to echo_pin and        *)
(* trigger_pin of the platform driver, and the character driver's exit,    *)
(* which gives them back.  Nothing here takes a lock.                      *)
(***************************************************************************)
EXTENDS Integers, Sequences

CONSTANTS
  Drivers,       \* the drivers to consider: "character", "platform"
  NumDevices,    \* the devices, in the order of the list at HEAD
  Programs,      \* the programs that configure them
  Pins,          \* the pins of the mux table
  GpioPin,       \* of each pin: gpio_pin,
  DirectionPin,  \* direction_pin (the level shifter),
  FunctionPins,  \* and the function pins that are not DONT_CARE
  AskedPins,     \* the pins programs ask for
  MaxCalls       \* bound: calls of the programs

Devices == 1 .. NumDevices

\* INPUT_FUNC and OUTPUT_FUNC; a pin has an entry in the table for each.
Functions == {"input", "output"}

Entries == Pins \X Functions

Gpios == UNION {{GpioPin[pin], DirectionPin[pin]} \cup FunctionPins[pin] :
                  pin \in Pins}

ASSUME MuxAssumption ==
  /\ Drivers \subseteq {"character", "platform"}
  /\ NumDevices \in Nat \ {0}
  /\ Pins \subseteq Nat /\ Pins \subseteq AskedPins /\ AskedPins \subseteq Nat
  /\ 0 \in AskedPins
  /\ GpioPin \in [Pins -> Nat] /\ DirectionPin \in [Pins -> Nat]
  /\ FunctionPins \in [Pins -> SUBSET Nat]
  /\ \A pin \in Pins : /\ GpioPin[pin] /= DirectionPin[pin]
                       /\ GpioPin[pin] \notin FunctionPins[pin]
                       /\ DirectionPin[pin] \notin FunctionPins[pin]
  /\ MaxCalls \in Nat

EINVAL == 22

VARIABLES
  driver,      \* the driver that is loaded
  is_in_use,   \* of each entry of mux_table
  requested,   \* the gpios that gpio_request gave out
  line,        \* "in", or the level a gpio drives
  pin, gpio,   \* of each device: its struct pins, by function
  pc, call,    \* where a program is, and its arguments and locals
  exit,        \* where exit_gpio_driver is
  \* history
  calls,       \* the devices of the calls so far, in order
  configured,  \* the entries that set_pin_conf has set up
  touched      \* for each gpio, how often an entry with it was claimed

table    == <<is_in_use, requested, line>>
device   == <<pin, gpio>>
programs == <<pc, call>>
history  == <<calls, configured, touched>>
vars     == <<driver, table, device, programs, exit, history>>

NoCall == [kind |-> "ioctl", device |-> 1, func |-> "input",
           pin |-> [f \in Functions |-> 0], gpio |-> [f \in Functions |-> 0]]

Init ==
  /\ driver \in Drivers
  /\ is_in_use = [e \in Entries |-> FALSE]
  /\ requested = {}
  /\ line = [g \in Gpios |-> "in"]
  /\ pin = [d \in Devices |-> [f \in Functions |-> 0]]
  /\ gpio = [d \in Devices |-> [f \in Functions |-> 0]]
  /\ pc = [p \in Programs |-> "idle"]
  /\ call = [p \in Programs |-> NoCall]
  /\ exit = [at |-> "no", device |-> 1, func |-> "output"]
  /\ calls = <<>>
  /\ configured = {}
  /\ touched = [g \in Gpios |-> 0]

Goto(p, label) == pc' = [pc EXCEPT ![p] = label]

\* check_pin, and the loop of get_pin: the pin is in the table and not in use.
IsFree(n, f) == <<n, f>> \in Entries /\ ~ is_in_use[<<n, f>>]

\* The gpios of a pin, as the three parts set_pin_conf goes through.
Part(stage, n) ==
  CASE stage = "gpio"      -> {GpioPin[n]}
    [] stage = "direction" -> {DirectionPin[n]}
    [] stage = "function"  -> FunctionPins[n]
    [] OTHER               -> {}

AllParts(n) == {GpioPin[n], DirectionPin[n]} \cup FunctionPins[n]

\* What set_pin_conf makes of each of them.
Level(stage, f) ==
  CASE stage = "gpio" /\ f = "input"      -> "in"
    [] stage = "direction" /\ f = "input" -> "1"
    [] OTHER                              -> "0"

Stages == {"gpio", "direction", "function"}

After(stage) == CASE stage = "gpio"      -> "direction"
                  [] stage = "direction" -> "function"
                  [] stage = "function"  -> "set"

-----------------------------------------------------------------------------
(* The calls.                                                              *)

Begin(p, d, kind, f, label) ==
  /\ exit.at = "no"
  /\ pc[p] = "idle" /\ Len(calls) < MaxCalls
  /\ calls' = Append(calls, d)
  /\ Goto(p, label)
  /\ UNCHANGED <<driver, table, exit, configured, touched>>

\* ioctl, CONFIG_PINS.  The platform driver has its validation commented out.
ConfigPins(p, d, echo, trigger) ==
  /\ Begin(p, d, "ioctl", "input",
           IF driver = "character" THEN "check_echo" ELSE "find")
  /\ call' = [call EXCEPT ![p] =
       [NoCall EXCEPT !.device = d,
          !.pin = [f \in Functions |-> IF f = "input" THEN echo ELSE trigger]]]
  /\ UNCHANGED device

\* validate_pins; a negative pin is like one that is not in the table.
CheckEcho(p) ==
  /\ pc[p] = "check_echo"
  /\ Goto(p, IF IsFree(call[p].pin["input"], "input") THEN "check_trigger"
                                                      ELSE "idle")
  /\ UNCHANGED <<driver, table, device, call, exit, history>>

CheckTrigger(p) ==
  /\ pc[p] = "check_trigger"
  /\ Goto(p, IF IsFree(call[p].pin["output"], "output") THEN "find" ELSE "idle")
  /\ UNCHANGED <<driver, table, device, call, exit, history>>

\* store_echo_pin and store_trigger_pin: the pin is written to the device, and
\* read back from there as set_pin_conf's argument.
StorePin(p, d, f, n) ==
  /\ driver = "platform"
  /\ Begin(p, d, "store", f, "read_back")
  /\ pin' = [pin EXCEPT ![d][f] = n]
  /\ call' = [call EXCEPT ![p] =
                [NoCall EXCEPT !.kind = "store", !.device = d, !.func = f]]
  /\ UNCHANGED gpio

ReadBack(p) ==
  /\ pc[p] = "read_back"
  /\ call' = [call EXCEPT ![p].pin[call[p].func] =
                            pin[call[p].device][call[p].func]]
  /\ Goto(p, "find")
  /\ UNCHANGED <<driver, table, device, exit, history>>

-----------------------------------------------------------------------------
(* set_pin_conf.                                                           *)

Entry(p) == <<call[p].pin[call[p].func], call[p].func>>

\* set_pin_conf has returned: set_mux goes on with the trigger, or everything
\* is there to be stored.
Returned(p, result) ==
  LET f == call[p].func
      more == call[p].kind = "ioctl" /\ f = "input"
  IN /\ call' = [call EXCEPT ![p].gpio[f] = result,
                             ![p].func = IF more THEN "output" ELSE f]
     /\ Goto(p, IF more THEN "find" ELSE "store")

\* get_pin finds the entry, or not.
FindPin(p) ==
  /\ pc[p] = "find"
  /\ IF IsFree(Entry(p)[1], Entry(p)[2])
       THEN Goto(p, "claim") /\ UNCHANGED call
       ELSE Returned(p, - EINVAL)
  /\ UNCHANGED <<driver, table, device, exit, history>>

\* ... and then marks it, without looking again.
ClaimPin(p) ==
  /\ pc[p] = "claim"
  /\ is_in_use' = [is_in_use EXCEPT ![Entry(p)] = TRUE]
  /\ touched' = [g \in Gpios |-> IF g \in AllParts(Entry(p)[1])
                                   THEN touched[g] + 1 ELSE touched[g]]
  /\ Goto(p, "gpio")
  /\ UNCHANGED <<driver, requested, line, device, call, exit, calls, configured>>

\* Mutated SetUp: every pin is set up as an output.
SetUpOutput(p) ==
  /\ pc[p] \in Stages
  /\ LET part == Part(pc[p], Entry(p)[1]) IN
     /\ requested' = requested \cup part
     /\ line' = [g \in Gpios |-> IF g \in part THEN Level(pc[p], "output")
                                               ELSE line[g]]
  /\ Goto(p, After(pc[p]))
  /\ UNCHANGED <<driver, is_in_use, device, call, exit, history>>

\* gpio_request, whose answer is not looked at, and gpio_direction_….
SetUp(p) ==
  /\ pc[p] \in Stages
  /\ LET part == Part(pc[p], Entry(p)[1]) IN
     /\ requested' = requested \cup part
     /\ line' = [g \in Gpios |-> IF g \in part THEN Level(pc[p], Entry(p)[2])
                                               ELSE line[g]]
  /\ Goto(p, After(pc[p]))
  /\ UNCHANGED <<driver, is_in_use, device, call, exit, history>>

PinIsSet(p) ==
  /\ pc[p] = "set"
  /\ configured' = configured \cup {Entry(p)}
  /\ Returned(p, GpioPin[Entry(p)[1]])
  /\ UNCHANGED <<driver, table, device, exit, calls, touched>>

\* Mutated Store: the echo and the trigger pin are swapped.
StoreSwapped(p) ==
  LET d == call[p].device
      f == call[p].func
  IN /\ pc[p] = "store"
     /\ IF call[p].kind = "ioctl"
          THEN /\ pin' = [pin EXCEPT ![d] = [input |-> call[p].pin["output"],
                                           output |-> call[p].pin["input"]]]
               /\ gpio' = [gpio EXCEPT ![d] = call[p].gpio]
          ELSE /\ gpio' = [gpio EXCEPT ![d][f] = call[p].gpio[f]]
               /\ UNCHANGED pin
     /\ Goto(p, "idle")
     /\ call' = [call EXCEPT ![p] = NoCall]
     /\ UNCHANGED <<driver, table, exit, history>>

\* The assignments that end set_mux, or a store.
Store(p) ==
  LET d == call[p].device
      f == call[p].func
  IN /\ pc[p] = "store"
     /\ IF call[p].kind = "ioctl"
          THEN /\ pin' = [pin EXCEPT ![d] = call[p].pin]
               /\ gpio' = [gpio EXCEPT ![d] = call[p].gpio]
          ELSE /\ gpio' = [gpio EXCEPT ![d][f] = call[p].gpio[f]]
               /\ UNCHANGED pin
     /\ Goto(p, "idle")
     /\ call' = [call EXCEPT ![p] = NoCall]
     /\ UNCHANGED <<driver, table, exit, history>>

-----------------------------------------------------------------------------
(* exit_gpio_driver: for each device of the list, mux_free_pins of the      *)
(* trigger and then of the echo pin.  The programs have closed the devices. *)

ExitBegin ==
  /\ driver = "character" /\ exit.at = "no"
  /\ \A p \in Programs : pc[p] = "idle"
  /\ exit' = [exit EXCEPT !.at = "find"]
  /\ UNCHANGED <<driver, table, device, programs, history>>

ExitEntry == <<pin[exit.device][exit.func], exit.func>>

\* The next pin to give back: the echo pin, or the next device of the list.
ExitNext ==
  exit' = IF exit.func = "output" THEN [exit EXCEPT !.at = "find", !.func = "input"]
          ELSE IF exit.device < NumDevices
            THEN [at |-> "find", device |-> exit.device + 1, func |-> "output"]
            ELSE [exit EXCEPT !.at = "done"]

\* get_used_pins: an entry of that pin and function that is in use, whoever
\* uses it.  A device that was never configured has pin 0.
ExitFind ==
  /\ exit.at = "find"
  /\ IF ExitEntry \in Entries /\ is_in_use[ExitEntry]
       THEN /\ is_in_use' = [is_in_use EXCEPT ![ExitEntry] = FALSE]
            /\ configured' = configured \ {ExitEntry}
            /\ exit' = [exit EXCEPT !.at = "gpio"]
       ELSE /\ ExitNext
            /\ UNCHANGED <<is_in_use, configured>>
  /\ UNCHANGED <<driver, requested, line, device, programs, calls, touched>>

\* Mutated ExitFree: the level shifter's gpio is forgotten.
ExitFreeTwo ==
  /\ exit.at \in Stages
  /\ LET part == IF exit.at = "direction" THEN {}
                                          ELSE Part(exit.at, ExitEntry[1]) IN
     /\ requested' = requested \ part
     /\ line' = [g \in Gpios |-> IF g \in part /\ line[g] /= "in" THEN "0"
                                                                 ELSE line[g]]
  /\ IF exit.at = "function" THEN ExitNext
                             ELSE exit' = [exit EXCEPT !.at = After(exit.at)]
  /\ UNCHANGED <<driver, is_in_use, device, programs, history>>

\* gpio_set_value_cansleep(…, 0), which leaves an input one, and gpio_free.
ExitFree ==
  /\ exit.at \in Stages
  /\ LET part == Part(exit.at, ExitEntry[1]) IN
     /\ requested' = requested \ part
     /\ line' = [g \in Gpios |-> IF g \in part /\ line[g] /= "in" THEN "0"
                                                                 ELSE line[g]]
  /\ IF exit.at = "function" THEN ExitNext
                             ELSE exit' = [exit EXCEPT !.at = After(exit.at)]
  /\ UNCHANGED <<driver, is_in_use, device, programs, history>>

Configure(p) ==
  \/ CheckEcho(p) \/ CheckTrigger(p) \/ ReadBack(p)
  \/ FindPin(p) \/ ClaimPin(p) \/ SetUp(p) \/ PinIsSet(p) \/ Store(p)

Call(p, d) ==
  \/ \E echo, trigger \in AskedPins : ConfigPins(p, d, echo, trigger)
  \/ \E f \in Functions, n \in AskedPins : StorePin(p, d, f, n)

Exit == ExitBegin \/ ExitFind \/ ExitFree

Next ==
  \/ \E p \in Programs : Configure(p) \/ \E d \in Devices : Call(p, d)
  \/ Exit

Spec == Init /\ [][Next]_vars

-----------------------------------------------------------------------------
(* Properties.                                                             *)

CallOK ==
  [kind : {"ioctl", "store"}, device : Devices, func : Functions,
   pin : [Functions -> AskedPins], gpio : [Functions -> Int]]

ExitOK ==
  [at : {"no", "find", "done"} \cup Stages, device : Devices, func : Functions]

\* Every variable stays in its range; a program past get_pin's loop has a pin
\* of the table.
TypeOK ==
  /\ driver \in Drivers
  /\ is_in_use \in [Entries -> BOOLEAN]
  /\ requested \subseteq Gpios
  /\ line \in [Gpios -> {"in", "0", "1"}]
  /\ pin \in [Devices -> [Functions -> AskedPins]]
  /\ gpio \in [Devices -> [Functions -> Int]]
  /\ pc \in [Programs -> {"idle", "check_echo", "check_trigger", "read_back",
                          "find", "claim", "set", "store"} \cup Stages]
  /\ call \in [Programs -> CallOK]
  /\ exit \in ExitOK
  /\ calls \in Seq(Devices)
  /\ configured \subseteq Entries
  /\ touched \in [Gpios -> Nat]
  /\ \A p \in Programs :
       pc[p] \in Stages \cup {"claim", "set"} => Entry(p) \in Entries

\* The gpios that exit_gpio_driver has still to free for the entry it took.
Remaining ==
  CASE exit.at = "gpio"      -> AllParts(ExitEntry[1])
    [] exit.at = "direction" -> AllParts(ExitEntry[1]) \ {GpioPin[ExitEntry[1]]}
    [] exit.at = "function"  -> FunctionPins[ExitEntry[1]]
    [] OTHER                 -> {}

\* No gpio stays requested for a pin that is marked free: the table knows of
\* every gpio the driver has, also in the middle of setting up and freeing, and
\* when two programs have got the same entry.
RequestedIsInUse ==
  \A g \in requested :
    g \in Remaining \/ \E e \in Entries : is_in_use[e] /\ g \in AllParts(e[1])

\* Once set up, a pin stays as it was set up until it is given back: its gpios
\* requested, its direction and levels those of its function.  Other programs
\* configuring other devices at the same time do not get in between, as long as
\* no entry that shares a gpio with it has been claimed as well.
UndisturbedStaysSet ==
  \A e \in configured :
    (\A g \in AllParts(e[1]) : touched[g] = 1) =>
      /\ is_in_use[e]
      /\ AllParts(e[1]) \subseteq requested
      /\ \A stage \in Stages : \A g \in Part(stage, e[1]) :
           line[g] = Level(stage, e[2])

\* The module gives everything back when it is unloaded, if no device was
\* configured twice: also the pins of a device that lost a race for them, and
\* although every device frees what its numbers say and not what it got.
ExitFreesAll ==
  exit.at = "done" /\ (\A i, j \in DOMAIN calls : calls[i] = calls[j] => i = j) =>
    requested = {} /\ \A e \in Entries : ~ is_in_use[e]

=============================================================================
