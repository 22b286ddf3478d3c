# Verification of the HC-SR04 ultrasonic sensor drivers

TLA+ models of the two Linux drivers of this repository, the TLC runs that check
them on small instances, and theorems about them that TLAPS proves for every
value of the constants.

- `src/Character Device Driver/` is a misc driver: each sensor is a file
  `/dev/hcsr_i` with `open`, `write` (start a measurement), `read` (a result) and
  `ioctl` (pins, number of samples). Below: **char**.
- `src/Platform and Sysfs device driver/` is the same sensor as a platform
  device, with sysfs attributes `trigger`, `echo`, `number_samples`,
  `sampling_period`, `enable`, `distance`, and a module that creates the
  devices. Below: **platform**.

## 1. Inventory

| component | state | operations | what makes it correct |
|---|---|---|---|
| ring buffer (`buffer.h`, both drivers) | `result`, `head`, `tail`, `size`, `count`, semaphore with its wait list, spin lock | `init_buffer`, `alloc_buffer`, `insert_buffer`, `read_fifo`, `clear_buffer` | cursors stay in the array, whatever array it is given; reads return what was inserted, oldest first, once |
| char measurement (`hcsr.c`) | `struct hcsr_dev`: `buffer`, `all_samples`, `is_in_progress`, `param`; the owner of the echo interrupt | `start_measurement`, `read_buffer`, `ioctl_handle`, the thread `start_sampling`, the echo handler | one thread samples at a time; while the busy flag is set a thread can go on to clear it; a result comes from samples taken since its thread had the line; a read returns a published result, once; a measurement ends although echoes get lost |
| echo timing (`hcsr.c`, `interrupt_handler`) | the globals `time_raising` and `time_falling`, the edge each line is armed for | `interrupt_handler`, `set_interrupt`, `release_irq` | one sample for each pulse; the distance is the width of the pulse, or wrong in a known way |
| pin multiplexing (`muxtable.h`, `CONFIG_PINS`, `store_echo_pin`, `store_trigger_pin`) | the global `mux_table` with `is_in_use`, the gpios requested and their levels, the pins of each device | `check_pin`, `validate_pins`, `get_pin`, `get_used_pins`, `set_pin_conf`, `set_mux`, `mux_free_pins` | the table knows of every gpio the driver has; a pin stays as it was set up for its function; what was claimed is given back |
| char module (`hcsr.c`) | the list at `HEAD`, the registered misc devices, the structs of each `insmod` | `init_gpio_module`, `exit_gpio_driver`, `device_open`, `release` | a loaded module has exactly its own devices, complete; an open finds its device and comes to an end; an exit leaves nothing registered and frees the structs; what is used is there |
| platform measurement (`platform_driver.c`) | as char, with buffers of one element | `trigger`, `store_enable`, `store_sample_numbers`, `SET_PARAMETERS`, `show_distance` | one thread samples at a time; the flag is served; a thread that gets the line publishes; `distance` shows the last result |
| platform bus (`platform_driver.c`, `platform_device.c`) | the list at `HEAD`, `device_list`, the class, `gko_device`, the arrays of each device, the global `all_samples` | probe, remove, `device_open`, module init and exit | the order of the two `insmod`s does not matter; an open finds its device; freed structs are not used; unloading the devices leaves only what the code never frees |
| test programs (`main.c`, `Main_sysfs.sh`) | none | `main.c`, without threads: configure all devices; then read twice from each in turn, write four times to each, and read twice from each again. `Main_sysfs.sh`: the attributes, then `enable` | they are the users: the order of their calls is what the models assume of a device in operation |

How they interact: a program's `write` or `read` calls the driver, which starts a
kernel thread; the thread requests the echo interrupt, sends pulses, and waits on
the semaphore of `all_samples`; the handler inserts into `all_samples`, the thread
averages and inserts into `buffer`; `read` waits on the semaphore of `buffer`.
Everything between them is shared memory: two ring buffers, `is_in_progress`,
`number_of_samples`, `time_raising` and `time_falling`.

What is hard to get right here, and hard to test (each is a row of `hazards` in
`PROJECT.json`, at its line):

- the test and the assignment of `is_in_progress` have no lock around them, and
  neither has `buffer.count` in `read_buffer`;
- `read_fifo` sleeps in `down()` between `spin_lock_irqsave` and the unlock: on
  a multiprocessor it takes the lock to bed, on a uniprocessor (the Galileo
  board of the repository's README) its section is not atomic;
- `clear_buffer` and `init_buffer` call `sema_init` on a semaphore others use;
- the end of a measurement is three steps (publish, release the line, clear the
  flag) in which readers and writers decide what to do next;
- echoes get lost, and two spare pulses are all there is against it;
- errors of `request_irq` and `kthread_run` are not reported to anybody;
- a removed device stays in the list at `HEAD`, all class devices have one device number,
  the class is never destroyed, probes that fail leave what they made, and a remove
  frees the struct but not its arrays;
- the char module can be unloaded while its files are open, its programs sleep and its
  threads run: `fops` has no owner; a device is registered before it is complete, and an
  `insmod` that fails half way leaves devices without a module;
- `enable` written as 0 clears the busy flag under a running thread, and `distance` is
  shown without the lock;
- one `time_raising` and one `time_falling` serve all devices, and a handler of another
  one may run between any two accesses to them; their nanoseconds start again at 0
  every second; a line is armed for one edge at a time;
- `SET_PARAMETERS` and `sample_numbers` put another array under a measurement, of any
  length or none;
- `validate_pins`, the loop of `get_pin` and its mark are three looks at the mux
  table without a lock, pins share gpios, and pins are given back by their number
  and not by what a device got.

## 2. The modules

| module | what it is | code |
|---|---|---|
| `RingBuffer` | the record `struct buff` and the functions of `buffer.h` as operators on it; the kernel's lock and semaphore | `buffer.h` |
| `Fifo` | abstract: a bounded queue | |
| `FifoBuffer` | one of a device's two buffers and the processes that use it at the same time | `buffer.h`; `SET_PARAMETERS` and `store_sample_numbers` for an `all_samples` that gets another array while in use |
| `FifoBufferProofs` | theorems about `FifoBuffer` | |
| `Measurement` | abstract: what the driver promises one program | |
| `HcsrDevice` | one `/dev/hcsr_i`: programs, kernel threads, echoes, and the two `RingBuffer`s between them | `hcsr.c`, `buffer.h`, the order of calls in `main.c` |
| `HcsrDeviceProofs` | theorems about `HcsrDevice` | |
| `EchoTimer` | several devices' echo pins, the clock, and their handlers, one access to the shared times after the other | `interrupt_handler`, `set_interrupt`, `release_irq` |
| `EchoTimerProofs` | theorems about `EchoTimer` | |
| `MuxTable` | the mux table, the gpios, and the calls of several programs that give pins to devices and take them back | `muxtable.h`; `set_pin_conf`, `set_mux`, `mux_free_pins`, `validate_pins`, `CONFIG_PINS`, `exit_gpio_driver`; `store_echo_pin`, `store_trigger_pin` |
| `EchoLine` | on top of `MuxTable`: which echo lines are requested while devices get pins and measure | `set_interrupt`, `release_irq`, the start and end of a measurement, `enable` |
| `MuxTableProofs` | theorems about `MuxTable` and `EchoLine` | |
| `PlatformDevice` | one device of the platform driver, on top of `HcsrDevice`: what `platform_driver.c` does otherwise | `trigger`, `store_enable`, `store_sample_numbers`, `SET_PARAMETERS`, `show_distance`, the setup in `init_device` and `Main_sysfs.sh` |
| `PlatformDeviceProofs` | theorems about `PlatformDevice` | |
| `CharModule` | the char driver loaded and unloaded, and its users at every moment of it | `init_gpio_module`, `exit_gpio_driver`, `device_open`, `release`; calls and threads as users of a device |
| `CharModuleProofs` | theorems about `CharModule` | |
| `PlatformBus` | the two modules of the platform driver loaded and unloaded, the bus's probes and removes, and the users of its devices meanwhile | `Plat_driver_probe`, `init_device`, `Plat_driver_remove`, `device_open`, `release` of `platform_driver.c`; `platform_device.c`; calls, `enable` and threads as users of a device |
| `PlatformBusProofs`, `PlatformBusOrderProofs` | theorems about `PlatformBus` | |
| `MCFifoBuffer`, `MCHcsrDevice`, `MCMuxTable` | values and symmetry for TLC; `MCMuxTable` has the rows of the real table | `mux_table` |

### RingBuffer and FifoBuffer

`RingBuffer` has no variables: it is the record and what each function does to it,
so that every module that owns a buffer uses the same text. `SMP` selects the
kernel build. On SMP `spin_lock_irqsave` excludes all other CPUs until the
unlock, also while the holder sleeps; on a uniprocessor it only disables
interrupts and preemption, and `schedule()` undoes that for the others. In both
builds a locked section that does not sleep is one step. `down()` on an empty
semaphore appends the caller to `waiters`; `up()` hands the unit to the first
waiter, or counts it. `sema_init` empties the wait list and wakes nobody.

Two bytes-for-elements details matter. `memset(result, 0, size)` clears `size`
bytes, not elements: 5 bytes of the 8 of the first timestamp (or 3 to 7 for the
samples), modelled as a timestamp that is no longer that of the result. And it
faults when there is no array or the size is negative.

`FifoBuffer` puts processes around it. `which` says which of the two buffers of a device it is.
The ring called `buffer` gets its array and its size (`MAX_BUFF_SIZE`, here `Size`) once.
`all_samples` starts zeroed and gets another array whenever a program asks for it: `AllocSamples` is
`alloc_buffer` of `SET_PARAMETERS` or of `sample_numbers`, which takes no lock and answers with an array
of any length up to `Cells`, shorter than the one before, one without an element, or, as `kmalloc` failed, with
`NULL`. `InitSamples` is the `init_buffer` that follows in `sample_numbers` only (`stores` counts the writes
that are between the two), with the platform driver's size 1 whatever was allocated. An access
without an array is a fault: in a process it is the end of it (`Dies`: `pc` is `"oops"`, its lock stays taken), in
the interrupt handler, which is who inserts into `all_samples`, of the machine (`halted`).

`Spec` lets anybody call anything at any time. `DisciplinedSpec` is the use under which the ring called
`buffer` can be expected to be a queue: nobody inserts into a full one, or clears it while a reader is inside.

### HcsrDevice

Each action is what a program, thread or handler does between two accesses to
state that the others change. `cpc` says where a program is in its system call:
`write` is `WriteCall`, `StartCheck` (293), `StartClear` (298), `StartMark` (303),
`StartSpawn` or `SpawnFails` (305); `read` is `ReadCall` and `ReadProgress` (317,
its two operands are read one after the other) and then `read_fifo` or
`start_measurement`; `ioctl(SET_PARAMETERS)` is `SetParameters` and
`AllocSamples`. `tpc` says where a kernel thread is in `start_sampling`:
`SetInterrupt`, `ClearSamples`, `Pulse` (one turn of the trigger loop),
`CollectEnd`/`CollectRead`/`CollectSleep`/`CollectWoken` (one turn of the
collecting loop; `number_of_samples` is read again at each), `Average`,
`InsertResult`, `ReleaseIrq`, `Finish`. `EchoSample` is the handler at a falling
edge; `EchoUnheard` an echo when no handler is installed; `EchoLost` a pulse with
no answer. `OneSampler` is why `irq_owner` is one thread and not a set:
`request_irq` without `IRQF_SHARED` refuses a second one.

A fault in a thread (`memset` or a store through a missing array, a division by
0) is `Oops`: the thread is gone, its interrupt and lock stay. The same fault in
the handler stops the machine (`panic`).

`Spec` starts with a freshly registered device and lets programs call `ioctl` at
any time with any number in `NumSamples`. `OperatingSpec` starts where `main.c`
starts its measurements, after one `SET_PARAMETERS`. The theorems are about both.
`FairSpec` adds fairness.

The distances of the echoes are any integers: the two times of one pulse may lie on two sides of a second, or
be another device's (`EchoTimer`), so that a sample is 0 or negative. `Quotient` is C's division, which truncates
towards 0 whatever the signs of the sum and of the parameter are.

`CanGoOn` says for each place in a thread's text what it needs to take the step: the lock, the echo line, or,
asleep, to be the one that `up()` wakes and an echo to wait for. It is the text's condition and not
"the thread has not ended": a thread that sleeps with nobody to wake it cannot go on. `Stuck` is somebody asleep with a lock on SMP, the
subject of `finding_lock`.

History variables (`taken`, `reconfigured`, `published`, `delivered`, `overrun`, `failed`)
record what happened for the properties and enable nothing. `overrun` says that since the last
`clear_buffer` a result was inserted while every element had a unit of the semaphore. A result's timestamp
is the number of the thread that made it, which stands for `rdtsc`.

### EchoTimer

`HcsrDevice` takes the distance of an echo as given; `EchoTimer` is where it comes
from. A line latches an edge of the kind it is armed for (`pending`). The handler reads the pin
(`HandlerEntry`, 69-71) and the clock (`TakeTime`). At a rise `HandlerHigh` stores the time in `time_raising`
and arms for the falling edge. At a fall `HandlerLow` stores it in `time_falling`; `Load` is each of the two
operands of the subtraction being read back from the globals, in either order; `Sample` subtracts, inserts and arms for the
rising edge. On SMP the handler of another line runs between any two of these (`SMP` FALSE: only one handler
at a time). `taken` is what `getnstimeofday` has got from the clock and not stored yet. A `struct timespec` of two
different times makes no difference, since only `tv_nsec` is used. `Slow` bounds how long a handler takes from the
clock to its end; what the properties allow for interference (`Slack`) is in terms of it, and 0 without SMP.

`Prompt` is the set of devices whose handlers end before their pin changes again, which the code needs and
nothing in it ensures; the run has one device of each kind. `pulse` remembers when the sample's pulse rose and
fell and whether both operands were the device's own (`own`, from `writer`).
`Second`, `PerCm` are 10^9 and 58000 scaled down; the theorems hold for all values.

### MuxTable

`is_in_use` is the column of `mux_table`; `requested` and `line` are what the gpio
library knows of each gpio; `pin` and `gpio` are the `struct pins` of each device;
`pc` and `call` are where a program is in its call, with the call's arguments and
locals. `driver` is chosen in the beginning: the character driver has `CONFIG_PINS`
with its validation, and an exit that gives pins back; the platform driver has
`CONFIG_PINS` without (it is commented out there) and the two sysfs stores. A pin number
has two entries, one for each function. Negative numbers are like those the table does
not have.

- `ConfigPins`, `CheckEcho`, `CheckTrigger` are `CONFIG_PINS` up to `set_mux`;
  `StorePin`, `ReadBack` are a store, which writes the number to the device and
  then reads it back from there.
- `FindPin` is the loop of `get_pin`, `ClaimPin` its assignment: separate steps, since
  nothing locks the table. `SetUp` is `set_pin_conf` in three parts (the gpio itself,
  its level shifter, the function pins); it ignores the answer of `gpio_request`, as the code
  does. `PinIsSet` is its return, `Store` the assignments that end `set_mux` or a
  store, which touch one device and are one step.
- `ExitBegin`, `ExitFind`, `ExitFree`, `ExitNext` are `exit_gpio_driver` with
  `mux_free_pins` of each device's trigger and echo pin. They begin when no program is in a
  call. (The kernel would let them begin during one, since `fops` has no owner; the call then
  uses a struct that is freed, which is the subject of `CharModule`.)

The pulses of a measurement also set the trigger gpio; they leave it at its level and
are not here. `calls`, `configured` and `touched` are history.

### EchoLine

`set_interrupt` and `release_irq` each ask for the interrupt of the gpio that the device has at that
moment. `HcsrDevice` has one line, which is right as long as the pins stay. `EchoLine` EXTENDS
`MuxTable`: a `PinStep` is any step of it, and between them measurements of all devices start and
end, at most `MaxStarts` of them, and at most `MaxBusy` calls and measurements at a time (`UnderWay`). `owner` is the device for which `request_irq` was called on each line; `tpc` and
`handle` are where a measurement is and its device.

- `StartCheck`, `StartMark` are the look at `is_in_progress` and its assignment, `SetInterrupt` the beginning
  of the thread, `ReleaseIrq` and `Finish` its end, `Disable` a 0 written to `enable`. Samples, buffers, and the
  failures of `kthread_run` and of the thread are in `HcsrDevice`. A place in `Threads` is used again.
- `free_irq` for a line that has no handler of this device (or for an errno) only warns.
- Exit begins when no measurement is under way, as it does in `MuxTable` for the calls; the exit during
  one is in `CharModule`.
- `moved` (history) are the devices that got another echo gpio while a thread of theirs sampled. They
  are the exception in `LinesMatchThreads`: the old line stays requested for ever, and with `enable` a second
  thread may sample on the new one and lose its line when the first ends. `RefusedHasCause` says
  that this harms no other device: the pin of a line left behind stays in use.

### PlatformDevice

`read_buffer`, `start_sampling` and the echo handler have the same text in both drivers, so
`PlatformDevice` EXTENDS `HcsrDevice` and takes their actions from it, with
`MAX_BUFF_SIZE` = 1 (`platform_device.h`, an ASSUME of the module). What is different has
actions of its own:

- `EnableCall` is a 1 written to `enable`, `Trigger` the beginning of `trigger` for it and for
  `write`: `enable` passes the number 0 and never clears the buffer, `write` may.
  `TriggerRest` is the rest, as in `HcsrDevice`. `Disable` is a 0, which clears
  `is_in_progress` and tells nobody.
- `SetParameters` (the first half of a write of `sample_numbers`), `StoreAlloc` and
  `StoreInit` allocate and initialise `all_samples` of the device, whoever uses it.
  `SetNumberOnly` is the ioctl, which gives the array it allocates to the
  global `all_samples` that no device uses.
- `Report` is the `printk` of the result that the thread has between its insert and `release_irq`: it divides by
  `number_of_samples` once more, as that is by now, and a 0 kills the thread with the line (269). `reported` are the
  threads that are past it.
- `show_distance` is an expression, not an action: it reads element 0 and changes nothing.

A behaviour starts with a device as `init_device` leaves it, or as `Main_sysfs.sh`
has set it up, with `sample_numbers` written once and not to 0. `latest` is history.

### CharModule

`state` is the kernel's of the module; `at` says where `init_gpio_module` or
`exit_gpio_driver` is, and `i`, `temp`, `device` are its locals. The device made in turn `i` of
the `loads`-th `insmod` is the pair `<<loads, i>>`: the struct of an earlier `insmod` is a
different object with the same name.

- `Insmod`, `Register` (`kmalloc` and `misc_register`), `Link`, `Prepare` (`alloc_buffer` and `init_buffer`),
  `InitReturns` load; `InitFails` is each error return: nothing is undone, and the
  kernel unloads the module. `Rmmod`, `ExitTake`, `Deregister`, `Free`, `ExitReturns` unload.
- `OpenBegin`, `OpenWalk`, `OpenEnd` are `device_open`, with the kernel's `misc_mtx` held
  (`MiscFree`), which `Register` and `Deregister` need too.
- `Call`, `ReadReturns`, `ThreadEnds`, `Close` are what uses a device after that. What they do with
  it is in `HcsrDevice`; here it only matters whether it is still there.
- `fops` has no `.owner`: the kernel does not count the users, and `Rmmod` has no guard about
  them. A use of what is not there ends the behaviour with `fault`: `"freed"`
  memory, code of a module that is `"gone"`, a buffer that is `"unready"`. `events` is history: what
  happened that could explain a fault.

### PlatformBus

One administrator gives one command after the other (`command`): `InsmodDevice`,
`InsmodDriver`, `Rmmod`. `NextDevice` is the driver core's loop over the devices, whose
order is `Order`: registered and attached in order, detached from the last one bound. A
probe is `MakeClass`, `NewDevice` (`kmalloc` and `misc_register`), `AllocBuffer`, `Link`,
`InitBuffer`, `AddDevice`, and may fail at three of them, where the code leaves
behind what it has made (`failed`). `AllocBuffer` is the `kmalloc` of the `struct buff` that the global
`all_samples` points to, whose answer is not looked at (642), and that of `buffer.result` (643). `arrays` are those made.
A remove is `Unlist`, `Deregister`, `Free`, and `Free` frees the struct only (799): nothing in the driver takes
from `arrays`. The number of an object stands for its
`struct hcsr_dev` and for the minor number of its miscdevice.

- `HEAD` with the `next` of each object is the list that `device_open` walks;
  `device_list` is the one that the remove searches. A remove takes the object
  from the second only, so the first keeps pointers to freed memory.
- `OpenBegin`, `OpenWalk`, `OpenEnd` are `device_open`. The kernel holds `misc_mtx`
  around it, which `NewDevice` and `Deregister` need too (`open.asked = NULL`).
- `class` is the kernel's list of class devices. `device_destroy` looks for a device number, and
  all devices have the same, so `Unlist` destroys the first one, whoever is removed.
- The class itself is never destroyed, so a driver loaded for the second time gets an error
  from `class_create`, which it passes on to `class_unregister`: `MakeClass` ends in
  an `"oops"`.
- `Call`, `Close`, `Enable`, `ThreadEnds` use a device: the program that has it open (`file`),
  its attribute file, and the threads that they start (`sampling`). An `ioctl` may allocate the array of the
  global `all_samples`, and faults if the last probe got no memory for that (`"oops"`). As with the char
  driver, nothing counts them, and no guard of `Free` or `CommandEnds` is about them.
  `base` tells the objects of a driver that is gone from those of one loaded again.
- `fault` is `"freed"` after a use of memory, or of code, that is gone, and `"unready"` after a
  use of a buffer that `init_buffer` has not seen. After a fault nothing is known, and the
  behaviour ends. `events` is history, as in `CharModule`.

## 3. The runs

| run | question | bounds |
|---|---|---|
| `fifo_queue` | Is the ring called `buffer`, used with discipline, a bounded FIFO queue (refinement of `Fifo`)? | size 3, two readers, three data: head and tail go around the end, and two readers sleep and are woken in any order |
| `fifo_bounds` | Can any order of calls move a cursor out of the array: overflow, clears, and an `all_samples` that gets a longer array, a shorter one or none while it is used? | ring of size 2, arrays of `all_samples` of up to 2 elements, without an element, and `NULL`; two `sample_numbers` between their two calls; semaphore up to 3, more than the size, so overflows happen; 36,592 states |
| `device_single` | Does a device that one program uses implement `Measurement`, do results come from fresh samples, can a thread go on while the flag is set, does a measurement end, and does a waiting read return? | 1 and 2 samples; distances -2 and 1, so that sums and quotients are of either sign; two measurements: the second one meets what the first left behind; two lost echoes in each: all the spare pulses (264,225 states, a minute and a half) |
| `device_programs` | With three programs on SMP: one sampler, can a thread go on while the flag is set, results published, none read again unless the ring was overrun, and does a call that returns without a result leave a measurement? | three threads, which three programs can start before one of them clears the buffer again: one samples, another is refused or waits for its turn and publishes later, so that the ring of two is overrun; the parameter -1, with which a measurement is one pulse and no echo (samples are the subject of `device_single`, `device_setup` and `platform`); 1.1 million states, about a minute |
| `device_setup` | Does everything stay in range, and does a program still see a `Measurement`, when `ioctl` sets any number at any time and kernel calls fail? | samples from -3 to 1: huge `memset`, none, division by 0, normal |
| `echo` | One sample for each pulse; and how wrong can a distance be, with two devices on SMP and a handler of the other one between any two accesses? | one device prompt and one not, two pulses for the first and one for the other; a handler takes one unit of time at most (`Slow`), a second six, and the clock runs over one turn of it, during which the two handlers interfere in every way two pulses and one can (9.3 million states, two minutes) |
| `mux_pins` | Two programs configure two devices, also while these measure, and the module is unloaded: does the table know of every gpio, does a pin stay set, is everything given back, does each sampling thread have its line, and why is a line refused? | both drivers; pins 0 and 6, each as echo and as trigger, so that devices compete for an entry (0 is also the pin number of a device never configured, but no pin here has gpio 0, so only such a device is excused by it); two calls and three measurements, two of these five under way at a time: a device is configured twice, two are configured and measure, a pin is changed under a measurement, and the line left behind meets another start of the device (three minutes) |
| `bus` | In whatever order the two modules are loaded and unloaded, and whatever probe or `kmalloc` fails: are the lists and the class those of the devices, does an open find its device, what stays in memory, and what can be used that is not there? | the two devices of the code; three `insmod`s, so that one of the modules is loaded a second time; one program and one sampling thread, which may be of either device (2.2 million states, half a minute) |
| `platform` | With `enable`, `write`, `read` and the stores in any order: one sampler, can a thread go on while the flag is set, does a thread that gets the line publish, and does `distance` show the last result? | one program; 0 and 1 samples, so that the division at 269 can fault; two threads (the second may be started while the first runs); one store, whose `kmalloc` may fail; two lost echoes, all the spare pulses; uniprocessor (on SMP the lock stays taken, as in `finding_lock`); 1.6 million states, under three minutes |
| `module` | The module loaded and unloaded while a program opens and uses its devices: does an open find its device and return, is a loaded module whole, is anything left, and what can be used that is not there? | 0 to 3 devices (with three the list has a middle, so `temp` has to move on); two `insmod`s, so that one comes after a failed one or after an exit in use; one program, since the walk of a second one excludes the first (with two, 4.1 million states, the run passes as well) |
| `finding_*` | the two disagreements of section 6, each violated by the code | the smallest instances that show them |

The bounds are enough where the state they cut is a repetition: a third
measurement meets the same leftovers as the second one, and the buffer's cursors take
every position they can relative to a size of 2 or 3. `MAX_BUFF_SIZE` is 5 in the code
and 2 in the runs, so that two results already go around. `MaxStarts` is in the
guard of `StartCheck` (a program that would start one thread too many waits),
`MaxLost` in that of `EchoLost`, `MaxUnits` in that of `Insert`, `MaxTime` in that of
`Tick`, `MaxPulses` and `MaxOthers` (prompt devices and the others) in that of `Change`, `MaxCalls` in that of
`Begin`, `MaxBusy` in those of `PinStep` and, with another `MaxStarts`, of `EchoLine`'s `StartCheck`, `MaxLoads` in those of
`InsmodDevice`, `InsmodDriver` and `Insmod`, `MaxThreads` in that of `StartSampling`, `MaxStores` in those of
`AllocSamples` and of `PlatformCall`'s stores; `Cells` bounds the arrays of `FifoBuffer`.

What `module` shows: after an `insmod` that failed behind its first device, no later one
succeeds (`LiveIsWhole`: it would have a registered device that is not its own), because the first
name is still taken. An open that runs while devices are linked behind it, or freed under it,
reaches every device that was in the list when it began (`OpenFindsLinked`), in a
bounded number of steps (`OpenReturns`). And each use of freed memory, of code that is gone or of
a buffer that is not ready has one of four causes (`FaultsHaveCause`): an open
during init, an open during exit, an exit in use, a failed init.

What `echo` shows: two handlers that interfere can only make a distance smaller, but for the time they take
themselves (`OnlyShortened`; without SMP, for nothing). Near the turn of a second it can be a whole second
too small, hence negative; and it is exactly the pulse's own width, as far as nanoseconds tell it, or that less a second, if both times are the device's own (`OnlyRollsOver`).

What `mux_pins` shows: a refused line has one of four causes, and without any of the four the run finds a
refusal. That a line left behind is not a fifth one needs three calls, two for the device that
leaves it and one for the device that meets it, more than the run can afford beside the measurements; the theorem `Refusals` is about any
number.

What `platform` shows: although `enable` can start a second thread under the first, only
one samples, since `request_irq` refuses the second; and `distance` is the last result
at every moment, although reads, clears and starts work on the same element (`DistanceIsLatest`;
of the element they change only one byte of the timestamp). A thread that has got the line publishes
(`EverySamplerPublishes`), although two echoes get lost and `enable` starts others under it; not if `sample_numbers` or
the `ioctl` was written under it, which is the exception `reconfigured`.

What `bus` shows: both orders of the `insmod`s give the same two devices (`EitherOrder`), and
unloading the device module leaves of each device that was bound just its
arrays, which nothing ever frees, and of a probe that failed its struct, with what it had registered
(`UnloadLeavesArrays`). That the lists and the class are empty works by luck of the order: devices are removed as they came, so the
first class device with the number all of them have is the right one (`ClassIsList`). When
the driver is unloaded first, the order is the other one, and with two devices the second remove
uses a class device that the first has destroyed; `FaultsHaveCause` says that this, an
open of a device that is not in the list (yet, or for ever after a failed probe), and a
device that is removed while it is opened, open or sampling, are the
only ways to memory that is gone, although `HEAD` keeps every freed struct: an open of a
device that is there finds it before it comes to one of them. A buffer that is not ready is met only by
who opened the device during its probe, and an `"oops"` comes from `device_create` failing,
from a class that an earlier driver has left, or from an `ioctl` when the global `all_samples` got no memory.

Deadlock is not an error in the device, platform, module, echo, pin and bus runs (`CHECK_DEADLOCK FALSE`): a
program may stop calling, a reader may sleep when no measurement comes, a fault
ends a `bus` or `module` behaviour, and the bounds end every one. Nor is it in `fifo_bounds`, where a fault in the
handler stops the machine. `fifo_queue` does check it. Symmetry of programs or readers is
used only where there is no liveness property.

### Fairness

`device_single` checks its liveness properties under `FairSpec`, which has weak fairness of every program inside a call, of every kernel thread
and of the echo: the scheduler runs what can run, and a pulse is answered or
counted as lost. Nothing makes a program call. At most `MaxLost = 2` echoes are
lost in a measurement, which is what the two spare pulses are for; with a third one
lost the thread would wait for ever, and that is the code's behaviour too. Weak
fairness is enough because on a uniprocessor no step waits for a lock that is
taken and given back again and again. On SMP liveness does not hold
(`finding_lock`).

`platform` assumes less (`PlatformFairness`): as long as a thread can run or an answer to a pulse is due, one of these
comes, whichever (one weak fairness of all of them together); no program has to go on, not even
inside a call. That is enough because a measurement is a finite number of such steps.

`module` needs `device_open` alone to run on (`FairSpec`): the walk ends
whatever the loader and the other users do, and even if they stop for ever.

## 4. The proofs

All proofs are checked by `tlapm` with Z3, Zenon and LS4. They assume the named
ASSUMEs of the modules only (types of the constants, `NoOne` not a process, ...).

- `FifoBufferProofs!MemorySafe`: `Spec => []IndexInBounds`, for every size of the ring, number of processes,
  data, and array that `all_samples` is given, one of a single element or none included. `IInv` adds to the types that the cursors
  lie in the ring of `size` elements whatever the array is (`CursorsInRing`), and that `size` fits: the ring called `buffer` keeps its
  array, and `all_samples` only ever has size 0 or 1 and uses element 0 alone (`SizeFits`), which
  any array with an element has. `head` is reset when it reaches `size` whatever `count`
  says, and `tail` only moves from an `InsertIndex` that is in the ring.
- `FifoBufferProofs!SleepersStay`: on SMP a reader that sleeps in `down()` with the
  lock stays asleep in every step. The invariant is that on SMP the wait list
  of a buffer whose lock is free is empty; `insert_buffer` needs the lock, so `up()` finds nobody
  to wake, and `init_buffer`, which frees the lock by force, empties the list.
- `FifoBufferProofs!ImplementsQueue`: under the discipline of `DisciplinedSpec`
  (no insert into a full ring, no clear during a read) `DisciplinedSpec => IsQueue`: the ring buffer implements `Fifo`, for every size, any number of
  readers, both builds. `QueueInv` has two parts. `ListInv`: the wait list is the
  sleepers, each once, so that `up()` wakes a reader that is not yet awake and the insert counts as one
  more element outstanding. `RingInv`: the element that `insert_buffer` writes next lies as many places after
  `head` as elements are outstanding, around the end of the array. `Contents` is then a stretch of the array
  (`Between`): an insert writes just after it, a read takes its first element, whether the unit comes from the
  semaphore or was given to a reader that has yet to run. `count` plays no part in it.
- `HcsrDeviceProofs!AtMostOneSampler`: `OneSampler`, for any number of programs
  and threads, with every failure, under `Spec` and `OperatingSpec`. The inductive
  invariant `SamplerInv` adds that unborn threads are those above `starts` and that
  whoever is on the wait list of `all_samples` is a sampling thread that is asleep: `up()` moves a thread from
  `asleep` to `woken`, and it must not move one that has ended.
- `HcsrDeviceProofs!FlagIsServed`: `BusyIsServed`, under the same specifications: while the flag is set some thread can take
  the next step of its text, or a program is about to start one. `BusyInv` gives a thread that has not ended: it needs
  `OneSampler` (a thread that is refused leaves another one) and
  that sleeping programs (`ReaderInv`) are not woken out of `spawn`. `GoingInv` says why it can go on.
  `LockInv`: a lock is held between two steps only by somebody asleep on SMP or by a thread that died with it.
  `SupplyInv`: the pulses a collecting thread has sent are all heard, lost or still to come
  (`Supplied`), they are two more than it needs, and it is the one on the wait list; so with at most two
  of them lost, a thread asleep has an echo to come, by the count of `SampleInv` (below). The
  theorem excludes what really leaves the flag set for ever: a call that failed or a fault (`failed`, `panic`), parameters or
  an array changed under the measurement (`reconfigured`), a third echo lost, and somebody asleep with a lock (`Stuck`).
- `HcsrDeviceProofs!EmptyReadsMeasure`: `EmptyReadMeasures`, from `BusyInv` where a call is
  refused, and from what `kthread_run` does where it is not.
- `HcsrDeviceProofs!TypeCorrect`: `TypeOK`. `RingsInv` gives each buffer the ring of its `size`: the head is in it
  and the tail at most behind it; `all_samples`, of size 0, uses element 0 only (`InRing`).
- `HcsrDeviceProofs!ReadsPublished`: `DeliveredWasPublished` on SMP, for any number of programs. `Stocked`
  says that as many results as the semaphore has units lie from `head` on, up to `tail`, each a published one,
  until the ring has been filled once, and that then every element is one. `clear_buffer` sets the units to 0; it
  cannot come between the wake-up of a reader and its read, which still has the lock.
- `HcsrDeviceProofs!FreshSamples`: `ResultFromFreshSamples`, for samples that are any integers. `Account` keeps the thread's
  books: the samples it has added, the unit it was woken with and those still in the semaphore are the echoes since it cleared
  `all_samples` (`Counted`), and its sum is between `k` times the least of them and `k` times the greatest (`Between`), `k` being the
  number it has added. So the quotient of C is between them too, whichever sign the sum has (`QuotientIsNear`). A read with no unit
  waits for one, which is why no older sample gets in. A late echo of an earlier measurement's pulse that comes after the clear is
  a fresh sample like any other: the code cannot tell them apart, and the theorem does not claim it.
- `HcsrDeviceProofs!ImplementsMeasurement`: `Spec => IsMeasurement` and `OperatingSpec => IsMeasurement` if there is one
  program (`SoleClient`), with every failure and both builds. `CourseInv`: a measurement is started only while
  no thread is live, since the one program that could pass the test twice is the one that is in the start. `ResultInv`:
  at most one result is out, in element 0 (`OneResult`), and none while the phase is "sampling"
  (`Empty`), because the start has emptied the ring and its thread inserts once. Then `StartClear` is
  `Start`, `InsertResult` is `Publish`, `Finish` is `Finish`, both reads are `Deliver`, and every other
  step stutters.
- `HcsrDeviceProofs!EachOnce`: for one program, on both builds, no result is delivered twice and the ring is never
  overrun: whatever is out or delivered belongs to a thread past its insert (`OnceInv`), and an insert finds
  the ring empty (`RoomForOne`).
- `HcsrDeviceProofs!FreshReads`: `DeliveredOnce` on SMP, for any number of programs and threads. As long as `overrun`
  is false, the elements that the semaphore has units for, from `head` on and around the end of the array
  (`Slot`), are published results that no read has returned, no two of them the same, and the next insert
  goes behind the last of them (`Unread`, in `TurnInv`). A read takes the first; a clear leaves none; an insert adds a
  new one, since a thread inserts once and its number is the result's. The exception is needed with two
  programs already, whatever `MAX_BUFF_SIZE` is. Each time both pass the test of `is_in_progress` together, one thread
  more waits before the line than ends; the flag is cleared by those that end, so this repeats. When
  the threads that wait get the line one after the other, nothing clears the buffer between their results. When
  more of them publish than the ring has elements, `sem` exceeds it and an element is read twice. (An
  instance with two programs and four threads reaches `overrun` with a ring of two.)
- `EchoTimerProofs!TypeCorrect`; `TwoTruncations` (dividing by 1000 and then by 58 is
  dividing by 58000, which is why `Distance` has one division);
  `InterferenceShortens` (`OnlyShortened`) and `OneSecondTooSmall` (`OnlyRollsOver`), for any devices whose handlers run
  between any two accesses of each other, for every clock and scale. `TimeInv` says of each device that the times in
  the globals and those its handler has loaded are within `Slack` of its own (`Near`, `LoadedOK`): `time_raising` is no earlier than
  its last rise, since what another handler stores was taken at most `Slow` ago, and neither is later than its fall by more than that; and a global
  that it wrote last itself is its own time (`Wrote`). Within a second nanoseconds do not start again, so that
  gives `OnlyShortened`; over any time `Remainder` carries the rest: the nanoseconds of two
  times differ by those of their difference, or by a second less.
  `NoPulseMissed` (`OneSamplePerPulse`), from an invariant that relates the pin, the
  edge the line is armed for, and where the handler is.
- `MuxTableProofs!TypeCorrect`, `RequestedInUse`, `StaysSet`, `FreesAll`: `TypeOK`,
  `RequestedIsInUse`, `UndisturbedStaysSet` and `ExitFreesAll`, for every table, any number of devices and
  programs, and both drivers. `InUseInv` adds to `RequestedIsInUse` that a program which sets up
  a pin has its entry marked, and that the entry exit is freeing is marked free already and its
  gpios are those that `Remaining` counts. `SetInv` is why a pin stays set: each entry
  that may have gpios has been counted once in `touched` (`HeldTouched`), a gpio of two
  of them twice (`SharedTouched`), and so one of an entry that two programs have got
  (`TwiceTouched`) or that is claimed again (`AgainTouched`); hence a step that disturbs an
  entry's gpios belongs to an entry that has made their count 2. `BusyIsSet` says which
  parts a program has gone through, so that at the end `ConfiguredIsSet` holds.
  `FreesInv` is why exit finds every pin although it frees what the devices' numbers say: as long as no
  device is configured twice, an entry in use is either the pin of a device with no call under way which the
  walk has still to come to (`StoredIn`, `ToCome`), or a pin that a call has asked for and not stored yet
  (`Wants`); at the end of the walk there is neither, and with no entry in use no gpio is requested.
- `MuxTableProofs!LineTypeCorrect`, `LinesMatch`, `Refusals`: `LineTypeOK`, `LinesMatchThreads` and `RefusedHasCause`. (The theorems
  above are about `LineSpec` too, by the lemma `PinsWhileMeasuring`: a measurement changes nothing of `MuxTable`.) `LineInv` adds that
  a gpio of a device is one that the irq layer knows or `-EINVAL` (`GpiosKnown`), and that a device that keeps
  its pin has the gpio its thread requested (`Kept`): so it is the own line that `release_irq` frees, and a second thread of
  the device is refused. For `Refusals`, a device with gpio g, a call that has claimed g, and a
  device that has left g behind each stand for a claim of their own (`Claims`, `Counted`): whenever there are
  two of them, `touched` is 2. A step renames a claim (`Store`: the call's becomes the device's, the
  device's old one a line left behind) or adds one and counts it (`ClaimPin`).

- `PlatformDeviceProofs!PlatformOneSampler`, `PlatformFlagIsServed`: the two
  theorems of `HcsrDeviceProofs` for the platform's actions as well. A 0 in `enable` does not
  touch the line, and `StoreInit` empties a wait list but wakes nobody; a thread that it makes sleep for ever is excluded by
  `reconfigured`. `Report` may end the thread (`ReportFault`), which sets `failed`. `PlatformTypeCorrect`
  (`PlatformTypeOK`): `RingsInv` with a size of `all_samples` that `sample_numbers` raises from 0 to 1. `ShowsLatest`
  (`DistanceIsLatest`) needs only that with one element every insertion goes to
  element 0 and no other operation changes its distance.
- `PlatformDeviceProofs!PlatformFreshSamples`, `PlatformReturnsMeasure`: `ResultFromFreshSamples` and
  `EmptyReadMeasures` of the platform device. The thread's books only need that `all_samples` uses element 0
  (`OneCell`), which holds for its size 0 in the one driver and 1 in the other (`SampleTypes`), and a store that puts
  another array under a measurement sets `reconfigured`. A call that is refused was refused by
  the flag, so `enable` has not cleared it.
- `PlatformDeviceProofs!PlatformReadsPublished`, `PlatformFreshReads`: `DeliveredWasPublished` and `DeliveredOnce` of the
  platform device on SMP, from `ShelfInv` and `TurnInv`, which the platform's own actions leave alone
  (`AdditionTurn`), as they insert, clear and read nothing but through the actions of `HcsrDevice`. Here
  `overrun` is the normal case: a measurement started by `enable` clears nothing, and there is one element.
- `CharModuleProofs`: for any number of devices, programs and insmods. The inductive
  invariant (`Inv`) says where the loader is and what that means: its locals (`Place`), the list as
  a sequence of the first `Linked` devices (`ListInOrder`), which of them are registered, ready and
  freed (`Registered`, `Memory`: intervals of indices that the loader's place gives), what earlier
  insmods have left (`LeftBehind`, `NoLeak`), why a device that somebody uses may be gone
  (`UsedOK`), and where a `device_open` is in the list (`Walk`: before what it looks for). Each conjunct has a lemma with one
  case per action. From it follow `TypeCorrect`, `LiveWhole`, `FindsLinked`, `NothingLeft`
  and, with one more induction, `FaultsCaused`. `LiveWhole` is the one that needs
  an argument: an `insmod` registers its device 0 first, which fails as long as any device is left,
  because whatever was left includes a device 0.
- `PlatformBusProofs`: for any number of devices, insmods and threads. The inductive invariant
  (`Inv`) has three parts. `BusInv` is the driver core: which module the command under way needs, which
  devices it has still to come to and which of them are bound, and that the structs made and those still due
  fit the insmods. `ObjectInv` is the list at `HEAD`: it goes down from the newest struct and
  passes none that this driver has linked, so that an open is never beyond what it looks
  for (`Walk`). `ListInv` is that, as long as nothing has faulted, `device_list` has one struct
  for each bound device (`OneEach`), and that a miscdevice or the memory of any other struct is
  the command's or was left by a failed probe (`Accounted`). From it follow `TypeCorrect`, `OpenFinds`
  and, with `RemainsInv`, `ArraysLeft`: a struct has its `result` array from `alloc_buffer` on and for ever (it was linked or is the
  command's), and what is freed was linked, which no failed probe's was.
- `PlatformBusOrderProofs`: what depends on the order in which devices come and go. `OrderInv` adds
  to `Inv` that they are registered and bound as they are numbered, that a probe is of the next one
  (`Passed` counts those it is done with) and that `platform_device_unregister` comes to them in the
  order in which they are bound (`FirstBound`). Hence `ClassInv`: unless the driver is being unloaded,
  which goes through its devices from the last, the class is the list from its oldest struct, so
  the first device in it, which `device_destroy` finds, is the removed device's. From these follow
  `ClassListed` and `OrderFree`. For `FaultsCaused`, `StructInv` and `AgeInv` say
  what is registered, ready and freed, and that what is freed is older than what is in the list (so no
  walk that ends at a listed struct meets it), and `UsersInv` that what is used is in the list or about to be,
  unless it was opened or in use as it was removed.

Proved only: `TypeOK` of `EchoTimer` and of `MuxTable`, `LineTypeOK` and `SleepIsForever` hold for every instance, and no run
repeats them; nor does one check `DeliveredWasPublished`, `DeliveredOnce`, `ResultFromFreshSamples` and
`EmptyReadMeasures` of the platform device: the first two are about SMP, and `platform` is on a uniprocessor, and the
others are checked where samples and programs differ (`device_single`, `device_programs`). Model-checked only: liveness
(`MeasurementEnds`, `WaitingReadReturns`, `EverySamplerPublishes`,
`OpenReturns`), which TLAPS cannot prove under fairness. `DeliveredWasPublished` and `DeliveredOnce` are
neither checked nor true on a uniprocessor with several programs (section 6).

## 5. What the models leave out

- Failures of `copy_from_user`, `copy_to_user` and of the small `kmalloc`s of a call
  (they return at once and leak the copied argument).
- The sampling period `delta`: how late pulses are sent only decides when echoes come,
  and they come at any time in the model.
- An echo between `request_irq` and the first `sema_init` of `all_samples` (a
  spurious edge before the first pulse of the device).
- The globals `tsc_raising` and `tsc_falling`: the time stamp that a sample gets may be another device's, and nothing
  looks at it.
- The lock-free `overwrite` functions of `buffer.h`, which nobody calls.
- `printk`, formatting, terminal output.
- In `PlatformBus`: two administrators at once (the driver core's own locks), and the attribute
  files other than `enable`, which come and go with it and start no thread. Its calls leave out
  what they do with the device (that is in `PlatformDevice`).
- What the echoes of a device do after its pins have changed during a measurement: `EchoLine` says who
  has which line, and `EchoTimer` and `HcsrDevice` are about devices that keep theirs.
- How much memory is lost. Each `SET_PARAMETERS` and `sample_numbers` overwrites the pointer to the array before; the models
  have the array there is. `PlatformBus` has what a remove leaves behind, and `CharModule` leaves out the arrays and names
  that `exit_gpio_driver` does not free: its `ExitLeavesNothing` is about devices and structs.
- The return values themselves: `read` answers success whatever it did. `EmptyReadMeasures` says what a
  program may conclude from the return alone.
- `delta` of the platform driver, copied with the size of a pointer
  (`platform_driver.c:582`).
- More than one result per element of the platform's buffer: a measurement
  started by `enable` overwrites element 0 and counts one more unit each time. `platform` has
  two of them.

## 6. What the code does otherwise than it says

Each has a run that TLC refutes.

- `finding_lock`: on SMP a read during a measurement keeps the spin lock for ever
  (`buffer.h:75`), so a lock that was taken is not always released.
- `finding_stop`: a program writes 0 and then 1 to `enable` during a measurement, and a
  second thread starts (`platform_driver.c:503`; line 504 prints "Stopping the current
  thread", and line 280 calls the test that the second one passes "error handling to avoid
  concurrency issue while ongoing measurement").

Four more places that a reader should know of are described by properties that hold, with the
exception in the property: two programs that pass the test of `is_in_progress` together
(`hcsr.c:293`; `OneSampler` says that one of the two threads is refused), a woken reader whose
element another program's `write` wiped (`buffer.h:75`, uniprocessor only; the exception of
`DistanceIsLatest`'s timestamp, and why `DeliveredWasPublished` is checked on SMP), a pulse
during which `tv_nsec` starts again (`hcsr.c:78`; `OnlyRollsOver`), and threads that publish more results than
the ring has elements with no clear in between, whose units `up()` counts all the same (`buffer.h:109`;
`DeliveredOnce` says that a read returns a result again only then).

And where a property excludes something, it is what the code does: `is_in_progress` stays set for ever after a failed
call, a third lost echo, or a `sample_numbers` written while the thread sleeps, whose `init_buffer` empties the wait list
the thread is on (`platform_driver.c:462`; the exceptions of `BusyIsServed`). `Plat_driver_remove` frees the struct
and none of its arrays (`platform_driver.c:799`; `UnloadLeavesArrays` says what stays).

## 7. Plan

Done: `RingBuffer`, `Fifo`, `FifoBuffer`; `Measurement`, `HcsrDevice`; `EchoTimer`;
`MuxTable`, `EchoLine`; `PlatformBus`; `PlatformDevice`; `CharModule`; their runs, and the proofs of
section 4.

Left: the handler of a device whose pins change under it (`EchoLine` says who has the line, not what its
echoes are taken for).
