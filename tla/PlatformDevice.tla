--------------------------- MODULE PlatformDevice ---------------------------
(***************************************************************************)
(* One device of the platform driver: what platform_driver.c does          *)
(* otherwise than hcsr.c.  A measurement is started by a 1 in the sysfs    *)
(* attribute enable as well as by write, a 0 there clears the busy flag,   *)
(* sample_numbers initialises all_samples, and distance shows the buffer   *)
(* without reading it.  The sampling thread prints its result, which can   *)
(* fault; the rest of its text, the echo handler and read_buffer are the   *)
(* same in both drivers, and their actions are those of HcsrDevice.        *)
(* MAX_BUFF_SIZE is 1 (platform_device.h).                                 *)
(***************************************************************************)
EXTENDS HcsrDevice

CONSTANT MaxStores  \* bound: writes of sample_numbers, and SET_PARAMETERS

ASSUME StoresAssumption == MaxStores \in Nat

\* platform_device.h
ASSUME OneElement == MAX_BUFF_SIZE = 1

VARIABLES
  stores,      \* of these so far
  reported,    \* the threads that are past the printk of their result
  latest       \* history: the last result published

pvars == <<vars, stores, reported, latest>>

\* A device as init_device leaves it; or, as Main_sysfs.sh has set it up before
\* it starts a measurement, with sample_numbers written once and not to 0.
PlatformInit ==
  /\ \/ Init
     \/ \E n \in NumSamples \ {0} :
          Unused(n, init_buffer(alloc_buffer(Zeroed, Cells(n + 2)), MAX_BUFF_SIZE))
  /\ stores = 0 /\ reported = {} /\ latest = Junk

-----------------------------------------------------------------------------
(* write, enable and trigger.                                              *)

EnableCall(c) ==
  /\ cpc[c] = "idle"
  /\ ClientTo(c, "enable")
  /\ UNCHANGED <<device, world, threads, history>>

\* enable 0.  The thread is not told.
Disable(c) ==
  /\ cpc[c] = "idle"
  /\ is_in_progress /\ is_in_progress' = FALSE
  /\ UNCHANGED <<buffer, all_samples, number_of_samples, world, cpc, threads,
                 history>>

\* "input > 0" is about the number here: enable passes 0, write the program's
\* number, and read whatever is in the program's buffer.
Trigger(c) ==
  /\ cpc[c] \in {"start", "enable"}
  /\ is_in_progress \/ starts + Cardinality(Starting) < MaxStarts
  /\ \/ is_in_progress /\ ClientTo(c, "idle")
     \/ ~ is_in_progress /\ ClientTo(c, "mark")
     \/ ~ is_in_progress /\ cpc[c] = "start" /\ ClientTo(c, "clear")
  /\ UNCHANGED <<device, world, threads, history>>

TriggerRest(c) == StartClear(c) \/ StartMark(c) \/ StartSpawn(c) \/ SpawnFails(c)

read_buffer(c) == ReadProgress(c) \/ ReadFifo(c) \/ ReadSleep(c) \/ ReadWoken(c)

-----------------------------------------------------------------------------
(* sample_numbers and SET_PARAMETERS.                                      *)

\* ioctl gives the new array to the global all_samples, which no device uses.
SetNumberOnly(c, n) ==
  /\ cpc[c] = "idle"
  /\ number_of_samples' = n
  /\ reconfigured' = TRUE
  /\ UNCHANGED <<buffer, all_samples, is_in_progress, world, cpc, threads,
                 taken, published, delivered, overrun, failed>>

\* The array of store_sample_numbers.  kmalloc finds nothing for a negative size;
\* for 0 it answers with a pointer that is no memory, but not NULL.
StoreAlloc(c) ==
  LET cells == number_of_samples + 2 IN
  /\ cpc[c] = "alloc"
  /\ \/ /\ cells >= 0
        /\ all_samples' = alloc_buffer(all_samples, Cells(cells))
        /\ ClientTo(c, "init")
     \/ /\ cells < 0 \/ "memory" \in Faults
        /\ all_samples' = alloc_buffer(all_samples, NoMemory)
        /\ ClientTo(c, "idle")
  /\ reconfigured' = TRUE
  /\ UNCHANGED <<buffer, is_in_progress, number_of_samples, world, threads,
                 taken, published, delivered, overrun, failed>>

\* init_buffer, whoever sleeps on the semaphore or holds the lock.
StoreInit(c) ==
  /\ cpc[c] = "init"
  /\ all_samples' = init_buffer(all_samples, MAX_BUFF_SIZE)
  /\ reconfigured' = TRUE
  /\ ClientTo(c, "idle")
  /\ UNCHANGED <<buffer, is_in_progress, number_of_samples, world, threads,
                 taken, published, delivered, overrun, failed>>

-----------------------------------------------------------------------------

\* What the attribute distance shows: no lock, no semaphore, element 0.
show_distance == buffer.result[0].distance

(* The sampling thread.                                                    *)

\* Between insert_buffer and release_irq the thread prints the average, and
\* divides for it by number_of_samples as it is by now.
Report(t) ==
  /\ tpc[t] = "release" /\ t \notin reported
  /\ IF number_of_samples = 0
       THEN Oops(t, FALSE) /\ UNCHANGED reported
       ELSE reported' = reported \cup {t} /\ UNCHANGED vars

start_sampling(t) ==
  \/ Report(t)
  \/ /\ tpc[t] = "release" => t \in reported
     /\ ThreadStep(t)
     /\ UNCHANGED reported

-----------------------------------------------------------------------------

interrupt_handler == Echo

PlatformCall(c) ==
  \/ /\ WriteCall(c) \/ EnableCall(c) \/ Disable(c) \/ ReadCall(c)
     /\ UNCHANGED stores
  \/ /\ stores < MaxStores
     /\ \E n \in NumSamples : SetParameters(c, n) \/ SetNumberOnly(c, n)
     /\ stores' = stores + 1

PlatformStep(c) ==
  Trigger(c) \/ TriggerRest(c) \/ read_buffer(c) \/ StoreAlloc(c) \/ StoreInit(c)

Remember ==
  latest' = IF published' = published THEN latest
            ELSE CHOOSE r \in published' : r \notin published

PlatformNext ==
  /\ ~ panic
  /\ \/ \E c \in Clients : PlatformCall(c) /\ UNCHANGED reported
     \/ \E c \in Clients : PlatformStep(c) /\ UNCHANGED <<stores, reported>>
     \/ \E t \in Threads : start_sampling(t) /\ UNCHANGED stores
     \/ interrupt_handler /\ UNCHANGED <<stores, reported>>
  /\ Remember

PlatformSpec == PlatformInit /\ [][PlatformNext]_pvars

\* As long as a thread can run or an answer to a pulse is due, one of these comes:
\* less than the scheduler and the sensor give.  No program has to do anything.
PlatformFairness ==
  WF_<<vars, reported>>(\/ \E t \in Threads : start_sampling(t)
                        \/ interrupt_handler /\ UNCHANGED reported)

FairPlatformSpec == PlatformSpec /\ PlatformFairness

-----------------------------------------------------------------------------
(* Properties.                                                             *)

\* Every variable stays in its range; with one element the head stays where it
\* is, and all_samples has size 0 until sample_numbers is written.  (The count is
\* -1 when a reader that was woken runs after another program's clear_buffer.)
PlatformTypeOK ==
  /\ buffer.head = 0 /\ buffer.tail \in 0 .. 1 /\ buffer.count \in -1 .. 1
  /\ all_samples.head = 0 /\ all_samples.tail \in 0 .. 1
  /\ all_samples.size \in 0 .. 1
  /\ DOMAIN buffer.result = {0}
  /\ is_in_progress \in BOOLEAN /\ reported \subseteq Threads
  /\ number_of_samples \in NumSamples \cup {0}
  /\ irq_owner \in Threads \cup {NoOne}
  /\ echoes \in Nat /\ lost \in 0 .. MaxLost
  /\ cpc \in [Clients -> ClientLabels]
  /\ tpc \in [Threads -> ThreadLabels]
  /\ starts \in 0 .. MaxStarts

\* The attribute distance shows the last result, whatever starts, clears and
\* reads have done to the buffer it is taken from without a lock; they leave
\* element 0 as it is, but for the byte of the timestamp that memset clears.
DistanceIsLatest ==
  /\ show_distance = latest.distance
  /\ buffer.result[0].timestamp \in {latest.timestamp, 0}

\* A thread that has got the echo line publishes a result, although as many echoes
\* get lost as there are pulses to spare, and although enable clears the flag under
\* it and starts other threads, which then find the line taken.  (A thread keeps the
\* line until it has published, so it is enough that ever again none is without a
\* result.  Not one whose parameters somebody has changed or whose call has failed.)
EverySamplerPublishes ==
  []<>(\A t \in Threads :
         Sampling(t) => \/ \E r \in published : r.timestamp = t
                        \/ reconfigured \/ failed)
=============================================================================
