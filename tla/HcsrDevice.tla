----------------------------- MODULE HcsrDevice -----------------------------
(***************************************************************************)
(* One /dev/hcsr_i of the character driver (hcsr.c): the programs that     *)
(* call write, read and ioctl on it, the kernel threads that sample, and   *)
(* the echo interrupt.  Each step below is what one of them does between   *)
(* two accesses to state that the others change.                           *)
(***************************************************************************)
EXTENDS RingBuffer, FiniteSets

CONSTANTS
  Clients,        \* the programs that have the device open
  NumSamples,     \* the values ioctl sets number_of_samples to
  Distances,      \* the distances the echo handler computes: when tv_nsec turns
                  \* over between two edges, also 0 and negative ones
  MAX_BUFF_SIZE,  \* hcsr.h: 5
  Faults,         \* the kernel calls that may fail: "kthread", "irq", "memory"
  MaxLost,        \* bound: echoes the sensor swallows in one measurement
  MaxStarts       \* bound: kernel threads ever started

ASSUME DeviceAssumption ==
  /\ NumSamples \subseteq Int
  /\ Distances \subseteq Int
  /\ MAX_BUFF_SIZE \in Nat \ {0}
  /\ Faults \subseteq {"kthread", "irq", "memory"}
  /\ MaxLost \in Nat
  /\ MaxStarts \in Nat
  /\ NoOne \notin Clients

\* The n-th kthread_run makes thread n; nobody ever stops one.
Threads == 1 .. MaxStarts

ASSUME ThreadAssumption == NoOne \notin Threads /\ Clients \cap Threads = {}

VARIABLES
  \* struct hcsr_dev
  buffer,             \* the results, for read
  all_samples,        \* the samples of the running measurement
  is_in_progress,
  number_of_samples,  \* param.number_of_samples
  \* the kernel and the sensor
  irq_owner,          \* the thread whose request_irq holds the echo line
  echoes,             \* pulses sent and not answered yet
  lost,               \* of this measurement's, those that never will be
  panic,              \* a fault in interrupt context stopped the machine
  \* the programs and the threads
  cpc,                \* where a client is in its call
  tpc, loc,           \* where a thread is, and its local variables
  starts,             \* kernel threads started so far
  \* history
  taken,              \* the distances sampled since clear_buffer(all_samples)
  reconfigured,       \* ioctl changed the parameters since then
  published,          \* the results inserted into buffer so far
  delivered,          \* what reads have returned, in order
  overrun,            \* since clear_buffer(buffer) a result went into a full ring
  failed              \* a start died and left is_in_progress as it was

device  == <<buffer, all_samples, is_in_progress, number_of_samples>>
world   == <<irq_owner, echoes, lost, panic>>
threads == <<tpc, loc, starts>>
history == <<taken, reconfigured, published, delivered, overrun, failed>>
vars    == <<device, world, cpc, threads, history>>

\* kmalloc does not clear what it returns.
Junk == [timestamp |-> 0, distance |-> 0]

Cells(n) == IF n <= 0 THEN NoMemory ELSE [i \in 0 .. n - 1 |-> Junk]

NoLocals == [counter |-> 0, i |-> 1, distance |-> 0]

\* A device nobody has used yet, with n for its number_of_samples.
Unused(n, samples) ==
  /\ buffer = init_buffer(alloc_buffer(Zeroed, Cells(MAX_BUFF_SIZE)),
                          MAX_BUFF_SIZE)
  /\ all_samples = samples
  /\ is_in_progress = FALSE
  /\ number_of_samples = n
  /\ irq_owner = NoOne /\ echoes = 0 /\ lost = 0 /\ panic = FALSE
  /\ cpc = [c \in Clients |-> "idle"]
  /\ tpc = [t \in Threads |-> "unborn"] /\ loc = [t \in Threads |-> NoLocals]
  /\ starts = 0
  /\ taken = <<>> /\ reconfigured = FALSE
  /\ published = {} /\ delivered = <<>> /\ overrun = FALSE /\ failed = FALSE

\* As init_gpio_module leaves it.  all_samples was never given an array, nor to
\* init_buffer: its size stays 0.
Init == Unused(0, Zeroed)

ClientTo(c, label) == cpc' = [cpc EXCEPT ![c] = label]
ThreadTo(t, label) == tpc' = [tpc EXCEPT ![t] = label]

-----------------------------------------------------------------------------
(* write: start_measurement.                                               *)

Starting == {c \in Clients : cpc[c] \in {"clear", "mark", "spawn"}}

WriteCall(c) ==
  /\ cpc[c] = "idle"
  /\ ClientTo(c, "start")
  /\ UNCHANGED <<device, world, threads, history>>

\* The test of is_in_progress; the lock around it is commented out.
StartCheck(c) ==
  /\ cpc[c] = "start"
  /\ is_in_progress \/ starts + Cardinality(Starting) < MaxStarts
  /\ ClientTo(c, IF is_in_progress THEN "idle" ELSE "clear")
  /\ UNCHANGED <<device, world, threads, history>>

\* Mutated StartClear: "*input > 0" is false for main.c, nothing is cleared.
StartClearAsked(c) ==
  /\ cpc[c] = "clear"
  /\ ClientTo(c, "mark")
  /\ UNCHANGED <<device, world, threads, history>>

\* "input > 0" compares the pointer, so the buffer is always cleared.
StartClear(c) ==
  /\ cpc[c] = "clear"
  /\ Unlocked(buffer)
  /\ buffer' = clear_buffer(buffer, MAX_BUFF_SIZE)
  /\ overrun' = FALSE
  /\ ClientTo(c, "mark")
  /\ UNCHANGED <<all_samples, is_in_progress, number_of_samples, world,
                 threads, taken, reconfigured, published, delivered, failed>>

StartMark(c) ==
  /\ cpc[c] = "mark"
  /\ is_in_progress' = TRUE
  /\ ClientTo(c, "spawn")
  /\ UNCHANGED <<buffer, all_samples, number_of_samples, world, threads,
                 history>>

StartSpawn(c) ==
  /\ cpc[c] = "spawn"
  /\ starts + 1 \in Threads
  /\ starts' = starts + 1
  /\ ThreadTo(starts + 1, "setup")
  /\ ClientTo(c, "idle")
  /\ UNCHANGED <<device, world, loc, history>>

\* The result of kthread_run is not looked at.
SpawnFails(c) ==
  /\ "kthread" \in Faults
  /\ cpc[c] = "spawn"
  /\ ClientTo(c, "idle")
  /\ failed' = TRUE
  /\ UNCHANGED <<device, world, threads,
                 taken, reconfigured, published, delivered, overrun>>

-----------------------------------------------------------------------------
(* read: read_buffer.                                                      *)

\* buffer.count > 0 || is_in_progress, one operand at a time and no lock.
ReadCall(c) ==
  /\ cpc[c] = "idle"
  /\ ClientTo(c, IF buffer.count > 0 THEN "lock" ELSE "progress")
  /\ UNCHANGED <<device, world, threads, history>>

\* Mutated ReadProgress: a read that finds nothing just returns.
ReadProgressIdle(c) ==
  /\ cpc[c] = "progress"
  /\ ClientTo(c, IF is_in_progress THEN "lock" ELSE "idle")
  /\ UNCHANGED <<device, world, threads, history>>

\* The other branch of read_buffer is a call of start_measurement.
ReadProgress(c) ==
  /\ cpc[c] = "progress"
  /\ ClientTo(c, IF is_in_progress THEN "lock" ELSE "start")
  /\ UNCHANGED <<device, world, threads, history>>

Deliver(c) ==
  /\ delivered' = Append(delivered, ReadValue(buffer))
  /\ ClientTo(c, "idle")
  /\ UNCHANGED <<all_samples, is_in_progress, number_of_samples, world,
                 threads, taken, reconfigured, published, overrun, failed>>

ReadFifo(c) ==
  /\ cpc[c] = "lock" /\ Unlocked(buffer) /\ buffer.sem > 0
  /\ buffer' = ReadNow(buffer)
  /\ Deliver(c)

\* Mutated ReadSleep: the lock is given up before sleeping, on SMP too.
ReadSleepUnlocked(c) ==
  /\ cpc[c] = "lock" /\ Unlocked(buffer) /\ buffer.sem = 0
  /\ buffer' = [SleepIn(buffer, c) EXCEPT !.lock = NoOne]
  /\ ClientTo(c, "asleep")
  /\ UNCHANGED <<all_samples, is_in_progress, number_of_samples, world,
                 threads, history>>

ReadSleep(c) ==
  /\ cpc[c] = "lock" /\ Unlocked(buffer) /\ buffer.sem = 0
  /\ buffer' = SleepIn(buffer, c)
  /\ ClientTo(c, "asleep")
  /\ UNCHANGED <<all_samples, is_in_progress, number_of_samples, world,
                 threads, history>>

ReadWoken(c) ==
  /\ cpc[c] = "woken"
  /\ buffer' = AfterRead(buffer)
  /\ Deliver(c)

-----------------------------------------------------------------------------
(* ioctl, SET_PARAMETERS.                                                  *)

SetParameters(c, n) ==
  /\ cpc[c] = "idle"
  /\ number_of_samples' = n
  /\ reconfigured' = TRUE
  /\ ClientTo(c, "alloc")
  /\ UNCHANGED <<buffer, all_samples, is_in_progress, world, threads,
                 taken, published, delivered, overrun, failed>>

\* kmalloc is given a negative size as a huge one, and finds nothing.
AllocSamples(c) ==
  /\ cpc[c] = "alloc"
  /\ \/ all_samples' = alloc_buffer(all_samples, Cells(number_of_samples + 2))
     \/ "memory" \in Faults /\ all_samples' = alloc_buffer(all_samples, NoMemory)
  /\ reconfigured' = TRUE
  /\ ClientTo(c, "idle")
  /\ UNCHANGED <<buffer, is_in_progress, number_of_samples, world, threads,
                 taken, published, delivered, overrun, failed>>

-----------------------------------------------------------------------------
(* The kernel thread: start_sampling.                                      *)

\* Mutated SetInterrupt: the line is requested with IRQF_SHARED.
SetInterruptShared(t) ==
  /\ tpc[t] = "setup"
  /\ irq_owner' = t
  /\ ThreadTo(t, "clear")
  /\ UNCHANGED <<device, echoes, lost, panic, cpc, loc, starts,
                 taken, reconfigured, published, delivered, overrun, failed>>

\* set_interrupt: the line is not shared, so a second request_irq fails, and
\* the thread returns with is_in_progress as it is.
SetInterrupt(t) ==
  /\ tpc[t] = "setup"
  /\ \/ /\ irq_owner = NoOne
        /\ irq_owner' = t
        /\ ThreadTo(t, "clear")
        /\ UNCHANGED failed
     \/ /\ irq_owner /= NoOne \/ "irq" \in Faults
        /\ ThreadTo(t, "done")
        /\ failed' = (failed \/ irq_owner = NoOne)
        /\ UNCHANGED irq_owner
  /\ UNCHANGED <<device, echoes, lost, panic, cpc, loc, starts,
                 taken, reconfigured, published, delivered, overrun>>

\* A fault in the thread kills it where it stands, with the lock it holds.
Oops(t, locked) ==
  /\ ThreadTo(t, "oops")
  /\ failed' = TRUE
  /\ all_samples' = IF SMP /\ locked THEN [all_samples EXCEPT !.lock = t]
                                     ELSE all_samples
  /\ UNCHANGED <<buffer, is_in_progress, number_of_samples, world, cpc,
                 loc, starts, taken, reconfigured, published, delivered, overrun>>

ClearSamples(t) ==
  /\ tpc[t] = "clear"
  /\ Unlocked(all_samples)
  /\ LET bytes == number_of_samples + 2 IN
     IF MemsetFaults(all_samples, bytes)
       THEN Oops(t, TRUE)
       ELSE /\ all_samples' = clear_buffer(all_samples, bytes)
            /\ ThreadTo(t, "pulse")
            /\ lost' = 0 /\ taken' = <<>> /\ reconfigured' = FALSE
            /\ UNCHANGED <<buffer, is_in_progress, number_of_samples,
                           irq_owner, echoes, panic, cpc, loc, starts,
                           published, delivered, overrun, failed>>

\* Mutated Pulse: no pulses to spare.
PulseNoSpare(t) ==
  /\ tpc[t] = "pulse"
  /\ echoes' = echoes + 1
  /\ loc' = [loc EXCEPT ![t].counter = @ + 1]
  /\ ThreadTo(t, IF loc[t].counter + 1 < number_of_samples
                   THEN "pulse" ELSE "collect")
  /\ UNCHANGED <<device, irq_owner, lost, panic, cpc, starts, history>>

\* One turn of the trigger loop; delta only decides how late the echoes are.
Pulse(t) ==
  /\ tpc[t] = "pulse"
  /\ echoes' = echoes + 1
  /\ loc' = [loc EXCEPT ![t].counter = @ + 1]
  /\ ThreadTo(t, IF loc[t].counter + 1 < number_of_samples + 2
                   THEN "pulse" ELSE "collect")
  /\ UNCHANGED <<device, irq_owner, lost, panic, cpc, starts, history>>

\* The collecting loop; its bound is read again at every turn.
CollectEnd(t) ==
  /\ tpc[t] = "collect"
  /\ loc[t].i >= number_of_samples + 1
  /\ ThreadTo(t, "average")
  /\ UNCHANGED <<device, world, cpc, loc, starts, history>>

CollectSleep(t) ==
  /\ tpc[t] = "collect" /\ loc[t].i < number_of_samples + 1
  /\ Unlocked(all_samples) /\ all_samples.sem = 0
  /\ all_samples' = SleepIn(all_samples, t)
  /\ ThreadTo(t, "asleep")
  /\ UNCHANGED <<buffer, is_in_progress, number_of_samples, world, cpc,
                 loc, starts, history>>

\* read_fifo(all_samples) after down(), which leaves the buffer as next.
Collected(t, next) ==
  IF all_samples.result = NoMemory
    THEN Oops(t, TRUE)
    ELSE /\ all_samples' = next
         /\ loc' = [loc EXCEPT ![t].distance =
                                  @ + ReadValue(all_samples).distance,
                               ![t].i = @ + 1]
         /\ ThreadTo(t, "collect")
         /\ UNCHANGED <<buffer, is_in_progress, number_of_samples, world,
                        cpc, starts, history>>

CollectRead(t) ==
  /\ tpc[t] = "collect" /\ loc[t].i < number_of_samples + 1
  /\ Unlocked(all_samples) /\ all_samples.sem > 0
  /\ Collected(t, ReadNow(all_samples))

CollectWoken(t) == tpc[t] = "woken" /\ Collected(t, AfterRead(all_samples))

Magnitude(x) == IF x < 0 THEN - x ELSE x

\* C's division truncates towards 0 whatever the signs (and faults on 0).
Quotient(sum, n) ==
  LET q == Magnitude(sum) \div Magnitude(n) IN
  IF (sum < 0) = (n < 0) THEN q ELSE - q

Average(t) ==
  /\ tpc[t] = "average"
  /\ IF number_of_samples = 0
       THEN Oops(t, FALSE)
       ELSE /\ loc' = [loc EXCEPT ![t].distance =
                                     Quotient(@, number_of_samples)]
            /\ ThreadTo(t, "insert")
            /\ UNCHANGED <<device, world, cpc, starts, history>>

\* The timestamp counter names the measurement.
Result(t) == [timestamp |-> t, distance |-> loc[t].distance]

\* Mutated InsertResult: up() is forgotten, the sleeping reader stays asleep.
InsertResultQuiet(t) ==
  /\ tpc[t] = "insert"
  /\ Unlocked(buffer)
  /\ buffer' = [insert_buffer(buffer, Result(t)) EXCEPT
                  !.sem = buffer.sem, !.waiters = buffer.waiters]
  /\ published' = published \cup {Result(t)}
  /\ ThreadTo(t, "release")
  /\ UNCHANGED <<all_samples, is_in_progress, number_of_samples, world,
                 cpc, loc, starts, taken, reconfigured, delivered, overrun, failed>>

InsertResult(t) ==
  /\ tpc[t] = "insert"
  /\ Unlocked(buffer)
  /\ buffer' = insert_buffer(buffer, Result(t))
  /\ cpc' = [c \in Clients |-> IF c \in WokenBy(buffer) THEN "woken" ELSE cpc[c]]
  /\ published' = published \cup {Result(t)}
  /\ overrun' = (overrun \/ buffer.sem >= MAX_BUFF_SIZE)
  /\ ThreadTo(t, "release")
  /\ UNCHANGED <<all_samples, is_in_progress, number_of_samples, world,
                 loc, starts, taken, reconfigured, delivered, failed>>

ReleaseIrq(t) ==
  /\ tpc[t] = "release"
  /\ irq_owner' = NoOne
  /\ ThreadTo(t, "finish")
  /\ lost' = 0 /\ taken' = <<>>
  /\ UNCHANGED <<device, echoes, panic, cpc, loc, starts,
                 reconfigured, published, delivered, overrun, failed>>

\* Mutated Finish: the flag is left set.
FinishBusy(t) ==
  /\ tpc[t] = "finish"
  /\ ThreadTo(t, "done")
  /\ loc' = [loc EXCEPT ![t] = NoLocals]
  /\ UNCHANGED <<device, world, cpc, starts, history>>

Finish(t) ==
  /\ tpc[t] = "finish"
  /\ is_in_progress' = FALSE
  /\ ThreadTo(t, "done")
  /\ loc' = [loc EXCEPT ![t] = NoLocals]
  /\ UNCHANGED <<buffer, all_samples, number_of_samples, world, cpc,
                 starts, history>>

-----------------------------------------------------------------------------
(* The echo, as far as interrupt_handler sees it at a falling edge.        *)

EchoSample(d) ==
  /\ echoes > 0 /\ irq_owner /= NoOne
  /\ Unlocked(all_samples)
  /\ echoes' = echoes - 1
  /\ IF all_samples.result = NoMemory
       THEN /\ panic' = TRUE
            /\ UNCHANGED <<all_samples, tpc, taken>>
       ELSE /\ all_samples' = insert_buffer(all_samples,
                                [timestamp |-> 0, distance |-> d])
            /\ tpc' = [t \in Threads |-> IF t \in WokenBy(all_samples)
                                           THEN "woken" ELSE tpc[t]]
            /\ taken' = Append(taken, d)
            /\ UNCHANGED panic
  /\ UNCHANGED <<buffer, is_in_progress, number_of_samples, irq_owner, lost,
                 cpc, loc, starts,
                 reconfigured, published, delivered, overrun, failed>>

\* The handler is not installed any more, or not yet.
EchoUnheard ==
  /\ echoes > 0 /\ irq_owner = NoOne
  /\ echoes' = echoes - 1
  /\ UNCHANGED <<device, irq_owner, lost, panic, cpc, threads, history>>

\* No echo: nothing in range, or the sensor was still busy with the last one.
\* (When nobody listens this is EchoUnheard again.)
EchoLost ==
  /\ echoes > 0 /\ irq_owner /= NoOne /\ lost < MaxLost
  /\ echoes' = echoes - 1
  /\ lost' = lost + 1
  /\ UNCHANGED <<device, irq_owner, panic, cpc, threads, history>>

Echo == (\E d \in Distances : EchoSample(d)) \/ EchoUnheard \/ EchoLost

-----------------------------------------------------------------------------

Call(c) ==
  WriteCall(c) \/ ReadCall(c) \/ \E n \in NumSamples : SetParameters(c, n)

ClientStep(c) ==
  \/ StartCheck(c) \/ StartClear(c) \/ StartMark(c) \/ StartSpawn(c)
  \/ SpawnFails(c)
  \/ ReadProgress(c) \/ ReadFifo(c) \/ ReadSleep(c) \/ ReadWoken(c)
  \/ AllocSamples(c)

ThreadStep(t) ==
  \/ SetInterrupt(t) \/ ClearSamples(t) \/ Pulse(t)
  \/ CollectEnd(t) \/ CollectSleep(t) \/ CollectRead(t) \/ CollectWoken(t)
  \/ Average(t) \/ InsertResult(t) \/ ReleaseIrq(t) \/ Finish(t)

Next ==
  /\ ~ panic
  /\ \/ \E c \in Clients : Call(c) \/ ClientStep(c)
     \/ \E t \in Threads : ThreadStep(t)
     \/ Echo

Spec == Init /\ [][Next]_vars

-----------------------------------------------------------------------------
(* A device in operation: as in main.c, SET_PARAMETERS has been called once *)
(* before the first measurement and is not called again.                    *)

ConfiguredInit ==
  \E n \in NumSamples : Unused(n, alloc_buffer(Zeroed, Cells(n + 2)))

OperatingNext ==
  /\ ~ panic
  /\ \/ \E c \in Clients : WriteCall(c) \/ ReadCall(c) \/ ClientStep(c)
     \/ \E t \in Threads : ThreadStep(t)
     \/ Echo

OperatingSpec == ConfiguredInit /\ [][OperatingNext]_vars

\* The scheduler runs a program or a thread that can run, and a pulse sent is
\* answered, or was swallowed, in the end.  Nobody has to make a call.
Fairness ==
  /\ \A c \in Clients : WF_vars(ClientStep(c))
  /\ \A t \in Threads : WF_vars(ThreadStep(t))
  /\ WF_vars(Echo)

FairSpec == OperatingSpec /\ Fairness

-----------------------------------------------------------------------------
(* Properties.                                                             *)

\* The last two are the platform driver's.
ClientLabels == {"idle", "start", "clear", "mark", "spawn", "progress", "lock",
                 "asleep", "woken", "alloc", "enable", "init"}

\* Where a thread has the echo line; "oops" is where a fault has left it.
SamplingLabels == {"clear", "pulse", "collect", "asleep", "woken", "average",
                   "insert", "release", "oops"}

ThreadLabels == SamplingLabels \cup {"unborn", "setup", "finish", "done"}

Sampling(t) == tpc[t] \in SamplingLabels

Live(t) == Sampling(t) \/ tpc[t] \in {"setup", "finish"}

\* Every variable stays in its range; the cursors of a buffer stay in its array
\* (all_samples, of size 0, only ever uses its first element).
TypeOK ==
  /\ buffer.head \in 0 .. MAX_BUFF_SIZE - 1
  /\ buffer.tail \in 0 .. MAX_BUFF_SIZE
  /\ all_samples.head = 0 /\ all_samples.tail \in 0 .. 1
  /\ is_in_progress \in BOOLEAN
  /\ number_of_samples \in NumSamples \cup {0}
  /\ irq_owner \in Threads \cup {NoOne}
  /\ echoes \in Nat /\ lost \in 0 .. MaxLost
  /\ cpc \in [Clients -> ClientLabels]
  /\ tpc \in [Threads -> ThreadLabels]
  /\ starts \in 0 .. MaxStarts

\* However many threads the unlocked test of is_in_progress lets through, one
\* at a time samples: the thread that request_irq gave the echo line to.
OneSampler == \A t \in Threads : Sampling(t) <=> irq_owner = t

\* The next step of a thread's text can be taken: the lock it needs is free; and
\* if the thread sleeps it is the one that up() wakes, and an echo is to come.
CanGoOn(t) ==
  \/ tpc[t] = "setup" /\ irq_owner = NoOne
  \/ tpc[t] \in {"clear", "collect"} /\ Unlocked(all_samples)
  \/ /\ tpc[t] = "asleep" /\ t \in WokenBy(all_samples)
     /\ echoes > 0 /\ Unlocked(all_samples)
  \/ tpc[t] = "insert" /\ Unlocked(buffer)
  \/ tpc[t] \in {"pulse", "woken", "average", "release", "finish"}

\* On SMP a sleeper keeps its lock, and then nobody goes on: a finding of its own.
Stuck ==
  SMP /\ \/ \E c \in Clients : cpc[c] = "asleep"
         \/ \E t \in Threads : tpc[t] = "asleep"

\* is_in_progress is never left set with nobody to clear it.  As long as it is set
\* some thread can go on, or a program is about to start one: no thread has slept
\* past its up(), none waits for more echoes than are still to come, and one that
\* found the line taken and returned without a word has left an owner that goes
\* on.  (Provided that no call has failed, that ioctl has not changed the
\* parameters of this measurement, that no more echoes got lost than it has pulses
\* to spare, and that nobody sleeps with a spin lock.)
BusyIsServed ==
  is_in_progress /\ ~ (failed \/ panic \/ reconfigured \/ lost > 2 \/ Stuck) =>
    (\E t \in Threads : CanGoOn(t)) \/ (\E c \in Clients : cpc[c] = "spawn")

\* A read answers success also when it delivers nothing.  A write, or a read that
\* finds nothing, returns only when a measurement is under way, its own or the one
\* it was refused for, or is about to be: the program can come back for a result.
EmptyReadMeasures ==
  [][\A c \in Clients :
       cpc[c] \in {"progress", "start", "clear", "mark", "spawn"} /\ cpc'[c] = "idle" =>
         \/ \E t \in Threads : Live(t)'
         \/ \E e \in Clients : cpc'[e] = "spawn"
         \/ failed']_vars

\* A result is made from at least number_of_samples samples that the handler
\* inserted after the thread had cleared all_samples, and lies between the least
\* and the greatest of them: nothing left over in the buffer gets in, whatever
\* signs the samples have.  (A late echo of an earlier measurement's pulse counts
\* as one of them.  Provided that nobody has called SET_PARAMETERS meanwhile.)
ResultFromFreshSamples ==
  \A t \in Threads :
    tpc[t] = "insert" /\ number_of_samples >= 1 /\ ~ reconfigured =>
      /\ Len(taken) >= number_of_samples
      /\ \E i, j \in DOMAIN taken : /\ taken[i] <= loc[t].distance
                                    /\ loc[t].distance <= taken[j]

\* What a read returns is a result that some measurement published, not an
\* element that clear_buffer wiped or that was never written.
DeliveredWasPublished ==
  \A i \in DOMAIN delivered : delivered[i] \in published

\* A read returns no result that some read has returned before.  (Unless more
\* results have come since the last clear_buffer than the ring has elements: up()
\* counts them all, and down() then lets a read have an element once more.  Any
\* number of threads can wait for the echo line, and come when nothing clears.)
DeliveredOnce ==
  [][~ overrun /\ delivered' /= delivered =>
       \A i \in DOMAIN delivered :
         delivered[i] /= delivered'[Len(delivered')]]_vars

\* The results that the reads still to come will return, oldest first, and the
\* phase of the measurement: the device does what Measurement promises.
Ready ==
  [i \in 1 .. buffer.sem + Cardinality({c \in Clients : cpc[c] = "woken"}) |->
     buffer.result[(buffer.head + i - 1) % MAX_BUFF_SIZE].timestamp]

Phase ==
  IF \E t \in Threads : tpc[t] \in {"release", "finish"}
    THEN "published"
    ELSE IF is_in_progress \/ \E c \in Clients : cpc[c] \in {"mark", "spawn"}
           THEN "sampling"
           ELSE "idle"

Promise == INSTANCE Measurement WITH
  Results <- Threads, phase <- Phase, ready <- Ready,
  delivered <- [i \in DOMAIN delivered |-> delivered[i].timestamp]

IsMeasurement == Promise!Spec

\* A measurement ends, although as many echoes get lost as there are pulses to
\* spare: the thread is not left waiting for a sample that never comes.
MeasurementEnds == is_in_progress ~> ~ is_in_progress

\* A read that sleeps while the measurement it waits for has not published yet
\* is woken and returns.
WaitingReadReturns ==
  \A c \in Clients :
    (cpc[c] = "asleep" /\ \E t \in Threads : Live(t) /\ tpc[t] \notin {"release", "finish"})
      ~> cpc[c] = "idle"

-----------------------------------------------------------------------------
(* What the source says of itself, and the code does not do.               *)

\* hcsr.c:294, platform_driver.c:280, 504: no second measurement starts while one
\* is going on.
OneMeasurement == \A s, t \in Threads : Live(s) /\ Live(t) => s = t

\* buffer.h:83: the lock taken in read_fifo is released.
LockIsReleased == []<> Unlocked(buffer)
=============================================================================
