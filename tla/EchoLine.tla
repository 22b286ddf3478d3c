------------------------------ MODULE EchoLine ------------------------------
(***************************************************************************)
(* Whose interrupt an echo line raises while devices get pins and measure: *)
(* set_interrupt and release_irq each take the gpio that the device has at *)
(* that moment, and CONFIG_PINS or a store to echo_pin may come between    *)
(* the two.  The pins are those of MuxTable; of a measurement there is     *)
(* what starts and ends it (HcsrDevice has the rest).  Both drivers have   *)
(* the same text here, but for enable, which the character driver lacks.   *)
(***************************************************************************)
EXTENDS MuxTable, FiniteSets

CONSTANTS
  Threads,    \* bound: the measurements at a time
  MaxStarts,  \* bound: the measurements
  MaxBusy,    \* bound: the calls and the measurements under way at a time
  NoOne       \* no device

ASSUME LineAssumption == NoOne \notin Devices /\ MaxStarts \in Nat /\ MaxBusy \in Nat

\* A device that was never configured has gpio 0.
Lines == Gpios \cup {0}

VARIABLES
  is_in_progress,  \* of each device
  tpc,             \* where a measurement is: first in the write, then in its thread
  handle,          \* its device
  owner,           \* the device whose handler request_irq gave a line
  \* history
  starts,          \* the calls that started a measurement
  requestedLine,   \* the line that a thread's request_irq was for
  moved            \* the devices that got another echo gpio while they sampled

threads == <<tpc, handle, requestedLine>>
lineVars == <<is_in_progress, threads, owner, starts, moved>>
allVars == <<vars, lineVars>>

LineInit ==
  /\ Init
  /\ is_in_progress = [d \in Devices |-> FALSE]
  /\ tpc = [t \in Threads |-> "none"]
  /\ handle = [t \in Threads |-> NoOne]
  /\ owner = [g \in Lines |-> NoOne]
  /\ starts = 0
  /\ requestedLine = [t \in Threads |-> 0]
  /\ moved = {}

\* The calls and the measurements that are under way.
UnderWay == Cardinality({p \in Programs : pc[p] /= "idle"})
        + Cardinality({t \in Threads : tpc[t] /= "none"})

EchoGpio(d) == gpio[d]["input"]

Samples(t, d) == tpc[t] = "sampling" /\ handle[t] = d

GotoT(t, label) == tpc' = [tpc EXCEPT ![t] = label]

\* The thread has ended; the place is free for another measurement.
EndT(t) == GotoT(t, "none") /\ handle' = [handle EXCEPT ![t] = NoOne]

\* start_measurement and trigger: the look at the flag, ...
StartCheck(t, d) ==
  /\ exit.at = "no" /\ starts < MaxStarts /\ UnderWay < MaxBusy
  /\ tpc[t] = "none" /\ ~ is_in_progress[d]
  /\ GotoT(t, "start")
  /\ handle' = [handle EXCEPT ![t] = d]
  /\ starts' = starts + 1
  /\ UNCHANGED <<vars, is_in_progress, owner, requestedLine, moved>>

\* ... and later its assignment, and kthread_run.
StartMark(t) ==
  /\ tpc[t] = "start"
  /\ is_in_progress' = [is_in_progress EXCEPT ![handle[t]] = TRUE]
  /\ GotoT(t, "setup")
  /\ UNCHANGED <<vars, handle, owner, requestedLine, starts, moved>>

\* enable written as 0.
Disable(d) ==
  /\ driver = "platform"
  /\ is_in_progress[d]
  /\ is_in_progress' = [is_in_progress EXCEPT ![d] = FALSE]
  /\ UNCHANGED <<vars, threads, owner, starts, moved>>

\* Mutated SetInterrupt: the line is requested with IRQF_SHARED.
SetInterruptShared(t) ==
  LET d == handle[t]
      g == EchoGpio(d)
  IN /\ tpc[t] = "setup"
     /\ IF g >= 0
          THEN /\ owner' = [owner EXCEPT ![g] = d]
               /\ requestedLine' = [requestedLine EXCEPT ![t] = g]
               /\ GotoT(t, "sampling")
               /\ UNCHANGED handle
          ELSE EndT(t) /\ UNCHANGED <<owner, requestedLine>>
     /\ UNCHANGED <<vars, is_in_progress, starts, moved>>

\* Mutated SetInterrupt: the line of the trigger pin is requested.
SetInterruptTrigger(t) ==
  LET d == handle[t]
      g == gpio[d]["output"]
  IN /\ tpc[t] = "setup"
     /\ IF g >= 0 /\ owner[g] = NoOne
          THEN /\ owner' = [owner EXCEPT ![g] = d]
               /\ requestedLine' = [requestedLine EXCEPT ![t] = g]
               /\ GotoT(t, "sampling")
               /\ UNCHANGED handle
          ELSE EndT(t) /\ UNCHANGED <<owner, requestedLine>>
     /\ UNCHANGED <<vars, is_in_progress, starts, moved>>

\* gpio_to_irq fails for an errno stored as a gpio; request_irq without
\* IRQF_SHARED, for a line that is taken.  The thread then ends, and the flag
\* stays set.
SetInterrupt(t) ==
  LET d == handle[t]
      g == EchoGpio(d)
  IN /\ tpc[t] = "setup"
     /\ IF g >= 0 /\ owner[g] = NoOne
          THEN /\ owner' = [owner EXCEPT ![g] = d]
               /\ requestedLine' = [requestedLine EXCEPT ![t] = g]
               /\ GotoT(t, "sampling")
               /\ UNCHANGED handle
          ELSE EndT(t) /\ UNCHANGED <<owner, requestedLine>>
     /\ UNCHANGED <<vars, is_in_progress, starts, moved>>

\* release_irq: free_irq finds the handler of this device on the line that its
\* gpio has now, or warns and frees nothing.
ReleaseIrq(t) ==
  LET d == handle[t]
  IN /\ tpc[t] = "sampling"
     /\ owner' = [g \in Lines |-> IF g = EchoGpio(d) /\ owner[g] = d
                                    THEN NoOne ELSE owner[g]]
     /\ requestedLine' = [requestedLine EXCEPT ![t] = 0]
     /\ GotoT(t, "finish")
     /\ UNCHANGED <<vars, is_in_progress, handle, starts, moved>>

\* is_in_progress = false, which ends start_sampling.
Finish(t) ==
  /\ tpc[t] = "finish"
  /\ is_in_progress' = [is_in_progress EXCEPT ![handle[t]] = FALSE]
  /\ EndT(t)
  /\ UNCHANGED <<vars, owner, requestedLine, starts, moved>>

\* A step of MuxTable.  When exit begins the programs are in no call, those of
\* a write either, and no measurement is under way (CharModule has the exit
\* without that).
PinStep ==
  /\ Next
  /\ exit' = exit \/ \A t \in Threads : tpc[t] = "none"
  /\ moved' = moved \cup {d \in Devices : EchoGpio(d)' /= EchoGpio(d)
                                          /\ \E t \in Threads : Samples(t, d)}
  /\ UNCHANGED <<is_in_progress, threads, owner, starts>>
  /\ UnderWay' <= MaxBusy

Measure(t) ==
  \/ \E d \in Devices : StartCheck(t, d)
  \/ StartMark(t) \/ SetInterrupt(t) \/ ReleaseIrq(t) \/ Finish(t)

LineNext ==
  \/ PinStep
  \/ \E t \in Threads : Measure(t)
  \/ \E d \in Devices : Disable(d)

LineSpec == LineInit /\ [][LineNext]_allVars

-----------------------------------------------------------------------------
(* Properties.                                                             *)

\* Every variable stays in its range.
LineTypeOK ==
  /\ is_in_progress \in [Devices -> BOOLEAN]
  /\ tpc \in [Threads -> {"none", "start", "setup", "sampling", "finish"}]
  /\ handle \in [Threads -> Devices \cup {NoOne}]
  /\ \A t \in Threads : tpc[t] /= "none" => handle[t] \in Devices
  /\ owner \in [Lines -> Devices \cup {NoOne}]
  /\ starts \in Nat
  /\ requestedLine \in [Threads -> Lines]
  /\ moved \subseteq Devices

\* A device that keeps its echo pin while it samples has one sampling thread at
\* most, whatever else starts, is stopped with enable or is configured; the
\* thread keeps the line it requested until it ends, and no line stays
\* requested behind it.
LinesMatchThreads ==
  \A d \in Devices \ moved :
    /\ \A t \in Threads : Samples(t, d) => owner[requestedLine[t]] = d
    /\ \A g \in Lines : owner[g] = d =>
         \E t \in Threads : Samples(t, d) /\ requestedLine[t] = g
    /\ \A t, u \in Threads : Samples(t, d) /\ Samples(u, d) => t = u

\* A line is refused, which leaves the device busy for ever, for one of four
\* causes: its configuration failed; it samples already (two writes, or enable,
\* let a second thread start); or the gpio is that of a device never configured,
\* or was claimed twice, and another device may have it as well.  A line that
\* was left behind is nobody's cause: its pin stays in use, so that no device is
\* given it again.  (A run of three calls or more is needed to see that last part:
\* Refusals proves it.)
RefusedHasCause ==
  [][\A t \in Threads : tpc[t] = "setup" /\ tpc'[t] = "none" =>
       LET d == handle[t]
           g == EchoGpio(d)
       IN \/ g < 0
          \/ \E u \in Threads : Samples(u, d)
          \/ g = 0
          \/ touched[g] > 1]_allVars
=============================================================================
