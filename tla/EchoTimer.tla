----------------------------- MODULE EchoTimer ------------------------------
(***************************************************************************)
(* interrupt_handler of hcsr.c: how an echo pulse becomes a distance.  The *)
(* handlers of all devices keep their times in the two globals             *)
(* time_raising and time_falling, subtract only the nanoseconds, and arm   *)
(* the line for the other edge.  On SMP handlers run side by side: taking  *)
(* the time, storing it and loading each global are steps of their own.    *)
(* The echo pins and the clock are the hardware's.                         *)
(***************************************************************************)
EXTENDS Integers, Sequences

CONSTANTS
  Devices,    \* the sensors, each with its echo line
  SMP,        \* TRUE: handlers of two lines can run at the same time
  Prompt,     \* the devices whose handler ends before their pin changes again
  Slow,       \* the longest a handler takes from reading the clock to its end
  Second,     \* tv_nsec goes from 0 to Second - 1 (10^9)
  PerCm,      \* the nanoseconds of an echo per centimetre: 1000 * 58
  MaxTime,    \* bound: the model's clock stops here
  MaxPulses,  \* bound: samples and pulses of a device in Prompt
  MaxOthers   \* bound: those of any other device

ASSUME TimerAssumption ==
  /\ SMP \in BOOLEAN /\ Prompt \subseteq Devices /\ Slow \in Nat
  /\ Second \in Nat \ {0} /\ PerCm \in Nat \ {0}
  /\ MaxTime \in Nat /\ MaxPulses \in Nat /\ MaxOthers \in Nat

VARIABLES
  now,           \* the time; a struct timespec is <<now \div Second, now % Second>>
  time_raising,  \* the globals of hcsr.c
  time_falling,
  level,         \* the echo pin of a device
  installed,     \* between request_irq and free_irq
  edge,          \* the edge irq_set_irq_type chose
  pending,       \* an edge has been latched
  check,         \* in the handler: the level gpio_get_value read
  at,            \* in the handler: before "clock", "store" or "load"
  taken,         \* in the handler: the time getnstimeofday has got
  loaded,        \* in the handler: the operands of the subtraction
  samples,       \* the distances given to insert_buffer
  \* history
  writer,        \* whose handler wrote each of the two globals last
  own,           \* the operands loaded were the device's own
  rose,          \* the time of the last rise a device's handler stored
  pulse,         \* for each sample: that time, that of the fall, and own
  heard,         \* the pulse on the line rose with the handler installed
  pulses         \* pulses heard from rise to fall

hardware == <<now, level, pending>>
globals  == <<time_raising, time_falling, writer>>
locals   == <<check, at, taken, loaded, own>>
counted  == <<heard, pulses>>
recorded == <<samples, pulse>>
line     == <<installed, edge>>
vars     == <<hardware, globals, locals, counted, recorded, line, rose>>

NotRunning == -1   \* no handler of the device runs
Unset      == -1   \* nothing loaded yet
Nobody     == -1   \* nothing written yet

Fields == {"raising", "falling"}

Init ==
  /\ now = 0 /\ time_raising = 0 /\ time_falling = 0
  /\ level = [d \in Devices |-> 0]
  /\ installed = [d \in Devices |-> FALSE]
  /\ edge = [d \in Devices |-> "rising"]
  /\ pending = [d \in Devices |-> FALSE]
  /\ check = [d \in Devices |-> NotRunning]
  /\ at = [d \in Devices |-> "clock"]
  /\ taken = [d \in Devices |-> 0]
  /\ loaded = [d \in Devices |-> [f \in Fields |-> Unset]]
  /\ samples = [d \in Devices |-> <<>>]
  /\ writer = [f \in Fields |-> Nobody]
  /\ own = [d \in Devices |-> TRUE]
  /\ rose = [d \in Devices |-> 0]
  /\ pulse = [d \in Devices |-> <<>>]
  /\ heard = [d \in Devices |-> FALSE]
  /\ pulses = [d \in Devices |-> 0]

-----------------------------------------------------------------------------
(* The world.                                                              *)

\* The clock; no handler takes longer than Slow.
Tick == /\ now < MaxTime
        /\ \A d \in Devices : at[d] /= "clock" => now < taken[d] + Slow
        /\ now' = now + 1
        /\ UNCHANGED <<level, pending, globals, locals, counted, recorded, line,
                       rose>>

Quiet(d) == ~ pending[d] /\ check[d] = NotRunning

Bound(d) == IF d \in Prompt THEN MaxPulses ELSE MaxOthers

\* The echo pin changes; the controller latches the edge its line is armed for.
Change(d) ==
  LET new == 1 - level[d] IN
  /\ d \in Prompt => Quiet(d)
  /\ Len(samples[d]) < Bound(d) /\ pulses[d] < Bound(d)
  /\ level' = [level EXCEPT ![d] = new]
  /\ pending' = [pending EXCEPT ![d] =
       @ \/ (installed[d] /\ edge[d] = IF new = 1 THEN "rising" ELSE "falling")]
  /\ heard' = [heard EXCEPT ![d] = installed[d] /\ new = 1]
  /\ pulses' = [pulses EXCEPT ![d] = IF heard[d] /\ new = 0 THEN @ + 1 ELSE @]
  /\ UNCHANGED <<now, globals, locals, recorded, line, rose>>

-----------------------------------------------------------------------------
(* The driver.                                                             *)

\* set_interrupt: IRQF_TRIGGER_RISING.
SetInterrupt(d) ==
  /\ ~ installed[d]
  /\ installed' = [installed EXCEPT ![d] = TRUE]
  /\ edge' = [edge EXCEPT ![d] = "rising"]
  /\ UNCHANGED <<hardware, globals, locals, counted, recorded, rose>>

\* release_irq: free_irq waits for a handler that is running.
ReleaseIrq(d) ==
  /\ installed[d]
  /\ check[d] = NotRunning
  /\ installed' = [installed EXCEPT ![d] = FALSE]
  /\ pending' = [pending EXCEPT ![d] = FALSE]
  /\ heard' = [heard EXCEPT ![d] = FALSE]
  /\ pulses' = [pulses EXCEPT ![d] = Len(samples[d])]
  /\ UNCHANGED <<now, level, globals, locals, recorded, edge, rose>>

\* The handler starts and reads the pin.
HandlerEntry(d) ==
  /\ pending[d] /\ check[d] = NotRunning
  /\ SMP \/ \A e \in Devices : check[e] = NotRunning
  /\ pending' = [pending EXCEPT ![d] = FALSE]
  /\ check' = [check EXCEPT ![d] = level[d]]
  /\ UNCHANGED <<now, level, globals, at, taken, loaded, own, counted, recorded,
                 line, rose>>

\* getnstimeofday reads the clock ...
TakeTime(d) ==
  /\ check[d] /= NotRunning /\ at[d] = "clock"
  /\ taken' = [taken EXCEPT ![d] = now]
  /\ at' = [at EXCEPT ![d] = "store"]
  /\ UNCHANGED <<hardware, globals, check, loaded, own, counted, recorded, line,
                 rose>>

\* The handler returns, and its locals are gone.
Return(d) ==
  /\ check' = [check EXCEPT ![d] = NotRunning]
  /\ at' = [at EXCEPT ![d] = "clock"]
  /\ taken' = [taken EXCEPT ![d] = 0]
  /\ loaded' = [loaded EXCEPT ![d] = [f \in Fields |-> Unset]]
  /\ own' = [own EXCEPT ![d] = TRUE]

\* Mutated HandlerHigh: only the first rise is recorded.
HandlerHighOnce(d) ==
  /\ check[d] = 1 /\ at[d] = "store"
  /\ time_raising' = IF time_raising = 0 THEN taken[d] ELSE time_raising
  /\ writer' = [writer EXCEPT !["raising"] = d]
  /\ rose' = [rose EXCEPT ![d] = taken[d]]
  /\ edge' = [edge EXCEPT ![d] = "falling"]
  /\ Return(d)
  /\ UNCHANGED <<hardware, time_falling, counted, recorded, installed>>

\* Mutated HandlerHigh: the line stays armed for the rising edge.
HandlerHighRising(d) ==
  /\ check[d] = 1 /\ at[d] = "store"
  /\ time_raising' = taken[d]
  /\ writer' = [writer EXCEPT !["raising"] = d]
  /\ rose' = [rose EXCEPT ![d] = taken[d]]
  /\ Return(d)
  /\ UNCHANGED <<hardware, time_falling, counted, recorded, line>>

\* ... and stores it.  The pin is high: the pulse begins.
HandlerHigh(d) ==
  /\ check[d] = 1 /\ at[d] = "store"
  /\ time_raising' = taken[d]
  /\ writer' = [writer EXCEPT !["raising"] = d]
  /\ rose' = [rose EXCEPT ![d] = taken[d]]
  /\ edge' = [edge EXCEPT ![d] = "falling"]
  /\ Return(d)
  /\ UNCHANGED <<hardware, time_falling, counted, recorded, installed>>

\* The pin is low: this was the end of the pulse.
HandlerLow(d) ==
  /\ check[d] = 0 /\ at[d] = "store"
  /\ time_falling' = taken[d]
  /\ writer' = [writer EXCEPT !["falling"] = d]
  /\ at' = [at EXCEPT ![d] = "load"]
  /\ UNCHANGED <<hardware, time_raising, check, taken, loaded, own, counted,
                 recorded, line, rose>>

\* The operands of the subtraction are loaded in either order.
Load(d, f) ==
  /\ at[d] = "load" /\ loaded[d][f] = Unset
  /\ loaded' = [loaded EXCEPT ![d][f] =
       IF f = "raising" THEN time_raising ELSE time_falling]
  /\ own' = [own EXCEPT ![d] = @ /\ writer[f] = d]
  /\ UNCHANGED <<hardware, globals, check, at, taken, counted, recorded, line,
                 rose>>

\* C's division: it truncates towards 0.
Truncated(x, y) == IF x >= 0 THEN x \div y ELSE - ((- x) \div y)

\* tv_nsec.
Nanoseconds(t) == t % Second

\* Mutated Distance: the sign of the difference is dropped.
DistanceUnsigned(from, to) ==
  LET difference == Nanoseconds(to) - Nanoseconds(from) IN
  Truncated(IF difference < 0 THEN - difference ELSE difference, PerCm)

\* (tv_nsec - tv_nsec) / 1000 / 58: two truncations in a row are one.
Distance(from, to) == Truncated(Nanoseconds(to) - Nanoseconds(from), PerCm)

\* The distance goes into all_samples, and the line is armed again.
Sample(d) ==
  /\ \A f \in Fields : loaded[d][f] /= Unset
  /\ samples' = [samples EXCEPT ![d] =
       Append(@, Distance(loaded[d]["raising"], loaded[d]["falling"]))]
  /\ pulse' = [pulse EXCEPT ![d] =
       Append(@, [rose |-> rose[d], fell |-> taken[d], own |-> own[d]])]
  /\ edge' = [edge EXCEPT ![d] = "rising"]
  /\ Return(d)
  /\ UNCHANGED <<hardware, globals, counted, installed, rose>>

Next ==
  \/ Tick
  \/ \E d \in Devices :
       \/ Change(d) \/ SetInterrupt(d) \/ ReleaseIrq(d)
       \/ HandlerEntry(d) \/ TakeTime(d) \/ HandlerHigh(d) \/ HandlerLow(d)
       \/ \E f \in Fields : Load(d, f)
       \/ Sample(d)

Spec == Init /\ [][Next]_vars

-----------------------------------------------------------------------------
(* Properties.                                                             *)

\* Every variable stays in its range.
Times == 0 .. MaxTime

Pulses == [rose : Times, fell : Times, own : BOOLEAN]

TypeOK ==
  /\ now \in Times /\ time_raising \in Times /\ time_falling \in Times
  /\ level \in [Devices -> {0, 1}]
  /\ installed \in [Devices -> BOOLEAN]
  /\ edge \in [Devices -> {"rising", "falling"}]
  /\ pending \in [Devices -> BOOLEAN]
  /\ check \in [Devices -> {NotRunning, 0, 1}]
  /\ at \in [Devices -> {"clock", "store", "load"}]
  /\ taken \in [Devices -> Times]
  /\ loaded \in [Devices -> [Fields -> Times \cup {Unset}]]
  /\ samples \in [Devices -> Seq(Int)]
  /\ own \in [Devices -> BOOLEAN]
  /\ rose \in [Devices -> Times]
  /\ pulse \in [Devices -> Seq(Pulses)]
  /\ heard \in [Devices -> BOOLEAN]
  /\ pulses \in [Devices -> Nat]

\* With a prompt handler each pulse that begins and ends while the handler is
\* installed gives one sample, no more and no less, although the line is armed
\* for one edge at a time: between a rise and a fall it is always re-armed.
OneSamplePerPulse ==
  \A d \in Prompt :
    pulses[d] = Len(samples[d]) + IF level[d] = 0 /\ ~ Quiet(d) THEN 1 ELSE 0

\* How far the time another handler stores can be from the moment it stores it;
\* without SMP no handler runs beside another one.
Slack == IF SMP THEN Slow ELSE 0

\* The time from a device's last rise to its fall, and whether tv_nsec was far
\* enough from the turn of a second.
Width(p) == p.fell - p.rose

SameSecond(p) == (p.rose - Slack) \div Second = (p.fell + Slack) \div Second

\* The distances that are wrong by no more than two handlers' time.
Early == Truncated(- (2 * Slack), PerCm)

Late(p) == Truncated(Width(p) + 2 * Slack, PerCm)

\* Within one second interference shortens: whatever other devices do to the two
\* globals between a rise, a fall and the subtraction, no distance is farther
\* than the device's own pulse, and none is negative, by more than twice the time
\* a handler takes (without SMP: by nothing).
OnlyShortened ==
  \A d \in Devices : \A i \in DOMAIN samples[d] :
    SameSecond(pulse[d][i]) =>
      samples[d][i] \in Early .. Late(pulse[d][i])

\* Over any time: a distance made of the device's own two times is that of its
\* pulse, and any other that of some time in the same bounds as above, right or,
\* when tv_nsec has started again at 0 meanwhile, one second too small.
Spans(p) ==
  IF p.own THEN {Width(p)} ELSE - (2 * Slack) .. Width(p) + 2 * Slack

OnlyRollsOver ==
  \A d \in Devices : \A i \in DOMAIN samples[d] :
    \E since \in Spans(pulse[d][i]) :
      samples[d][i] \in {Truncated(Nanoseconds(since), PerCm),
                         Truncated(Nanoseconds(since) - Second, PerCm)}
=============================================================================
