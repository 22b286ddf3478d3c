-------------------------- MODULE EchoTimerProofs ---------------------------
(***************************************************************************)
(* Theorems about EchoTimer, for every number of devices, every latency of *)
(* the handlers and every length of a second.                              *)
(***************************************************************************)
EXTENDS EchoTimer, TLAPS

(* The conversion.                                                         *)

\* Dividing by 1000 and then by 58, as hcsr.c does, is dividing by 58000: the
\* second truncation loses nothing that the first had kept.
THEOREM TwoTruncations ==
  ASSUME NEW ns \in Int
  PROVE  Truncated(Truncated(ns, 1000), 58) = Truncated(ns, 58000)
  BY DEF Truncated

\* Between two times of the same second tv_nsec is as good as the whole time.
LEMMA WithinASecond ==
  ASSUME NEW a \in Int, NEW b \in Int, NEW e \in Int, NEW c \in Int,
         a <= b, b <= c, a <= e, e <= c, a \div Second = c \div Second
  PROVE  Nanoseconds(e) - Nanoseconds(b) = e - b
<1>1. /\ a \div Second <= b \div Second /\ b \div Second <= c \div Second
      /\ a \div Second <= e \div Second /\ e \div Second <= c \div Second
  BY TimerAssumption
<1>2. b \div Second = e \div Second
  <2>1. /\ a \div Second \in Int /\ b \div Second \in Int
        /\ c \div Second \in Int /\ e \div Second \in Int
    BY TimerAssumption
  <2> QED
    BY <1>1, <2>1
<1>3. /\ b = Second * (b \div Second) + (b % Second)
      /\ e = Second * (e \div Second) + (e % Second)
  BY TimerAssumption
<1>4. \A q \in Int : Second * q \in Int
  BY TimerAssumption
<1>5. /\ Second * (b \div Second) = Second * (e \div Second)
      /\ Second * (e \div Second) \in Int
      /\ b % Second \in Int /\ e % Second \in Int
  BY <1>2, <1>4, TimerAssumption
<1>6. (e % Second) - (b % Second) = e - b
  BY <1>3, <1>5
<1> QED
  BY <1>6 DEF Nanoseconds

LEMMA DivideMonotone ==
  ASSUME NEW x \in Nat, NEW y \in Nat, x <= y
  PROVE  /\ x \div PerCm \in Nat /\ y \div PerCm \in Nat
         /\ x \div PerCm <= y \div PerCm
  BY TimerAssumption

LEMMA TruncatedInt ==
  ASSUME NEW x \in Int
  PROVE  Truncated(x, PerCm) \in Int
<1>1. \A n \in Nat : n \div PerCm \in Int
  BY TimerAssumption
<1>2. CASE x >= 0
  BY <1>1, <1>2 DEF Truncated
<1>3. CASE ~ (x >= 0)
  BY <1>1, <1>3 DEF Truncated
<1> QED
  BY <1>2, <1>3

LEMMA TruncatedMonotone ==
  ASSUME NEW x \in Int, NEW y \in Int, x <= y
  PROVE  Truncated(x, PerCm) <= Truncated(y, PerCm)
<1>1. CASE x >= 0
  <2>1. x \in Nat /\ y \in Nat
    BY <1>1
  <2> QED
    BY <1>1, <2>1, DivideMonotone DEF Truncated
<1>2. CASE x < 0 /\ y >= 0
  <2>1. (- x) \div PerCm \in Nat /\ y \div PerCm \in Nat
    <3>1. - x \in Nat /\ y \in Nat
      BY <1>2
    <3> QED
      BY <3>1, DivideMonotone
  <2>2. Truncated(x, PerCm) = - ((- x) \div PerCm) /\ Truncated(y, PerCm) = y \div PerCm
    BY <1>2 DEF Truncated
  <2> QED
    BY <2>1, <2>2
<1>3. CASE x < 0 /\ y < 0
  <2>1. - x \in Nat /\ - y \in Nat /\ - y <= - x
    BY <1>3
  <2>2. /\ (- x) \div PerCm \in Nat /\ (- y) \div PerCm \in Nat
        /\ (- y) \div PerCm <= (- x) \div PerCm
    BY <2>1, DivideMonotone
  <2>3. /\ Truncated(x, PerCm) = - ((- x) \div PerCm)
        /\ Truncated(y, PerCm) = - ((- y) \div PerCm)
    BY <1>3 DEF Truncated
  <2> QED
    BY <2>2, <2>3
<1> QED
  BY <1>1, <1>2, <1>3

LEMMA DistanceInt ==
  ASSUME NEW from \in Int, NEW to \in Int
  PROVE  Distance(from, to) \in Int
<1>1. Nanoseconds(to) - Nanoseconds(from) \in Int
  BY TimerAssumption DEF Nanoseconds
<1> QED
  BY <1>1, TruncatedInt DEF Distance

-----------------------------------------------------------------------------
(* Over any time.  One tv_nsec less another is the nanoseconds between     *)
(* them, or a second less than that: the two remainders and that of the    *)
(* difference differ by a multiple of a second, and by less than two.      *)

LEMMA MultipleOfSecond ==
  ASSUME NEW k \in Int, Second * k < Second, - (2 * Second) < Second * k
  PROVE  k = 0 \/ k = -1
<1>1. Second \in Nat /\ Second > 0
  BY TimerAssumption
<1>2. CASE k >= 1
  <2>1. Second * (k - 1) >= 0
    BY <1>1, <1>2
  <2>2. Second * k = Second * (k - 1) + Second
    BY <1>1
  <2> QED
    BY <1>1, <2>1, <2>2
<1>3. CASE k <= -2
  <2>1. Second * (- (k + 2)) >= 0
    BY <1>1, <1>3
  <2>2. Second * k = - (Second * (- (k + 2))) - (2 * Second)
    BY <1>1
  <2> QED
    BY <1>1, <2>1, <2>2
<1> QED
  BY <1>2, <1>3

LEMMA Remainder ==
  ASSUME NEW n \in Int
  PROVE  \E q \in Int : /\ n = Second * q + Nanoseconds(n)
                        /\ Nanoseconds(n) \in Int
                        /\ 0 <= Nanoseconds(n) /\ Nanoseconds(n) < Second
<1>1. /\ n \div Second \in Int
      /\ n = Second * (n \div Second) + (n % Second)
      /\ n % Second \in Int /\ 0 <= n % Second /\ n % Second < Second
  BY TimerAssumption
<1> QED
  BY <1>1 DEF Nanoseconds

LEMMA RollsOver ==
  ASSUME NEW a \in Int, NEW b \in Int
  PROVE  \/ Nanoseconds(b) - Nanoseconds(a) = Nanoseconds(b - a)
         \/ Nanoseconds(b) - Nanoseconds(a) = Nanoseconds(b - a) - Second
<1> DEFINE ra == Nanoseconds(a)
           rb == Nanoseconds(b)
           rs == Nanoseconds(b - a)
<1>1. PICK qa \in Int :
        a = Second * qa + ra /\ ra \in Int /\ 0 <= ra /\ ra < Second
  BY Remainder
<1>2. PICK qb \in Int :
        b = Second * qb + rb /\ rb \in Int /\ 0 <= rb /\ rb < Second
  BY Remainder
<1>3. PICK qs \in Int :
        b - a = Second * qs + rs /\ rs \in Int /\ 0 <= rs /\ rs < Second
  <2>1. b - a \in Int
    OBVIOUS
  <2> QED
    BY <2>1, Remainder
<1> HIDE DEF ra, rb, rs
<1> DEFINE k == qs - qb + qa
<1>4. k \in Int /\ Second \in Int
  BY TimerAssumption
<1>5. Second * k = Second * qs - Second * qb + Second * qa
  BY <1>4
<1>6. /\ Second * qa \in Int /\ Second * qb \in Int /\ Second * qs \in Int
  BY <1>4
<1>7. rb - ra - rs = Second * k
  <2> DEFINE A == Second * qa
             B == Second * qb
             C == Second * qs
  <2>1. /\ A \in Int /\ B \in Int /\ C \in Int
        /\ a = A + ra /\ b = B + rb /\ b - a = C + rs /\ Second * k = C - B + A
    BY <1>1, <1>2, <1>3, <1>5, <1>6
  <2> HIDE DEF A, B, C, k
  <2>2. rb - ra - rs = C - B + A
    BY <1>1, <1>2, <1>3, <2>1
  <2> QED
    BY <2>1, <2>2
<1>8. Second * k < Second /\ - (2 * Second) < Second * k
  BY <1>1, <1>2, <1>3, <1>4, <1>7
<1>9. k = 0 \/ k = -1
  BY <1>4, <1>8, MultipleOfSecond
<1> HIDE DEF k
<1>10. rb - ra - rs = 0 \/ rb - ra - rs = - Second
  <2>1. Second * 0 = 0 /\ Second * (-1) = - Second
    BY <1>4
  <2> QED
    BY <1>7, <1>9, <2>1
<1>11. rb - ra = rs \/ rb - ra = rs - Second
  BY <1>1, <1>2, <1>3, <1>4, <1>10
<1> QED
  BY <1>11 DEF ra, rb, rs

-----------------------------------------------------------------------------
(* Types.                                                                  *)

LEMMA Constants ==
  /\ Slow \in Nat /\ Slack \in Nat /\ 0 \in Times /\ Unset \notin Times
  /\ \A t \in Times : t \in Nat
  BY TimerAssumption DEF Slack, Times, Unset

LEMMA InitTypeOK == Init => TypeOK
  BY TimerAssumption DEF Init, TypeOK, Times, NotRunning

LEMMA ReturnTypes ==
  ASSUME TypeOK, NEW d \in Devices, Return(d)
  PROVE  /\ check' \in [Devices -> {NotRunning, 0, 1}]
         /\ at' \in [Devices -> {"clock", "store", "load"}]
         /\ taken' \in [Devices -> Times]
         /\ loaded' \in [Devices -> [Fields -> Times \cup {Unset}]]
         /\ own' \in [Devices -> BOOLEAN]
<1>1. [f \in Fields |-> Unset] \in [Fields -> Times \cup {Unset}]
  OBVIOUS
<1> QED
  BY <1>1, Constants DEF Return, TypeOK

LEMMA NextTypeOK == TypeOK /\ [Next]_vars => TypeOK'
<1> SUFFICES ASSUME TypeOK, [Next]_vars
             PROVE  TypeOK'
  OBVIOUS
<1> USE TimerAssumption DEF globals, locals, counted, recorded, line, hardware
<1>1. CASE Tick
  BY <1>1 DEF Tick, TypeOK, Times
<1>2. ASSUME NEW d \in Devices, Change(d)
      PROVE  TypeOK'
  <2>1. 1 - level[d] \in {0, 1}
    <3>1. level[d] = 0 \/ level[d] = 1
      BY DEF TypeOK
    <3> QED
      BY <3>1
  <2>2. level' \in [Devices -> {0, 1}]
    BY <1>2, <2>1 DEF Change, TypeOK
  <2>3. pending' \in [Devices -> BOOLEAN]
    BY <1>2 DEF Change, TypeOK
  <2>4. heard' \in [Devices -> BOOLEAN]
    BY <1>2 DEF Change, TypeOK
  <2>5. pulses' \in [Devices -> Nat]
    BY <1>2 DEF Change, TypeOK
  <2> QED
    BY <1>2, <2>2, <2>3, <2>4, <2>5 DEF Change, TypeOK
<1>3. ASSUME NEW d \in Devices, SetInterrupt(d)
      PROVE  TypeOK'
  BY <1>3 DEF SetInterrupt, TypeOK
<1>4. ASSUME NEW d \in Devices, ReleaseIrq(d)
      PROVE  TypeOK'
  <2>1. Len(samples[d]) \in Nat
    BY DEF TypeOK
  <2> QED
    BY <1>4, <2>1 DEF ReleaseIrq, TypeOK
<1>5. ASSUME NEW d \in Devices, HandlerEntry(d)
      PROVE  TypeOK'
  BY <1>5 DEF HandlerEntry, TypeOK
<1>6. ASSUME NEW d \in Devices, TakeTime(d)
      PROVE  TypeOK'
  BY <1>6 DEF TakeTime, TypeOK
<1>7. ASSUME NEW d \in Devices, HandlerHigh(d)
      PROVE  TypeOK'
  <2>1. taken[d] \in Times
    BY DEF TypeOK
  <2>2. /\ rose' \in [Devices -> Times]
        /\ edge' \in [Devices -> {"rising", "falling"}]
    BY <1>7, <2>1 DEF HandlerHigh, TypeOK
  <2> QED
    BY <1>7, <2>1, <2>2, ReturnTypes DEF HandlerHigh, TypeOK
<1>8. ASSUME NEW d \in Devices, HandlerLow(d)
      PROVE  TypeOK'
  BY <1>8 DEF HandlerLow, TypeOK
<1>9. ASSUME NEW d \in Devices, NEW f \in Fields, Load(d, f)
      PROVE  TypeOK'
  <2> DEFINE v == IF f = "raising" THEN time_raising ELSE time_falling
  <2>1. v \in Times
    BY DEF TypeOK
  <2> HIDE DEF v
  <2>2. loaded' = [loaded EXCEPT ![d] = [loaded[d] EXCEPT ![f] = v]]
    BY <1>9 DEF Load, v
  <2>3. [loaded[d] EXCEPT ![f] = v] \in [Fields -> Times \cup {Unset}]
    BY <2>1 DEF TypeOK
  <2>4. loaded' \in [Devices -> [Fields -> Times \cup {Unset}]]
    BY <2>2, <2>3 DEF TypeOK
  <2>5. own' \in [Devices -> BOOLEAN]
    BY <1>9 DEF Load, TypeOK
  <2> QED
    BY <1>9, <2>4, <2>5 DEF Load, TypeOK
<1>10. ASSUME NEW d \in Devices, Sample(d)
       PROVE  TypeOK'
  <2> DEFINE new == Distance(loaded[d]["raising"], loaded[d]["falling"])
  <2>1. new \in Int
    <3>1. /\ loaded[d]["raising"] \in Int /\ loaded[d]["falling"] \in Int
      BY Constants DEF TypeOK, Fields, Unset
    <3> QED
      BY <3>1, DistanceInt
  <2> HIDE DEF new
  <2>2. [rose |-> rose[d], fell |-> taken[d], own |-> own[d]] \in Pulses
    BY DEF TypeOK, Pulses
  <2>3. samples' \in [Devices -> Seq(Int)]
    <3>1. samples' = [samples EXCEPT ![d] = Append(samples[d], new)]
      BY <1>10 DEF Sample, new
    <3> QED
      BY <2>1, <3>1 DEF TypeOK
  <2>4. pulse' \in [Devices -> Seq(Pulses)]
    BY <1>10, <2>2 DEF Sample, TypeOK
  <2>5. edge' \in [Devices -> {"rising", "falling"}]
    BY <1>10 DEF Sample, TypeOK
  <2> QED
    BY <1>10, <2>3, <2>4, <2>5, ReturnTypes DEF Sample, TypeOK
<1>11. CASE UNCHANGED vars
  BY <1>11 DEF vars, TypeOK
<1> QED
  BY <1>1, <1>2, <1>3, <1>4, <1>5, <1>6, <1>7, <1>8, <1>9, <1>10, <1>11 DEF Next

\* Every variable of EchoTimer stays in its range.
THEOREM TypeCorrect == Spec => []TypeOK
  BY InitTypeOK, NextTypeOK, PTL DEF Spec

-----------------------------------------------------------------------------
(* The times in the globals and in the handlers.  What a handler stores is  *)
(* at most Slow old when another handler runs beside it, and not old at all *)
(* when none does; so the globals stay within Slack of the device's own     *)
(* times.                                                                   *)

Running(d) == check[d] /= NotRunning

\* Nothing is newer than the clock, nor older than a handler may be.
Clocked(d) ==
  /\ rose[d] <= now /\ taken[d] <= now
  /\ at[d] /= "clock" => Running(d) /\ now <= taken[d] + Slow /\ rose[d] <= taken[d]
  /\ at[d] = "load" => check[d] = 0
  /\ at[d] /= "load" => own[d] /\ \A f \in Fields : loaded[d][f] = Unset

Exclusive == SMP \/ \A d, e \in Devices : Running(d) /\ Running(e) => d = e

\* The globals against the times of one device.
Near(d) ==
  /\ rose[d] - Slack <= time_raising
  /\ at[d] /= "clock" =>
       /\ time_raising <= taken[d] + Slack
       /\ \A e \in Devices : rose[e] - Slack <= taken[d]
  /\ at[d] = "load" => /\ taken[d] - Slack <= time_falling
                       /\ time_falling <= taken[d] + Slack

Wrote(d) ==
  /\ writer["raising"] = d => time_raising = rose[d]
  /\ at[d] = "load" /\ writer["falling"] = d => time_falling = taken[d]

\* What a handler has loaded.
LoadedOK(d) ==
  LET r == loaded[d]["raising"]  f == loaded[d]["falling"] IN
  at[d] = "load" =>
    /\ r /= Unset => /\ rose[d] - Slack <= r /\ r <= taken[d] + Slack
                     /\ own[d] => r = rose[d]
    /\ f /= Unset => /\ taken[d] - Slack <= f /\ f <= taken[d] + Slack
                     /\ own[d] => f = taken[d]

DeviceInv(d) == Clocked(d) /\ Near(d) /\ Wrote(d) /\ LoadedOK(d)

TimeInv ==
  /\ TypeOK /\ time_raising <= now /\ time_falling <= now
  /\ writer \in [Fields -> Devices \cup {Nobody}]
  /\ Exclusive
  /\ \A d \in Devices : DeviceInv(d)

LEMMA InitTime == Init => TimeInv
<1> SUFFICES ASSUME Init PROVE TimeInv
  OBVIOUS
<1>1. TypeOK
  BY InitTypeOK
<1>2. Exclusive
  BY DEF Init, Exclusive, Running
<1>3. ASSUME NEW d \in Devices PROVE DeviceInv(d)
  BY <1>3, Constants
  DEF Init, DeviceInv, Clocked, Near, Wrote, LoadedOK, Fields
<1> QED
  BY <1>1, <1>2, <1>3, Constants DEF Init, TimeInv, Fields

LEMMA NextExclusive ==
  ASSUME TypeOK, Exclusive, [Next]_vars
  PROVE  Exclusive'
<1> USE DEF Exclusive, Running
<1>1. ASSUME NEW d \in Devices, HandlerEntry(d)
      PROVE  Exclusive'
  BY <1>1 DEF HandlerEntry, TypeOK
<1>2. ASSUME NEW d \in Devices, Return(d)
      PROVE  Exclusive'
  BY <1>2 DEF Return, TypeOK
<1>3. CASE UNCHANGED check
  BY <1>3
<1> QED
  BY <1>1, <1>2, <1>3
  DEF Next, Tick, Change, SetInterrupt, ReleaseIrq, TakeTime, HandlerHigh,
      HandlerLow, Load, Sample, vars, locals

\* A step that changes none of the variables TimeInv is about.
LEMMA TimeUntouched ==
  ASSUME TimeInv, TypeOK', Exclusive', UNCHANGED <<now, globals, at, taken, loaded, own, rose>>,
         \A d \in Devices : at[d] /= "clock" => check'[d] = check[d]
  PROVE  TimeInv'
<1>1. ASSUME NEW d \in Devices PROVE DeviceInv(d)'
  BY <1>1 DEF TimeInv, DeviceInv, Clocked, Near, Wrote, LoadedOK, Running, globals
<1> QED
  BY <1>1 DEF TimeInv, globals

\* The times are numbers.
LEMMA TimesAreNumbers ==
  ASSUME TypeOK, NEW d \in Devices
  PROVE  /\ now \in Nat /\ time_raising \in Nat /\ time_falling \in Nat
         /\ rose[d] \in Nat /\ taken[d] \in Nat /\ Slow \in Nat /\ Slack \in Nat
  BY Constants DEF TypeOK

LEMMA TickTime == ASSUME TimeInv, TypeOK', Exclusive', Tick PROVE TimeInv'
<1>1. ASSUME NEW d \in Devices PROVE DeviceInv(d)'
  <2>1. /\ now' = now + 1
        /\ at[d] /= "clock" => now < taken[d] + Slow
        /\ UNCHANGED <<globals, check, at, taken, loaded, own, rose>>
    BY DEF Tick, locals
  <2>2. DeviceInv(d) /\ TypeOK
    BY DEF TimeInv
  <2>3. /\ rose[d] <= now' /\ taken[d] <= now'
        /\ at[d] /= "clock" => now' <= taken[d] + Slow
    <3>1. now \in Nat /\ rose[d] \in Nat /\ taken[d] \in Nat /\ Slow \in Nat
      BY <2>2, TimesAreNumbers
    <3>2. /\ rose[d] <= now /\ taken[d] <= now
          /\ at[d] /= "clock" => now < taken[d] + Slow
      BY <2>1, <2>2 DEF DeviceInv, Clocked
    <3> QED
      BY <2>1, <3>1, <3>2
  <2>4. Clocked(d)'
    BY <2>1, <2>2, <2>3 DEF DeviceInv, Clocked, Running
  <2> QED
    BY <2>1, <2>2, <2>4 DEF DeviceInv, Near, Wrote, LoadedOK, globals
<1>2. time_raising' <= now' /\ time_falling' <= now'
  BY Constants DEF Tick, TimeInv, TypeOK, globals
<1> QED
  BY <1>1, <1>2 DEF TimeInv, Tick, globals

LEMMA TakeTimeTime ==
  ASSUME TimeInv, TypeOK', Exclusive', NEW d \in Devices, TakeTime(d)
  PROVE  TimeInv'
<1>1. /\ check[d] /= NotRunning /\ at[d] = "clock"
      /\ taken' = [taken EXCEPT ![d] = now] /\ at' = [at EXCEPT ![d] = "store"]
      /\ UNCHANGED <<now, globals, check, loaded, own, rose>>
  BY DEF TakeTime, hardware
<1>2. TypeOK /\ \A e \in Devices : DeviceInv(e)
  BY DEF TimeInv
<1>3. taken'[d] = now /\ at'[d] = "store" /\ at' \in [Devices -> {"clock", "store", "load"}]
  BY <1>1, <1>2 DEF TypeOK
<1>4. ASSUME NEW e \in Devices, e /= d PROVE DeviceInv(e)'
  <2>1. taken'[e] = taken[e] /\ at'[e] = at[e]
    BY <1>1, <1>2, <1>4 DEF TypeOK
  <2> QED
    BY <1>1, <1>2, <2>1 DEF DeviceInv, Clocked, Near, Wrote, LoadedOK, Running, globals
<1>5. DeviceInv(d)'
  <2>1. \A e \in Devices : rose[e] - Slack <= now
    BY <1>2, TimesAreNumbers DEF DeviceInv, Clocked
  <2>2. Clocked(d)'
    BY <1>1, <1>2, <1>3, TimesAreNumbers DEF DeviceInv, Clocked, Running, TimeInv
  <2>3. Near(d)'
    BY <1>1, <1>2, <1>3, <2>1, TimesAreNumbers DEF DeviceInv, Near, TimeInv, globals
  <2> QED
    BY <1>1, <1>2, <1>3, <2>2, <2>3 DEF DeviceInv, Wrote, LoadedOK, globals
<1> QED
  BY <1>1, <1>4, <1>5 DEF TimeInv, globals

\* What another handler stores now is within Slack of a handler's time.
LEMMA StoresAreNear ==
  ASSUME TimeInv, NEW d \in Devices, at[d] /= "clock",
         NEW e \in Devices, e /= d, at[e] /= "clock"
  PROVE  taken[d] - Slack <= taken[e] /\ taken[e] <= taken[d] + Slack
<1>1. Clocked(d) /\ Clocked(e) /\ TypeOK /\ Exclusive
  BY DEF TimeInv, DeviceInv
<1>2. SMP
  BY <1>1 DEF Clocked, Exclusive
<1>3. Slack = Slow
  BY <1>2 DEF Slack
<1> QED
  BY <1>1, <1>3, TimesAreNumbers DEF Clocked

LEMMA HighTime ==
  ASSUME TimeInv, TypeOK', Exclusive', NEW d \in Devices, HandlerHigh(d)
  PROVE  TimeInv'
<1>1. /\ check[d] = 1 /\ at[d] = "store" /\ time_raising' = taken[d]
      /\ writer' = [writer EXCEPT !["raising"] = d]
      /\ rose' = [rose EXCEPT ![d] = taken[d]]
      /\ at' = [at EXCEPT ![d] = "clock"] /\ taken' = [taken EXCEPT ![d] = 0]
      /\ loaded' = [loaded EXCEPT ![d] = [f \in Fields |-> Unset]]
      /\ own' = [own EXCEPT ![d] = TRUE]
      /\ check' = [check EXCEPT ![d] = NotRunning]
      /\ UNCHANGED <<now, time_falling>>
  BY DEF HandlerHigh, Return, hardware
<1>2. TypeOK /\ \A e \in Devices : DeviceInv(e)
  BY DEF TimeInv
<1>3. /\ writer \in [Fields -> Devices \cup {Nobody}]
      /\ writer'["raising"] = d /\ writer'["falling"] = writer["falling"]
      /\ writer' \in [Fields -> Devices \cup {Nobody}]
  BY <1>1 DEF TimeInv, Fields
<1>4. ASSUME NEW e \in Devices, e /= d PROVE DeviceInv(e)'
  <2>1. /\ taken'[e] = taken[e] /\ at'[e] = at[e] /\ rose'[e] = rose[e]
        /\ loaded'[e] = loaded[e] /\ own'[e] = own[e] /\ check'[e] = check[e]
    BY <1>1, <1>2, <1>4 DEF TypeOK
  <2>2. Clocked(e)' /\ Wrote(e)' /\ LoadedOK(e)'
    BY <1>1, <1>2, <1>3, <1>4, <2>1 DEF DeviceInv, Clocked, Wrote, LoadedOK, Running
  <2>3. rose[e] - Slack <= taken[d]
    BY <1>1, <1>2 DEF DeviceInv, Near
  <2>4. at[e] /= "clock" => taken[d] - Slack <= taken[e] /\ taken[d] <= taken[e] + Slack
    BY <1>1, <1>4, StoresAreNear
  <2>5. \A x \in Devices : at[e] /= "clock" => rose'[x] - Slack <= taken[e]
    BY <1>1, <1>2, <2>4 DEF DeviceInv, Near, TypeOK
  <2>6. Near(e)'
    BY <1>1, <1>2, <2>1, <2>3, <2>4, <2>5 DEF DeviceInv, Near
  <2> QED
    BY <2>2, <2>6 DEF DeviceInv
<1>5. DeviceInv(d)'
  <2>1. /\ taken'[d] = 0 /\ at'[d] = "clock" /\ rose'[d] = taken[d]
        /\ own'[d] = TRUE /\ loaded'[d] = [f \in Fields |-> Unset]
    BY <1>1, <1>2 DEF TypeOK
  <2>2. taken[d] <= now /\ 0 <= now /\ taken[d] - Slack <= taken[d]
    BY <1>2, TimesAreNumbers DEF DeviceInv, Clocked
  <2> QED
    BY <1>1, <1>3, <2>1, <2>2 DEF DeviceInv, Clocked, Near, Wrote, LoadedOK
<1>6. time_raising' <= now' /\ time_falling' <= now'
  BY <1>1, <1>2 DEF TimeInv, DeviceInv, Clocked
<1> QED
  BY <1>3, <1>4, <1>5, <1>6 DEF TimeInv

LEMMA LowTime ==
  ASSUME TimeInv, TypeOK', Exclusive', NEW d \in Devices, HandlerLow(d)
  PROVE  TimeInv'
<1>1. /\ check[d] = 0 /\ at[d] = "store" /\ time_falling' = taken[d]
      /\ writer' = [writer EXCEPT !["falling"] = d]
      /\ at' = [at EXCEPT ![d] = "load"]
      /\ UNCHANGED <<now, time_raising, check, taken, loaded, own, rose>>
  BY DEF HandlerLow, hardware
<1>2. TypeOK /\ \A e \in Devices : DeviceInv(e)
  BY DEF TimeInv
<1>3. /\ writer'["falling"] = d /\ writer'["raising"] = writer["raising"]
      /\ writer' \in [Fields -> Devices \cup {Nobody}]
  BY <1>1 DEF TimeInv, Fields
<1>4. ASSUME NEW e \in Devices, e /= d PROVE DeviceInv(e)'
  <2>1. at'[e] = at[e]
    BY <1>1, <1>2, <1>4 DEF TypeOK
  <2>2. at[e] /= "clock" => taken[e] - Slack <= taken[d] /\ taken[d] <= taken[e] + Slack
    BY <1>1, <1>4, StoresAreNear
  <2> QED
    BY <1>1, <1>2, <1>3, <1>4, <2>1, <2>2
    DEF DeviceInv, Clocked, Near, Wrote, LoadedOK, Running
<1>5. DeviceInv(d)'
  <2>1. at'[d] = "load"
    BY <1>1, <1>2 DEF TypeOK
  <2>2. taken[d] - Slack <= taken[d] /\ taken[d] <= taken[d] + Slack
    BY <1>2, TimesAreNumbers
  <2>3. loaded[d]["raising"] = Unset /\ loaded[d]["falling"] = Unset
    BY <1>1, <1>2 DEF DeviceInv, Clocked, Fields
  <2> QED
    BY <1>1, <1>2, <1>3, <2>1, <2>2, <2>3
    DEF DeviceInv, Clocked, Near, Wrote, LoadedOK, Running
<1>6. time_raising' <= now' /\ time_falling' <= now'
  BY <1>1, <1>2 DEF TimeInv, DeviceInv, Clocked
<1> QED
  BY <1>3, <1>4, <1>5, <1>6 DEF TimeInv

LEMMA LoadTime ==
  ASSUME TimeInv, TypeOK', Exclusive', NEW d \in Devices, NEW f \in Fields, Load(d, f)
  PROVE  TimeInv'
<1> DEFINE v == IF f = "raising" THEN time_raising ELSE time_falling
<1>1. /\ at[d] = "load"
      /\ loaded' = [loaded EXCEPT ![d] = [loaded[d] EXCEPT ![f] = v]]
      /\ own' = [own EXCEPT ![d] = own[d] /\ writer[f] = d]
      /\ UNCHANGED <<now, globals, check, at, taken, rose>>
  BY DEF Load, hardware
<1>2. TypeOK /\ \A e \in Devices : DeviceInv(e)
  BY DEF TimeInv
<1>3. ASSUME NEW e \in Devices, e /= d PROVE DeviceInv(e)'
  <2>1. loaded'[e] = loaded[e] /\ own'[e] = own[e]
    BY <1>1, <1>2, <1>3 DEF TypeOK
  <2> QED
    BY <1>1, <1>2, <2>1 DEF DeviceInv, Clocked, Near, Wrote, LoadedOK, Running, globals
<1>4. DeviceInv(d)'
  <2>1. /\ loaded'[d] = [loaded[d] EXCEPT ![f] = v]
        /\ own'[d] = (own[d] /\ writer[f] = d)
        /\ loaded[d] \in [Fields -> Times \cup {Unset}]
    BY <1>1, <1>2 DEF TypeOK
  <2>2. Clocked(d)' /\ Near(d)' /\ Wrote(d)'
    BY <1>1, <1>2 DEF DeviceInv, Clocked, Near, Wrote, Running, globals
  <2>3. LoadedOK(d)'
    <3>1. CASE f = "raising"
      <4>1. loaded'[d]["raising"] = time_raising /\ loaded'[d]["falling"] = loaded[d]["falling"]
        BY <2>1, <3>1 DEF Fields
      <4> QED
        BY <1>1, <1>2, <2>1, <3>1, <4>1 DEF DeviceInv, Near, Wrote, LoadedOK
    <3>2. CASE f = "falling"
      <4>1. loaded'[d]["falling"] = time_falling /\ loaded'[d]["raising"] = loaded[d]["raising"]
        BY <2>1, <3>2 DEF Fields
      <4> QED
        BY <1>1, <1>2, <2>1, <3>2, <4>1 DEF DeviceInv, Near, Wrote, LoadedOK
    <3> QED
      BY <3>1, <3>2 DEF Fields
  <2> QED
    BY <2>2, <2>3 DEF DeviceInv
<1> QED
  BY <1>1, <1>3, <1>4 DEF TimeInv, globals

LEMMA SampleTime ==
  ASSUME TimeInv, TypeOK', Exclusive', NEW d \in Devices, Sample(d)
  PROVE  TimeInv'
<1>1. /\ at' = [at EXCEPT ![d] = "clock"] /\ taken' = [taken EXCEPT ![d] = 0]
      /\ loaded' = [loaded EXCEPT ![d] = [f \in Fields |-> Unset]]
      /\ own' = [own EXCEPT ![d] = TRUE]
      /\ check' = [check EXCEPT ![d] = NotRunning]
      /\ UNCHANGED <<now, globals, rose>>
  BY DEF Sample, Return, hardware
<1>2. TypeOK /\ \A e \in Devices : DeviceInv(e)
  BY DEF TimeInv
<1>3. ASSUME NEW e \in Devices PROVE DeviceInv(e)'
  <2>1. CASE e /= d
    <3>1. /\ taken'[e] = taken[e] /\ at'[e] = at[e] /\ loaded'[e] = loaded[e]
          /\ own'[e] = own[e] /\ check'[e] = check[e]
      BY <1>1, <1>2, <2>1 DEF TypeOK
    <3>2. Clocked(e)' /\ Near(e)'
      BY <1>1, <1>2, <3>1 DEF DeviceInv, Clocked, Near, Running, globals
    <3>3. Wrote(e)' /\ LoadedOK(e)'
      BY <1>1, <1>2, <3>1 DEF DeviceInv, Wrote, LoadedOK, globals
    <3> QED
      BY <3>2, <3>3 DEF DeviceInv
  <2>2. CASE e = d
    <3>1. /\ taken'[d] = 0 /\ at'[d] = "clock" /\ own'[d] = TRUE
          /\ loaded'[d] = [f \in Fields |-> Unset]
      BY <1>1, <1>2 DEF TypeOK
    <3>2. 0 <= now
      BY <1>2, TimesAreNumbers
    <3> QED
      BY <1>1, <1>2, <2>2, <3>1, <3>2
      DEF DeviceInv, Clocked, Near, Wrote, LoadedOK, globals
  <2> QED
    BY <2>1, <2>2
<1> QED
  BY <1>1, <1>3 DEF TimeInv, globals

LEMMA NextTime == TimeInv /\ [Next]_vars => TimeInv'
<1> SUFFICES ASSUME TimeInv, [Next]_vars PROVE TimeInv'
  OBVIOUS
<1>1. TypeOK' /\ Exclusive' /\ TypeOK
  BY NextTypeOK, NextExclusive DEF TimeInv
<1>2. ASSUME NEW d \in Devices, Change(d) \/ SetInterrupt(d) \/ ReleaseIrq(d)
      PROVE  TimeInv'
  BY <1>1, <1>2, TimeUntouched
  DEF Change, SetInterrupt, ReleaseIrq, hardware, globals, locals
<1>3. ASSUME NEW d \in Devices, HandlerEntry(d)
      PROVE  TimeInv'
  <2>1. ASSUME NEW e \in Devices, at[e] /= "clock" PROVE check'[e] = check[e]
    <3>1. check[e] /= NotRunning
      BY <2>1 DEF TimeInv, DeviceInv, Clocked, Running
    <3> QED
      BY <1>1, <1>3, <3>1 DEF HandlerEntry, TypeOK
  <2> QED
    BY <1>1, <1>3, <2>1, TimeUntouched DEF HandlerEntry
<1>4. CASE UNCHANGED vars
  BY <1>1, <1>4, TimeUntouched DEF vars, hardware, globals, locals
<1> QED
  BY <1>1, <1>2, <1>3, <1>4, TickTime, TakeTimeTime, HighTime, LowTime, LoadTime,
     SampleTime DEF Next

-----------------------------------------------------------------------------
(* What a sample is worth.                                                  *)

Short(x, p) == SameSecond(p) => x \in Early .. Late(p)

Rolls(x, p) ==
  \E since \in Spans(p) :
    x \in {Truncated(Nanoseconds(since), PerCm),
           Truncated(Nanoseconds(since) - Second, PerCm)}

LEMMA NewSample ==
  ASSUME TypeOK, NEW d \in Devices, DeviceInv(d), at[d] = "load",
         \A f \in Fields : loaded[d][f] /= Unset
  PROVE  LET x == Distance(loaded[d]["raising"], loaded[d]["falling"])
             p == [rose |-> rose[d], fell |-> taken[d], own |-> own[d]]
         IN  x \in Int /\ Short(x, p) /\ Rolls(x, p)
<1> DEFINE r == loaded[d]["raising"]
           f == loaded[d]["falling"]
           x == Distance(r, f)
           p == [rose |-> rose[d], fell |-> taken[d], own |-> own[d]]
           w == taken[d] - rose[d]
<1>1. /\ r \in Nat /\ f \in Nat /\ rose[d] \in Nat /\ taken[d] \in Nat
      /\ Slack \in Nat
  BY Constants DEF TypeOK, Fields
<1>2. /\ rose[d] - Slack <= r /\ r <= taken[d] + Slack
      /\ taken[d] - Slack <= f /\ f <= taken[d] + Slack
      /\ own[d] => r = rose[d] /\ f = taken[d]
      /\ rose[d] <= taken[d]
  BY DEF DeviceInv, LoadedOK, Clocked, Fields
<1>3. Width(p) = w /\ p.rose = rose[d] /\ p.fell = taken[d] /\ p.own = own[d]
  BY DEF Width
<1> HIDE DEF r, f, p
<1>4. x \in Int
  BY <1>1, DistanceInt
<1>5. /\ w \in Int /\ f - r \in Int /\ w + 2 * Slack \in Int /\ - (2 * Slack) \in Int
      /\ - (2 * Slack) <= f - r /\ f - r <= w + 2 * Slack
  BY <1>1, <1>2
<1>6. Short(x, p)
  <2> SUFFICES ASSUME SameSecond(p) PROVE x \in Early .. Late(p)
    BY DEF Short
  <2> DEFINE a == rose[d] - Slack
             c == taken[d] + Slack
  <2>1. a \div Second = c \div Second
    BY <1>3 DEF SameSecond
  <2>2. /\ a \in Int /\ c \in Int /\ a <= r /\ r <= c /\ a <= f /\ f <= c
    BY <1>1, <1>2
  <2> HIDE DEF a, c
  <2>3. Nanoseconds(f) - Nanoseconds(r) = f - r
    BY <1>1, <2>1, <2>2, WithinASecond
  <2>4. x = Truncated(f - r, PerCm)
    BY <2>3 DEF Distance
  <2>5. /\ Truncated(- (2 * Slack), PerCm) <= x
        /\ x <= Truncated(w + 2 * Slack, PerCm)
    BY <1>5, <2>4, TruncatedMonotone
  <2>6. Early \in Int /\ Late(p) \in Int /\ Early <= x /\ x <= Late(p)
    BY <1>3, <1>5, <2>5, TruncatedInt DEF Early, Late
  <2> HIDE DEF x
  <2> QED
    BY <1>4, <2>6
<1>7. Rolls(x, p)
  <2> DEFINE since == f - r
  <2>1. since \in Spans(p)
    <3>1. CASE own[d]
      BY <1>2, <1>3, <3>1 DEF Spans
    <3>2. CASE ~ own[d]
      BY <1>3, <1>5, <3>2 DEF Spans
    <3> QED
      BY <3>1, <3>2
  <2>2. \/ Nanoseconds(f) - Nanoseconds(r) = Nanoseconds(since)
        \/ Nanoseconds(f) - Nanoseconds(r) = Nanoseconds(since) - Second
    BY <1>1, RollsOver
  <2>3. x \in {Truncated(Nanoseconds(since), PerCm),
               Truncated(Nanoseconds(since) - Second, PerCm)}
    BY <2>2, Zenon DEF Distance
  <2> HIDE DEF since, x
  <2> QED
    BY <2>1, <2>3, Zenon DEF Rolls
<1> QED
  BY <1>4, <1>6, <1>7 DEF r, f, p

GoodSamples ==
  \A d \in Devices :
    /\ Len(pulse[d]) = Len(samples[d])
    /\ \A i \in DOMAIN samples[d] :
         Short(samples[d][i], pulse[d][i]) /\ Rolls(samples[d][i], pulse[d][i])

SampleInv == TimeInv /\ GoodSamples

LEMMA InitSamples == Init => SampleInv
<1> SUFFICES ASSUME Init PROVE SampleInv
  OBVIOUS
<1>1. ASSUME NEW d \in Devices PROVE samples[d] = <<>> /\ pulse[d] = <<>>
  BY DEF Init
<1>2. ASSUME NEW d \in Devices
      PROVE  DOMAIN samples[d] = {} /\ Len(pulse[d]) = Len(samples[d])
  <2>1. samples[d] = <<>> /\ pulse[d] = <<>>
    BY <1>1
  <2>2. DOMAIN samples[d] = {}
    BY <2>1
  <2> QED
    BY <2>1, <2>2
<1>3. GoodSamples
  BY <1>2, Zenon DEF GoodSamples
<1> QED
  BY <1>3, InitTime DEF SampleInv

LEMMA NextSamples == SampleInv /\ [Next]_vars => SampleInv'
<1> SUFFICES ASSUME SampleInv, [Next]_vars PROVE GoodSamples'
  BY NextTime DEF SampleInv
<1>1. TypeOK /\ \A d \in Devices : DeviceInv(d)
  BY DEF SampleInv, TimeInv
<1>2. CASE UNCHANGED recorded
  BY <1>2 DEF SampleInv, GoodSamples, recorded, Short, Rolls, SameSecond, Early,
     Late, Spans, Width
<1>3. ASSUME NEW d \in Devices, Sample(d) PROVE GoodSamples'
  <2> DEFINE new == Distance(loaded[d]["raising"], loaded[d]["falling"])
             its == [rose |-> rose[d], fell |-> taken[d], own |-> own[d]]
  <2>1. /\ samples' = [samples EXCEPT ![d] = Append(samples[d], new)]
        /\ pulse' = [pulse EXCEPT ![d] = Append(pulse[d], its)]
    BY <1>3 DEF Sample
  <2>2. at[d] = "load" /\ \A f \in Fields : loaded[d][f] /= Unset
    <3>1. \A f \in Fields : loaded[d][f] /= Unset
      BY <1>3 DEF Sample
    <3>2. "raising" \in Fields /\ Clocked(d)
      BY <1>1 DEF Fields, DeviceInv
    <3> QED
      BY <3>1, <3>2 DEF Clocked
  <2>3. Short(new, its) /\ Rolls(new, its)
    BY <1>1, <2>2, NewSample
  <2> HIDE DEF new, its
  <2>4. /\ samples \in [Devices -> Seq(Int)] /\ pulse \in [Devices -> Seq(Pulses)]
        /\ samples[d] \in Seq(Int) /\ pulse[d] \in Seq(Pulses)
        /\ Len(pulse[d]) = Len(samples[d])
    BY <1>1 DEF TypeOK, SampleInv, GoodSamples
  <2>5. ASSUME NEW e \in Devices
        PROVE  /\ Len(pulse'[e]) = Len(samples'[e])
               /\ \A i \in DOMAIN samples'[e] :
                    Short(samples'[e][i], pulse'[e][i]) /\ Rolls(samples'[e][i], pulse'[e][i])
    <3>1. CASE e /= d
      <4>1. samples'[e] = samples[e] /\ pulse'[e] = pulse[e]
        BY <2>1, <2>4, <3>1
      <4> QED
        BY <4>1 DEF SampleInv, GoodSamples
    <3>2. CASE e = d
      <4>1. /\ samples'[d] = Append(samples[d], new)
            /\ pulse'[d] = Append(pulse[d], its)
        BY <2>1, <2>4
      <4>2. Len(pulse'[d]) = Len(samples'[d])
        BY <2>4, <4>1
      <4>3. ASSUME NEW i \in DOMAIN samples'[d]
            PROVE  Short(samples'[d][i], pulse'[d][i]) /\ Rolls(samples'[d][i], pulse'[d][i])
        <5>1. CASE i \in DOMAIN samples[d]
          <6>1. samples'[d][i] = samples[d][i] /\ pulse'[d][i] = pulse[d][i]
            BY <2>4, <4>1, <5>1
          <6> QED
            BY <5>1, <6>1 DEF SampleInv, GoodSamples
        <5>2. CASE i \notin DOMAIN samples[d]
          <6>1. i = Len(samples[d]) + 1
            BY <2>4, <4>1, <5>2
          <6>2. samples'[d][i] = new /\ pulse'[d][i] = its
            BY <2>4, <4>1, <6>1
          <6> QED
            BY <2>3, <6>2
        <5> QED
          BY <5>1, <5>2
      <4> QED
        BY <3>2, <4>2, <4>3
    <3> QED
      BY <3>1, <3>2
  <2> QED
    BY <2>5 DEF GoodSamples, Short, Rolls, SameSecond, Early, Late, Spans, Width
<1> QED
  BY <1>2, <1>3
  DEF Next, Tick, Change, SetInterrupt, ReleaseIrq, HandlerEntry, TakeTime,
      HandlerHigh, HandlerLow, Load, vars

\* Within one second interference only shortens a distance, by whatever other
\* devices do to the two globals, save for twice the time a handler takes on SMP.
THEOREM InterferenceShortens == Spec => []OnlyShortened
<1>1. SampleInv => OnlyShortened
  BY DEF SampleInv, GoodSamples, OnlyShortened, Short
<1> QED
  BY InitSamples, NextSamples, <1>1, PTL DEF Spec

\* Over any time, with any number of devices: the distance made of a device's own
\* times is that of its pulse, and any other that of some time in the same bounds,
\* right or one second too small.
THEOREM OneSecondTooSmall == Spec => []OnlyRollsOver
<1>1. SampleInv => OnlyRollsOver
  BY DEF SampleInv, GoodSamples, OnlyRollsOver, Rolls
<1> QED
  BY InitSamples, NextSamples, <1>1, PTL DEF Spec

-----------------------------------------------------------------------------
(* One sample for each pulse.  The state of a line is one of a few: the     *)
(* handler owes a run exactly when the pin is where the last latched edge   *)
(* left it, and a quiet line is armed for the edge that comes next, except  *)
(* during a pulse that began before request_irq.                            *)

Removed(d) == ~ installed[d] => Quiet(d) /\ ~ heard[d]

InHandler(d) == check[d] /= NotRunning => ~ pending[d] /\ check[d] = level[d]

Busy(d) == ~ Quiet(d) /\ level[d] = 1 => heard[d]

Armed(d) ==
  installed[d] /\ Quiet(d) =>
    edge[d] = IF level[d] = 1 /\ heard[d] THEN "falling" ELSE "rising"

Heard(d) == heard[d] => level[d] = 1

Owes(d) == level[d] = 0 /\ ~ Quiet(d)

Counted(d) ==
  /\ Owes(d) => pulses[d] = Len(samples[d]) + 1
  /\ ~ Owes(d) => pulses[d] = Len(samples[d])

LineInv(d) ==
  Removed(d) /\ InHandler(d) /\ Busy(d) /\ Armed(d) /\ Heard(d) /\ Counted(d)

PulseInv == TimeInv /\ \A d \in Prompt : LineInv(d)

\* What belongs to one line.
ofLine(d) == <<level[d], pending[d], installed[d], edge[d], check[d],
             samples[d], heard[d], pulses[d]>>

\* A handler that has its operands found the pin low.
LEMMA HandlerIsLow ==
  ASSUME TimeInv, NEW d \in Devices, \A f \in Fields : loaded[d][f] /= Unset
  PROVE  check[d] = 0
  BY DEF TimeInv, DeviceInv, Clocked, Fields

LEMMA LineUntouched ==
  ASSUME NEW d \in Devices, LineInv(d), UNCHANGED ofLine(d)
  PROVE  LineInv(d)'
  BY DEF ofLine, LineInv, Removed, InHandler, Busy, Armed, Heard, Counted, Owes, Quiet

LEMMA InitPulse == Init => PulseInv
<1> SUFFICES ASSUME Init PROVE PulseInv
  OBVIOUS
<1>1. ASSUME NEW d \in Devices PROVE LineInv(d)
  BY DEF Init, LineInv, Removed, InHandler, Busy, Armed, Heard, Counted, Owes, Quiet,
         NotRunning
<1> QED
  BY <1>1, InitTime, TimerAssumption DEF PulseInv

LEMMA NextPulse == PulseInv /\ [Next]_vars => PulseInv'
<1> SUFFICES ASSUME PulseInv, [Next]_vars
             PROVE  \A e \in Prompt : LineInv(e)'
  BY NextTime DEF PulseInv
<1>0. TimeInv
  BY DEF PulseInv
<1>1. TypeOK /\ Prompt \subseteq Devices /\ \A e \in Prompt : LineInv(e)
  BY TimerAssumption DEF PulseInv, TimeInv
<1>2. CASE Tick \/ UNCHANGED vars
  <2>1. \A e \in Prompt : UNCHANGED ofLine(e)
    BY <1>2, TimerAssumption DEF Tick, vars, hardware, globals, locals,
       counted, recorded, line, ofLine
  <2> QED
    BY <1>1, <2>1, LineUntouched
<1>3. ASSUME NEW d \in Devices,
             \/ Change(d) \/ SetInterrupt(d) \/ ReleaseIrq(d)
             \/ HandlerEntry(d) \/ TakeTime(d) \/ HandlerLow(d) \/ HandlerHigh(d)
             \/ \E f \in Fields : Load(d, f)
             \/ Sample(d)
      PROVE  \A e \in Prompt : LineInv(e)'
  <2>1. /\ level[d] \in {0, 1} /\ check[d] \in {NotRunning, 0, 1}
        /\ samples[d] \in Seq(Int) /\ Len(samples[d]) \in Nat
        /\ pulses[d] \in Nat
        /\ pending[d] \in BOOLEAN /\ heard[d] \in BOOLEAN
        /\ installed[d] \in BOOLEAN
    BY <1>1 DEF TypeOK
  <2>2. ASSUME NEW e \in Prompt, e /= d
        PROVE  LineInv(e)'
    <3>1. UNCHANGED ofLine(e)
      BY <1>1, <1>3, <2>2 DEF Change, SetInterrupt, ReleaseIrq, HandlerEntry,
         TakeTime, HandlerLow, HandlerHigh, Load, Sample, Return, hardware, globals,
         locals, counted, recorded, line, ofLine, TypeOK
    <3> QED
      BY <1>1, <3>1, LineUntouched
  <2>3. d \in Prompt => LineInv(d)
    BY <1>1
  <2> USE DEF LineInv, Removed, InHandler, Busy, Armed, Heard, Counted, Owes, Quiet
  <2>4. ASSUME Change(d), d \in Prompt PROVE LineInv(d)'
    <3> DEFINE new == 1 - level[d]
    <3>1. Quiet(d)
      BY <2>4 DEF Change
    <3>2. /\ level'[d] = new
          /\ pending'[d] = (installed[d] /\ edge[d] = IF new = 1 THEN "rising" ELSE "falling")
          /\ heard'[d] = (installed[d] /\ new = 1)
          /\ pulses'[d] = IF heard[d] /\ new = 0 THEN pulses[d] + 1 ELSE pulses[d]
          /\ UNCHANGED <<installed, edge, check, samples>>
      BY <1>1, <2>4, <3>1 DEF Change, TypeOK, locals, recorded, line
    <3>3. CASE level[d] = 0
      BY <2>1, <2>3, <2>4, <3>1, <3>2, <3>3
    <3>4. CASE level[d] = 1
      BY <2>1, <2>3, <2>4, <3>1, <3>2, <3>4
    <3> QED
      BY <2>1, <3>3, <3>4
  <2>5. ASSUME SetInterrupt(d), d \in Prompt PROVE LineInv(d)'
    <3>1. /\ installed'[d] = TRUE /\ edge'[d] = "rising"
          /\ UNCHANGED <<level, pending, check, samples, heard, pulses>>
          /\ ~ installed[d]
      BY <1>1, <2>5 DEF SetInterrupt, TypeOK, hardware, locals, counted, recorded
    <3> QED
      BY <2>1, <2>3, <2>5, <3>1
  <2>6. ASSUME ReleaseIrq(d), d \in Prompt PROVE LineInv(d)'
    <3>1. /\ installed'[d] = FALSE /\ pending'[d] = FALSE /\ heard'[d] = FALSE
          /\ pulses'[d] = Len(samples[d])
          /\ check[d] = NotRunning
          /\ UNCHANGED <<level, check, samples>>
      BY <1>1, <2>6 DEF ReleaseIrq, TypeOK, locals, recorded
    <3> QED
      BY <2>1, <3>1
  <2>7. ASSUME HandlerEntry(d), d \in Prompt PROVE LineInv(d)'
    <3>1. /\ pending[d] /\ check[d] = NotRunning
          /\ pending'[d] = FALSE /\ check'[d] = level[d]
          /\ UNCHANGED <<level, installed, edge, samples, heard, pulses>>
      BY <1>1, <2>7 DEF HandlerEntry, TypeOK, counted, recorded, line
    <3> QED
      BY <2>1, <2>3, <2>7, <3>1 DEF NotRunning
  <2>8. ASSUME Sample(d), d \in Prompt PROVE LineInv(d)'
    <3>0. /\ loaded[d]["raising"] \in Int /\ loaded[d]["falling"] \in Int
      BY <1>1, Constants DEF TypeOK, Fields, Unset
    <3>1. /\ check'[d] = NotRunning /\ edge'[d] = "rising"
          /\ Len(samples'[d]) = Len(samples[d]) + 1
          /\ UNCHANGED <<level, pending, installed, heard, pulses>>
      BY <1>1, <2>1, <2>8, <3>0, DistanceInt DEF Sample, Return, TypeOK, hardware, counted
    <3>2. check[d] = 0
      BY <1>0, <1>1, <2>8, HandlerIsLow DEF Sample
    <3> QED
      BY <2>1, <2>3, <2>8, <3>1, <3>2 DEF NotRunning
  <2>9. ASSUME HandlerHigh(d), d \in Prompt PROVE LineInv(d)'
    <3>1. /\ check[d] = 1 /\ check'[d] = NotRunning /\ edge'[d] = "falling"
          /\ UNCHANGED <<level, pending, installed, samples, heard, pulses>>
      BY <1>1, <2>9 DEF HandlerHigh, Return, TypeOK, hardware, counted, recorded
    <3> QED
      BY <2>1, <2>3, <2>9, <3>1 DEF NotRunning
  <2>10. ASSUME TakeTime(d) \/ HandlerLow(d) \/ (\E f \in Fields : Load(d, f)),
                d \in Prompt
         PROVE  LineInv(d)'
    <3>1. UNCHANGED ofLine(d)
      BY <2>10 DEF TakeTime, HandlerLow, Load, hardware, counted, recorded, line, ofLine
    <3> QED
      BY <2>3, <2>10, <3>1, LineUntouched
  <2>11. d \in Prompt => LineInv(d)'
    BY <1>3, <2>4, <2>5, <2>6, <2>7, <2>8, <2>9, <2>10
  <2> QED
    BY <2>2, <2>11
<1> QED
  BY <1>2, <1>3 DEF Next

\* With prompt handlers every pulse heard from its rise to its fall gives one
\* sample, although a line is armed for one edge at a time.
THEOREM NoPulseMissed == Spec => []OneSamplePerPulse
<1>1. PulseInv => OneSamplePerPulse
  <2> SUFFICES ASSUME PulseInv, NEW d \in Prompt, d \in Devices
               PROVE  pulses[d] = Len(samples[d])
                                  + IF level[d] = 0 /\ ~ Quiet(d) THEN 1 ELSE 0
    BY TimerAssumption DEF OneSamplePerPulse
  <2>1. Counted(d) /\ samples[d] \in Seq(Int)
    BY DEF PulseInv, TimeInv, LineInv, TypeOK
  <2>2. CASE Owes(d)
    BY <2>1, <2>2 DEF Counted, Owes
  <2>3. CASE ~ Owes(d)
    <3>1. pulses[d] = Len(samples[d]) /\ Len(samples[d]) \in Nat
      BY <2>1, <2>3 DEF Counted
    <3> DEFINE owed == IF level[d] = 0 /\ ~ Quiet(d) THEN 1 ELSE 0
    <3>2. owed = 0
      BY <2>3 DEF Owes
    <3> HIDE DEF owed
    <3>3. pulses[d] = Len(samples[d]) + owed
      BY <3>1, <3>2
    <3> QED
      BY <3>3 DEF owed
  <2> QED
    BY <2>2, <2>3
<1> QED
  BY InitPulse, NextPulse, <1>1, PTL DEF Spec
=============================================================================
