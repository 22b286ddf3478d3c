------------------------ MODULE PlatformDeviceProofs ------------------------
(***************************************************************************)
(* Theorems about PlatformDevice, for every number of programs, threads    *)
(* and writes of the attributes, and every fault.                          *)
(***************************************************************************)
EXTENDS HcsrDeviceProofs, PlatformDevice

(* What the platform driver adds to the steps of HcsrDevice.               *)

Addition(c) ==
  \/ EnableCall(c) \/ Disable(c) \/ Trigger(c) \/ StoreAlloc(c) \/ StoreInit(c)
  \/ \E n \in NumSamples : SetNumberOnly(c, n)

\* The printk of the result divides by 0.
ReportFault(t) == tpc[t] = "release" /\ Oops(t, FALSE)

LEMMA NextOrAddition ==
  PlatformNext => \/ [Next]_vars
                  \/ \E c \in Clients : Addition(c)
                  \/ \E t \in Threads : ReportFault(t)
<1>1. ASSUME ~ panic, NEW c \in Clients, PlatformCall(c) \/ PlatformStep(c)
      PROVE  Next \/ Addition(c)
  BY <1>1 DEF PlatformCall, PlatformStep, TriggerRest, read_buffer, Addition, Next,
     Call, ClientStep
<1> QED
  BY <1>1 DEF PlatformNext, start_sampling, Report, ReportFault, interrupt_handler,
     Next

LEMMA AdditionSampler ==
  ASSUME SamplerInv, NEW c \in Clients, Addition(c)
  PROVE  SamplerInv'
<1>1. UNCHANGED <<tpc, irq_owner, starts>>
  BY DEF Addition, EnableCall, Disable, Trigger, StoreAlloc, StoreInit,
     SetNumberOnly, world, threads
<1>2. \/ all_samples' = all_samples
      \/ \E cells : all_samples' = alloc_buffer(all_samples, cells)
      \/ all_samples' = init_buffer(all_samples, MAX_BUFF_SIZE)
  BY DEF Addition, EnableCall, Disable, Trigger, StoreAlloc, StoreInit,
     SetNumberOnly, device
<1>3. /\ IsBuffer(all_samples')
      /\ all_samples'.waiters \in {all_samples.waiters, <<>>}
  <2>1. IsBuffer(all_samples)
    BY DEF SamplerInv, ThreadTypes
  <2>2. CASE all_samples' = init_buffer(all_samples, MAX_BUFF_SIZE)
    BY <2>1, <2>2 DEF IsBuffer, init_buffer, SemaInit, Fields
  <2> QED
    BY <1>2, <2>1, <2>2, KeepsWaiters
<1> QED
  BY <1>1, <1>3, BufferSampler

LEMMA AdditionReaders ==
  ASSUME ReaderInv, NEW c \in Clients, Addition(c)
  PROVE  ReaderInv'
<1>1. buffer' = buffer
  BY DEF Addition, EnableCall, Disable, Trigger, StoreAlloc, StoreInit,
     SetNumberOnly, device
<1>2. CASE cpc' = cpc
  BY <1>1, <1>2, ReadersUntouched DEF readers
<1>3. CASE cpc' /= cpc
  <2>1. /\ cpc[c] /= "asleep"
        /\ \E label \in ClientLabels : cpc' = [cpc EXCEPT ![c] = label]
    BY <1>3 DEF Addition, EnableCall, Disable, Trigger, StoreAlloc, StoreInit,
       SetNumberOnly, ClientTo, ClientLabels
  <2> QED
    BY <1>1, <2>1, ClientMoves DEF ReaderInv, ReaderTypes
<1> QED
  BY <1>2, <1>3

LEMMA AdditionBusy ==
  ASSUME BusyInv, NEW c \in Clients, Addition(c)
  PROVE  Served'
<1>1. /\ UNCHANGED <<tpc, failed>>
      /\ is_in_progress' => is_in_progress
  BY DEF Addition, EnableCall, Disable, Trigger, StoreAlloc, StoreInit,
     SetNumberOnly, device, threads, history
<1>2. \A e \in Clients : cpc[e] = "spawn" => cpc'[e] = "spawn"
  <2>1. cpc \in [Clients -> ClientLabels]
    BY DEF BusyInv, ReaderInv, ReaderTypes
  <2>2. \/ cpc' = cpc
        \/ cpc[c] /= "spawn" /\ \E label : cpc' = [cpc EXCEPT ![c] = label]
    BY DEF Addition, EnableCall, Disable, Trigger, StoreAlloc, StoreInit,
       SetNumberOnly, ClientTo
  <2> QED
    BY <2>1, <2>2
<1>3. \A t \in Threads : Live(t) => Live(t)'
  BY <1>1 DEF Live, Sampling
<1> QED
  BY <1>1, <1>2, <1>3, StillServed DEF BusyInv

LEMMA FaultBusy ==
  ASSUME BusyInv, NEW t \in Threads, ReportFault(t)
  PROVE  BusyInv'
<1>1. SamplerInv'
  BY OopsSampler DEF BusyInv, ReportFault, SamplingLabels
<1>2. UNCHANGED readers /\ failed'
  BY DEF ReportFault, Oops, readers
<1>3. ReaderInv'
  BY <1>2, ReadersUntouched DEF BusyInv
<1> QED
  BY <1>1, <1>2, <1>3 DEF BusyInv, Served

LEMMA InitPlatform ==
  ASSUME PlatformInit
  PROVE  \E n, samples : /\ Unused(n, samples)
                        /\ IsBuffer(samples) /\ samples.waiters = <<>>
<1>1. CASE Init
  BY <1>1, InitUnused
<1>2. CASE ~ Init
  BY <1>2, NewBuffer DEF PlatformInit
<1> QED
  BY <1>1, <1>2

LEMMA NextPlatform == BusyInv /\ [PlatformNext]_pvars => BusyInv'
<1> SUFFICES ASSUME BusyInv, [PlatformNext]_pvars
             PROVE  BusyInv'
  OBVIOUS
<1>1. CASE [Next]_vars
  BY <1>1, NextBusy
<1>2. CASE \E c \in Clients : Addition(c)
  BY <1>2, AdditionSampler, AdditionReaders, AdditionBusy DEF BusyInv
<1>3. CASE \E t \in Threads : ReportFault(t)
  BY <1>3, FaultBusy
<1>4. pvars' = pvars => vars' = vars
  BY DEF pvars
<1> QED
  BY <1>1, <1>2, <1>3, <1>4, NextOrAddition

\* One thread at a time samples, also when enable has cleared the flag under a
\* thread and others have been started.
THEOREM PlatformOneSampler == PlatformSpec => []OneSampler
<1>1. PlatformInit => BusyInv
  BY InitPlatform, UnusedBusy
<1>2. BusyInv => OneSampler
  BY DEF BusyInv, SamplerInv
<1> QED
  BY <1>1, <1>2, NextPlatform, PTL DEF PlatformSpec

\* A call that is refused leaves a measurement here too: enable has not cleared
\* the flag that refused it.
LEMMA AdditionMeasures ==
  ASSUME BusyInv, NEW c \in Clients, NEW d \in Clients, Addition(d),
         cpc[c] \in {"progress", "start", "clear", "mark", "spawn"}, cpc'[c] = "idle"
  PROVE  \/ \E t \in Threads : Live(t)'
         \/ \E e \in Clients : cpc'[e] = "spawn"
         \/ failed'
<1>1. cpc \in [Clients -> ClientLabels] /\ Served
  BY DEF BusyInv, ReaderInv, ReaderTypes
<1>2. d = c /\ Trigger(c)
  BY <1>1 DEF Addition, EnableCall, Disable, Trigger, StoreAlloc, StoreInit,
     SetNumberOnly, ClientTo
<1>3. /\ is_in_progress /\ cpc' = [cpc EXCEPT ![c] = "idle"]
      /\ UNCHANGED <<tpc, failed>> /\ cpc[c] = "start"
  BY <1>1, <1>2 DEF Trigger, ClientTo, threads, history
<1>4. \A e \in Clients : cpc[e] = "spawn" => cpc'[e] = "spawn"
  BY <1>1, <1>3
<1>5. \A t \in Threads : Live(t) => Live(t)'
  BY <1>3 DEF Live, Sampling
<1> QED
  BY <1>1, <1>3, <1>4, <1>5 DEF Served

\* On the platform as well, a write or a read that brings no result returns only
\* when a measurement is under way or about to be.
THEOREM PlatformReturnsMeasure == PlatformSpec => EmptyReadMeasures
<1> DEFINE Measures ==
      \A c \in Clients :
        cpc[c] \in {"progress", "start", "clear", "mark", "spawn"} /\ cpc'[c] = "idle" =>
          \/ \E t \in Threads : Live(t)'
          \/ \E e \in Clients : cpc'[e] = "spawn"
          \/ failed'
<1>1. PlatformInit => BusyInv
  BY InitPlatform, UnusedBusy
<1>2. BusyInv /\ [PlatformNext]_pvars => [Measures]_vars
  <2> SUFFICES ASSUME BusyInv, [PlatformNext]_pvars PROVE [Measures]_vars
    OBVIOUS
  <2>1. CASE [Next]_vars
    BY <2>1, ReturnMeasures
  <2>2. ASSUME NEW d \in Clients, Addition(d) PROVE Measures
    BY <2>2, AdditionMeasures
  <2>3. ASSUME NEW t \in Threads, ReportFault(t) PROVE Measures
    BY <2>3 DEF ReportFault, Oops
  <2>4. pvars' = pvars => vars' = vars
    BY DEF pvars
  <2> QED
    BY <2>1, <2>2, <2>3, <2>4, NextOrAddition
<1>3. PlatformSpec => [][Measures]_vars
  BY <1>1, <1>2, NextPlatform, PTL DEF PlatformSpec
<1> QED
  BY <1>3 DEF EmptyReadMeasures

-----------------------------------------------------------------------------
(* What distance shows.  The buffer has one element, and no function leaves   *)
(* a cursor anywhere else.                                                   *)

One(b) ==
  /\ IsBuffer(b)
  /\ b.size = 1 /\ b.head = 0 /\ b.tail \in {0, 1}
  /\ b.result = [i \in 0 .. 0 |-> b.result[0]]

LEMMA NewOne ==
  ASSUME NEW b, b = init_buffer(alloc_buffer(Zeroed, Cells(MAX_BUFF_SIZE)),
                                MAX_BUFF_SIZE)
  PROVE  One(b) /\ b.result[0] = Junk
<1>1. Cells(MAX_BUFF_SIZE) = [i \in 0 .. 0 |-> Junk]
  BY OneElement DEF Cells
<1>2. /\ b.result = Cells(MAX_BUFF_SIZE) /\ b.size = 1 /\ b.head = 0
      /\ b.tail = 0 /\ IsBuffer(b)
  BY OneElement DEF init_buffer, alloc_buffer, SemaInit, Zeroed, IsBuffer, Fields
<1> QED
  BY <1>1, <1>2 DEF One

LEMMA InsertOne ==
  ASSUME NEW b, One(b), NEW d
  PROVE  One(insert_buffer(b, d)) /\ insert_buffer(b, d).result[0] = d
<1> DEFINE i == insert_buffer(b, d)
<1>1. InsertIndex(b) = 0
  BY DEF InsertIndex, One
<1>2. /\ i.size = 1 /\ i.head = 0 /\ i.tail = 1
      /\ i.result = [b.result EXCEPT ![0] = d]
  BY <1>1 DEF insert_buffer, Up, One, IsBuffer, Fields
<1>3. IsBuffer(i)
  BY WakesWaiter DEF One
<1> HIDE DEF i
<1> QED
  BY <1>2, <1>3 DEF One, i

LEMMA ClearOne ==
  ASSUME NEW b, One(b)
  PROVE  /\ One(clear_buffer(b, MAX_BUFF_SIZE))
         /\ clear_buffer(b, MAX_BUFF_SIZE).result[0] = Stampless(b.result[0])
<1> DEFINE k == clear_buffer(b, MAX_BUFF_SIZE)
<1>1. /\ k.size = 1 /\ k.head = 0 /\ k.tail = 0
      /\ k.result = [b.result EXCEPT ![0] = Stampless(b.result[0])]
  BY OneElement DEF clear_buffer, SemaInit, One, IsBuffer, Fields
<1>2. IsBuffer(k)
  BY LosesWaiters DEF One
<1> HIDE DEF k
<1> QED
  BY <1>1, <1>2 DEF One, k

LEMMA ReadOne ==
  ASSUME NEW b, One(b)
  PROVE  /\ One(AfterRead(b)) /\ AfterRead(b).result = b.result
         /\ One(ReadNow(b)) /\ ReadNow(b).result = b.result
<1>1. ASSUME NEW e, One(e)
      PROVE  One(AfterRead(e)) /\ AfterRead(e).result = e.result
  <2> DEFINE a == AfterRead(e)
  <2>1. a = [e EXCEPT !.head = 0, !.count = e.tail - 1, !.lock = NoOne]
    BY <1>1 DEF AfterRead, One
  <2>2. /\ a.size = 1 /\ a.head = 0 /\ a.tail = e.tail /\ a.result = e.result
    BY <1>1, <2>1 DEF One, IsBuffer, Fields
  <2>3. IsBuffer(a)
    BY <1>1, KeepsWaiters DEF One
  <2> HIDE DEF a
  <2>4. a.result = [j \in 0 .. 0 |-> a.result[0]]
    BY <1>1, <2>2 DEF One
  <2> QED
    BY <1>1, <2>2, <2>3, <2>4 DEF One, a
<1>2. One([b EXCEPT !.sem = @ - 1]) /\ [b EXCEPT !.sem = @ - 1].result = b.result
  BY DEF One, IsBuffer, Fields
<1> QED
  BY <1>1, <1>2 DEF ReadNow

LEMMA SleepOne ==
  ASSUME NEW b, One(b), NEW p
  PROVE  One(SleepIn(b, p)) /\ SleepIn(b, p).result = b.result
  BY DEF SleepIn, One, IsBuffer, Fields

\* A thread inserts one result, and only results that were inserted count.
ShownInv ==
  /\ One(buffer)
  /\ \E stamp \in {latest.timestamp, 0} :
       buffer.result[0] = [timestamp |-> stamp, distance |-> latest.distance]
  /\ \A r \in published : r.timestamp \in Threads /\ tpc[r.timestamp] \in Past

LEMMA InitShown == PlatformInit => ShownInv
<1> SUFFICES ASSUME PlatformInit PROVE ShownInv
  OBVIOUS
<1>1. \E n, samples : Unused(n, samples)
  BY InitPlatform
<1>2. /\ buffer = init_buffer(alloc_buffer(Zeroed, Cells(MAX_BUFF_SIZE)), MAX_BUFF_SIZE)
      /\ published = {}
  BY <1>1 DEF Unused
<1>3. latest = Junk
  BY DEF PlatformInit
<1> QED
  BY <1>2, <1>3, NewOne DEF ShownInv, Junk

\* Steps that publish nothing: element 0 stays, or loses its timestamp.
LEMMA NothingNew ==
  ASSUME ShownInv, published' = published, latest' = latest, One(buffer'),
         buffer'.result[0] \in {buffer.result[0], Stampless(buffer.result[0])},
         \A t \in Threads : tpc[t] \in Past => tpc'[t] \in Past
  PROVE  ShownInv'
<1>1. PICK stamp \in {latest.timestamp, 0} :
        buffer.result[0] = [timestamp |-> stamp, distance |-> latest.distance]
  BY DEF ShownInv
<1>2. Stampless(buffer.result[0]) = [timestamp |-> 0, distance |-> latest.distance]
  BY <1>1 DEF Stampless
<1> QED
  BY <1>1, <1>2 DEF ShownInv

LEMMA ClientShown ==
  ASSUME ShownInv, SamplerInv, latest' = latest, NEW c \in Clients,
         Call(c) \/ ClientStep(c) \/ Addition(c)
  PROVE  ShownInv'
<1>1. published' = published
  BY DEF Call, ClientStep, WriteCall, ReadCall, SetParameters, StartCheck,
     StartClear, StartMark, StartSpawn, SpawnFails, ReadProgress, ReadFifo,
     ReadSleep, ReadWoken, AllocSamples, Deliver, Addition, EnableCall, Disable,
     Trigger, StoreAlloc, StoreInit, SetNumberOnly, history
<1>2. \/ buffer' = buffer \/ buffer' = clear_buffer(buffer, MAX_BUFF_SIZE)
      \/ buffer' = ReadNow(buffer) \/ buffer' = AfterRead(buffer)
      \/ buffer' = SleepIn(buffer, c)
  BY DEF Call, ClientStep, WriteCall, ReadCall, SetParameters, StartCheck,
     StartClear, StartMark, StartSpawn, SpawnFails, ReadProgress, ReadFifo,
     ReadSleep, ReadWoken, AllocSamples, Addition, EnableCall, Disable,
     Trigger, StoreAlloc, StoreInit, SetNumberOnly, device
<1>3. /\ One(buffer')
      /\ buffer'.result[0] \in {buffer.result[0], Stampless(buffer.result[0])}
  <2>1. One(buffer)
    BY DEF ShownInv
  <2>2. CASE buffer' = buffer
    BY <2>1, <2>2
  <2>3. CASE buffer' = clear_buffer(buffer, MAX_BUFF_SIZE)
    BY <2>1, <2>3, ClearOne
  <2>4. CASE buffer' \in {ReadNow(buffer), AfterRead(buffer)}
    BY <2>1, <2>4, ReadOne
  <2>5. CASE buffer' = SleepIn(buffer, c)
    BY <2>1, <2>5, SleepOne
  <2> QED
    BY <1>2, <2>2, <2>3, <2>4, <2>5
<1>4. \A t \in Threads : tpc[t] \in Past => tpc'[t] \in Past
  <2>1. CASE StartSpawn(c)
    <3>1. starts + 1 \in Threads /\ tpc' = [tpc EXCEPT ![starts + 1] = "setup"]
      BY <2>1 DEF StartSpawn, ThreadTo
    <3>2. tpc[starts + 1] = "unborn"
      BY <3>1 DEF SamplerInv, ThreadTypes, Unborn
    <3> QED
      BY <3>1, <3>2 DEF SamplerInv, ThreadTypes, Past
  <2>2. CASE ~ StartSpawn(c)
    <3>1. tpc' = tpc
      BY <2>2 DEF Call, ClientStep, WriteCall, ReadCall, SetParameters, StartCheck,
         StartClear, StartMark, SpawnFails, ReadProgress, ReadFifo, ReadSleep,
         ReadWoken, AllocSamples, Deliver, Addition, EnableCall, Disable, Trigger,
         StoreAlloc, StoreInit, SetNumberOnly, threads
    <3> QED
      BY <3>1
  <2> QED
    BY <2>1, <2>2
<1> QED
  BY <1>1, <1>3, <1>4, NothingNew

LEMMA ThreadShown ==
  ASSUME ShownInv, SamplerInv, Remember, NEW t \in Threads, ThreadStep(t)
  PROVE  ShownInv'
<1>1. tpc \in [Threads -> ThreadLabels]
  BY DEF SamplerInv, ThreadTypes
<1>2. CASE InsertResult(t)
  <2> DEFINE r == Result(t)
  <2>1. /\ tpc[t] = "insert" /\ tpc' = [tpc EXCEPT ![t] = "release"]
        /\ buffer' = insert_buffer(buffer, r)
        /\ published' = published \cup {r}
    BY <1>2 DEF InsertResult, ThreadTo
  <2>2. r = [timestamp |-> t, distance |-> loc[t].distance] /\ r.timestamp = t
    BY DEF Result
  <2>3. r \notin published
    BY <2>1, <2>2 DEF ShownInv, Past
  <2> HIDE DEF r
  <2>4. published' /= published /\ \A s \in published' : s \notin published => s = r
    BY <2>1, <2>3
  <2>5. (CHOOSE s \in published' : s \notin published) = r
    BY <2>1, <2>3, <2>4
  <2>6. latest' = r
    BY <2>4, <2>5 DEF Remember
  <2>7. One(buffer') /\ buffer'.result[0] = r
    BY <2>1, InsertOne DEF ShownInv
  <2>8. \A s \in published' : s.timestamp \in Threads /\ tpc'[s.timestamp] \in Past
    BY <1>1, <2>1, <2>2 DEF ShownInv, Past
  <2> QED
    BY <2>2, <2>6, <2>7, <2>8 DEF ShownInv
<1>3. CASE ~ InsertResult(t)
  <2>1. published' = published /\ buffer' = buffer
    BY <1>3 DEF ThreadStep, SetInterrupt, ClearSamples, Pulse, CollectEnd,
       CollectSleep, CollectRead, CollectWoken, Collected, Oops, Average,
       ReleaseIrq, Finish, device, history
  <2>2. \/ tpc[t] \notin Past /\ \E label : tpc' = [tpc EXCEPT ![t] = label]
        \/ \E label \in Past : tpc' = [tpc EXCEPT ![t] = label]
    BY <1>3 DEF ThreadStep, SetInterrupt, ClearSamples, Pulse, CollectEnd,
       CollectSleep, CollectRead, CollectWoken, Collected, Oops, Average,
       ReleaseIrq, Finish, ThreadTo, Past
  <2>3. \A s \in Threads : tpc[s] \in Past => tpc'[s] \in Past
    BY <1>1, <2>2
  <2>4. latest' = latest
    BY <2>1 DEF Remember
  <2> QED
    BY <2>1, <2>3, <2>4, NothingNew DEF ShownInv
<1> QED
  BY <1>2, <1>3

LEMMA EchoShown ==
  ASSUME ShownInv, SamplerInv, latest' = latest, Echo
  PROVE  ShownInv'
<1>1. published' = published /\ buffer' = buffer
  BY DEF Echo, EchoSample, EchoUnheard, EchoLost, device, history
<1>2. ASSUME NEW t \in Threads, tpc[t] \in Past
      PROVE  tpc'[t] \in Past
  <2>1. \/ tpc' = tpc
        \/ tpc' = [s \in Threads |-> IF s \in WokenBy(all_samples)
                                       THEN "woken" ELSE tpc[s]]
    BY DEF Echo, EchoSample, EchoUnheard, EchoLost, threads
  <2>2. \A s \in WokenBy(all_samples) : tpc[s] = "asleep"
    BY DEF SamplerInv, WaitList, WokenBy
  <2> QED
    BY <1>2, <2>1, <2>2 DEF Past
<1> QED
  BY <1>1, <1>2, NothingNew DEF ShownInv

LEMMA FaultShown ==
  ASSUME ShownInv, SamplerInv, latest' = latest, NEW t \in Threads, ReportFault(t)
  PROVE  ShownInv'
<1>1. /\ tpc' = [tpc EXCEPT ![t] = "oops"] /\ tpc \in [Threads -> ThreadLabels]
      /\ UNCHANGED <<buffer, published>>
  BY DEF ReportFault, Oops, ThreadTo, SamplerInv, ThreadTypes
<1>2. \A s \in Threads : tpc[s] \in Past => tpc'[s] \in Past
  BY <1>1 DEF Past
<1> QED
  BY <1>1, <1>2, NothingNew DEF ShownInv

LEMMA NextShown == BusyInv /\ ShownInv /\ [PlatformNext]_pvars => ShownInv'
<1> SUFFICES ASSUME BusyInv, ShownInv, [PlatformNext]_pvars
             PROVE  ShownInv'
  OBVIOUS
<1>1. CASE pvars' = pvars
  BY <1>1 DEF pvars, vars, device, threads, history, ShownInv, One
<1>2. CASE PlatformNext
  <2>1. Remember
    BY <1>2 DEF PlatformNext
  <2>2. CASE \E t \in Threads : ThreadStep(t)
    BY <2>1, <2>2, ThreadShown DEF BusyInv
  <2>3. CASE Echo
    <3>1. published' = published
      BY <2>3 DEF Echo, EchoSample, EchoUnheard, EchoLost, history
    <3> QED
      BY <2>1, <2>3, <3>1, EchoShown DEF BusyInv, Remember
  <2>4. ASSUME NEW c \in Clients, Call(c) \/ ClientStep(c) \/ Addition(c)
        PROVE  ShownInv'
    <3>1. published' = published
      BY <2>4 DEF Call, ClientStep, WriteCall, ReadCall, SetParameters, StartCheck,
         StartClear, StartMark, StartSpawn, SpawnFails, ReadProgress, ReadFifo,
         ReadSleep, ReadWoken, AllocSamples, Deliver, Addition, EnableCall,
         Disable, Trigger, StoreAlloc, StoreInit, SetNumberOnly, history
    <3> QED
      BY <2>1, <2>4, <3>1, ClientShown DEF BusyInv, Remember
  <2>5. ASSUME NEW t \in Threads, ReportFault(t)
        PROVE  ShownInv'
    <3>1. published' = published
      BY <2>5 DEF ReportFault, Oops
    <3> QED
      BY <2>1, <2>5, <3>1, FaultShown DEF BusyInv, Remember
  <2>6. CASE UNCHANGED vars
    <3>1. UNCHANGED <<buffer, published, tpc>>
      BY <2>6 DEF vars, device, threads, history
    <3>2. latest' = latest
      BY <2>1, <3>1 DEF Remember
    <3> QED
      BY <3>1, <3>2 DEF ShownInv, One
  <2> QED
    BY <1>2, <2>2, <2>3, <2>4, <2>5, <2>6, NextOrAddition DEF Next
<1> QED
  BY <1>1, <1>2

\* distance shows the last result, however many programs start, clear, read and
\* disable, and although it takes no lock.
THEOREM ShowsLatest == PlatformSpec => []DistanceIsLatest
<1>1. PlatformInit => BusyInv /\ ShownInv
  BY InitPlatform, UnusedBusy, InitShown
<1>2. BusyInv /\ ShownInv /\ [PlatformNext]_pvars => BusyInv' /\ ShownInv'
  BY NextPlatform, NextShown
<1>3. ShownInv => DistanceIsLatest
  BY DEF ShownInv, DistanceIsLatest, show_distance
<1> QED
  BY <1>1, <1>2, <1>3, PTL DEF PlatformSpec

-----------------------------------------------------------------------------
(* Types.  sample_numbers gives all_samples a ring of one element, and the    *)
(* count of buffer is -1 only as long as tail is 0.                           *)

LEMMA InitInRing ==
  ASSUME NEW n \in Nat, NEW b, IsBuffer(b)
  PROVE  InRing(init_buffer(b, n), n)
<1> DEFINE c == init_buffer(b, n)
<1>1. c.head = 0 /\ c.tail = 0 /\ c.size = n /\ IsBuffer(c)
  BY DEF init_buffer, SemaInit, IsBuffer, Fields
<1> HIDE DEF c
<1>2. InRing(c, n)
  BY <1>1 DEF InRing
<1> QED
  BY <1>2 DEF c

LEMMA AdditionRings ==
  ASSUME NEW n \in Nat, RingsInv(n), NEW c \in Clients, Addition(c)
  PROVE  RingsInv(n)' \/ RingsInv(1)'
<1>1. /\ UNCHANGED <<buffer, echoes, lost, starts>>
      /\ is_in_progress' \in BOOLEAN /\ number_of_samples' \in NumSamples \cup {0}
  BY DEF RingsInv, Addition, EnableCall, Disable, Trigger, StoreAlloc, StoreInit,
     SetNumberOnly, device, world, threads
<1>2. \/ all_samples' = all_samples
      \/ \E cells : all_samples' = alloc_buffer(all_samples, cells)
      \/ all_samples' = init_buffer(all_samples, 1)
  BY OneElement DEF Addition, EnableCall, Disable, Trigger, StoreAlloc, StoreInit,
     SetNumberOnly, device
<1>3. InRing(all_samples', n) \/ InRing(all_samples', 1)
  <2>1. InRing(all_samples, n) /\ IsBuffer(all_samples)
    BY DEF RingsInv, InRing
  <2>2. CASE all_samples' = all_samples
    BY <2>1, <2>2
  <2>3. CASE \E cells : all_samples' = alloc_buffer(all_samples, cells)
    BY <2>1, <2>3, StaysInRing
  <2>4. CASE all_samples' = init_buffer(all_samples, 1)
    BY <2>1, <2>4, InitInRing
  <2> QED
    BY <1>2, <2>2, <2>3, <2>4
<1> QED
  BY <1>1, <1>3 DEF RingsInv

CountInv == buffer.count \in -1 .. 1 /\ reported \subseteq Threads

PlatformTypeInv ==
  BusyInv /\ ShownInv /\ CountInv /\ \E n \in {0, 1} : RingsInv(n)

LEMMA OneCounts ==
  ASSUME NEW b, One(b), b.count \in -1 .. 1, NEW p, NEW d
  PROVE  /\ clear_buffer(b, MAX_BUFF_SIZE).count \in -1 .. 1
         /\ AfterRead(b).count \in -1 .. 1 /\ ReadNow(b).count \in -1 .. 1
         /\ SleepIn(b, p).count \in -1 .. 1
         /\ insert_buffer(b, d).count \in -1 .. 1
<1>1. clear_buffer(b, MAX_BUFF_SIZE).count = 0
  BY DEF clear_buffer, SemaInit, One, IsBuffer, Fields
<1>2. AfterRead(b).count = b.tail - 1 /\ ReadNow(b).count = b.tail - 1
  BY DEF AfterRead, ReadNow, One, IsBuffer, Fields
<1>3. SleepIn(b, p).count = b.count
  BY DEF SleepIn, One, IsBuffer, Fields
<1>4. insert_buffer(b, d).count = IF b.count + 1 > 1 THEN b.count ELSE b.count + 1
  <2> DEFINE r == [b.result EXCEPT ![InsertIndex(b)] = d]
             t == InsertIndex(b) + 1
             k == IF b.count + 1 > b.size THEN b.count ELSE b.count + 1
             a == [b EXCEPT !.result = r, !.tail = t, !.count = k]
  <2>1. insert_buffer(b, d) = Up(a)
    BY DEF insert_buffer, One, IsBuffer, Fields
  <2>2. k = IF b.count + 1 > 1 THEN b.count ELSE b.count + 1
    BY DEF One
  <2> HIDE DEF r, t, k
  <2>3. a.count = k /\ IsBuffer(a)
    BY DEF One, IsBuffer, Fields
  <2> HIDE DEF a
  <2>4. Up(a).count = k
    BY <2>3 DEF Up, IsBuffer, Fields
  <2> QED
    BY <2>1, <2>2, <2>4
<1>5. b.tail - 1 \in -1 .. 1
  BY DEF One
<1>6. (IF b.count + 1 > 1 THEN b.count ELSE b.count + 1) \in -1 .. 1
  OBVIOUS
<1> QED
  BY <1>1, <1>2, <1>3, <1>4, <1>5, <1>6

LEMMA FaultRings ==
  ASSUME NEW n, RingsInv(n), NEW t \in Threads, ReportFault(t)
  PROVE  RingsInv(n)'
<1>1. UNCHANGED rings
  BY DEF ReportFault, Oops, rings, device, world
<1> QED
  BY <1>1, RingsUntouched

LEMMA BufferMoves ==
  ASSUME \/ [Next]_vars \/ \E c \in Clients : Addition(c)
         \/ \E t \in Threads : ReportFault(t)
  PROVE  \/ buffer' = buffer \/ buffer' = clear_buffer(buffer, MAX_BUFF_SIZE)
         \/ buffer' = ReadNow(buffer) \/ buffer' = AfterRead(buffer)
         \/ \E p : buffer' = SleepIn(buffer, p)
         \/ \E d : buffer' = insert_buffer(buffer, d)
<1>1. ASSUME NEW c \in Clients, Call(c) \/ ClientStep(c) \/ Addition(c)
      PROVE  \/ buffer' = buffer \/ buffer' = clear_buffer(buffer, MAX_BUFF_SIZE)
             \/ buffer' = ReadNow(buffer) \/ buffer' = AfterRead(buffer)
             \/ buffer' = SleepIn(buffer, c)
  BY <1>1 DEF Call, ClientStep, WriteCall, ReadCall, SetParameters, StartCheck,
     StartClear, StartMark, StartSpawn, SpawnFails, ReadProgress, ReadFifo,
     ReadSleep, ReadWoken, AllocSamples, Addition, EnableCall, Disable,
     Trigger, StoreAlloc, StoreInit, SetNumberOnly, device
<1>2. ASSUME NEW t \in Threads, ThreadStep(t)
      PROVE  buffer' = buffer \/ buffer' = insert_buffer(buffer, Result(t))
  <2>1. CASE InsertResult(t)
    BY <2>1 DEF InsertResult
  <2>2. CASE ~ InsertResult(t)
    BY <1>2, <2>2 DEF ThreadStep, SetInterrupt, ClearSamples, Pulse, CollectEnd,
       CollectSleep, CollectRead, CollectWoken, Collected, Oops, Average,
       ReleaseIrq, Finish, device
  <2> QED
    BY <2>1, <2>2
<1>3. Echo \/ UNCHANGED vars \/ (\E t \in Threads : ReportFault(t)) => buffer' = buffer
  BY DEF Echo, EchoSample, EchoUnheard, EchoLost, vars, device, ReportFault, Oops
<1> QED
  BY <1>1, <1>2, <1>3 DEF Next

LEMMA NextPlatformType ==
  ASSUME PlatformTypeInv, [PlatformNext]_pvars
  PROVE  PlatformTypeInv'
<1>1. BusyInv' /\ ShownInv'
  BY NextPlatform, NextShown DEF PlatformTypeInv
<1>2. PICK n \in {0, 1} : RingsInv(n)
  BY DEF PlatformTypeInv
<1>3. CASE pvars' = pvars
  <2>1. UNCHANGED rings /\ buffer' = buffer /\ reported' = reported
    BY <1>3 DEF pvars, vars, rings, device, world, threads
  <2>2. RingsInv(n)'
    BY <1>2, <2>1, RingsUntouched
  <2>3. CountInv'
    BY <2>1 DEF PlatformTypeInv, CountInv
  <2> QED
    BY <1>1, <2>2, <2>3 DEF PlatformTypeInv
<1>4. CASE PlatformNext
  <2>1. \/ [Next]_vars \/ \E c \in Clients : Addition(c)
        \/ \E t \in Threads : ReportFault(t)
    BY <1>4, NextOrAddition
  <2>2. RingsInv(n)' \/ RingsInv(1)'
    <3>1. UNCHANGED vars => UNCHANGED rings
      BY DEF vars, rings, device, world, threads
    <3> QED
      BY <1>2, <2>1, <3>1, RingsUntouched, ClientRings, ThreadRings, EchoRings,
         AdditionRings, FaultRings DEF Next
  <2>3. buffer'.count \in -1 .. 1
    <3>1. One(buffer) /\ buffer.count \in -1 .. 1
      BY DEF PlatformTypeInv, ShownInv, CountInv
    <3> QED
      BY <2>1, <3>1, BufferMoves, OneCounts
  <2>4. reported' \subseteq Threads
    BY <1>4 DEF PlatformNext, start_sampling, Report, PlatformTypeInv, CountInv
  <2>5. \E m \in {0, 1} : RingsInv(m)'
    BY <2>2
  <2> QED
    BY <1>1, <2>3, <2>4, <2>5 DEF PlatformTypeInv, CountInv
<1> QED
  BY <1>3, <1>4

LEMMA InitPlatformType == PlatformInit => PlatformTypeInv
<1> SUFFICES ASSUME PlatformInit PROVE PlatformTypeInv
  OBVIOUS
<1>1. BusyInv /\ ShownInv
  BY InitPlatform, UnusedBusy, InitShown
<1>2. PICK n, k, samples :
        /\ n \in {0, 1} /\ k \in NumSamples \cup {0}
        /\ Unused(k, samples) /\ InRing(samples, n)
  <2>1. CASE Init
    BY <2>1, NewInRing DEF Init
  <2>2. CASE ~ Init
    BY <2>2, NewInRing, OneElement DEF PlatformInit
  <2> QED
    BY <2>1, <2>2
<1>3. buffer = init_buffer(alloc_buffer(Zeroed, Cells(MAX_BUFF_SIZE)), MAX_BUFF_SIZE)
  BY <1>2 DEF Unused
<1>4. InRing(buffer, MAX_BUFF_SIZE)
  BY <1>3, NewInRing, OneElement
<1>5. buffer.count = 0
  <2> DEFINE a == alloc_buffer(Zeroed, Cells(MAX_BUFF_SIZE))
  <2>1. IsBuffer(a) /\ buffer = init_buffer(a, MAX_BUFF_SIZE)
    BY <1>3, NewBuffer
  <2> HIDE DEF a
  <2> QED
    BY <2>1 DEF init_buffer, SemaInit, IsBuffer, Fields
<1>6. RingsInv(n)
  <2>1. /\ is_in_progress = FALSE /\ number_of_samples = k /\ all_samples = samples
        /\ echoes = 0 /\ lost = 0 /\ starts = 0
    BY <1>2 DEF Unused
  <2>2. 0 \in 0 .. MaxLost /\ 0 \in 0 .. MaxStarts /\ 0 \in Nat
    BY DeviceAssumption
  <2> QED
    BY <1>2, <1>4, <2>1, <2>2 DEF RingsInv
<1>7. reported \subseteq Threads
  BY DEF PlatformInit
<1>8. CountInv
  BY <1>5, <1>7 DEF CountInv
<1> QED
  BY <1>1, <1>2, <1>6, <1>8 DEF PlatformTypeInv

\* Every variable stays in its range, whatever is written to the attributes and
\* whichever calls fail; the count of buffer is never below -1.
THEOREM PlatformTypeCorrect == PlatformSpec => []PlatformTypeOK
<1>1. PlatformTypeInv => PlatformTypeOK
  <2> SUFFICES ASSUME PlatformTypeInv PROVE PlatformTypeOK
    OBVIOUS
  <2>1. /\ buffer.head = 0 /\ buffer.tail \in 0 .. 1 /\ DOMAIN buffer.result = {0}
    BY DEF PlatformTypeInv, ShownInv, One
  <2>2. PICK n \in {0, 1} : RingsInv(n)
    BY DEF PlatformTypeInv
  <2>3. /\ all_samples.head = 0 /\ all_samples.tail \in 0 .. 1
        /\ all_samples.size \in 0 .. 1
    BY <2>2 DEF RingsInv, InRing
  <2>4. /\ is_in_progress \in BOOLEAN /\ number_of_samples \in NumSamples \cup {0}
        /\ echoes \in Nat /\ lost \in 0 .. MaxLost /\ starts \in 0 .. MaxStarts
    BY <2>2 DEF RingsInv
  <2>5. /\ irq_owner \in Threads \cup {NoOne} /\ cpc \in [Clients -> ClientLabels]
        /\ tpc \in [Threads -> ThreadLabels]
    BY DEF PlatformTypeInv, BusyInv, SamplerInv, ThreadTypes, ReaderInv, ReaderTypes
  <2>6. buffer.count \in -1 .. 1 /\ reported \subseteq Threads
    BY DEF PlatformTypeInv, CountInv
  <2> QED
    BY <2>1, <2>3, <2>4, <2>5, <2>6 DEF PlatformTypeOK
<1>2. PlatformTypeInv /\ [PlatformNext]_pvars => PlatformTypeInv'
  BY NextPlatformType
<1> QED
  BY <1>1, <1>2, InitPlatformType, PTL DEF PlatformSpec

-----------------------------------------------------------------------------
(* What a read returns.  What the platform driver adds never touches buffer.  *)

LEMMA AdditionTurn ==
  ASSUME ReaderInv, ShelfInv, TurnInv, NEW c \in Clients, Addition(c)
  PROVE  ShelfInv' /\ TurnInv' /\ delivered' = delivered
<1>1. UNCHANGED <<buffer, published, delivered, overrun, tpc>>
  BY DEF Addition, EnableCall, Disable, Trigger, StoreAlloc, StoreInit,
     SetNumberOnly, device, threads, history
<1>2. \A e \in Clients : cpc'[e] /= "woken"
  <2>1. \/ cpc' = cpc
        \/ \E label \in ClientLabels \ {"woken"} : cpc' = [cpc EXCEPT ![c] = label]
    BY DEF Addition, EnableCall, Disable, Trigger, StoreAlloc, StoreInit,
       SetNumberOnly, ClientTo, ClientLabels
  <2>2. cpc \in [Clients -> ClientLabels] /\ \A e \in Clients : cpc[e] /= "woken"
    BY DEF ReaderInv, ReaderTypes, ShelfInv
  <2> QED
    BY <2>1, <2>2
<1>3. ShelfInv'
  BY <1>1, <1>2 DEF ShelfInv, Stocked, InRing, IsBuffer, Unlocked
<1>4. \A x : Inserted(x) => Inserted(x)'
  BY <1>1 DEF Inserted
<1>5. TurnInv'
  BY <1>1, <1>4, TurnUntouched DEF turn
<1> QED
  BY <1>1, <1>3, <1>5

LEMMA FaultTurn ==
  ASSUME SamplerInv, ShelfInv, TurnInv, NEW t \in Threads, ReportFault(t)
  PROVE  ShelfInv' /\ TurnInv' /\ delivered' = delivered
<1>1. /\ tpc' = [tpc EXCEPT ![t] = "oops"] /\ tpc \in [Threads -> ThreadLabels]
      /\ UNCHANGED shelf /\ UNCHANGED turn
  BY DEF ReportFault, Oops, ThreadTo, SamplerInv, ThreadTypes, shelf, turn
<1>2. \A x : Inserted(x) => Inserted(x)'
  BY <1>1 DEF Inserted, Past
<1> QED
  BY <1>1, <1>2, ShelfUntouched, TurnUntouched DEF turn

ReadInv == BusyInv /\ ShelfInv /\ TurnInv

LEMMA InitRead == PlatformInit => ReadInv
<1> SUFFICES ASSUME PlatformInit PROVE ReadInv
  OBVIOUS
<1>1. PICK n, samples : /\ Unused(n, samples)
                        /\ IsBuffer(samples) /\ samples.waiters = <<>>
  BY InitPlatform
<1> QED
  BY <1>1, UnusedBusy, UnusedShelf, UnusedTurn DEF ReadInv

LEMMA NextRead ==
  ASSUME SMP, ReadInv, [PlatformNext]_pvars
  PROVE  /\ ReadInv'
         /\ ~ overrun /\ delivered' /= delivered =>
              \A i \in DOMAIN delivered :
                delivered[i] /= delivered'[Len(delivered')]
<1>1. BusyInv' /\ SamplerInv /\ ReaderInv /\ ShelfInv /\ TurnInv
  BY NextPlatform DEF ReadInv, BusyInv
<1>2. CASE [Next]_vars
  BY <1>1, <1>2, NextShelf, NextTurn DEF ReadInv
<1>3. CASE \E c \in Clients : Addition(c)
  BY <1>1, <1>3, AdditionTurn DEF ReadInv
<1>4. CASE \E t \in Threads : ReportFault(t)
  BY <1>1, <1>4, FaultTurn DEF ReadInv
<1>5. pvars' = pvars => vars' = vars
  BY DEF pvars
<1> QED
  BY <1>2, <1>3, <1>4, <1>5, NextOrAddition

\* On SMP what a read returns is a result that some measurement published, also
\* when enable, which clears nothing, starts one while another still samples.
THEOREM PlatformReadsPublished == SMP => (PlatformSpec => []DeliveredWasPublished)
<1> SUFFICES ASSUME SMP PROVE PlatformSpec => []DeliveredWasPublished
  OBVIOUS
<1>1. ReadInv /\ [PlatformNext]_pvars => ReadInv'
  BY NextRead
<1>2. ReadInv => DeliveredWasPublished
  <2> SUFFICES ASSUME ShelfInv PROVE DeliveredWasPublished
    BY DEF ReadInv
  <2>1. delivered \in Seq(published)
    BY DEF ShelfInv
  <2>2. \A i \in DOMAIN delivered : delivered[i] \in published
    BY <2>1
  <2> QED
    BY <2>2 DEF DeliveredWasPublished
<1> QED
  BY InitRead, <1>1, <1>2, PTL DEF PlatformSpec

\* And it is one that no read has returned, unless two have come since the last
\* clear: enable starts a measurement without one, and there is one element.
THEOREM PlatformFreshReads == SMP => (PlatformSpec => DeliveredOnce)
<1> SUFFICES ASSUME SMP PROVE PlatformSpec => DeliveredOnce
  OBVIOUS
<1> DEFINE Once ==
      ~ overrun /\ delivered' /= delivered =>
        \A i \in DOMAIN delivered : delivered[i] /= delivered'[Len(delivered')]
<1>1. ReadInv /\ [PlatformNext]_pvars => ReadInv' /\ [Once]_vars
  BY NextRead
<1> HIDE DEF Once
<1>2. PlatformSpec => [][Once]_vars
  BY InitRead, <1>1, PTL DEF PlatformSpec
<1> QED
  BY <1>2 DEF Once, DeliveredOnce
-----------------------------------------------------------------------------
(* What a result is made of.  A write of sample_numbers or SET_PARAMETERS     *)
(* spoils the result of a measurement under way, and is remembered in         *)
(* reconfigured; what else the platform driver adds touches no sample.        *)

LEMMA AdditionSamples ==
  ASSUME SampleTypes, SampleInv, NEW c \in Clients, Addition(c)
  PROVE  SampleInv'
<1>1. CASE StoreAlloc(c) \/ StoreInit(c) \/ \E n \in NumSamples : SetNumberOnly(c, n)
  <2>1. reconfigured' /\ UNCHANGED <<tpc, loc>>
    BY <1>1 DEF StoreAlloc, StoreInit, SetNumberOnly, threads
  <2>2. IsBuffer(all_samples) /\ number_of_samples + 2 \in Int
    BY DeviceAssumption DEF SampleTypes, SamplerInv, ThreadTypes
  <2>3. HasArray(all_samples)'
    <3>1. CASE StoreAlloc(c)
      <4>1. PICK cells \in {Cells(number_of_samples + 2), NoMemory} :
              all_samples' = alloc_buffer(all_samples, cells)
        BY <3>1 DEF StoreAlloc
      <4>2. all_samples'.result = cells
        BY <2>2, <4>1 DEF alloc_buffer, IsBuffer, Fields
      <4>3. \/ cells = NoMemory
            \/ cells = [j \in DOMAIN cells |-> cells[j]] /\ 0 \in DOMAIN cells
        BY <2>2 DEF Cells
      <4> QED
        BY <4>2, <4>3 DEF HasArray
    <3>2. CASE StoreInit(c)
      <4>1. all_samples'.result = all_samples.result
        BY <2>2, <3>2 DEF StoreInit, init_buffer, SemaInit, IsBuffer, Fields
      <4> QED
        BY <4>1 DEF SampleInv, HasArray
    <3>3. CASE \E n \in NumSamples : SetNumberOnly(c, n)
      BY <3>3 DEF SetNumberOnly, SampleInv, HasArray
    <3> QED
      BY <1>1, <3>1, <3>2, <3>3
  <2> QED
    BY <2>1, <2>3 DEF SampleInv, LocalVars, Fresh
<1>2. CASE EnableCall(c) \/ Disable(c) \/ Trigger(c)
  <2>1. UNCHANGED sampled
    BY <1>2 DEF EnableCall, Disable, Trigger, sampled, device, threads, history
  <2> QED
    BY <2>1, SampleUntouched
<1> QED
  BY <1>1, <1>2 DEF Addition

BooksInv == PlatformTypeInv /\ SampleInv

LEMMA InitBooks == PlatformInit => BooksInv
<1> SUFFICES ASSUME PlatformInit PROVE SampleInv
  BY InitPlatformType DEF BooksInv
<1>1. CASE Init
  BY <1>1, InitSample
<1>2. CASE ~ Init
  <2>1. PICK n \in NumSamples :
          Unused(n, init_buffer(alloc_buffer(Zeroed, Cells(n + 2)), MAX_BUFF_SIZE))
    BY <1>2 DEF PlatformInit
  <2>2. /\ tpc = [t \in Threads |-> "unborn"] /\ loc = [t \in Threads |-> NoLocals]
        /\ all_samples = init_buffer(alloc_buffer(Zeroed, Cells(n + 2)), MAX_BUFF_SIZE)
    BY <2>1 DEF Unused
  <2>3. all_samples.result = Cells(n + 2)
    BY <2>2 DEF init_buffer, SemaInit, alloc_buffer, Zeroed
  <2>4. n + 2 \in Int
    BY DeviceAssumption
  <2>5. HasArray(all_samples)
    BY <2>3, <2>4 DEF Cells, HasArray
  <2> QED
    BY <2>2, <2>5 DEF SampleInv, LocalVars, NoLocals, Fresh, Measuring, Collecting
<1> QED
  BY <1>1, <1>2

LEMMA NextBooks == BooksInv /\ [PlatformNext]_pvars => BooksInv'
<1> SUFFICES ASSUME BooksInv, [PlatformNext]_pvars PROVE SampleInv'
  BY NextPlatformType DEF BooksInv
<1>1. SampleTypes /\ SampleInv
  BY TypesOfSamples DEF BooksInv, PlatformTypeInv, BusyInv
<1>2. CASE [Next]_vars
  BY <1>1, <1>2, NextSamples
<1>3. ASSUME NEW c \in Clients, Addition(c) PROVE SampleInv'
  BY <1>1, <1>3, AdditionSamples
<1>4. ASSUME NEW t \in Threads, ReportFault(t) PROVE SampleInv'
  <2>1. Sampling(t) /\ Oops(t, FALSE)
    BY <1>4 DEF ReportFault, Sampling, SamplingLabels
  <2> QED
    BY <1>1, <2>1, OopsSamples
<1>5. pvars' = pvars => vars' = vars
  BY DEF pvars
<1> QED
  BY <1>2, <1>3, <1>4, <1>5, NextOrAddition

\* A result of a platform device is made from samples inserted since its thread
\* cleared all_samples as well, however often enable has cleared the flag under the
\* thread and started others.
THEOREM PlatformFreshSamples == PlatformSpec => []ResultFromFreshSamples
<1>1. BooksInv => ResultFromFreshSamples
  BY BooksAreRight DEF BooksInv
<1> QED
  BY InitBooks, NextBooks, <1>1, PTL DEF PlatformSpec

-----------------------------------------------------------------------------
(* is_in_progress is never left set, as in HcsrDeviceProofs.  What is added    *)
(* here takes no lock; a write of sample_numbers under a thread that waits for  *)
(* its samples, which empties the wait list, is remembered in reconfigured.    *)

LEMMA AdditionLocks ==
  ASSUME LockInv, ReaderInv, SamplerInv, NEW c \in Clients, Addition(c)
  PROVE  LockInv'
<1>1. UNCHANGED <<buffer, tpc, failed>>
  BY DEF Addition, EnableCall, Disable, Trigger, StoreAlloc, StoreInit,
     SetNumberOnly, device, threads, history
<1>2. all_samples'.lock \in {all_samples.lock, NoOne}
  <2>1. IsBuffer(all_samples)
    BY DEF SamplerInv, ThreadTypes
  <2>2. \/ all_samples' = all_samples
        \/ \E cells : all_samples' = alloc_buffer(all_samples, cells)
        \/ all_samples' = init_buffer(all_samples, MAX_BUFF_SIZE)
    BY DEF Addition, EnableCall, Disable, Trigger, StoreAlloc, StoreInit,
       SetNumberOnly, device
  <2>3. CASE all_samples' = init_buffer(all_samples, MAX_BUFF_SIZE)
    BY <2>1, <2>3 DEF init_buffer, SemaInit, IsBuffer, Fields
  <2> QED
    BY <2>1, <2>2, <2>3, LockMoves
<1>3. \A e \in Clients : cpc[e] = "asleep" => cpc'[e] = "asleep"
  <2>1. cpc \in [Clients -> ClientLabels]
    BY DEF ReaderInv, ReaderTypes
  <2>2. \/ cpc' = cpc
        \/ cpc[c] /= "asleep" /\ \E label : cpc' = [cpc EXCEPT ![c] = label]
    BY DEF Addition, EnableCall, Disable, Trigger, StoreAlloc, StoreInit,
       SetNumberOnly, ClientTo
  <2> QED
    BY <2>1, <2>2
<1> QED
  BY <1>1, <1>2, <1>3 DEF LockInv

LEMMA AdditionSupply ==
  ASSUME SupplyInv, NEW c \in Clients, Addition(c)
  PROVE  SupplyInv'
<1>1. CASE StoreAlloc(c) \/ StoreInit(c) \/ \E n \in NumSamples : SetNumberOnly(c, n)
  <2>1. reconfigured' /\ UNCHANGED <<tpc, loc>>
    BY <1>1 DEF StoreAlloc, StoreInit, SetNumberOnly, threads
  <2> QED
    BY <2>1 DEF SupplyInv
<1>2. CASE EnableCall(c) \/ Disable(c) \/ Trigger(c)
  <2>1. UNCHANGED supply
    BY <1>2 DEF EnableCall, Disable, Trigger, supply, device, world, threads, history
  <2> QED
    BY <2>1, SupplyUntouched
<1> QED
  BY <1>1, <1>2 DEF Addition

LEMMA FaultSupply ==
  ASSUME SamplerInv, LockInv, SupplyInv, NEW t \in Threads, ReportFault(t)
  PROVE  LockInv' /\ SupplyInv'
<1>1. /\ tpc' = [tpc EXCEPT ![t] = "oops"] /\ Sampling(t) /\ failed'
      /\ UNCHANGED <<buffer, all_samples, cpc, loc>>
  BY DEF ReportFault, Oops, ThreadTo, Sampling, SamplingLabels
<1>2. LockInv'
  BY <1>1 DEF LockInv
<1>3. SupplyInv'
  BY <1>1, OwnerSupply DEF ThreadLabels, SamplingLabels, Collecting
<1> QED
  BY <1>2, <1>3

PlatformGoingInv == BooksInv /\ LockInv /\ SupplyInv

LEMMA InitPlatformGoing == PlatformInit => PlatformGoingInv
<1> SUFFICES ASSUME PlatformInit PROVE LockInv /\ SupplyInv
  BY InitBooks DEF PlatformGoingInv
<1>1. PICK n, samples : Unused(n, samples) /\ samples.lock = NoOne
  <2>1. CASE Init
    BY <2>1 DEF Init, Zeroed
  <2>2. CASE ~ Init
    <3>1. PICK n \in NumSamples :
            Unused(n, init_buffer(alloc_buffer(Zeroed, Cells(n + 2)), MAX_BUFF_SIZE))
      BY <2>2 DEF PlatformInit
    <3>2. init_buffer(alloc_buffer(Zeroed, Cells(n + 2)), MAX_BUFF_SIZE).lock = NoOne
      BY DEF init_buffer, SemaInit, alloc_buffer, Zeroed
    <3> QED
      BY <3>1, <3>2
  <2> QED
    BY <2>1, <2>2
<1> QED
  BY <1>1, InitLocks, InitSupply

LEMMA PlatformSupplyTypes ==
  ASSUME PlatformGoingInv
  PROVE  SupplyTypes /\ BusyInv
<1>1. BusyInv /\ SampleInv /\ \E n \in {0, 1} : RingsInv(n)
  BY DEF PlatformGoingInv, BooksInv, PlatformTypeInv
<1>2. SampleTypes
  BY <1>1, TypesOfSamples DEF BusyInv
<1>3. echoes \in Nat /\ lost \in Nat
  BY <1>1, DeviceAssumption DEF RingsInv
<1> QED
  BY <1>1, <1>2, <1>3 DEF SupplyTypes

LEMMA NextPlatformGoing ==
  ASSUME PlatformGoingInv, [PlatformNext]_pvars
  PROVE  PlatformGoingInv'
<1>1. BooksInv'
  BY NextBooks DEF PlatformGoingInv
<1>2. SupplyTypes /\ SamplerInv /\ ReaderInv /\ LockInv /\ SupplyInv
  BY PlatformSupplyTypes DEF BusyInv, PlatformGoingInv
<1>3. CASE [Next]_vars
  BY <1>1, <1>2, <1>3, NextLocks, NextSupply DEF PlatformGoingInv
<1>4. CASE \E c \in Clients : Addition(c)
  BY <1>1, <1>2, <1>4, AdditionLocks, AdditionSupply DEF PlatformGoingInv
<1>5. CASE \E t \in Threads : ReportFault(t)
  BY <1>1, <1>2, <1>5, FaultSupply DEF PlatformGoingInv
<1>6. pvars' = pvars => vars' = vars
  BY DEF pvars
<1> QED
  BY <1>3, <1>4, <1>5, <1>6, NextOrAddition

\* As long as the flag of a platform device is set, some thread can go on or a
\* program is about to start one, however often enable clears the flag and starts
\* anew; from the same assumptions as FlagIsServed.
THEOREM PlatformFlagIsServed == PlatformSpec => []BusyIsServed
<1>1. PlatformGoingInv => BusyIsServed
  BY PlatformSupplyTypes, GoesOn DEF PlatformGoingInv, BooksInv, GoingInv
<1> QED
  BY InitPlatformGoing, NextPlatformGoing, <1>1, PTL DEF PlatformSpec
=============================================================================
