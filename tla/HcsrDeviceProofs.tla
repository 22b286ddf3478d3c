-------------------------- MODULE HcsrDeviceProofs --------------------------
(***************************************************************************)
(* Theorems about HcsrDevice, for every number of programs and threads,    *)
(* every parameter ioctl may set, both kernel builds and every fault.      *)
(***************************************************************************)
EXTENDS HcsrDevice, SequenceTheorems, FiniteSetTheorems, TLAPS

(* Buffers: what the functions of buffer.h do to the wait list.            *)

Fields == {"result", "head", "tail", "size", "count", "sem", "waiters", "lock"}

IsBuffer(b) == b = [f \in Fields |-> b[f]]

LEMMA NewBuffer ==
  ASSUME NEW size, NEW cells
  PROVE  /\ IsBuffer(Zeroed) /\ Zeroed.waiters = <<>>
         /\ IsBuffer(alloc_buffer(Zeroed, cells))
         /\ alloc_buffer(Zeroed, cells).waiters = <<>>
         /\ IsBuffer(init_buffer(alloc_buffer(Zeroed, cells), size))
         /\ init_buffer(alloc_buffer(Zeroed, cells), size).waiters = <<>>
<1>1. IsBuffer(Zeroed) /\ Zeroed.waiters = <<>>
  BY DEF IsBuffer, Zeroed, Fields
<1> DEFINE b == alloc_buffer(Zeroed, cells)
<1>2. IsBuffer(b) /\ b.waiters = <<>>
  BY <1>1 DEF IsBuffer, alloc_buffer, Fields
<1> HIDE DEF b
<1>3. IsBuffer(init_buffer(b, size)) /\ init_buffer(b, size).waiters = <<>>
  BY <1>2 DEF IsBuffer, init_buffer, SemaInit, Fields
<1> QED
  BY <1>1, <1>2, <1>3 DEF b

LEMMA KeepsWaiters ==
  ASSUME NEW b, IsBuffer(b), NEW cells
  PROVE  /\ IsBuffer(alloc_buffer(b, cells))
         /\ alloc_buffer(b, cells).waiters = b.waiters
         /\ IsBuffer(AfterRead(b)) /\ AfterRead(b).waiters = b.waiters
         /\ IsBuffer(ReadNow(b)) /\ ReadNow(b).waiters = b.waiters
<1>1. IsBuffer(alloc_buffer(b, cells)) /\ alloc_buffer(b, cells).waiters = b.waiters
  BY DEF IsBuffer, alloc_buffer, Fields
<1>2. IsBuffer(AfterRead(b)) /\ AfterRead(b).waiters = b.waiters
  BY DEF IsBuffer, AfterRead, Fields
<1>3. IsBuffer(ReadNow(b)) /\ ReadNow(b).waiters = b.waiters
  BY DEF IsBuffer, ReadNow, AfterRead, Fields
<1> QED
  BY <1>1, <1>2, <1>3

LEMMA LosesWaiters ==
  ASSUME NEW b, IsBuffer(b), NEW bytes
  PROVE  IsBuffer(clear_buffer(b, bytes)) /\ clear_buffer(b, bytes).waiters = <<>>
  BY DEF IsBuffer, clear_buffer, SemaInit, Fields

LEMMA AddsWaiter ==
  ASSUME NEW b, IsBuffer(b), NEW p
  PROVE  IsBuffer(SleepIn(b, p)) /\ SleepIn(b, p).waiters = Append(b.waiters, p)
  BY DEF IsBuffer, SleepIn, Fields

LEMMA WakesWaiter ==
  ASSUME NEW b, IsBuffer(b), NEW d
  PROVE  /\ IsBuffer(insert_buffer(b, d))
         /\ insert_buffer(b, d).waiters =
              IF b.waiters = <<>> THEN <<>> ELSE Tail(b.waiters)
  BY DEF IsBuffer, insert_buffer, Up, Fields

-----------------------------------------------------------------------------
(* One thread samples: the one that owns the interrupt line, and only it can *)
(* be on the wait list of all_samples.                                       *)

ThreadTypes ==
  /\ tpc \in [Threads -> ThreadLabels]
  /\ irq_owner \in Threads \cup {NoOne}
  /\ starts \in Nat
  /\ IsBuffer(all_samples)

Unborn == \A t \in Threads : t > starts => tpc[t] = "unborn"

WaitList ==
  \/ all_samples.waiters = <<>>
  \/ /\ irq_owner \in Threads /\ tpc[irq_owner] = "asleep"
     /\ all_samples.waiters = <<irq_owner>>

SamplerInv == ThreadTypes /\ Unborn /\ OneSampler /\ WaitList

\* The variables SamplerInv is about.
sampler == <<tpc, irq_owner, starts, all_samples>>

\* A device that nobody has used yet.
LEMMA UnusedSampler ==
  ASSUME NEW n, NEW samples, IsBuffer(samples), samples.waiters = <<>>,
         Unused(n, samples)
  PROVE  SamplerInv
  BY ThreadAssumption DEF Unused, SamplerInv, ThreadTypes, Unborn, OneSampler,
     WaitList, Sampling, SamplingLabels, ThreadLabels

LEMMA InitUnused ==
  ASSUME Init \/ ConfiguredInit
  PROVE  \E n, samples : /\ Unused(n, samples)
                        /\ IsBuffer(samples) /\ samples.waiters = <<>>
<1>1. CASE Init
  BY <1>1, NewBuffer DEF Init
<1>2. CASE ConfiguredInit
  BY <1>2, NewBuffer DEF ConfiguredInit
<1> QED
  BY <1>1, <1>2

LEMMA InitSampler == Init \/ ConfiguredInit => SamplerInv
  BY InitUnused, UnusedSampler

LEMMA SamplerUntouched == SamplerInv /\ UNCHANGED sampler => SamplerInv'
  BY DEF SamplerInv, sampler, ThreadTypes, Unborn, OneSampler, WaitList, Sampling

\* A thread that owns the line moves on, and is not on the wait list after it.
LEMMA OwnerMoves ==
  ASSUME SamplerInv, NEW t \in Threads, irq_owner = t,
         NEW label \in SamplingLabels,
         tpc' = [tpc EXCEPT ![t] = label],
         IsBuffer(all_samples'), all_samples'.waiters = <<>>,
         irq_owner' = irq_owner, starts' = starts
  PROVE  SamplerInv'
<1>1. Sampling(t)
  BY DEF SamplerInv, OneSampler
<1>2. ThreadTypes'
  BY DEF SamplerInv, ThreadTypes, ThreadLabels
<1>3. Unborn'
  BY <1>1 DEF SamplerInv, ThreadTypes, Unborn, Sampling, SamplingLabels
<1>4. OneSampler'
  BY DEF SamplerInv, ThreadTypes, OneSampler, Sampling
<1> QED
  BY <1>2, <1>3, <1>4 DEF SamplerInv, WaitList

\* A program changes the buffer, and forgets its sleepers or not.
LEMMA BufferSampler ==
  ASSUME SamplerInv, UNCHANGED <<tpc, irq_owner, starts>>, IsBuffer(all_samples'),
         all_samples'.waiters \in {all_samples.waiters, <<>>}
  PROVE  SamplerInv'
  BY DEF SamplerInv, ThreadTypes, Unborn, OneSampler, WaitList, Sampling

LEMMA ClientSampler ==
  ASSUME SamplerInv, NEW c \in Clients, Call(c) \/ ClientStep(c)
  PROVE  SamplerInv'
<1>1. CASE StartSpawn(c)
  <2>1. /\ starts + 1 \in Threads /\ starts' = starts + 1
        /\ tpc' = [tpc EXCEPT ![starts + 1] = "setup"]
        /\ UNCHANGED <<irq_owner, all_samples>>
    BY <1>1 DEF StartSpawn, ThreadTo, device, world
  <2>2. tpc[starts + 1] = "unborn"
    BY <2>1 DEF SamplerInv, ThreadTypes, Unborn
  <2>3. ThreadTypes'
    BY <2>1 DEF SamplerInv, ThreadTypes, ThreadLabels
  <2>4. Unborn'
    BY <2>1 DEF SamplerInv, ThreadTypes, Unborn, Threads
  <2>5. OneSampler'
    BY <2>1, <2>2 DEF SamplerInv, ThreadTypes, OneSampler, Sampling, SamplingLabels
  <2>6. WaitList'
    BY <2>1, <2>2 DEF SamplerInv, ThreadTypes, WaitList
  <2> QED
    BY <2>3, <2>4, <2>5, <2>6 DEF SamplerInv
<1>2. CASE AllocSamples(c)
  <2>1. /\ UNCHANGED <<tpc, irq_owner, starts>>
        /\ \E cells : all_samples' = alloc_buffer(all_samples, cells)
    BY <1>2 DEF AllocSamples, threads, world
  <2>2. IsBuffer(all_samples') /\ all_samples'.waiters = all_samples.waiters
    BY <2>1, KeepsWaiters DEF SamplerInv, ThreadTypes
  <2> QED
    BY <2>1, <2>2, BufferSampler
<1>3. CASE ~ (StartSpawn(c) \/ AllocSamples(c))
  <2>1. UNCHANGED sampler
    BY <1>3 DEF Call, ClientStep, WriteCall, ReadCall, SetParameters, StartCheck,
       StartClear, StartMark, SpawnFails, ReadProgress, ReadFifo, ReadSleep,
       ReadWoken, Deliver, sampler, device, world, threads
  <2> QED
    BY <2>1, SamplerUntouched
<1> QED
  BY <1>1, <1>2, <1>3

\* The steps of the thread that owns the line, as far as the line, the label of
\* the thread and the wait list go.
OwnersStep(t) ==
  \/ ClearSamples(t) \/ Pulse(t) \/ CollectEnd(t) \/ CollectRead(t)
  \/ CollectWoken(t) \/ Average(t) \/ InsertResult(t)

LEMMA OwnerRuns ==
  ASSUME SamplerInv, NEW t \in Threads,
         tpc[t] \in SamplingLabels \ {"asleep"}
  PROVE  irq_owner = t /\ all_samples.waiters = <<>>
<1>1. irq_owner = t
  BY DEF SamplerInv, OneSampler, Sampling
<1> QED
  BY <1>1 DEF SamplerInv, WaitList

LEMMA OopsSampler ==
  ASSUME SamplerInv, NEW t \in Threads, NEW locked,
         tpc[t] \in SamplingLabels \ {"asleep"}, Oops(t, locked)
  PROVE  SamplerInv'
<1>1. /\ tpc' = [tpc EXCEPT ![t] = "oops"]
      /\ irq_owner' = irq_owner /\ starts' = starts
  BY DEF Oops, ThreadTo, world
<1>2. IsBuffer(all_samples') /\ all_samples'.waiters = all_samples.waiters
  <2>1. \/ all_samples' = all_samples
        \/ all_samples' = [all_samples EXCEPT !.lock = t]
    BY DEF Oops
  <2> QED
    BY <2>1 DEF SamplerInv, ThreadTypes, IsBuffer, Fields
<1> QED
  BY <1>1, <1>2, OwnerRuns, OwnerMoves DEF SamplingLabels

LEMMA OwnerSampler ==
  ASSUME SamplerInv, NEW t \in Threads, OwnersStep(t)
  PROVE  SamplerInv'
<1>1. tpc[t] \in SamplingLabels \ {"asleep"}
  BY DEF OwnersStep, ClearSamples, Pulse, CollectEnd, CollectRead, CollectWoken,
     Average, InsertResult, SamplingLabels
<1>2. irq_owner = t /\ all_samples.waiters = <<>> /\ IsBuffer(all_samples)
  BY <1>1, OwnerRuns DEF SamplerInv, ThreadTypes
<1>3. CASE \E locked \in BOOLEAN : Oops(t, locked)
  BY <1>1, <1>3, OopsSampler
<1>4. CASE ~ \E locked \in BOOLEAN : Oops(t, locked)
  <2> SUFFICES /\ \E label \in SamplingLabels : tpc' = [tpc EXCEPT ![t] = label]
               /\ IsBuffer(all_samples') /\ all_samples'.waiters = <<>>
               /\ irq_owner' = irq_owner /\ starts' = starts
    BY <1>2, OwnerMoves
  <2>1. CASE ClearSamples(t)
    <3>1. /\ all_samples' = clear_buffer(all_samples, number_of_samples + 2)
          /\ tpc' = [tpc EXCEPT ![t] = "pulse"]
          /\ UNCHANGED <<irq_owner, starts>>
      BY <1>4, <2>1 DEF ClearSamples, ThreadTo
    <3> QED
      BY <1>2, <3>1, LosesWaiters DEF SamplingLabels
  <2>2. CASE Pulse(t) \/ CollectEnd(t)
    <3>1. UNCHANGED <<all_samples, irq_owner, starts>>
      BY <2>2 DEF Pulse, CollectEnd, device, world
    <3>2. \E label \in SamplingLabels : tpc' = [tpc EXCEPT ![t] = label]
      BY <2>2 DEF Pulse, CollectEnd, ThreadTo, SamplingLabels
    <3> QED
      BY <1>2, <3>1, <3>2
  <2>3. CASE CollectRead(t) \/ CollectWoken(t)
    <3>1. /\ \/ all_samples' = ReadNow(all_samples)
             \/ all_samples' = AfterRead(all_samples)
          /\ tpc' = [tpc EXCEPT ![t] = "collect"]
          /\ UNCHANGED <<irq_owner, starts>>
      BY <1>4, <2>3 DEF CollectRead, CollectWoken, Collected, ThreadTo, world
    <3> QED
      BY <1>2, <3>1, KeepsWaiters DEF SamplingLabels
  <2>4. CASE Average(t)
    <3>1. /\ tpc' = [tpc EXCEPT ![t] = "insert"]
          /\ UNCHANGED <<all_samples, irq_owner, starts>>
      BY <1>4, <2>4 DEF Average, ThreadTo, device, world
    <3> QED
      BY <1>2, <3>1 DEF SamplingLabels
  <2>5. CASE InsertResult(t)
    <3>1. /\ tpc' = [tpc EXCEPT ![t] = "release"]
          /\ UNCHANGED <<all_samples, irq_owner, starts>>
      BY <2>5 DEF InsertResult, ThreadTo, world
    <3> QED
      BY <1>2, <3>1 DEF SamplingLabels
  <2> QED
    BY <2>1, <2>2, <2>3, <2>4, <2>5 DEF OwnersStep
<1> QED
  BY <1>3, <1>4

LEMMA ThreadSampler ==
  ASSUME SamplerInv, NEW t \in Threads, ThreadStep(t)
  PROVE  SamplerInv'
<1>1. CASE SetInterrupt(t)
  <2>1. tpc[t] = "setup" /\ UNCHANGED <<all_samples, starts>>
    BY <1>1 DEF SetInterrupt, device
  <2>2. CASE irq_owner = NoOne /\ irq_owner' = t /\ tpc' = [tpc EXCEPT ![t] = "clear"]
    <3>1. ThreadTypes'
      BY <2>1, <2>2 DEF SamplerInv, ThreadTypes, ThreadLabels, SamplingLabels
    <3>2. Unborn'
      BY <2>1, <2>2 DEF SamplerInv, ThreadTypes, Unborn
    <3>3. OneSampler'
      BY <2>1, <2>2, ThreadAssumption DEF SamplerInv, ThreadTypes, OneSampler,
         Sampling, SamplingLabels
    <3>4. WaitList'
      BY <2>1, <2>2, ThreadAssumption DEF SamplerInv, WaitList
    <3> QED
      BY <3>1, <3>2, <3>3, <3>4 DEF SamplerInv
  <2>3. CASE irq_owner' = irq_owner /\ tpc' = [tpc EXCEPT ![t] = "done"]
    <3>1. ThreadTypes'
      BY <2>1, <2>3 DEF SamplerInv, ThreadTypes, ThreadLabels
    <3>2. Unborn'
      BY <2>1, <2>3 DEF SamplerInv, ThreadTypes, Unborn
    <3>3. OneSampler'
      BY <2>1, <2>3 DEF SamplerInv, ThreadTypes, OneSampler, Sampling, SamplingLabels
    <3>4. WaitList'
      BY <2>1, <2>3 DEF SamplerInv, ThreadTypes, WaitList
    <3> QED
      BY <3>1, <3>2, <3>3, <3>4 DEF SamplerInv
  <2> QED
    BY <1>1, <2>2, <2>3 DEF SetInterrupt, ThreadTo
<1>2. CASE OwnersStep(t)
  BY <1>2, OwnerSampler
<1>3. CASE CollectSleep(t)
  <2>1. tpc[t] = "collect" /\ tpc' = [tpc EXCEPT ![t] = "asleep"]
    BY <1>3 DEF CollectSleep, ThreadTo
  <2>2. irq_owner = t /\ all_samples.waiters = <<>>
    BY <2>1, OwnerRuns DEF SamplingLabels
  <2>3. all_samples' = SleepIn(all_samples, t) /\ UNCHANGED <<irq_owner, starts>>
    BY <1>3 DEF CollectSleep, world
  <2>4. IsBuffer(all_samples') /\ all_samples'.waiters = <<t>>
    BY <2>2, <2>3, AddsWaiter DEF SamplerInv, ThreadTypes
  <2>5. ThreadTypes'
    BY <2>1, <2>3, <2>4 DEF SamplerInv, ThreadTypes, ThreadLabels, SamplingLabels
  <2>6. Unborn'
    BY <2>1, <2>3 DEF SamplerInv, ThreadTypes, Unborn
  <2>7. OneSampler'
    BY <2>1, <2>3 DEF SamplerInv, ThreadTypes, OneSampler, Sampling, SamplingLabels
  <2>8. WaitList'
    BY <2>1, <2>2, <2>3, <2>4 DEF SamplerInv, ThreadTypes, WaitList
  <2> QED
    BY <2>5, <2>6, <2>7, <2>8 DEF SamplerInv
<1>4. CASE ReleaseIrq(t)
  <2>1. /\ tpc[t] = "release" /\ tpc' = [tpc EXCEPT ![t] = "finish"]
        /\ irq_owner' = NoOne /\ UNCHANGED <<all_samples, starts>>
    BY <1>4 DEF ReleaseIrq, ThreadTo, device
  <2>2. irq_owner = t /\ all_samples.waiters = <<>>
    BY <2>1, OwnerRuns DEF SamplingLabels
  <2>3. ThreadTypes'
    BY <2>1 DEF SamplerInv, ThreadTypes, ThreadLabels
  <2>4. Unborn'
    BY <2>1 DEF SamplerInv, ThreadTypes, Unborn
  <2>5. OneSampler'
    BY <2>1, <2>2, ThreadAssumption DEF SamplerInv, ThreadTypes, OneSampler,
       Sampling, SamplingLabels
  <2>6. WaitList'
    BY <2>1, <2>2 DEF WaitList
  <2> QED
    BY <2>3, <2>4, <2>5, <2>6 DEF SamplerInv
<1>5. CASE Finish(t)
  <2>1. /\ tpc[t] = "finish" /\ tpc' = [tpc EXCEPT ![t] = "done"]
        /\ UNCHANGED <<irq_owner, all_samples, starts>>
    BY <1>5 DEF Finish, ThreadTo, world
  <2>2. ThreadTypes'
    BY <2>1 DEF SamplerInv, ThreadTypes, ThreadLabels
  <2>3. Unborn'
    BY <2>1 DEF SamplerInv, ThreadTypes, Unborn
  <2>4. OneSampler'
    BY <2>1 DEF SamplerInv, ThreadTypes, OneSampler, Sampling, SamplingLabels
  <2>5. WaitList'
    BY <2>1 DEF SamplerInv, ThreadTypes, WaitList
  <2> QED
    BY <2>2, <2>3, <2>4, <2>5 DEF SamplerInv
<1> QED
  BY <1>1, <1>2, <1>3, <1>4, <1>5 DEF ThreadStep, OwnersStep

LEMMA EchoSampler ==
  ASSUME SamplerInv, Echo
  PROVE  SamplerInv'
<1>1. CASE EchoUnheard \/ EchoLost
  <2>1. UNCHANGED sampler
    BY <1>1 DEF EchoUnheard, EchoLost, sampler, device, threads
  <2> QED
    BY <2>1, SamplerUntouched
<1>2. ASSUME NEW d \in Distances, EchoSample(d)
      PROVE  SamplerInv'
  <2>1. UNCHANGED <<irq_owner, starts>>
    BY <1>2 DEF EchoSample
  <2>2. CASE all_samples.result = NoMemory
    <3>1. UNCHANGED sampler
      BY <1>2, <2>1, <2>2 DEF EchoSample, sampler
    <3> QED
      BY <3>1, SamplerUntouched
  <2>3. CASE all_samples.result /= NoMemory
    <3> DEFINE sample == [timestamp |-> 0, distance |-> d]
    <3>1. /\ all_samples' = insert_buffer(all_samples, sample)
          /\ tpc' = [t \in Threads |-> IF t \in WokenBy(all_samples)
                                         THEN "woken" ELSE tpc[t]]
      BY <1>2, <2>3 DEF EchoSample
    <3> HIDE DEF sample
    <3>2. IsBuffer(all_samples') /\ all_samples'.waiters = <<>>
      <4>1. /\ IsBuffer(all_samples')
            /\ all_samples'.waiters = IF all_samples.waiters = <<>> THEN <<>>
                                      ELSE Tail(all_samples.waiters)
        BY <3>1, WakesWaiter DEF SamplerInv, ThreadTypes
      <4>2. Tail(<<irq_owner>>) = <<>>
        OBVIOUS
      <4> QED
        BY <4>1, <4>2 DEF SamplerInv, WaitList
    <3>3. \A t \in WokenBy(all_samples) : t = irq_owner /\ tpc[t] = "asleep"
      BY DEF SamplerInv, WaitList, WokenBy
    <3>4. ThreadTypes'
      BY <2>1, <3>1, <3>2 DEF SamplerInv, ThreadTypes, ThreadLabels, SamplingLabels
    <3>5. Unborn'
      BY <2>1, <3>1, <3>3 DEF SamplerInv, ThreadTypes, Unborn
    <3>6. OneSampler'
      BY <2>1, <3>1, <3>3 DEF SamplerInv, ThreadTypes, OneSampler, Sampling,
         SamplingLabels
    <3> QED
      BY <3>2, <3>4, <3>5, <3>6 DEF SamplerInv, WaitList
  <2> QED
    BY <2>2, <2>3
<1> QED
  BY <1>1, <1>2 DEF Echo

LEMMA NextSampler == SamplerInv /\ [Next]_vars => SamplerInv'
<1> SUFFICES ASSUME SamplerInv, [Next]_vars
             PROVE  SamplerInv'
  OBVIOUS
<1>1. CASE UNCHANGED vars
  <2>1. UNCHANGED sampler
    BY <1>1 DEF vars, device, world, threads, sampler
  <2> QED
    BY <2>1, SamplerUntouched
<1>2. CASE Next
  BY <1>2, ClientSampler, ThreadSampler, EchoSampler DEF Next
<1> QED
  BY <1>1, <1>2

LEMMA OperatingIsNext == [OperatingNext]_vars => [Next]_vars
  BY DEF OperatingNext, Next, Call

\* However many threads get past the unlocked test of is_in_progress, one at a
\* time samples, also after a thread has died in the middle.
THEOREM AtMostOneSampler ==
  (Spec => []OneSampler) /\ (OperatingSpec => []OneSampler)
<1>1. SamplerInv => OneSampler
  BY DEF SamplerInv
<1>2. Spec => []OneSampler
  BY InitSampler, NextSampler, <1>1, PTL DEF Spec
<1>3. OperatingSpec => []OneSampler
  BY InitSampler, NextSampler, OperatingIsNext, <1>1, PTL DEF OperatingSpec
<1> QED
  BY <1>2, <1>3

-----------------------------------------------------------------------------
(* The wait list of buffer: programs that sleep in read_fifo, each once.     *)

ReaderTypes ==
  /\ cpc \in [Clients -> ClientLabels]
  /\ IsBuffer(buffer)
  /\ buffer.waiters \in Seq(Clients)

Sleepers ==
  /\ \A i \in 1 .. Len(buffer.waiters) : cpc[buffer.waiters[i]] = "asleep"
  /\ \A i, j \in 1 .. Len(buffer.waiters) :
       buffer.waiters[i] = buffer.waiters[j] => i = j

ReaderInv == ReaderTypes /\ Sleepers

readers == <<cpc, buffer>>

LEMMA UnusedReaders ==
  ASSUME NEW n, NEW samples, Unused(n, samples)
  PROVE  ReaderInv
<1>1. /\ cpc = [c \in Clients |-> "idle"]
      /\ buffer = init_buffer(alloc_buffer(Zeroed, Cells(MAX_BUFF_SIZE)),
                              MAX_BUFF_SIZE)
  BY DEF Unused
<1>2. IsBuffer(buffer) /\ buffer.waiters = <<>>
  BY <1>1, NewBuffer
<1>3. ReaderTypes
  BY <1>1, <1>2 DEF ReaderTypes, ClientLabels
<1> QED
  BY <1>2, <1>3 DEF ReaderInv, Sleepers

LEMMA ReadersUntouched == ReaderInv /\ UNCHANGED readers => ReaderInv'
  BY DEF ReaderInv, readers, ReaderTypes, Sleepers

\* A program that is awake moves on, and the wait list is as it was or empty.
LEMMA ClientMoves ==
  ASSUME ReaderInv, NEW c \in Clients, cpc[c] /= "asleep",
         NEW label \in ClientLabels, cpc' = [cpc EXCEPT ![c] = label],
         IsBuffer(buffer'),
         buffer'.waiters = buffer.waiters \/ buffer'.waiters = <<>>
  PROVE  ReaderInv'
<1>1. ReaderTypes'
  <2>1. cpc' \in [Clients -> ClientLabels]
    BY DEF ReaderInv, ReaderTypes
  <2>2. buffer.waiters \in Seq(Clients) /\ <<>> \in Seq(Clients)
    BY DEF ReaderInv, ReaderTypes
  <2>3. buffer'.waiters \in Seq(Clients)
    BY <2>2
  <2> QED
    BY <2>1, <2>3 DEF ReaderTypes
<1>2. CASE buffer'.waiters = <<>>
  BY <1>1, <1>2 DEF ReaderInv, Sleepers
<1>3. CASE buffer'.waiters = buffer.waiters
  <2>1. \A i \in 1 .. Len(buffer.waiters) :
          buffer.waiters[i] \in Clients /\ buffer.waiters[i] /= c
    BY DEF ReaderInv, ReaderTypes, Sleepers
  <2>2. Sleepers'
    BY <1>3, <2>1 DEF ReaderInv, ReaderTypes, Sleepers
  <2> QED
    BY <1>1, <2>2 DEF ReaderInv
<1> QED
  BY <1>2, <1>3

LEMMA ClientReaders ==
  ASSUME ReaderInv, NEW c \in Clients, Call(c) \/ ClientStep(c)
  PROVE  ReaderInv'
<1>1. CASE ReadSleep(c)
  <2> DEFINE w == buffer.waiters
  <2>1. /\ cpc[c] = "lock" /\ cpc' = [cpc EXCEPT ![c] = "asleep"]
        /\ buffer' = SleepIn(buffer, c)
    BY <1>1 DEF ReadSleep, ClientTo
  <2>2. IsBuffer(buffer') /\ buffer'.waiters = Append(w, c)
    BY <2>1, AddsWaiter DEF ReaderInv, ReaderTypes
  <2>3. w \in Seq(Clients)
    BY DEF ReaderInv, ReaderTypes
  <2>4. ReaderTypes'
    BY <2>1, <2>2, <2>3 DEF ReaderInv, ReaderTypes, ClientLabels
  <2>5. \A i \in 1 .. Len(w) : w[i] \in Clients /\ cpc[w[i]] = "asleep" /\ w[i] /= c
    BY <2>1, <2>3 DEF ReaderInv, Sleepers
  <2>6. \A i, j \in 1 .. Len(w) : w[i] = w[j] => i = j
    BY DEF ReaderInv, Sleepers
  <2>7. cpc \in [Clients -> ClientLabels]
    BY DEF ReaderInv, ReaderTypes
  <2> HIDE DEF w
  <2>8. /\ Len(Append(w, c)) = Len(w) + 1 /\ Len(w) \in Nat
        /\ Append(w, c)[Len(w) + 1] = c
        /\ \A i \in 1 .. Len(w) : Append(w, c)[i] = w[i]
    BY <2>3
  <2>9. Sleepers'
    BY <2>1, <2>2, <2>5, <2>6, <2>7, <2>8 DEF Sleepers
  <2> QED
    BY <2>4, <2>9 DEF ReaderInv
<1>2. CASE ~ ReadSleep(c)
  <2>1. cpc[c] /= "asleep"
    BY <1>2 DEF Call, ClientStep, WriteCall, ReadCall, SetParameters, StartCheck,
       StartClear, StartMark, StartSpawn, SpawnFails, ReadProgress, ReadFifo,
       ReadWoken, AllocSamples
  <2>2. \E label \in ClientLabels : cpc' = [cpc EXCEPT ![c] = label]
    BY <1>2 DEF Call, ClientStep, WriteCall, ReadCall, SetParameters, StartCheck,
       StartClear, StartMark, StartSpawn, SpawnFails, ReadProgress, ReadFifo,
       ReadWoken, AllocSamples, Deliver, ClientTo, ClientLabels
  <2>3. \/ buffer' = buffer \/ buffer' = clear_buffer(buffer, MAX_BUFF_SIZE)
        \/ buffer' = ReadNow(buffer) \/ buffer' = AfterRead(buffer)
    BY <1>2 DEF Call, ClientStep, WriteCall, ReadCall, SetParameters, StartCheck,
       StartClear, StartMark, StartSpawn, SpawnFails, ReadProgress, ReadFifo,
       ReadWoken, AllocSamples, device
  <2>4. /\ IsBuffer(buffer')
        /\ buffer'.waiters = buffer.waiters \/ buffer'.waiters = <<>>
    <3>1. IsBuffer(buffer)
      BY DEF ReaderInv, ReaderTypes
    <3>2. CASE buffer' = buffer
      BY <3>1, <3>2
    <3>3. CASE buffer' = clear_buffer(buffer, MAX_BUFF_SIZE)
      BY <3>1, <3>3, LosesWaiters
    <3>4. CASE buffer' = ReadNow(buffer)
      BY <3>1, <3>4, KeepsWaiters
    <3>5. CASE buffer' = AfterRead(buffer)
      BY <3>1, <3>5, KeepsWaiters
    <3> QED
      BY <2>3, <3>2, <3>3, <3>4, <3>5
  <2> QED
    BY <2>1, <2>2, <2>4, ClientMoves
<1> QED
  BY <1>1, <1>2

\* InsertResult wakes a program that was asleep, and the others sleep on.
LEMMA InsertReaders ==
  ASSUME ReaderInv, NEW t \in Threads, InsertResult(t)
  PROVE  /\ ReaderInv'
         /\ \A c \in Clients : cpc[c] /= "asleep" => cpc'[c] = cpc[c]
<1> DEFINE w == buffer.waiters
           d == Result(t)
<1>1. /\ buffer' = insert_buffer(buffer, d)
      /\ cpc' = [c \in Clients |-> IF c \in WokenBy(buffer) THEN "woken" ELSE cpc[c]]
  BY DEF InsertResult
<1> HIDE DEF d
<1>2. IsBuffer(buffer') /\ buffer'.waiters = IF w = <<>> THEN <<>> ELSE Tail(w)
  BY <1>1, WakesWaiter DEF ReaderInv, ReaderTypes
<1>3. /\ w \in Seq(Clients) /\ cpc \in [Clients -> ClientLabels]
      /\ \A i \in 1 .. Len(w) : cpc[w[i]] = "asleep"
      /\ \A i, j \in 1 .. Len(w) : w[i] = w[j] => i = j
  BY DEF ReaderInv, ReaderTypes, Sleepers
<1>4. CASE w = <<>>
  <2>1. WokenBy(buffer) = {}
    BY <1>4 DEF WokenBy
  <2>2. cpc' = cpc
    BY <1>1, <1>3, <2>1
  <2> QED
    BY <1>2, <1>3, <1>4, <2>2 DEF ReaderInv, ReaderTypes, Sleepers
<1>5. CASE w /= <<>>
  <2>1. WokenBy(buffer) = {w[1]}
    BY <1>3, <1>5 DEF WokenBy
  <2> HIDE DEF w
  <2>2. /\ Tail(w) \in Seq(Clients) /\ Len(w) \in Nat \ {0}
        /\ Len(Tail(w)) = Len(w) - 1
        /\ \A i \in 1 .. Len(w) - 1 : Tail(w)[i] = w[i + 1]
    BY <1>3, <1>5
  <2>3. \A i \in 1 .. Len(w) - 1 :
          w[i + 1] \in Clients /\ w[i + 1] /= w[1] /\ cpc[w[i + 1]] = "asleep"
    BY <1>3, <2>2
  <2>4. buffer'.waiters = Tail(w)
    BY <1>2, <1>5
  <2>5. ReaderTypes'
    BY <1>1, <1>2, <1>3, <2>2, <2>4 DEF ReaderTypes, ClientLabels
  <2>6. \A i \in 1 .. Len(w) - 1 : cpc'[w[i + 1]] = "asleep"
    BY <1>1, <2>1, <2>3
  <2>7. Sleepers'
    <3>1. \A i \in 1 .. Len(w) - 1 : cpc'[Tail(w)[i]] = "asleep"
      BY <2>2, <2>6
    <3>2. \A i, j \in 1 .. Len(w) - 1 : Tail(w)[i] = Tail(w)[j] => i = j
      BY <1>3, <2>2
    <3> QED
      BY <2>2, <2>4, <3>1, <3>2 DEF Sleepers
  <2>8. cpc[w[1]] = "asleep"
    BY <1>3, <2>2
  <2> QED
    BY <1>1, <2>1, <2>5, <2>7, <2>8 DEF ReaderInv
<1> QED
  BY <1>4, <1>5

LEMMA ThreadReaders ==
  ASSUME ReaderInv, NEW t \in Threads, ThreadStep(t)
  PROVE  ReaderInv'
<1>1. CASE InsertResult(t)
  BY <1>1, InsertReaders
<1>2. CASE ~ InsertResult(t)
  <2>1. UNCHANGED readers
    BY <1>2 DEF ThreadStep, SetInterrupt, ClearSamples, Pulse, CollectEnd,
       CollectSleep, CollectRead, CollectWoken, Collected, Oops, Average,
       ReleaseIrq, Finish, readers, device
  <2> QED
    BY <2>1, ReadersUntouched
<1> QED
  BY <1>1, <1>2

LEMMA NextReaders == ReaderInv /\ [Next]_vars => ReaderInv'
<1> SUFFICES ASSUME ReaderInv, [Next]_vars
             PROVE  ReaderInv'
  OBVIOUS
<1>1. CASE Echo \/ UNCHANGED vars
  <2>1. UNCHANGED readers
    BY <1>1 DEF Echo, EchoSample, EchoUnheard, EchoLost, vars, readers, device
  <2> QED
    BY <2>1, ReadersUntouched
<1>2. CASE \E c \in Clients : Call(c) \/ ClientStep(c)
  BY <1>2, ClientReaders
<1>3. CASE \E t \in Threads : ThreadStep(t)
  BY <1>3, ThreadReaders
<1> QED
  BY <1>1, <1>2, <1>3 DEF Next

-----------------------------------------------------------------------------
(* is_in_progress is not left set.  A second thread that finds the line      *)
(* taken may leave, because the owner of the line is going to clear the flag. *)

\* There is a thread at work as long as the flag is set.  That it can go on is
\* shown further down, from what it sleeps for.
Served ==
  is_in_progress /\ ~ failed =>
    (\E t \in Threads : Live(t)) \/ (\E c \in Clients : cpc[c] = "spawn")

BusyInv == SamplerInv /\ ReaderInv /\ Served

LEMMA UnusedBusy ==
  ASSUME NEW n, NEW samples, IsBuffer(samples), samples.waiters = <<>>,
         Unused(n, samples)
  PROVE  BusyInv
<1>1. Served
  BY DEF Unused, Served
<1> QED
  BY <1>1, UnusedSampler, UnusedReaders DEF BusyInv

LEMMA InitBusy == Init \/ ConfiguredInit => BusyInv
  BY InitUnused, UnusedBusy

\* What keeps the flag served: nobody who serves it leaves.
LEMMA StillServed ==
  ASSUME Served,
         is_in_progress' => is_in_progress, failed => failed',
         \A t \in Threads : Live(t) => Live(t)',
         \A c \in Clients : cpc[c] = "spawn" => cpc'[c] = "spawn"
  PROVE  Served'
  BY DEF Served

LEMMA ClientBusy ==
  ASSUME BusyInv, NEW c \in Clients, Call(c) \/ ClientStep(c)
  PROVE  Served'
<1>1. /\ cpc \in [Clients -> ClientLabels]
      /\ tpc \in [Threads -> ThreadLabels] /\ Unborn /\ starts \in Nat
      /\ Served
  BY DEF BusyInv, ReaderInv, ReaderTypes, SamplerInv, ThreadTypes
<1>2. CASE StartMark(c)
  <2>1. cpc'[c] = "spawn"
    BY <1>1, <1>2 DEF StartMark, ClientTo
  <2> QED
    BY <2>1 DEF Served
<1>3. CASE StartSpawn(c)
  <2>1. PICK n \in Threads : tpc'[n] = "setup"
    BY <1>1, <1>3 DEF StartSpawn, ThreadTo
  <2>2. Live(n)'
    BY <2>1 DEF Live
  <2> QED
    BY <2>1, <2>2 DEF Served
<1>4. CASE SpawnFails(c)
  BY <1>4 DEF SpawnFails, Served
<1>5. CASE ~ (StartMark(c) \/ StartSpawn(c) \/ SpawnFails(c))
  <2>1. UNCHANGED <<is_in_progress, failed, tpc>>
    BY <1>5 DEF Call, ClientStep, WriteCall, ReadCall, SetParameters, StartCheck,
       StartClear, ReadProgress, ReadFifo, ReadSleep, ReadWoken, AllocSamples,
       Deliver, device, threads, history
  <2>2. /\ cpc[c] /= "spawn"
        /\ \E label \in ClientLabels : cpc' = [cpc EXCEPT ![c] = label]
    BY <1>5 DEF Call, ClientStep, WriteCall, ReadCall, SetParameters, StartCheck,
       StartClear, ReadProgress, ReadFifo, ReadSleep, ReadWoken, AllocSamples,
       Deliver, ClientTo, ClientLabels
  <2>3. \A e \in Clients : cpc[e] = "spawn" => cpc'[e] = "spawn"
    BY <1>1, <2>2
  <2>4. \A t \in Threads : Live(t) => Live(t)'
    BY <2>1 DEF Live, Sampling
  <2> QED
    BY <1>1, <2>1, <2>3, <2>4, StillServed
<1> QED
  BY <1>2, <1>3, <1>4, <1>5

LEMMA ThreadBusy ==
  ASSUME BusyInv, NEW t \in Threads, ThreadStep(t)
  PROVE  Served'
<1>1. /\ tpc \in [Threads -> ThreadLabels] /\ OneSampler /\ Served
      /\ irq_owner \in Threads \cup {NoOne}
  BY DEF BusyInv, SamplerInv, ThreadTypes
<1>2. CASE Finish(t)
  BY <1>2 DEF Finish, Served
<1>3. CASE SetInterrupt(t)
  <2>1. /\ tpc[t] = "setup"
        /\ UNCHANGED <<is_in_progress, cpc>>
    BY <1>3 DEF SetInterrupt, device
  <2>2. CASE tpc' = [tpc EXCEPT ![t] = "clear"]
    <3>1. Live(t)'
      BY <1>1, <2>2 DEF Live, Sampling, SamplingLabels
    <3> QED
      BY <3>1 DEF Served
  <2>3. CASE tpc' = [tpc EXCEPT ![t] = "done"] /\ irq_owner /= NoOne
    <3>1. irq_owner \in Threads /\ Sampling(irq_owner)
      BY <1>1, <2>3 DEF OneSampler
    <3>2. irq_owner /= t
      BY <2>1, <3>1 DEF Sampling, SamplingLabels
    <3>3. Live(irq_owner) /\ tpc'[irq_owner] = tpc[irq_owner]
      BY <1>1, <2>3, <3>1, <3>2 DEF Live
    <3>4. \E s \in Threads : Live(s)'
      BY <3>1, <3>3 DEF Live, Sampling
    <3> QED
      BY <3>4 DEF Served
  <2>4. CASE failed'
    BY <2>4 DEF Served
  <2> QED
    BY <1>3, <2>2, <2>3, <2>4 DEF SetInterrupt, ThreadTo
<1>4. CASE ~ (Finish(t) \/ SetInterrupt(t))
  <2>1. is_in_progress' = is_in_progress /\ (failed' = failed \/ failed' = TRUE)
    BY <1>4 DEF ThreadStep, ClearSamples, Pulse, CollectEnd, CollectSleep,
       CollectRead, CollectWoken, Collected, Oops, Average, InsertResult,
       ReleaseIrq, device, history
  <2>2. \E label \in SamplingLabels \cup {"finish"} :
          tpc' = [tpc EXCEPT ![t] = label]
    BY <1>4 DEF ThreadStep, ClearSamples, Pulse, CollectEnd, CollectSleep,
       CollectRead, CollectWoken, Collected, Oops, Average, InsertResult,
       ReleaseIrq, ThreadTo, SamplingLabels
  <2>3. \A s \in Threads : Live(s) => Live(s)'
    BY <1>1, <2>2 DEF Live, Sampling
  <2>4. \A c \in Clients : cpc[c] = "spawn" => cpc'[c] = "spawn"
    <3>1. CASE InsertResult(t)
      BY <3>1, InsertReaders DEF BusyInv
    <3>2. CASE ~ InsertResult(t)
      BY <1>4, <3>2 DEF ThreadStep, ClearSamples, Pulse, CollectEnd, CollectSleep,
         CollectRead, CollectWoken, Collected, Oops, Average, ReleaseIrq
    <3> QED
      BY <3>1, <3>2
  <2> QED
    BY <1>1, <2>1, <2>3, <2>4, StillServed
<1> QED
  BY <1>2, <1>3, <1>4

LEMMA EchoBusy ==
  ASSUME BusyInv, Echo \/ UNCHANGED vars
  PROVE  Served'
<1>1. UNCHANGED <<is_in_progress, failed, cpc>>
  BY DEF Echo, EchoSample, EchoUnheard, EchoLost, vars, device, history
<1>2. ASSUME NEW t \in Threads, Live(t)
      PROVE  Live(t)'
  <2>1. \/ tpc' = tpc
        \/ tpc' = [s \in Threads |-> IF s \in WokenBy(all_samples)
                                       THEN "woken" ELSE tpc[s]]
    BY DEF Echo, EchoSample, EchoUnheard, EchoLost, vars, threads
  <2> QED
    BY <1>2, <2>1 DEF Live, Sampling, SamplingLabels
<1> QED
  BY <1>1, <1>2, StillServed DEF BusyInv

LEMMA NextBusy == BusyInv /\ [Next]_vars => BusyInv'
<1> SUFFICES ASSUME BusyInv, [Next]_vars
             PROVE  Served'
  BY NextSampler, NextReaders DEF BusyInv
<1> QED
  BY ClientBusy, ThreadBusy, EchoBusy DEF Next

-----------------------------------------------------------------------------
(* A write or a read that brings no result leaves a measurement: the call    *)
(* starts it, or is_in_progress, which is served, has made it return.        *)

LEMMA ReturnMeasures ==
  ASSUME BusyInv, NEW c \in Clients, [Next]_vars,
         cpc[c] \in {"progress", "start", "clear", "mark", "spawn"}, cpc'[c] = "idle"
  PROVE  \/ \E t \in Threads : Live(t)'
         \/ \E e \in Clients : cpc'[e] = "spawn"
         \/ failed'
<1>1. /\ cpc \in [Clients -> ClientLabels] /\ Served
      /\ tpc \in [Threads -> ThreadLabels]
  BY DEF BusyInv, ReaderInv, ReaderTypes, SamplerInv, ThreadTypes
<1>2. CASE Echo \/ UNCHANGED vars
  <2>1. cpc' = cpc
    BY <1>2 DEF Echo, EchoSample, EchoUnheard, EchoLost, vars
  <2> QED
    BY <2>1
<1>3. ASSUME NEW t \in Threads, ThreadStep(t)
      PROVE  FALSE
  <2>1. CASE InsertResult(t)
    BY <2>1, InsertReaders DEF BusyInv
  <2>2. CASE ~ InsertResult(t)
    <3>1. cpc' = cpc
      BY <1>3, <2>2 DEF ThreadStep, SetInterrupt, ClearSamples, Pulse, CollectEnd,
         CollectSleep, CollectRead, CollectWoken, Collected, Oops, Average,
         ReleaseIrq, Finish
    <3> QED
      BY <3>1
  <2> QED
    BY <2>1, <2>2
<1>4. ASSUME NEW d \in Clients, Call(d) \/ ClientStep(d)
      PROVE  \/ \E t \in Threads : Live(t)'
             \/ \E e \in Clients : cpc'[e] = "spawn"
             \/ failed'
  <2>1. d = c
    BY <1>1, <1>4 DEF Call, ClientStep, WriteCall, ReadCall, SetParameters,
       StartCheck, StartClear, StartMark, StartSpawn, SpawnFails, ReadProgress,
       ReadFifo, ReadSleep, ReadWoken, AllocSamples, Deliver, ClientTo
  <2>2. CASE StartCheck(c)
    <3>1. /\ is_in_progress /\ cpc[c] = "start"
          /\ cpc' = [cpc EXCEPT ![c] = "idle"] /\ UNCHANGED <<tpc, failed>>
      BY <1>1, <2>2 DEF StartCheck, ClientTo, threads, history
    <3>2. CASE failed
      BY <3>1, <3>2
    <3>3. CASE \E t \in Threads : Live(t)
      BY <3>1, <3>3 DEF Live, Sampling
    <3>4. CASE \E e \in Clients : cpc[e] = "spawn"
      BY <1>1, <3>1, <3>4
    <3> QED
      BY <1>1, <3>1, <3>2, <3>3, <3>4 DEF Served
  <2>3. CASE StartSpawn(c)
    <3>1. PICK n \in Threads : tpc'[n] = "setup"
      BY <1>1, <2>3 DEF StartSpawn, ThreadTo
    <3> QED
      BY <3>1 DEF Live
  <2>4. CASE SpawnFails(c)
    BY <2>4 DEF SpawnFails
  <2>5. CASE ~ (StartCheck(c) \/ StartSpawn(c) \/ SpawnFails(c))
    BY <1>1, <1>4, <2>1, <2>5 DEF Call, ClientStep, WriteCall, ReadCall,
       SetParameters, StartClear, StartMark, ReadProgress, ReadFifo, ReadSleep,
       ReadWoken, AllocSamples, Deliver, ClientTo
  <2> QED
    BY <2>2, <2>3, <2>4, <2>5
<1> QED
  BY <1>2, <1>3, <1>4 DEF Next

\* A write, or a read that finds nothing, returns only when a measurement is under
\* way or about to be, whatever other programs do and ioctl sets.
THEOREM EmptyReadsMeasure ==
  (Spec => EmptyReadMeasures) /\ (OperatingSpec => EmptyReadMeasures)
<1> DEFINE Measures ==
      \A c \in Clients :
        cpc[c] \in {"progress", "start", "clear", "mark", "spawn"} /\ cpc'[c] = "idle" =>
          \/ \E t \in Threads : Live(t)'
          \/ \E e \in Clients : cpc'[e] = "spawn"
          \/ failed'
<1>1. BusyInv /\ [Next]_vars => [Measures]_vars
  BY ReturnMeasures
<1>2. Spec => [][Measures]_vars
  BY InitBusy, NextBusy, <1>1, PTL DEF Spec
<1>3. OperatingSpec => [][Measures]_vars
  BY InitBusy, NextBusy, OperatingIsNext, <1>1, PTL DEF OperatingSpec
<1> QED
  BY <1>2, <1>3 DEF EmptyReadMeasures

-----------------------------------------------------------------------------
(* Types.  The cursors of a buffer stay in the ring that init_buffer was     *)
(* given; those of all_samples, which never was given one, in element 0.     *)

InRing(b, n) ==
  /\ IsBuffer(b) /\ b.size = n
  /\ b.head \in Nat /\ (b.head = 0 \/ b.head < n)
  /\ b.tail \in Nat /\ (b.tail <= n \/ b.tail = 1)

LEMMA NewInRing ==
  ASSUME NEW n \in Nat, NEW cells
  PROVE  /\ InRing(Zeroed, 0) /\ InRing(alloc_buffer(Zeroed, cells), 0)
         /\ InRing(init_buffer(alloc_buffer(Zeroed, cells), n), n)
<1>1. InRing(Zeroed, 0)
  BY NewBuffer DEF InRing, Zeroed
<1> DEFINE b == alloc_buffer(Zeroed, cells)
<1>2. IsBuffer(b) /\ b.head = 0 /\ b.tail = 0 /\ b.size = 0
  BY NewBuffer DEF alloc_buffer, Zeroed
<1> HIDE DEF b
<1>3. InRing(b, 0)
  BY <1>2 DEF InRing
<1> DEFINE c == init_buffer(b, n)
<1>4. c.head = 0 /\ c.tail = 0 /\ c.size = n
  BY <1>2 DEF init_buffer, SemaInit, IsBuffer, Fields
<1>5. IsBuffer(c)
  BY NewBuffer DEF b
<1> HIDE DEF c
<1>6. InRing(c, n)
  BY <1>4, <1>5 DEF InRing
<1> QED
  BY <1>1, <1>3, <1>6 DEF b, c

LEMMA StaysInRing ==
  ASSUME NEW n \in Nat, NEW b, InRing(b, n), NEW p, NEW bytes, NEW cells
  PROVE  /\ InRing(SleepIn(b, p), n) /\ InRing(clear_buffer(b, bytes), n)
         /\ InRing(alloc_buffer(b, cells), n) /\ InRing([b EXCEPT !.lock = p], n)
<1>1. InRing(SleepIn(b, p), n)
  <2>1. IsBuffer(SleepIn(b, p))
    BY AddsWaiter DEF InRing
  <2>2. /\ SleepIn(b, p).head = b.head /\ SleepIn(b, p).tail = b.tail
        /\ SleepIn(b, p).size = b.size
    BY DEF SleepIn, InRing, IsBuffer, Fields
  <2> QED
    BY <2>1, <2>2 DEF InRing
<1>2. InRing(clear_buffer(b, bytes), n)
  <2>1. IsBuffer(clear_buffer(b, bytes))
    BY LosesWaiters DEF InRing
  <2>2. /\ clear_buffer(b, bytes).head = 0 /\ clear_buffer(b, bytes).tail = 0
        /\ clear_buffer(b, bytes).size = b.size
    BY DEF clear_buffer, SemaInit, InRing, IsBuffer, Fields
  <2> QED
    BY <2>1, <2>2 DEF InRing
<1>3. InRing(alloc_buffer(b, cells), n)
  <2>1. IsBuffer(alloc_buffer(b, cells))
    BY KeepsWaiters DEF InRing
  <2>2. /\ alloc_buffer(b, cells).head = b.head /\ alloc_buffer(b, cells).tail = b.tail
        /\ alloc_buffer(b, cells).size = b.size
    BY DEF alloc_buffer, InRing, IsBuffer, Fields
  <2> QED
    BY <2>1, <2>2 DEF InRing
<1>4. InRing([b EXCEPT !.lock = p], n)
  BY DEF InRing, IsBuffer, Fields
<1> QED
  BY <1>1, <1>2, <1>3, <1>4

\* A read moves head to the next element of the ring, or to its first.
LEMMA ReadMoves ==
  ASSUME NEW b, IsBuffer(b)
  PROVE  /\ \A c \in {AfterRead(b), ReadNow(b)} :
              /\ IsBuffer(c) /\ c.size = b.size /\ c.tail = b.tail
              /\ c.result = b.result
              /\ c.head = IF b.head + 1 >= b.size THEN 0 ELSE b.head + 1
         /\ ReadNow(b).sem = b.sem - 1 /\ ReadNow(b).lock = NoOne
<1>1. IsBuffer(AfterRead(b)) /\ IsBuffer(ReadNow(b))
  BY KeepsWaiters
<1>2. LET c == AfterRead(b) IN
      /\ c.size = b.size /\ c.tail = b.tail /\ c.result = b.result
      /\ c.head = IF b.head + 1 >= b.size THEN 0 ELSE b.head + 1
  BY DEF AfterRead, IsBuffer, Fields
<1>3. LET c == ReadNow(b) IN
      /\ c.size = b.size /\ c.tail = b.tail /\ c.result = b.result
      /\ c.head = IF b.head + 1 >= b.size THEN 0 ELSE b.head + 1
      /\ c.sem = b.sem - 1 /\ c.lock = NoOne
  BY DEF ReadNow, AfterRead, IsBuffer, Fields
<1> QED
  BY <1>1, <1>2, <1>3

LEMMA ReadInRing ==
  ASSUME NEW n \in Nat, NEW b, InRing(b, n), NEW c \in {AfterRead(b), ReadNow(b)}
  PROVE  InRing(c, n)
<1>1. /\ IsBuffer(c) /\ c.size = b.size /\ c.tail = b.tail
      /\ c.head = IF b.head + 1 >= b.size THEN 0 ELSE b.head + 1
  BY ReadMoves DEF InRing
<1> QED
  BY <1>1 DEF InRing

\* An insert moves tail behind the element it writes.
LEMMA InsertMoves ==
  ASSUME NEW b, IsBuffer(b), NEW d
  PROVE  LET c == insert_buffer(b, d) IN
         /\ IsBuffer(c) /\ c.size = b.size /\ c.head = b.head
         /\ c.tail = InsertIndex(b) + 1 /\ c.lock = b.lock
         /\ c.result = [b.result EXCEPT ![InsertIndex(b)] = d]
         /\ b.waiters = <<>> => c.sem = b.sem + 1
<1> DEFINE i == InsertIndex(b)
           t == i + 1
           r == [b.result EXCEPT ![i] = d]
           k == IF b.count + 1 > b.size THEN b.count ELSE b.count + 1
           a == [b EXCEPT !.result = r, !.tail = t, !.count = k]
<1>1. insert_buffer(b, d) = Up(a)
  BY DEF insert_buffer, IsBuffer, Fields
<1> HIDE DEF i, t, r, k
<1>2. /\ a.head = b.head /\ a.size = b.size /\ a.tail = t /\ a.result = r
      /\ a.sem = b.sem /\ a.waiters = b.waiters /\ a.lock = b.lock /\ IsBuffer(a)
  BY DEF IsBuffer, Fields
<1> HIDE DEF a
<1>3. LET c == Up(a) IN
      /\ c.size = b.size /\ c.head = b.head /\ c.tail = t /\ c.result = r
      /\ c.lock = b.lock
      /\ b.waiters = <<>> => c.sem = b.sem + 1
  BY <1>2 DEF Up, IsBuffer, Fields
<1>4. IsBuffer(insert_buffer(b, d))
  BY WakesWaiter
<1> QED
  BY <1>1, <1>3, <1>4 DEF r, t, i

LEMMA InsertInRing ==
  ASSUME NEW n \in Nat, NEW b, InRing(b, n), NEW d
  PROVE  InRing(insert_buffer(b, d), n)
<1>1. LET c == insert_buffer(b, d) IN
      /\ IsBuffer(c) /\ c.size = b.size /\ c.head = b.head
      /\ c.tail = InsertIndex(b) + 1
  BY InsertMoves DEF InRing
<1>2. InsertIndex(b) \in Nat /\ (InsertIndex(b) + 1 <= n \/ InsertIndex(b) + 1 = 1)
  BY DEF InsertIndex, InRing
<1> HIDE DEF InsertIndex
<1> QED
  BY <1>1, <1>2 DEF InRing

RingsInv(n) ==
  /\ InRing(buffer, MAX_BUFF_SIZE) /\ InRing(all_samples, n)
  /\ is_in_progress \in BOOLEAN
  /\ number_of_samples \in NumSamples \cup {0}
  /\ echoes \in Nat /\ lost \in 0 .. MaxLost
  /\ starts \in 0 .. MaxStarts

TypeInv == SamplerInv /\ ReaderInv /\ RingsInv(0)

rings == <<device, echoes, lost, starts>>

LEMMA TypeInvType == TypeInv => TypeOK
<1> SUFFICES ASSUME TypeInv PROVE TypeOK
  OBVIOUS
<1>1. buffer.head \in 0 .. MAX_BUFF_SIZE - 1 /\ buffer.tail \in 0 .. MAX_BUFF_SIZE
  BY DeviceAssumption DEF TypeInv, RingsInv, InRing
<1>2. all_samples.head = 0 /\ all_samples.tail \in 0 .. 1
  BY DEF TypeInv, RingsInv, InRing
<1> QED
  BY <1>1, <1>2 DEF TypeOK, TypeInv, RingsInv, SamplerInv, ThreadTypes, ReaderInv,
                    ReaderTypes

LEMMA InitType == Init \/ ConfiguredInit => TypeInv
<1> SUFFICES ASSUME Init \/ ConfiguredInit PROVE TypeInv
  OBVIOUS
<1>1. PICK n, samples :
        /\ n \in NumSamples \cup {0}
        /\ Unused(n, samples) /\ InRing(samples, 0)
        /\ IsBuffer(samples) /\ samples.waiters = <<>>
  <2>1. CASE Init
    BY <2>1, NewBuffer, NewInRing DEF Init
  <2>2. CASE ConfiguredInit
    <3>1. PICK n \in NumSamples : Unused(n, alloc_buffer(Zeroed, Cells(n + 2)))
      BY <2>2 DEF ConfiguredInit
    <3> QED
      BY <3>1, NewBuffer, NewInRing
  <2> QED
    BY <2>1, <2>2
<1>2. RingsInv(0)
  <2>1. InRing(init_buffer(alloc_buffer(Zeroed, Cells(MAX_BUFF_SIZE)),
                           MAX_BUFF_SIZE), MAX_BUFF_SIZE)
    BY NewInRing, DeviceAssumption
  <2>2. InRing(buffer, MAX_BUFF_SIZE) /\ InRing(all_samples, 0)
    BY <1>1, <2>1 DEF Unused
  <2>3. /\ is_in_progress = FALSE /\ number_of_samples \in NumSamples \cup {0}
        /\ echoes = 0 /\ lost = 0 /\ starts = 0
    BY <1>1 DEF Unused
  <2>4. 0 \in 0 .. MaxLost /\ 0 \in 0 .. MaxStarts /\ 0 \in Nat
    BY DeviceAssumption
  <2>5. /\ is_in_progress \in BOOLEAN /\ echoes \in Nat
        /\ lost \in 0 .. MaxLost /\ starts \in 0 .. MaxStarts
    BY <2>3, <2>4
  <2> QED
    BY <2>2, <2>3, <2>5 DEF RingsInv
<1> QED
  BY <1>1, <1>2, UnusedSampler, UnusedReaders DEF TypeInv

LEMMA RingsUntouched ==
  ASSUME NEW n, RingsInv(n), UNCHANGED rings
  PROVE  RingsInv(n)'
  BY DEF RingsInv, rings, device, InRing, IsBuffer

LEMMA ClientRings ==
  ASSUME NEW n \in Nat, RingsInv(n), NEW c \in Clients, Call(c) \/ ClientStep(c)
  PROVE  RingsInv(n)'
<1>0. MAX_BUFF_SIZE \in Nat
  BY DeviceAssumption
<1>1. \/ buffer' = buffer \/ buffer' = clear_buffer(buffer, MAX_BUFF_SIZE)
      \/ buffer' \in {AfterRead(buffer), ReadNow(buffer)}
      \/ buffer' = SleepIn(buffer, c)
  BY DEF Call, ClientStep, WriteCall, ReadCall, SetParameters, StartCheck,
     StartClear, StartMark, StartSpawn, SpawnFails, ReadProgress, ReadFifo,
     ReadSleep, ReadWoken, AllocSamples, device
<1>2. InRing(buffer', MAX_BUFF_SIZE)
  BY <1>0, <1>1, StaysInRing, ReadInRing DEF RingsInv
<1>3. all_samples' = all_samples \/ \E cells : all_samples' = alloc_buffer(all_samples, cells)
  BY DEF Call, ClientStep, WriteCall, ReadCall, SetParameters, StartCheck,
     StartClear, StartMark, StartSpawn, SpawnFails, ReadProgress, ReadFifo,
     ReadSleep, ReadWoken, AllocSamples, Deliver, device
<1>4. InRing(all_samples', n)
  BY <1>0, <1>3, StaysInRing DEF RingsInv
<1>5. is_in_progress' \in BOOLEAN /\ number_of_samples' \in NumSamples \cup {0}
  BY DEF RingsInv, Call, ClientStep, WriteCall, ReadCall, SetParameters, StartCheck,
     StartClear, StartMark, StartSpawn, SpawnFails, ReadProgress, ReadFifo,
     ReadSleep, ReadWoken, AllocSamples, Deliver, device
<1>6. UNCHANGED <<echoes, lost>>
  BY DEF Call, ClientStep, WriteCall, ReadCall, SetParameters, StartCheck,
     StartClear, StartMark, StartSpawn, SpawnFails, ReadProgress, ReadFifo,
     ReadSleep, ReadWoken, AllocSamples, Deliver, world
<1>7. starts' \in 0 .. MaxStarts
  <2>1. starts' = starts \/ (starts' = starts + 1 /\ starts + 1 \in Threads)
    BY DEF Call, ClientStep, WriteCall, ReadCall, SetParameters, StartCheck,
       StartClear, StartMark, StartSpawn, SpawnFails, ReadProgress, ReadFifo,
       ReadSleep, ReadWoken, AllocSamples, Deliver, threads
  <2> QED
    BY <2>1, DeviceAssumption DEF RingsInv, Threads
<1> QED
  BY <1>2, <1>4, <1>5, <1>6, <1>7 DEF RingsInv

LEMMA ThreadRings ==
  ASSUME NEW n \in Nat, RingsInv(n), NEW t \in Threads, ThreadStep(t)
  PROVE  RingsInv(n)'
<1>0. MAX_BUFF_SIZE \in Nat
  BY DeviceAssumption
<1>1. buffer' = buffer \/ \E d : buffer' = insert_buffer(buffer, d)
  <2>1. CASE InsertResult(t)
    BY <2>1 DEF InsertResult
  <2>2. CASE ~ InsertResult(t)
    BY <2>2 DEF ThreadStep, SetInterrupt, ClearSamples, Pulse, CollectEnd,
       CollectSleep, CollectRead, CollectWoken, Collected, Oops, Average,
       ReleaseIrq, Finish, device
  <2> QED
    BY <2>1, <2>2
<1>2. InRing(buffer', MAX_BUFF_SIZE)
  BY <1>0, <1>1, InsertInRing DEF RingsInv
<1>3. \/ all_samples' = all_samples
      \/ all_samples' = [all_samples EXCEPT !.lock = t]
      \/ \E bytes : all_samples' = clear_buffer(all_samples, bytes)
      \/ all_samples' = SleepIn(all_samples, t)
      \/ all_samples' \in {AfterRead(all_samples), ReadNow(all_samples)}
  BY DEF ThreadStep, SetInterrupt, ClearSamples, Pulse, CollectEnd, CollectSleep,
     CollectRead, CollectWoken, Collected, Oops, Average, InsertResult, ReleaseIrq,
     Finish, device
<1>4. InRing(all_samples', n)
  <2>1. InRing(all_samples, n)
    BY DEF RingsInv
  <2>2. InRing([all_samples EXCEPT !.lock = t], n)
    BY <1>0, <2>1, StaysInRing
  <2>3. CASE all_samples' = [all_samples EXCEPT !.lock = t]
    BY <2>2, <2>3
  <2>4. CASE all_samples' /= [all_samples EXCEPT !.lock = t]
    <3>1. \/ all_samples' = all_samples
          \/ \E bytes : all_samples' = clear_buffer(all_samples, bytes)
          \/ all_samples' = SleepIn(all_samples, t)
          \/ all_samples' \in {AfterRead(all_samples), ReadNow(all_samples)}
      BY <1>3, <2>4
    <3> QED
      BY <1>0, <2>1, <3>1, StaysInRing, ReadInRing
  <2> QED
    BY <2>3, <2>4
<1>5. /\ is_in_progress' \in {is_in_progress, FALSE}
      /\ UNCHANGED <<number_of_samples, starts>>
  BY DEF ThreadStep, SetInterrupt, ClearSamples, Pulse, CollectEnd, CollectSleep,
     CollectRead, CollectWoken, Collected, Oops, Average, InsertResult, ReleaseIrq,
     Finish, device, threads
<1>6. echoes' \in {echoes, echoes + 1} /\ lost' \in {lost, 0}
  BY DEF ThreadStep, SetInterrupt, ClearSamples, Pulse, CollectEnd, CollectSleep,
     CollectRead, CollectWoken, Collected, Oops, Average, InsertResult, ReleaseIrq,
     Finish, world
<1>7. echoes' \in Nat /\ lost' \in 0 .. MaxLost
  BY <1>6, DeviceAssumption DEF RingsInv
<1> QED
  BY <1>2, <1>4, <1>5, <1>7 DEF RingsInv

LEMMA EchoRings ==
  ASSUME NEW n \in Nat, RingsInv(n), Echo
  PROVE  RingsInv(n)'
<1>1. all_samples' = all_samples \/ \E d : all_samples' = insert_buffer(all_samples, d)
  BY DEF Echo, EchoSample, EchoUnheard, EchoLost, device
<1>2. InRing(all_samples', n)
  BY <1>1, InsertInRing DEF RingsInv
<1>3. UNCHANGED <<buffer, is_in_progress, number_of_samples, starts>>
  BY DEF Echo, EchoSample, EchoUnheard, EchoLost, device, threads
<1>4. /\ echoes > 0 /\ echoes' = echoes - 1
      /\ lost' = lost \/ (lost < MaxLost /\ lost' = lost + 1)
  BY DEF Echo, EchoSample, EchoUnheard, EchoLost
<1>5. echoes' \in Nat /\ lost' \in 0 .. MaxLost
  BY <1>4, DeviceAssumption DEF RingsInv
<1> QED
  BY <1>2, <1>3, <1>5 DEF RingsInv

LEMMA NextType == TypeInv /\ [Next]_vars => TypeInv'
<1> SUFFICES ASSUME TypeInv, [Next]_vars PROVE TypeInv'
  OBVIOUS
<1>1. SamplerInv' /\ ReaderInv' /\ RingsInv(0)
  BY NextSampler, NextReaders DEF TypeInv
<1>2. CASE UNCHANGED vars
  <2>1. UNCHANGED rings
    BY <1>2 DEF vars, rings, device, world, threads
  <2> QED
    BY <1>1, <2>1, RingsUntouched DEF TypeInv
<1>3. CASE Next
  <2>1. RingsInv(0)'
    BY <1>1, <1>3, ClientRings, ThreadRings, EchoRings DEF Next
  <2> QED
    BY <1>1, <2>1 DEF TypeInv
<1> QED
  BY <1>2, <1>3

\* Every variable stays in its range, and the cursors of both buffers in their
\* arrays, whatever parameters ioctl sets and whichever calls fail.
THEOREM TypeCorrect == (Spec => []TypeOK) /\ (OperatingSpec => []TypeOK)
<1>1. Spec => []TypeOK
  BY InitType, NextType, TypeInvType, PTL DEF Spec
<1>2. OperatingSpec => []TypeOK
  BY InitType, NextType, OperatingIsNext, TypeInvType, PTL DEF OperatingSpec
<1> QED
  BY <1>1, <1>2


-----------------------------------------------------------------------------
(* What a read returns.  On SMP a sleeping program keeps the lock, so that    *)
(* nobody changes the buffer under it; and the elements there are units for   *)
(* lie between head and tail until the ring has been filled once.             *)

Stocked(b, results, n) ==
  /\ InRing(b, n)
  /\ b.result = [j \in 0 .. n - 1 |-> b.result[j]]
  /\ b.sem \in Nat
  /\ \/ \A j \in 0 .. n - 1 : b.result[j] \in results
     \/ /\ b.tail < n /\ b.sem = b.tail - b.head
        /\ \A j \in 0 .. b.tail - 1 : b.result[j] \in results

LEMMA NewStocked ==
  ASSUME NEW n \in Nat \ {0}, NEW results
  PROVE  Stocked(init_buffer(alloc_buffer(Zeroed, Cells(n)), n), results, n)
<1> DEFINE a == alloc_buffer(Zeroed, Cells(n))
           b == init_buffer(a, n)
<1>1. InRing(b, n)
  BY NewInRing
<1>2. Cells(n) = [j \in 0 .. n - 1 |-> Junk]
  BY DEF Cells
<1>3. /\ a.result = Cells(n) /\ IsBuffer(a)
  <2>1. a.result = Cells(n)
    BY DEF alloc_buffer, Zeroed
  <2> QED
    BY <2>1, NewBuffer
<1> HIDE DEF a
<1>4. b.result = a.result /\ b.head = 0 /\ b.tail = 0 /\ b.sem = 0
  BY <1>3 DEF init_buffer, SemaInit, IsBuffer, Fields
<1> HIDE DEF b
<1>5. b.result = [j \in 0 .. n - 1 |-> b.result[j]]
  BY <1>2, <1>3, <1>4
<1>6. Stocked(b, results, n)
  BY <1>1, <1>4, <1>5 DEF Stocked
<1> QED
  BY <1>6 DEF b, a

LEMMA ClearStocked ==
  ASSUME NEW n \in Nat \ {0}, NEW results, NEW b, Stocked(b, results, n), NEW bytes
  PROVE  Stocked(clear_buffer(b, bytes), results, n)
<1> DEFINE c == clear_buffer(b, bytes)
           r == [b.result EXCEPT ![0] = Stampless(b.result[0])]
<1>1. InRing(c, n)
  BY StaysInRing DEF Stocked
<1>2. /\ c.head = 0 /\ c.tail = 0 /\ c.sem = 0
      /\ c.result = IF bytes = 0 THEN b.result ELSE r
  BY DEF clear_buffer, SemaInit, Stocked, InRing, IsBuffer, Fields
<1>3. r = [j \in 0 .. n - 1 |-> r[j]]
  BY DEF Stocked
<1> HIDE DEF c, r
<1>4. c.result = [j \in 0 .. n - 1 |-> c.result[j]]
  BY <1>2, <1>3 DEF Stocked
<1>5. Stocked(c, results, n)
  BY <1>1, <1>2, <1>4 DEF Stocked
<1> QED
  BY <1>5 DEF c

LEMMA ReadStocked ==
  ASSUME NEW n \in Nat \ {0}, NEW results, NEW b, Stocked(b, results, n), b.sem > 0
  PROVE  ReadValue(b) \in results /\ Stocked(ReadNow(b), results, n)
<1> DEFINE c == ReadNow(b)
<1>1. /\ c.size = b.size /\ c.tail = b.tail /\ c.result = b.result
      /\ c.head = IF b.head + 1 >= b.size THEN 0 ELSE b.head + 1
      /\ c.sem = b.sem - 1
  BY ReadMoves DEF Stocked, InRing
<1>2. InRing(c, n)
  BY ReadInRing DEF Stocked
<1> HIDE DEF c
<1>3. b.head \in 0 .. n - 1 /\ b.size = n /\ b.tail \in Nat
  BY DEF Stocked, InRing
<1>4. c.sem \in Nat /\ c.result = [j \in 0 .. n - 1 |-> c.result[j]]
  <2>1. c.sem \in Nat
    BY <1>1 DEF Stocked
  <2>2. b.result = [j \in 0 .. n - 1 |-> b.result[j]]
    BY DEF Stocked
  <2> QED
    BY <1>1, <2>1, <2>2
<1>5. CASE \A j \in 0 .. n - 1 : b.result[j] \in results
  <2>1. \A j \in 0 .. n - 1 : c.result[j] \in results
    BY <1>1, <1>5
  <2>2. Stocked(c, results, n)
    BY <1>2, <1>4, <2>1 DEF Stocked
  <2> QED
    BY <1>3, <1>5, <2>2 DEF c, ReadValue
<1>6. CASE /\ b.tail < n /\ b.sem = b.tail - b.head
           /\ \A j \in 0 .. b.tail - 1 : b.result[j] \in results
  <2>1. b.head \in 0 .. b.tail - 1
    BY <1>3, <1>6
  <2>2. c.tail < n /\ c.sem = c.tail - c.head
    BY <1>1, <1>3, <1>6, <2>1
  <2>3. \A j \in 0 .. c.tail - 1 : c.result[j] \in results
    BY <1>1, <1>6
  <2>4. Stocked(c, results, n)
    BY <1>2, <1>4, <2>2, <2>3 DEF Stocked
  <2> QED
    BY <1>6, <2>1, <2>4 DEF c, ReadValue
<1> QED
  BY <1>5, <1>6 DEF Stocked

LEMMA InsertStocked ==
  ASSUME NEW n \in Nat \ {0}, NEW results, NEW b, Stocked(b, results, n),
         b.waiters = <<>>, NEW d
  PROVE  Stocked(insert_buffer(b, d), results \cup {d}, n)
<1> DEFINE c == insert_buffer(b, d)
           i == InsertIndex(b)
           r == [b.result EXCEPT ![i] = d]
<1> SUFFICES Stocked(c, results \cup {d}, n)
  OBVIOUS
<1>1. /\ c.head = b.head /\ c.tail = i + 1 /\ c.result = r /\ c.sem = b.sem + 1
  BY InsertMoves DEF Stocked, InRing
<1>2. InRing(c, n)
  BY InsertInRing DEF Stocked
<1>3. /\ b.head \in 0 .. n - 1 /\ b.tail \in Nat /\ i \in 0 .. n - 1
      /\ b.tail < n => i = b.tail
  BY DEF Stocked, InRing, InsertIndex
<1> HIDE DEF c, i
<1>4. /\ r = [j \in 0 .. n - 1 |-> r[j]] /\ r[i] = d
      /\ \A j \in 0 .. n - 1 : j /= i => r[j] = b.result[j]
  BY <1>3 DEF Stocked
<1> HIDE DEF r
<1>5. c.sem \in Nat /\ c.result = [j \in 0 .. n - 1 |-> c.result[j]]
  <2>1. c.sem \in Nat
    BY <1>1 DEF Stocked
  <2> QED
    BY <1>1, <1>4, <2>1
<1>6. CASE \A j \in 0 .. n - 1 : b.result[j] \in results
  <2>1. \A j \in 0 .. n - 1 : c.result[j] \in results \cup {d}
    BY <1>1, <1>4, <1>6
  <2> QED
    BY <1>2, <1>5, <2>1 DEF Stocked
<1>7. CASE /\ b.tail < n /\ b.sem = b.tail - b.head
           /\ \A j \in 0 .. b.tail - 1 : b.result[j] \in results
  <2>1. \A j \in 0 .. i : r[j] \in results \cup {d}
    <3> SUFFICES ASSUME NEW j \in 0 .. i PROVE r[j] \in results \cup {d}
      OBVIOUS
    <3>1. CASE j = i
      BY <1>4, <3>1
    <3>2. CASE j /= i
      <4>1. j \in 0 .. b.tail - 1 /\ j \in 0 .. n - 1
        BY <1>3, <1>7, <3>2
      <4> QED
        BY <1>4, <1>7, <3>2, <4>1
    <3> QED
      BY <3>1, <3>2
  <2>2. CASE i + 1 < n
    <3>1. c.sem = c.tail - c.head /\ c.tail - 1 = i /\ c.tail < n
      BY <1>1, <1>3, <1>7, <2>2
    <3>2. \A j \in 0 .. c.tail - 1 : c.result[j] \in results \cup {d}
      BY <1>1, <2>1, <3>1
    <3> QED
      BY <1>2, <1>5, <3>1, <3>2 DEF Stocked
  <2>3. CASE i + 1 >= n
    <3>1. i = n - 1
      BY <1>3, <2>3
    <3>2. \A j \in 0 .. n - 1 : c.result[j] \in results \cup {d}
      BY <1>1, <2>1, <3>1
    <3> QED
      BY <1>2, <1>5, <3>2 DEF Stocked
  <2> QED
    BY <1>3, <2>2, <2>3
<1> QED
  BY <1>6, <1>7 DEF Stocked


LEMMA SleepStocked ==
  ASSUME NEW n \in Nat, NEW results, NEW b, Stocked(b, results, n), NEW p
  PROVE  /\ Stocked(SleepIn(b, p), results, n)
         /\ SleepIn(b, p).lock = IF SMP THEN p ELSE NoOne
<1> DEFINE c == SleepIn(b, p)
<1>1. /\ c.head = b.head /\ c.tail = b.tail /\ c.result = b.result /\ c.sem = b.sem
      /\ c.lock = IF SMP THEN p ELSE NoOne
  BY DEF SleepIn, Stocked, InRing, IsBuffer, Fields
<1>2. InRing(c, n)
  BY StaysInRing DEF Stocked
<1> HIDE DEF c
<1>3. Stocked(c, results, n)
  BY <1>1, <1>2 DEF Stocked
<1> QED
  BY <1>1, <1>3 DEF c

ShelfInv ==
  /\ \A c \in Clients : cpc[c] /= "woken"
  /\ Unlocked(buffer) => buffer.waiters = <<>>
  /\ Stocked(buffer, published, MAX_BUFF_SIZE)
  /\ delivered \in Seq(published)

shelf == <<cpc, buffer, published, delivered>>

LEMMA UnusedShelf ==
  ASSUME NEW n, NEW samples, Unused(n, samples)
  PROVE  ShelfInv
<1>1. /\ buffer = init_buffer(alloc_buffer(Zeroed, Cells(MAX_BUFF_SIZE)),
                              MAX_BUFF_SIZE)
      /\ cpc = [c \in Clients |-> "idle"] /\ published = {} /\ delivered = <<>>
  BY DEF Unused
<1>2. Stocked(buffer, published, MAX_BUFF_SIZE) /\ buffer.waiters = <<>>
  BY <1>1, NewStocked, NewBuffer, DeviceAssumption
<1>3. delivered \in Seq(published)
  BY <1>1
<1> QED
  BY <1>1, <1>2, <1>3 DEF ShelfInv

LEMMA InitShelf == Init \/ ConfiguredInit => ShelfInv
  BY InitUnused, UnusedShelf

LEMMA ShelfUntouched == ShelfInv /\ UNCHANGED shelf => ShelfInv'
  BY DEF ShelfInv, shelf, Stocked, InRing, IsBuffer, Unlocked

\* A program moves on, and neither sleeps nor wakes.
LEMMA ClientShelf ==
  ASSUME SMP, ReaderInv, ShelfInv, NEW c \in Clients, Call(c) \/ ClientStep(c)
  PROVE  ShelfInv'
<1>0. cpc \in [Clients -> ClientLabels]
  BY DEF ReaderInv, ReaderTypes
<1>1. CASE StartClear(c)
  <2>1. buffer' = clear_buffer(buffer, MAX_BUFF_SIZE) /\ cpc' = [cpc EXCEPT ![c] = "mark"]
    BY <1>1 DEF StartClear, ClientTo
  <2>2. Stocked(buffer', published, MAX_BUFF_SIZE)
    BY <2>1, ClearStocked, DeviceAssumption DEF ShelfInv
  <2>3. buffer'.waiters = <<>>
    BY <2>1, LosesWaiters DEF ShelfInv, Stocked, InRing
  <2>4. UNCHANGED <<published, delivered>>
    BY <1>1 DEF StartClear, history
  <2>5. \A d \in Clients : cpc'[d] /= "woken"
    BY <1>0, <2>1 DEF ShelfInv
  <2>6. delivered' \in Seq(published')
    BY <2>4 DEF ShelfInv
  <2>7. Stocked(buffer, published, MAX_BUFF_SIZE)'
    BY <2>2, <2>4 DEF Stocked, InRing, IsBuffer
  <2> QED
    BY <2>3, <2>5, <2>6, <2>7 DEF ShelfInv
<1>2. CASE ReadFifo(c)
  <2>1. /\ Unlocked(buffer) /\ buffer.sem > 0 /\ buffer' = ReadNow(buffer)
        /\ delivered' = Append(delivered, ReadValue(buffer))
        /\ cpc' = [cpc EXCEPT ![c] = "idle"] /\ published' = published
    BY <1>2 DEF ReadFifo, Deliver, ClientTo
  <2>2. ReadValue(buffer) \in published /\ Stocked(buffer', published, MAX_BUFF_SIZE)
    BY <2>1, ReadStocked, DeviceAssumption DEF ShelfInv
  <2>3. buffer'.waiters = <<>>
    BY <2>1, KeepsWaiters DEF ShelfInv, Stocked, InRing
  <2>5. \A d \in Clients : cpc'[d] /= "woken"
    BY <1>0, <2>1 DEF ShelfInv
  <2>6. delivered' \in Seq(published')
    <3>1. delivered \in Seq(published)
      BY DEF ShelfInv
    <3> QED
      BY <2>1, <2>2, <3>1
  <2>7. Stocked(buffer, published, MAX_BUFF_SIZE)'
    BY <2>1, <2>2 DEF Stocked, InRing, IsBuffer
  <2> QED
    BY <2>3, <2>5, <2>6, <2>7 DEF ShelfInv
<1>3. CASE ReadSleep(c)
  <2>1. /\ buffer' = SleepIn(buffer, c) /\ UNCHANGED <<published, delivered>>
        /\ cpc' = [cpc EXCEPT ![c] = "asleep"]
    BY <1>3 DEF ReadSleep, ClientTo, history
  <2>2. Stocked(buffer', published, MAX_BUFF_SIZE) /\ buffer'.lock = c
    BY <2>1, SleepStocked, DeviceAssumption DEF ShelfInv
  <2>3. ~ Unlocked(buffer')
    BY <2>2, DeviceAssumption DEF Unlocked
  <2>4. ~ Unlocked(buffer)'
    BY <2>3 DEF Unlocked
  <2>5. \A d \in Clients : cpc'[d] /= "woken"
    BY <1>0, <2>1 DEF ShelfInv
  <2>6. delivered' \in Seq(published')
    BY <2>1 DEF ShelfInv
  <2>7. Stocked(buffer, published, MAX_BUFF_SIZE)'
    BY <2>1, <2>2 DEF Stocked, InRing, IsBuffer
  <2> QED
    BY <2>4, <2>5, <2>6, <2>7 DEF ShelfInv
<1>4. CASE ~ StartClear(c) /\ ~ ReadFifo(c) /\ ~ ReadSleep(c)
  <2>1. ~ ReadWoken(c)
    BY DEF ReadWoken, ShelfInv
  <2>2. UNCHANGED <<buffer, published, delivered>>
    BY <1>4, <2>1 DEF Call, ClientStep, WriteCall, ReadCall, SetParameters,
       StartCheck, StartMark, StartSpawn, SpawnFails, ReadProgress, AllocSamples,
       device, history
  <2>3. \E label \in ClientLabels \ {"woken"} : cpc' = [cpc EXCEPT ![c] = label]
    BY <1>4, <2>1 DEF Call, ClientStep, WriteCall, ReadCall, SetParameters,
       StartCheck, StartMark, StartSpawn, SpawnFails, ReadProgress, AllocSamples,
       ClientTo, ClientLabels
  <2>4. \A d \in Clients : cpc'[d] /= "woken"
    BY <1>0, <2>3 DEF ShelfInv
  <2> QED
    BY <2>2, <2>4 DEF ShelfInv, Stocked, InRing, IsBuffer, Unlocked
<1> QED
  BY <1>1, <1>2, <1>3, <1>4

\* A thread changes the buffer only when it inserts, and then nobody sleeps there.
LEMMA ThreadShelf ==
  ASSUME ShelfInv, NEW t \in Threads, ThreadStep(t)
  PROVE  ShelfInv'
<1>1. CASE InsertResult(t)
  <2> DEFINE d == Result(t)
  <2>1. /\ Unlocked(buffer) /\ buffer' = insert_buffer(buffer, d)
        /\ cpc' = [c \in Clients |-> IF c \in WokenBy(buffer) THEN "woken" ELSE cpc[c]]
        /\ published' = published \cup {d} /\ delivered' = delivered
    BY <1>1 DEF InsertResult
  <2> HIDE DEF d
  <2>2. buffer.waiters = <<>>
    BY <2>1 DEF ShelfInv
  <2>3. Stocked(buffer', published', MAX_BUFF_SIZE)
    BY <2>1, <2>2, InsertStocked, DeviceAssumption DEF ShelfInv
  <2>4. buffer'.waiters = <<>>
    BY <2>1, <2>2, WakesWaiter DEF ShelfInv, Stocked, InRing
  <2>5. \A c \in Clients : cpc'[c] /= "woken"
    BY <2>1, <2>2 DEF ShelfInv, WokenBy
  <2>6. delivered' \in Seq(published')
    <3>1. delivered \in Seq(published)
      BY DEF ShelfInv
    <3> QED
      BY <2>1, <3>1
  <2>7. Stocked(buffer, published, MAX_BUFF_SIZE)'
    BY <2>3 DEF Stocked, InRing, IsBuffer
  <2> QED
    BY <2>4, <2>5, <2>6, <2>7 DEF ShelfInv
<1>2. CASE ~ InsertResult(t)
  <2>1. UNCHANGED shelf
    BY <1>2 DEF ThreadStep, SetInterrupt, ClearSamples, Pulse, CollectEnd,
       CollectSleep, CollectRead, CollectWoken, Collected, Oops, Average,
       ReleaseIrq, Finish, device, history, shelf
  <2> QED
    BY <2>1, ShelfUntouched
<1> QED
  BY <1>1, <1>2

LEMMA NextShelf == SMP /\ ReaderInv /\ ShelfInv /\ [Next]_vars => ShelfInv'
<1> SUFFICES ASSUME SMP, ReaderInv, ShelfInv, [Next]_vars PROVE ShelfInv'
  OBVIOUS
<1>1. CASE UNCHANGED vars
  <2>1. UNCHANGED shelf
    BY <1>1 DEF vars, shelf, device, history
  <2> QED
    BY <2>1, ShelfUntouched
<1>2. CASE Echo
  <2>1. UNCHANGED shelf
    BY <1>2 DEF Echo, EchoSample, EchoUnheard, EchoLost, shelf, device, history
  <2> QED
    BY <2>1, ShelfUntouched
<1>3. CASE Next
  BY <1>2, <1>3, ClientShelf, ThreadShelf DEF Next
<1> QED
  BY <1>1, <1>3

\* On SMP what a read returns is a result some measurement published: never an
\* element clear_buffer wiped or kmalloc left, whoever races whom.
THEOREM ReadsPublished ==
  SMP => (Spec => []DeliveredWasPublished) /\ (OperatingSpec => []DeliveredWasPublished)
<1> SUFFICES ASSUME SMP
             PROVE  /\ Spec => []DeliveredWasPublished
                    /\ OperatingSpec => []DeliveredWasPublished
  OBVIOUS
<1> DEFINE Inv == TypeInv /\ ShelfInv
<1>1. Init \/ ConfiguredInit => Inv
  BY InitType, InitShelf
<1>2. Inv /\ [Next]_vars => Inv'
  BY NextType, NextShelf DEF TypeInv
<1>3. Inv => DeliveredWasPublished
  <2> SUFFICES ASSUME ShelfInv PROVE DeliveredWasPublished
    OBVIOUS
  <2>1. delivered \in Seq(published)
    BY DEF ShelfInv
  <2>2. \A i \in DOMAIN delivered : delivered[i] \in published
    BY <2>1
  <2> QED
    BY <2>2 DEF DeliveredWasPublished
<1> HIDE DEF Inv
<1>4. Spec => []DeliveredWasPublished
  BY <1>1, <1>2, <1>3, PTL DEF Spec
<1>5. OperatingSpec => []DeliveredWasPublished
  BY <1>1, <1>2, <1>3, OperatingIsNext, PTL DEF OperatingSpec
<1> QED
  BY <1>4, <1>5


-----------------------------------------------------------------------------
(* What a result is made from.  The sum in loc.distance is one of as many     *)
(* samples as loc.i has counted, all of them of this measurement.             *)

\* sum is k numbers that lie between two elements of s.
Between(sum, k, s) ==
  \/ k = 0 /\ sum = 0
  \/ \E i, j \in DOMAIN s : k * s[i] <= sum /\ sum <= k * s[j]

LEMMA BetweenGrows ==
  ASSUME NEW s \in Seq(Int), NEW sum, NEW k, Between(sum, k, s), NEW d \in Int
  PROVE  Between(sum, k, Append(s, d))
<1> DEFINE a == Append(s, d)
<1>1. /\ DOMAIN s \subseteq DOMAIN a /\ \A i \in DOMAIN s : a[i] = s[i]
  OBVIOUS
<1> HIDE DEF a
<1>2. Between(sum, k, a)
  BY <1>1 DEF Between
<1> QED
  BY <1>2 DEF a

LEMMA OneMore ==
  ASSUME NEW k \in Nat, NEW x \in Int
  PROVE  (k + 1) * x = k * x + x /\ k * x \in Int
  OBVIOUS

LEMMA SumsOrdered ==
  ASSUME NEW p \in Int, NEW u \in Int, NEW x \in Int, NEW y \in Int, NEW z \in Int,
         p <= u, u <= x, y <= z
  PROVE  p + y <= x + z
  OBVIOUS

LEMMA TimesMonotone ==
  ASSUME NEW k \in Nat, NEW x \in Int, NEW y \in Int, x <= y
  PROVE  k * x <= k * y
<1>1. PICK d \in Nat : y = x + d
  <2>1. y - x \in Nat /\ y = x + (y - x)
    OBVIOUS
  <2> QED
    BY <2>1
<1>2. k * y = k * x + k * d /\ k * d \in Nat /\ k * x \in Int /\ k * y \in Int
  BY <1>1
<1> QED
  BY <1>2

\* One more sample: the bounds stay, or the sample becomes a bound.
LEMMA BetweenAdds ==
  ASSUME NEW s \in Seq(Int), s /= <<>>, NEW sum \in Int, NEW k \in Nat,
         Between(sum, k, s)
  PROVE  Between(sum + s[Len(s)], k + 1, s)
<1> DEFINE m == Len(s)
           d == s[m]
<1>1. m \in DOMAIN s /\ d \in Int /\ \A i \in DOMAIN s : s[i] \in Int
  OBVIOUS
<1> HIDE DEF m, d
<1>2. CASE k = 0 /\ sum = 0
  <2>1. sum + d = d /\ (k + 1) * s[m] = d
    BY <1>1, <1>2 DEF d
  <2>2. (k + 1) * s[m] <= sum + d /\ sum + d <= (k + 1) * s[m]
    BY <1>1, <2>1
  <2>3. Between(sum + d, k + 1, s)
    BY <1>1, <2>2 DEF Between
  <2> QED
    BY <2>3 DEF d, m
<1>3. ASSUME NEW i \in DOMAIN s, NEW j \in DOMAIN s, k * s[i] <= sum, sum <= k * s[j]
      PROVE  Between(sum + s[Len(s)], k + 1, s)
  <2>1. PICK lo \in DOMAIN s : s[lo] <= s[i] /\ s[lo] <= d
    <3>1. CASE s[i] <= d
      BY <1>1, <3>1
    <3>2. CASE d <= s[i]
      BY <1>1, <3>2 DEF d
    <3> QED
      BY <1>1, <3>1, <3>2
  <2>2. PICK hi \in DOMAIN s : s[j] <= s[hi] /\ d <= s[hi]
    <3>1. CASE d <= s[j]
      BY <1>1, <3>1
    <3>2. CASE s[j] <= d
      BY <1>1, <3>2 DEF d
    <3> QED
      BY <1>1, <3>1, <3>2
  <2>3. s[lo] \in Int /\ s[hi] \in Int /\ s[i] \in Int /\ s[j] \in Int
    BY <1>1
  <2>4. k * s[lo] <= k * s[i] /\ k * s[j] <= k * s[hi]
    BY <2>1, <2>2, <2>3, TimesMonotone
  <2>5. /\ (k + 1) * s[lo] = k * s[lo] + s[lo] /\ k * s[lo] \in Int
        /\ (k + 1) * s[hi] = k * s[hi] + s[hi] /\ k * s[hi] \in Int
        /\ k * s[i] \in Int /\ k * s[j] \in Int
    BY <2>3, OneMore
  <2>6. k * s[lo] + s[lo] <= sum + d
    BY <1>1, <1>3, <2>1, <2>3, <2>4, <2>5, SumsOrdered
  <2>7. sum + d <= k * s[hi] + s[hi]
    BY <1>1, <1>3, <2>2, <2>3, <2>4, <2>5, SumsOrdered
  <2>8. (k + 1) * s[lo] <= sum + d /\ sum + d <= (k + 1) * s[hi]
    BY <2>5, <2>6, <2>7
  <2>9. Between(sum + d, k + 1, s)
    BY <2>8 DEF Between
  <2> QED
    BY <2>9 DEF d, m
<1> QED
  BY <1>2, <1>3 DEF Between

\* C's division is off by less than the divisor, whatever the sign of the sum.
LEMMA QuotientIsNear ==
  ASSUME NEW sum \in Int, NEW n \in Nat \ {0}
  PROVE  LET q == Quotient(sum, n) IN
         /\ q \in Int /\ n * q \in Int
         /\ n * q < sum + n /\ sum < n * q + n
<1>1. ASSUME NEW m \in Nat
      PROVE  LET d == m \div n IN
             d \in Nat /\ n * d \in Int /\ n * d <= m /\ m < n * d + n
  <2> DEFINE d == m \div n
             r == m % n
  <2>1. m = n * d + r
    OBVIOUS
  <2>2. d \in Nat
    OBVIOUS
  <2>3. r \in 0 .. n - 1
    OBVIOUS
  <2>4. n * d \in Int
    BY <2>2
  <2> HIDE DEF d, r
  <2>5. n * d <= m /\ m < n * d + n
    BY <2>1, <2>3, <2>4
  <2> QED
    BY <2>2, <2>4, <2>5 DEF d
<1>2. CASE sum >= 0
  <2>1. Quotient(sum, n) = sum \div n
    BY <1>2 DEF Quotient, Magnitude
  <2> DEFINE d == sum \div n
  <2>2. d \in Nat /\ n * d \in Int /\ n * d <= sum /\ sum < n * d + n
    BY <1>1, <1>2
  <2> HIDE DEF d
  <2>3. d \in Int /\ n * d < sum + n /\ sum < n * d + n
    BY <2>2
  <2> QED
    BY <2>1, <2>2, <2>3 DEF d
<1>3. CASE sum < 0
  <2> DEFINE d == (- sum) \div n
  <2>1. Quotient(sum, n) = - d
    BY <1>3 DEF Quotient, Magnitude
  <2>2. d \in Nat /\ n * d \in Int /\ n * d <= - sum /\ - sum < n * d + n
    BY <1>1, <1>3
  <2> HIDE DEF d
  <2>3. n * (- d) = - (n * d)
    BY <2>2
  <2>4. - d \in Int /\ - (n * d) < sum + n /\ sum < - (n * d) + n
    BY <2>2
  <2> QED
    BY <2>1, <2>2, <2>3, <2>4
<1> QED
  BY <1>2, <1>3

LEMMA NextMultiple ==
  ASSUME NEW n \in Nat \ {0}, NEW x \in Int
  PROVE  n * (x + 1) = n * x + n /\ n * x \in Int
  OBVIOUS

\* The average lies between the same two samples.
LEMMA BetweenDivides ==
  ASSUME NEW s \in Seq(Int), NEW sum \in Int, NEW n \in Nat \ {0}, Between(sum, n, s)
  PROVE  /\ Quotient(sum, n) \in Int
         /\ \E i, j \in DOMAIN s : s[i] <= Quotient(sum, n) /\ Quotient(sum, n) <= s[j]
<1> DEFINE q == Quotient(sum, n)
<1>1. q \in Int /\ n * q \in Int /\ n * q < sum + n /\ sum < n * q + n
  BY QuotientIsNear
<1> HIDE DEF q
<1>2. PICK i, j \in DOMAIN s : n * s[i] <= sum /\ sum <= n * s[j]
  BY DEF Between
<1>3. s[i] \in Int /\ s[j] \in Int
  OBVIOUS
<1>4. s[i] <= q
  <2> SUFFICES ASSUME q + 1 <= s[i] PROVE FALSE
    BY <1>1, <1>3
  <2>1. n * (q + 1) <= n * s[i]
    <3>1. q + 1 \in Int /\ n \in Nat
      BY <1>1
    <3> QED
      BY <1>3, <3>1, TimesMonotone
  <2>2. n * (q + 1) = n * q + n /\ n * s[i] \in Int
    BY <1>1, <1>3, NextMultiple
  <2> QED
    BY <1>1, <1>2, <2>1, <2>2
<1>5. q <= s[j]
  <2> SUFFICES ASSUME s[j] + 1 <= q PROVE FALSE
    BY <1>1, <1>3
  <2>1. n * (s[j] + 1) <= n * q
    <3>1. s[j] + 1 \in Int /\ n \in Nat
      BY <1>3
    <3> QED
      BY <1>1, <3>1, TimesMonotone
  <2>2. n * (s[j] + 1) = n * s[j] + n /\ n * s[j] \in Int
    BY <1>3, NextMultiple
  <2> DEFINE a == n * q
             b == n * s[j]
  <2>3. /\ a \in Int /\ b \in Int /\ sum \in Int /\ n \in Int
        /\ b + n <= a /\ sum <= b /\ a < sum + n
    BY <1>1, <1>2, <2>1, <2>2
  <2> HIDE DEF a, b
  <2> QED
    BY <2>3
<1> QED
  BY <1>1, <1>4, <1>5 DEF q


\* While a thread collects: the units at hand, and the one it was woken with, are
\* the samples it has not counted yet; and the array's first element, the only
\* one all_samples uses, is the last sample.
Collecting == {"pulse", "collect", "asleep", "woken"}

Measuring == Collecting \cup {"average", "insert"}

Got(label) == IF label = "woken" THEN 1 ELSE 0

Counted(label, l, tk, b, n) ==
  /\ l.i \in Nat \ {0} /\ l.distance \in Int
  /\ Len(tk) = b.sem + (l.i - 1) + Got(label)
  /\ n >= 1 => l.i - 1 <= n
  /\ label \in {"asleep", "woken"} => l.i - 1 < n
  /\ Between(l.distance, l.i - 1, tk)

Averaging(l, tk, n) ==
  n >= 1 => l.distance \in Int /\ Len(tk) >= n /\ Between(l.distance, n, tk)

Averaged(l, tk, n) ==
  n >= 1 => /\ Len(tk) >= n
            /\ \E i, j \in DOMAIN tk : tk[i] <= l.distance /\ l.distance <= tk[j]

Account(label, l, tk, b, n) ==
  /\ tk \in Seq(Int) /\ b.sem \in Nat
  /\ tk /= <<>> => b.result[0].distance = tk[Len(tk)]
  /\ label \in Collecting => Counted(label, l, tk, b, n)
  /\ label = "average" => Averaging(l, tk, n)
  /\ label = "insert" => Averaged(l, tk, n)

HasArray(b) ==
  \/ b.result = NoMemory
  \/ b.result = [j \in DOMAIN b.result |-> b.result[j]] /\ 0 \in DOMAIN b.result

\* all_samples uses element 0 only: its size is 0, or 1 after init_buffer.
OneCell(b) == \E n \in {0, 1} : InRing(b, n)

LEMMA SampleMoves ==
  ASSUME NEW b, OneCell(b), HasArray(b), b.result /= NoMemory, NEW d
  PROVE  LET c == insert_buffer(b, d) IN
         /\ HasArray(c) /\ c.result[0] = d
         /\ c.sem = IF b.waiters = <<>> THEN b.sem + 1 ELSE b.sem
<1> DEFINE c == insert_buffer(b, d)
<1>1. InsertIndex(b) = 0
  BY DEF InsertIndex, OneCell, InRing
<1>2. c.result = [b.result EXCEPT ![0] = d] /\ (b.waiters = <<>> => c.sem = b.sem + 1)
  BY <1>1, InsertMoves DEF OneCell, InRing
<1>3. b.waiters /= <<>> => c.sem = b.sem
  BY DEF insert_buffer, Up, OneCell, InRing, IsBuffer, Fields
<1> HIDE DEF c
<1>4. HasArray(c) /\ c.result[0] = d
  BY <1>2 DEF HasArray
<1> QED
  BY <1>2, <1>3, <1>4 DEF c

LEMMA AccountSample ==
  ASSUME NEW label \in Measuring, NEW l, NEW tk, NEW b, NEW n \in Int,
         OneCell(b), HasArray(b), b.result /= NoMemory,
         b.waiters /= <<>> => label = "asleep",
         Account(label, l, tk, b, n), NEW d \in Int, NEW e, e.distance = d
  PROVE  Account(IF b.waiters = <<>> THEN label ELSE "woken", l, Append(tk, d),
                 insert_buffer(b, e), n)
<1> DEFINE c == insert_buffer(b, e)
           s == Append(tk, d)
           next == IF b.waiters = <<>> THEN label ELSE "woken"
<1>1. /\ c.result[0] = e /\ c.sem = IF b.waiters = <<>> THEN b.sem + 1 ELSE b.sem
  BY SampleMoves
<1>2. tk \in Seq(Int) /\ b.sem \in Nat
  BY DEF Account
<1>3. /\ s \in Seq(Int) /\ Len(s) = Len(tk) + 1 /\ s[Len(s)] = d /\ Len(tk) \in Nat
      /\ DOMAIN tk \subseteq DOMAIN s /\ \A i \in DOMAIN tk : s[i] = tk[i]
  BY <1>2
<1> HIDE DEF c
<1>4. c.sem \in Nat /\ c.result[0].distance = s[Len(s)]
  BY <1>1, <1>2, <1>3
<1>5. label \in Collecting => Counted(next, l, s, c, n)
  <2> SUFFICES ASSUME label \in Collecting PROVE Counted(next, l, s, c, n)
    OBVIOUS
  <2>1. Counted(label, l, tk, b, n)
    BY DEF Account
  <2>2. Between(l.distance, l.i - 1, s)
    BY <1>2, <2>1, BetweenGrows DEF Counted
  <2> HIDE DEF s
  <2>3. Len(s) = c.sem + (l.i - 1) + Got(next)
    <3>1. l.i \in Nat /\ Len(tk) = b.sem + (l.i - 1) + Got(label)
      BY <2>1 DEF Counted
    <3>2. CASE b.waiters = <<>>
      <4>1. Got(next) = Got(label) /\ c.sem = b.sem + 1 /\ Got(label) \in Nat
        BY <1>1, <3>2 DEF Got
      <4> HIDE DEF next
      <4>2. c.sem \in Nat
        BY <1>2, <4>1
      <4>3. Len(tk) + 1 = c.sem + (l.i - 1) + Got(label)
        <5> DEFINE len == Len(tk)  old == b.sem  new == c.sem  i == l.i
                   got == Got(label)
        <5>1. /\ len = old + (i - 1) + got /\ new = old + 1
              /\ len \in Nat /\ old \in Nat /\ i \in Nat /\ got \in Nat
          BY <1>2, <1>3, <3>1, <4>1
        <5> HIDE DEF len, old, new, i, got
        <5>2. len + 1 = new + (i - 1) + got
          BY <5>1
        <5> QED
          BY <5>2 DEF len, old, new, i, got
      <4> QED
        BY <1>3, <4>1, <4>3
    <3>3. CASE b.waiters /= <<>>
      <4>1. Got(next) = 1 /\ Got(label) = 0 /\ c.sem = b.sem
        BY <1>1, <3>3 DEF Got
      <4> HIDE DEF next
      <4> QED
        BY <1>2, <1>3, <3>1, <4>1
    <3> QED
      BY <3>2, <3>3
  <2>4. next \in {"asleep", "woken"} => label \in {"asleep", "woken"}
    OBVIOUS
  <2> HIDE DEF next
  <2> QED
    BY <2>1, <2>2, <2>3, <2>4 DEF Counted
<1>6. next = "average" => label = "average" /\ Averaging(l, s, n)
  <2> SUFFICES ASSUME next = "average" PROVE label = "average" /\ Averaging(l, s, n)
    OBVIOUS
  <2>1. label = "average"
    OBVIOUS
  <2>2. Averaging(l, tk, n)
    BY <2>1 DEF Account
  <2>3. Averaging(l, s, n)
    BY <1>2, <1>3, <2>2, BetweenGrows DEF Averaging
  <2> QED
    BY <2>1, <2>3
<1>7. next = "insert" => label = "insert" /\ Averaged(l, s, n)
  <2> SUFFICES ASSUME next = "insert" PROVE label = "insert" /\ Averaged(l, s, n)
    OBVIOUS
  <2>1. label = "insert"
    OBVIOUS
  <2>2. Averaged(l, tk, n)
    BY <2>1 DEF Account
  <2> HIDE DEF s
  <2>3. Averaged(l, s, n)
    BY <1>3, <2>2 DEF Averaged
  <2> QED
    BY <2>1, <2>3
<1>8. next \in Collecting => label \in Collecting
  BY DEF Collecting
<1> HIDE DEF s, next
<1>9. Account(next, l, s, c, n)
  BY <1>3, <1>4, <1>5, <1>6, <1>7, <1>8 DEF Account
<1> QED
  BY <1>9 DEF c, s, next

\* One sample is counted, with a unit at hand or the one the thread was woken with.
LEMMA AccountCounts ==
  ASSUME NEW label \in {"collect", "woken"}, NEW l, NEW tk, NEW b, NEW n \in Int,
         l.i - 1 < n, Account(label, l, tk, b, n),
         NEW c, c.sem \in Nat, c.sem + 1 = b.sem + Got(label), c.result = b.result,
         NEW m, m.i = l.i + 1, m.distance = l.distance + b.result[0].distance
  PROVE  Account("collect", m, tk, c, n)
<1>1. Counted(label, l, tk, b, n) /\ tk \in Seq(Int) /\ b.sem \in Nat
  BY DEF Account, Collecting
<1>2. Got(label) \in Nat /\ Got("collect") = 0
  BY DEF Got
<1>3. /\ l.i \in Nat \ {0} /\ l.distance \in Int /\ Len(tk) \in Nat
      /\ Len(tk) = b.sem + (l.i - 1) + Got(label)
      /\ Between(l.distance, l.i - 1, tk)
  BY <1>1 DEF Counted
<1>4. tk /= <<>>
  <2>1. Len(tk) > 0
    BY <1>1, <1>2, <1>3
  <2> QED
    BY <2>1
<1>5. b.result[0].distance = tk[Len(tk)] /\ tk[Len(tk)] \in Int
  BY <1>1, <1>4 DEF Account
<1>6. Between(m.distance, m.i - 1, tk)
  <2>1. Between(l.distance + tk[Len(tk)], (l.i - 1) + 1, tk)
    <3>1. l.i - 1 \in Nat
      BY <1>3
    <3> QED
      BY <1>1, <1>3, <1>4, <3>1, BetweenAdds
  <2>2. m.i - 1 = (l.i - 1) + 1
    BY <1>3
  <2> QED
    BY <1>5, <2>1, <2>2
<1>7. /\ m.i \in Nat \ {0} /\ m.distance \in Int /\ m.i - 1 <= n
      /\ Len(tk) = c.sem + (m.i - 1) + Got("collect")
  <2>1. m.i = l.i + 1 /\ m.distance = l.distance + tk[Len(tk)]
    BY <1>5
  <2>2. m.i \in Nat \ {0} /\ m.distance \in Int /\ m.i - 1 <= n
    BY <1>3, <1>5, <2>1
  <2>3. c.sem + 1 = b.sem + Got(label) /\ m.i - 1 = l.i /\ l.i \in Nat
    BY <1>3, <2>1
  <2>4. Len(tk) = c.sem + l.i + 0
    <3> DEFINE len == Len(tk)  old == b.sem  new == c.sem  i == l.i
               got == Got(label)
    <3>1. /\ len = old + (i - 1) + got /\ new + 1 = old + got
          /\ old \in Nat /\ new \in Nat /\ i \in Nat /\ got \in Nat
      BY <1>1, <1>2, <1>3, <2>3
    <3> HIDE DEF len, old, new, i, got
    <3>2. len = new + i + 0
      BY <3>1
    <3> QED
      BY <3>2 DEF len, old, new, i, got
  <2> QED
    BY <1>2, <2>2, <2>3, <2>4
<1>8. Counted("collect", m, tk, c, n)
  BY <1>6, <1>7 DEF Counted
<1> QED
  BY <1>1, <1>5, <1>8 DEF Account


LEMMA AccountAverages ==
  ASSUME NEW l, NEW tk, NEW b, NEW n \in Int \ {0}, Account("average", l, tk, b, n),
         NEW m, m.distance = Quotient(l.distance, n)
  PROVE  Account("insert", m, tk, b, n)
<1>1. Averaging(l, tk, n) /\ tk \in Seq(Int)
  BY DEF Account
<1>2. Averaged(m, tk, n)
  <2> SUFFICES ASSUME n >= 1 PROVE Averaged(m, tk, n)
    BY DEF Averaged
  <2>1. l.distance \in Int /\ Len(tk) >= n /\ Between(l.distance, n, tk)
    BY <1>1 DEF Averaging
  <2>2. n \in Nat \ {0}
    OBVIOUS
  <2>3. \E i, j \in DOMAIN tk : /\ tk[i] <= Quotient(l.distance, n)
                                /\ Quotient(l.distance, n) <= tk[j]
    BY <1>1, <2>1, <2>2, BetweenDivides
  <2> QED
    BY <2>1, <2>3 DEF Averaged
<1> QED
  BY <1>2 DEF Account, Collecting

Booked(t) ==
  Account(tpc[t], loc[t], taken, all_samples, number_of_samples)

LocalVars ==
  /\ loc = [t \in Threads |-> loc[t]]
  /\ \A t \in Threads : loc[t] = [f \in {"counter", "i", "distance"} |-> loc[t][f]]

Fresh(t) == loc[t].i = 1 /\ loc[t].distance = 0

SampleInv ==
  /\ LocalVars /\ HasArray(all_samples)
  /\ \A t \in Threads : tpc[t] \in {"unborn", "setup", "clear"} => Fresh(t)
  /\ ~ reconfigured => \A t \in Threads : tpc[t] \in Measuring => Booked(t)

\* What the books need of the types: those of one device, in either driver.
SampleTypes ==
  /\ SamplerInv /\ OneCell(all_samples)
  /\ number_of_samples \in NumSamples \cup {0}

LEMMA TypesOfSamples ==
  ASSUME SamplerInv, NEW n \in {0, 1}, RingsInv(n)
  PROVE  SampleTypes
  BY DEF SampleTypes, OneCell, RingsInv

sampled == <<tpc, loc, taken, all_samples, number_of_samples, reconfigured>>

LEMMA InitSample == Init \/ ConfiguredInit => SampleInv
<1> SUFFICES ASSUME Init \/ ConfiguredInit PROVE SampleInv
  OBVIOUS
<1>1. /\ tpc = [t \in Threads |-> "unborn"]
      /\ loc = [t \in Threads |-> NoLocals]
  BY InitUnused DEF Unused
<1>2. HasArray(all_samples)
  <2>1. CASE Init
    BY <2>1 DEF Init, Unused, Zeroed, HasArray
  <2>2. CASE ConfiguredInit
    <3>1. PICK n \in NumSamples : all_samples = alloc_buffer(Zeroed, Cells(n + 2))
      BY <2>2 DEF ConfiguredInit, Unused
    <3>2. all_samples.result = Cells(n + 2)
      BY <3>1 DEF alloc_buffer, Zeroed
    <3>3. n + 2 \in Int
      BY DeviceAssumption
    <3> QED
      BY <3>2, <3>3 DEF Cells, HasArray
  <2> QED
    BY <2>1, <2>2
<1> QED
  BY <1>1, <1>2 DEF SampleInv, LocalVars, NoLocals, Fresh, Measuring, Collecting

LEMMA SampleUntouched == SampleInv /\ UNCHANGED sampled => SampleInv'
  BY DEF SampleInv, sampled, LocalVars, HasArray, Fresh, Booked

\* A thread that samples goes on to another label: what there is to show is about
\* its own samples, for the others have none.
LEMMA OwnerBooks ==
  ASSUME SamplerInv, SampleInv, NEW t \in Threads, Sampling(t),
         NEW label \in ThreadLabels \ {"unborn", "setup", "clear"},
         tpc' = [tpc EXCEPT ![t] = label],
         LocalVars', \A u \in Threads : u /= t => loc'[u] = loc[u],
         HasArray(all_samples)',
         ~ reconfigured' /\ label \in Measuring => Booked(t)'
  PROVE  SampleInv'
<1>1. tpc \in [Threads -> ThreadLabels]
  BY DEF SamplerInv, ThreadTypes
<1>2. \A u \in Threads : u /= t => ~ Sampling(u)
  BY DEF SamplerInv, OneSampler
<1>3. \A u \in Threads : u /= t => tpc'[u] = tpc[u] /\ tpc[u] \notin Measuring
  BY <1>1, <1>2 DEF Sampling, SamplingLabels, Measuring, Collecting
<1>4. tpc'[t] = label
  BY <1>1
<1>5. \A u \in Threads : tpc'[u] \in {"unborn", "setup", "clear"} => Fresh(u)'
  BY <1>3, <1>4 DEF SampleInv, Fresh
<1>6. ~ reconfigured' => \A u \in Threads : tpc'[u] \in Measuring => Booked(u)'
  BY <1>3, <1>4
<1> QED
  BY <1>5, <1>6 DEF SampleInv

LEMMA ClientSamples ==
  ASSUME SampleTypes, SampleInv, NEW c \in Clients, Call(c) \/ ClientStep(c)
  PROVE  SampleInv'
<1>1. tpc \in [Threads -> ThreadLabels]
  BY DEF SampleTypes, SamplerInv, ThreadTypes
<1>2. CASE StartSpawn(c)
  <2>1. /\ starts + 1 \in Threads /\ tpc' = [tpc EXCEPT ![starts + 1] = "setup"]
        /\ UNCHANGED <<loc, taken, all_samples, number_of_samples, reconfigured>>
    BY <1>2 DEF StartSpawn, ThreadTo, device, history
  <2>2. tpc[starts + 1] = "unborn"
    BY <2>1 DEF SampleTypes, SamplerInv, ThreadTypes, Unborn
  <2>3. \A u \in Threads : /\ u = starts + 1 \/ tpc'[u] = tpc[u]
                           /\ u = starts + 1 => tpc'[u] = "setup"
    BY <1>1, <2>1
  <2>4. \A u \in Threads : tpc'[u] \in {"unborn", "setup", "clear"} => Fresh(u)'
    BY <2>1, <2>2, <2>3 DEF SampleInv, Fresh
  <2>5. ~ reconfigured' => \A u \in Threads : tpc'[u] \in Measuring => Booked(u)'
    BY <2>1, <2>3 DEF SampleInv, Booked, Measuring, Collecting
  <2> QED
    BY <2>1, <2>4, <2>5 DEF SampleInv, LocalVars, HasArray
<1>3. CASE (\E n \in NumSamples : SetParameters(c, n)) \/ AllocSamples(c)
  <2>1. reconfigured' /\ UNCHANGED <<tpc, loc>>
    BY <1>3 DEF SetParameters, AllocSamples, threads
  <2>2. HasArray(all_samples)'
    <3>1. CASE \E n \in NumSamples : SetParameters(c, n)
      BY <3>1 DEF SetParameters, SampleInv, HasArray
    <3>2. CASE AllocSamples(c)
      <4>1. PICK cells \in {Cells(number_of_samples + 2), NoMemory} :
              all_samples' = alloc_buffer(all_samples, cells)
        BY <3>2 DEF AllocSamples
      <4>2. all_samples'.result = cells
        BY <4>1 DEF alloc_buffer, SampleTypes, SamplerInv, ThreadTypes, IsBuffer, Fields
      <4>3. number_of_samples + 2 \in Int
        BY DeviceAssumption DEF SampleTypes
      <4>4. \/ cells = NoMemory
            \/ cells = [j \in DOMAIN cells |-> cells[j]] /\ 0 \in DOMAIN cells
        BY <4>3 DEF Cells
      <4> QED
        BY <4>2, <4>4 DEF HasArray
    <3> QED
      BY <1>3, <3>1, <3>2
  <2> QED
    BY <2>1, <2>2 DEF SampleInv, LocalVars, Fresh
<1>4. CASE /\ ~ StartSpawn(c) /\ ~ AllocSamples(c)
           /\ ~ \E n \in NumSamples : SetParameters(c, n)
  <2>1. UNCHANGED sampled
    BY <1>4 DEF Call, ClientStep, WriteCall, ReadCall, StartCheck, StartClear,
       StartMark, SpawnFails, ReadProgress, ReadFifo, ReadSleep, ReadWoken, Deliver,
       sampled, device, threads, history
  <2> QED
    BY <2>1, SampleUntouched
<1> QED
  BY <1>2, <1>3, <1>4


LEMMA OopsSamples ==
  ASSUME SampleTypes, SampleInv, NEW t \in Threads, NEW locked, Sampling(t),
         Oops(t, locked)
  PROVE  SampleInv'
<1>1. /\ tpc' = [tpc EXCEPT ![t] = "oops"] /\ loc' = loc
      /\ \/ all_samples' = all_samples
         \/ all_samples' = [all_samples EXCEPT !.lock = t]
  BY DEF Oops, ThreadTo
<1>2. all_samples'.result = all_samples.result
  BY <1>1 DEF SampleTypes, SamplerInv, ThreadTypes, IsBuffer, Fields
<1>3. HasArray(all_samples)' /\ LocalVars'
  BY <1>1, <1>2 DEF SampleInv, HasArray, LocalVars
<1>4. "oops" \in ThreadLabels \ {"unborn", "setup", "clear"} /\ "oops" \notin Measuring
  BY DEF ThreadLabels, SamplingLabels, Measuring, Collecting
<1> QED
  BY <1>1, <1>3, <1>4, OwnerBooks DEF SampleTypes

\* The steps in which the thread does not fault.
LEMMA ClearBooks ==
  ASSUME SampleTypes, SampleInv, NEW t \in Threads, ClearSamples(t),
         tpc' = [tpc EXCEPT ![t] = "pulse"],
         all_samples' = clear_buffer(all_samples, number_of_samples + 2)
  PROVE  SampleInv'
<1>0. tpc[t] = "clear" /\ Sampling(t)
  BY DEF ClearSamples, Sampling, SamplingLabels
<1>1. "pulse" \in ThreadLabels \ {"unborn", "setup", "clear"}
  BY DEF ThreadLabels, SamplingLabels
<1>2. tpc[t] /= "oops" /\ tpc'[t] = "pulse"
  BY <1>0 DEF SampleTypes, SamplerInv, ThreadTypes
<1>3. UNCHANGED <<loc, number_of_samples>> /\ taken' = <<>>
  BY <1>2 DEF ClearSamples, Oops, ThreadTo
<1>4. IsBuffer(all_samples)
  BY DEF SampleTypes, SamplerInv, ThreadTypes
<1>5. /\ all_samples'.sem = 0
      /\ \/ all_samples'.result = all_samples.result
         \/ all_samples'.result = [all_samples.result EXCEPT ![0] =
                                     Stampless(all_samples.result[0])]
  BY <1>4 DEF clear_buffer, SemaInit, IsBuffer, Fields
<1>6. HasArray(all_samples)'
  <2>1. CASE all_samples.result = NoMemory
    <3>1. [all_samples.result EXCEPT ![0] = Stampless(all_samples.result[0])] = NoMemory
      BY <2>1 DEF NoMemory
    <3> QED
      BY <1>5, <2>1, <3>1 DEF HasArray
  <2>2. CASE all_samples.result /= NoMemory
    BY <1>5, <2>2 DEF SampleInv, HasArray
  <2> QED
    BY <2>1, <2>2
<1>7. Booked(t)'
  <2>1. loc'[t].i = 1 /\ loc'[t].distance = 0
    BY <1>0, <1>3 DEF SampleInv, Fresh
  <2>2. Len(<<>>) = 0 /\ <<>> \in Seq(Int)
    OBVIOUS
  <2>3. number_of_samples \in Int
    BY DeviceAssumption DEF SampleTypes
  <2>4. Counted("pulse", loc'[t], <<>>, all_samples', number_of_samples)
    BY <1>5, <2>1, <2>2, <2>3 DEF Counted, Got, Between
  <2>5. Account("pulse", loc'[t], <<>>, all_samples', number_of_samples)
    BY <1>5, <2>2, <2>4 DEF Account
  <2> QED
    BY <1>2, <1>3, <2>5 DEF Booked
<1>8. LocalVars' /\ \A u \in Threads : u /= t => loc'[u] = loc[u]
  BY <1>3 DEF SampleInv, LocalVars
<1> QED
  BY <1>0, <1>1, <1>6, <1>7, <1>8, OwnerBooks DEF SampleTypes

LEMMA LocalsChange ==
  ASSUME LocalVars, NEW t \in Threads, NEW x, NEW y, NEW z
  PROVE  /\ loc' = [loc EXCEPT ![t].counter = x] =>
              /\ LocalVars' /\ \A u \in Threads : u /= t => loc'[u] = loc[u]
              /\ loc'[t].i = loc[t].i /\ loc'[t].distance = loc[t].distance
         /\ loc' = [loc EXCEPT ![t].distance = y, ![t].i = z] =>
              /\ LocalVars' /\ \A u \in Threads : u /= t => loc'[u] = loc[u]
              /\ loc'[t].i = z /\ loc'[t].distance = y
         /\ loc' = [loc EXCEPT ![t].distance = y] =>
              /\ LocalVars' /\ \A u \in Threads : u /= t => loc'[u] = loc[u]
              /\ loc'[t].distance = y
         /\ loc' = [loc EXCEPT ![t] = NoLocals] =>
              /\ LocalVars' /\ \A u \in Threads : u /= t => loc'[u] = loc[u]
<1>1. loc = [u \in Threads |-> loc[u]]
  BY DEF LocalVars
<1>2. \A u \in Threads : loc[u] = [f \in {"counter", "i", "distance"} |-> loc[u][f]]
  BY DEF LocalVars
<1>3. ASSUME NEW r, r = [f \in {"counter", "i", "distance"} |-> r[f]],
             loc' = [loc EXCEPT ![t] = r]
      PROVE  /\ LocalVars' /\ \A u \in Threads : u /= t => loc'[u] = loc[u]
             /\ loc'[t] = r
  BY <1>1, <1>2, <1>3 DEF LocalVars
<1>4. ASSUME loc' = [loc EXCEPT ![t].counter = x]
      PROVE  /\ LocalVars' /\ \A u \in Threads : u /= t => loc'[u] = loc[u]
             /\ loc'[t].i = loc[t].i /\ loc'[t].distance = loc[t].distance
  <2> DEFINE r == [loc[t] EXCEPT !.counter = x]
  <2>1. loc' = [loc EXCEPT ![t] = r]
    BY <1>4
  <2>2. /\ r = [f \in {"counter", "i", "distance"} |-> r[f]]
        /\ r.i = loc[t].i /\ r.distance = loc[t].distance
    BY <1>2
  <2> HIDE DEF r
  <2> QED
    BY <1>3, <2>1, <2>2
<1>5. ASSUME loc' = [loc EXCEPT ![t].distance = y, ![t].i = z]
      PROVE  /\ LocalVars' /\ \A u \in Threads : u /= t => loc'[u] = loc[u]
             /\ loc'[t].i = z /\ loc'[t].distance = y
  <2> DEFINE r == [loc[t] EXCEPT !.distance = y, !.i = z]
  <2>1. loc' = [loc EXCEPT ![t] = r]
    BY <1>1, <1>5
  <2>2. r = [f \in {"counter", "i", "distance"} |-> r[f]] /\ r.i = z /\ r.distance = y
    BY <1>2
  <2> HIDE DEF r
  <2> QED
    BY <1>3, <2>1, <2>2
<1>6. ASSUME loc' = [loc EXCEPT ![t].distance = y]
      PROVE  /\ LocalVars' /\ \A u \in Threads : u /= t => loc'[u] = loc[u]
             /\ loc'[t].distance = y
  <2> DEFINE r == [loc[t] EXCEPT !.distance = y]
  <2>1. loc' = [loc EXCEPT ![t] = r]
    BY <1>6
  <2>2. r = [f \in {"counter", "i", "distance"} |-> r[f]] /\ r.distance = y
    BY <1>2
  <2> HIDE DEF r
  <2> QED
    BY <1>3, <2>1, <2>2
<1>7. NoLocals = [f \in {"counter", "i", "distance"} |-> NoLocals[f]]
  BY DEF NoLocals
<1> QED
  BY <1>3, <1>4, <1>5, <1>6, <1>7


LEMMA LocalsCount ==
  ASSUME LocalVars, NEW t \in Threads, NEW x, NEW y, NEW z
  PROVE  /\ loc' = [loc EXCEPT ![t].counter = x] => loc'[t].counter = x
         /\ loc' = [loc EXCEPT ![t].distance = y, ![t].i = z] =>
              loc'[t].counter = loc[t].counter
  BY DEF LocalVars

\* Where the thread is, and what it has done so far.
LEMMA BookedSteps ==
  ASSUME SampleTypes, SampleInv, NEW t \in Threads
  PROVE  /\ number_of_samples \in Int /\ OneCell(all_samples)
         /\ \A label : tpc' = [tpc EXCEPT ![t] = label] => tpc'[t] = label
         /\ ~ reconfigured /\ tpc[t] \in Measuring => Booked(t)
  BY DeviceAssumption DEF SampleTypes, SamplerInv, ThreadTypes, SampleInv

LEMMA PulseBooks ==
  ASSUME SampleTypes, SampleInv, NEW t \in Threads, Pulse(t)
  PROVE  SampleInv'
<1>1. /\ tpc[t] = "pulse" /\ loc' = [loc EXCEPT ![t].counter = @ + 1]
      /\ UNCHANGED <<taken, all_samples, number_of_samples, reconfigured>>
  BY DEF Pulse, device, history
<1>2. PICK label \in {"pulse", "collect"} : tpc' = [tpc EXCEPT ![t] = label]
  BY DEF Pulse, ThreadTo
<1>3. /\ LocalVars' /\ \A u \in Threads : u /= t => loc'[u] = loc[u]
      /\ loc'[t].i = loc[t].i /\ loc'[t].distance = loc[t].distance
  BY <1>1, LocalsChange DEF SampleInv
<1>4. ASSUME ~ reconfigured' PROVE Booked(t)'
  <2>1. Account("pulse", loc[t], taken, all_samples, number_of_samples)
    BY <1>1, <1>4, BookedSteps DEF Booked, Measuring, Collecting
  <2>2. Account(label, loc'[t], taken, all_samples, number_of_samples)
    BY <1>3, <2>1 DEF Account, Counted, Got, Collecting
  <2>3. tpc'[t] = label
    BY <1>2, BookedSteps
  <2> QED
    BY <1>1, <2>2, <2>3 DEF Booked
<1>5. HasArray(all_samples)'
  BY <1>1 DEF SampleInv, HasArray
<1>6. label \in ThreadLabels \ {"unborn", "setup", "clear"} /\ Sampling(t)
  BY <1>1, <1>2 DEF ThreadLabels, SamplingLabels, Sampling
<1> QED
  BY <1>2, <1>3, <1>4, <1>5, <1>6, OwnerBooks DEF SampleTypes

LEMMA CollectEndBooks ==
  ASSUME SampleTypes, SampleInv, NEW t \in Threads, CollectEnd(t)
  PROVE  SampleInv'
<1>1. /\ tpc[t] = "collect" /\ loc[t].i >= number_of_samples + 1
      /\ tpc' = [tpc EXCEPT ![t] = "average"] /\ loc' = loc
      /\ UNCHANGED <<taken, all_samples, number_of_samples, reconfigured>>
  BY DEF CollectEnd, ThreadTo, device, history
<1>2. ASSUME ~ reconfigured' PROVE Booked(t)'
  <2> DEFINE n == number_of_samples
             k == loc[t].i - 1
             l == loc[t]
  <2>1. Account("collect", l, taken, all_samples, n)
    BY <1>1, <1>2, BookedSteps DEF Booked, Measuring, Collecting
  <2>2. Counted("collect", l, taken, all_samples, n) /\ all_samples.sem \in Nat
    BY <2>1 DEF Account, Collecting
  <2>3. Averaging(l, taken, n)
    <3> SUFFICES ASSUME n >= 1
                 PROVE  l.distance \in Int /\ Len(taken) >= n /\ Between(l.distance, n, taken)
      BY DEF Averaging
    <3>1. n \in Int
      BY BookedSteps
    <3>2. l.i \in Nat /\ k <= n /\ Len(taken) = all_samples.sem + k + 0
      BY <2>2 DEF Counted, Got
    <3>3. k = n
      BY <1>1, <3>1, <3>2
    <3>4. l.distance \in Int /\ Between(l.distance, k, taken)
      BY <2>2 DEF Counted
    <3> HIDE DEF k, n, l
    <3>5. Len(taken) >= n
      BY <2>2, <3>1, <3>2, <3>3
    <3> QED
      BY <3>3, <3>4, <3>5
  <2> HIDE DEF n, l, k
  <2>4. Account("average", l, taken, all_samples, n)
    BY <2>1, <2>3 DEF Account, Collecting
  <2>5. tpc'[t] = "average"
    BY <1>1, BookedSteps
  <2> QED
    BY <1>1, <2>4, <2>5 DEF Booked, n, l
<1>3. HasArray(all_samples)' /\ LocalVars'
  BY <1>1 DEF SampleInv, HasArray, LocalVars
<1>4. "average" \in ThreadLabels \ {"unborn", "setup", "clear"} /\ Sampling(t)
  BY <1>1 DEF ThreadLabels, SamplingLabels, Sampling
<1> QED
  BY <1>1, <1>2, <1>3, <1>4, OwnerBooks DEF SampleTypes

LEMMA CollectSleepBooks ==
  ASSUME SampleTypes, SampleInv, NEW t \in Threads, CollectSleep(t)
  PROVE  SampleInv'
<1>1. /\ tpc[t] = "collect" /\ loc[t].i < number_of_samples + 1
      /\ all_samples' = SleepIn(all_samples, t)
      /\ tpc' = [tpc EXCEPT ![t] = "asleep"] /\ loc' = loc
      /\ UNCHANGED <<taken, number_of_samples, reconfigured>>
  BY DEF CollectSleep, ThreadTo, history
<1>2. /\ all_samples'.sem = all_samples.sem
      /\ all_samples'.result = all_samples.result
  BY <1>1, BookedSteps DEF SleepIn, OneCell, InRing, IsBuffer, Fields
<1>3. ASSUME ~ reconfigured' PROVE Booked(t)'
  <2>1. Account("collect", loc[t], taken, all_samples, number_of_samples)
    BY <1>1, <1>3, BookedSteps DEF Booked, Measuring, Collecting
  <2>2. Counted("collect", loc[t], taken, all_samples, number_of_samples)
    BY <2>1 DEF Account, Collecting
  <2>3. loc[t].i - 1 < number_of_samples
    BY <1>1, <2>2, BookedSteps DEF Counted
  <2>4. Counted("asleep", loc[t], taken, all_samples', number_of_samples)
    BY <1>2, <2>2, <2>3 DEF Counted, Got
  <2>5. Account("asleep", loc[t], taken, all_samples', number_of_samples)
    BY <1>2, <2>1, <2>4 DEF Account
  <2>6. tpc'[t] = "asleep"
    BY <1>1, BookedSteps
  <2> QED
    BY <1>1, <2>5, <2>6 DEF Booked
<1>4. HasArray(all_samples)' /\ LocalVars'
  BY <1>1, <1>2 DEF SampleInv, HasArray, LocalVars
<1>5. "asleep" \in ThreadLabels \ {"unborn", "setup", "clear"} /\ Sampling(t)
  BY <1>1 DEF ThreadLabels, SamplingLabels, Sampling
<1> QED
  BY <1>1, <1>3, <1>4, <1>5, OwnerBooks DEF SampleTypes

LEMMA AverageBooks ==
  ASSUME SampleTypes, SampleInv, NEW t \in Threads, Average(t), number_of_samples /= 0
  PROVE  SampleInv'
<1>1. /\ tpc[t] = "average" /\ tpc' = [tpc EXCEPT ![t] = "insert"]
      /\ loc' = [loc EXCEPT ![t].distance = Quotient(@, number_of_samples)]
      /\ UNCHANGED <<taken, all_samples, number_of_samples, reconfigured>>
  BY DEF Average, ThreadTo, device, history
<1>2. /\ LocalVars' /\ \A u \in Threads : u /= t => loc'[u] = loc[u]
      /\ loc'[t].distance = Quotient(loc[t].distance, number_of_samples)
  BY <1>1, LocalsChange DEF SampleInv
<1>3. ASSUME ~ reconfigured' PROVE Booked(t)'
  <2>1. Account("average", loc[t], taken, all_samples, number_of_samples)
    BY <1>1, <1>3, BookedSteps DEF Booked, Measuring
  <2>2. number_of_samples \in Int \ {0}
    BY BookedSteps
  <2>3. Account("insert", loc'[t], taken, all_samples, number_of_samples)
    BY <1>2, <2>1, <2>2, AccountAverages
  <2>4. tpc'[t] = "insert"
    BY <1>1, BookedSteps
  <2> QED
    BY <1>1, <2>3, <2>4 DEF Booked
<1>4. HasArray(all_samples)'
  BY <1>1 DEF SampleInv, HasArray
<1>5. "insert" \in ThreadLabels \ {"unborn", "setup", "clear"} /\ Sampling(t)
  BY <1>1 DEF ThreadLabels, SamplingLabels, Sampling
<1> QED
  BY <1>1, <1>2, <1>3, <1>4, <1>5, OwnerBooks DEF SampleTypes

\* read_fifo(all_samples) in the thread, with a unit at hand or after up().
LEMMA CollectBooks ==
  ASSUME SampleTypes, SampleInv, NEW t \in Threads, CollectRead(t) \/ CollectWoken(t),
         all_samples.result /= NoMemory
  PROVE  SampleInv'
<1> DEFINE label == tpc[t]
           b == all_samples
<1>1. /\ label \in {"collect", "woken"}
      /\ label = "collect" => loc[t].i < number_of_samples + 1
      /\ all_samples' = IF label = "collect" THEN ReadNow(b) ELSE AfterRead(b)
      /\ loc' = [loc EXCEPT ![t].distance = @ + ReadValue(b).distance, ![t].i = @ + 1]
      /\ tpc' = [tpc EXCEPT ![t] = "collect"]
      /\ UNCHANGED <<taken, number_of_samples, reconfigured>>
  BY DEF CollectRead, CollectWoken, Collected, ThreadTo, history
<1>2. OneCell(b)
  BY BookedSteps
<1>3. /\ AfterRead(b).result = b.result /\ AfterRead(b).sem = b.sem
      /\ ReadNow(b).result = b.result /\ ReadNow(b).sem = b.sem - 1
      /\ b.head = 0
  <2>1. IsBuffer(b) /\ b.head = 0
    BY <1>2 DEF OneCell, InRing
  <2> HIDE DEF b
  <2>2. AfterRead(b).result = b.result /\ AfterRead(b).sem = b.sem
    BY <2>1 DEF AfterRead, IsBuffer, Fields
  <2> QED
    BY <2>1, <2>2, ReadMoves
<1>4. /\ LocalVars' /\ \A u \in Threads : u /= t => loc'[u] = loc[u]
      /\ loc'[t].i = loc[t].i + 1
      /\ loc'[t].distance = loc[t].distance + b.result[0].distance
  <2>1. loc' = [loc EXCEPT ![t].distance = loc[t].distance + b.result[0].distance,
                           ![t].i = loc[t].i + 1]
    BY <1>1, <1>3 DEF ReadValue, SampleInv, LocalVars
  <2> HIDE DEF b
  <2> QED
    BY <2>1, LocalsChange DEF SampleInv
<1>5. ASSUME ~ reconfigured' PROVE Booked(t)'
  <2>1. Account(label, loc[t], taken, b, number_of_samples)
    BY <1>1, <1>5, BookedSteps DEF Booked, Measuring, Collecting
  <2>2. Counted(label, loc[t], taken, b, number_of_samples) /\ b.sem \in Nat
    BY <1>1, <2>1 DEF Account, Collecting
  <2>3. loc[t].i - 1 < number_of_samples /\ number_of_samples \in Int
    BY <1>1, <2>2, BookedSteps DEF Counted
  <2>4. all_samples'.sem \in Nat /\ all_samples'.sem + 1 = b.sem + Got(label)
    <3>1. CASE label = "collect"
      <4>1. b.sem > 0
        BY <3>1 DEF CollectRead, CollectWoken
      <4> QED
        BY <1>1, <1>3, <2>2, <3>1, <4>1 DEF Got
    <3>2. CASE label = "woken"
      BY <1>1, <1>3, <2>2, <3>2 DEF Got
    <3> QED
      BY <1>1, <3>1, <3>2
  <2>5. all_samples'.result = b.result
    BY <1>1, <1>3
  <2>6. Account("collect", loc'[t], taken, all_samples', number_of_samples)
    <3> DEFINE l == loc[t]  m == loc'[t]  c == all_samples'  n == number_of_samples
    <3>1. /\ label \in {"collect", "woken"} /\ n \in Int /\ l.i - 1 < n
          /\ Account(label, l, taken, b, n)
          /\ c.sem \in Nat /\ c.sem + 1 = b.sem + Got(label) /\ c.result = b.result
          /\ m.i = l.i + 1 /\ m.distance = l.distance + b.result[0].distance
      BY <1>1, <1>4, <2>1, <2>3, <2>4, <2>5
    <3> HIDE DEF l, m, c, n, b, label
    <3>2. Account("collect", m, taken, c, n)
      BY <3>1, AccountCounts
    <3> QED
      BY <3>2 DEF m, c, n
  <2>7. tpc'[t] = "collect"
    BY <1>1, BookedSteps
  <2> QED
    BY <1>1, <2>6, <2>7 DEF Booked
<1>6. HasArray(all_samples)'
  BY <1>1, <1>3 DEF SampleInv, HasArray
<1>7. "collect" \in ThreadLabels \ {"unborn", "setup", "clear"} /\ Sampling(t)
  BY <1>1 DEF ThreadLabels, SamplingLabels, Sampling
<1> QED
  BY <1>1, <1>4, <1>5, <1>6, <1>7, OwnerBooks DEF SampleTypes


LEMMA SetInterruptBooks ==
  ASSUME SampleTypes, SampleInv, NEW t \in Threads, SetInterrupt(t)
  PROVE  SampleInv'
<1>1. /\ tpc[t] = "setup"
      /\ UNCHANGED <<loc, taken, all_samples, number_of_samples, reconfigured>>
  BY DEF SetInterrupt, device
<1>2. PICK label \in {"clear", "done"} : tpc' = [tpc EXCEPT ![t] = label]
  BY DEF SetInterrupt, ThreadTo
<1>3. tpc \in [Threads -> ThreadLabels]
  BY DEF SampleTypes, SamplerInv, ThreadTypes
<1>4. \A u \in Threads : u = t \/ tpc'[u] = tpc[u]
  BY <1>2, <1>3
<1>5. tpc'[t] = label
  BY <1>2, <1>3
<1>6. \A u \in Threads : tpc'[u] \in {"unborn", "setup", "clear"} => Fresh(u)'
  BY <1>1, <1>4 DEF SampleInv, Fresh
<1>7. ~ reconfigured' => \A u \in Threads : tpc'[u] \in Measuring => Booked(u)'
  BY <1>1, <1>4, <1>5 DEF SampleInv, Booked, Measuring, Collecting
<1> QED
  BY <1>1, <1>6, <1>7 DEF SampleInv, LocalVars, HasArray

LEMMA EndBooks ==
  ASSUME SampleTypes, SampleInv, NEW t \in Threads, InsertResult(t) \/ ReleaseIrq(t)
  PROVE  SampleInv'
<1>1. /\ tpc[t] \in {"insert", "release"}
      /\ UNCHANGED <<loc, all_samples, number_of_samples, reconfigured>>
  BY DEF InsertResult, ReleaseIrq, device
<1>2. PICK label \in {"release", "finish"} : tpc' = [tpc EXCEPT ![t] = label]
  BY DEF InsertResult, ReleaseIrq, ThreadTo
<1>3. HasArray(all_samples)' /\ LocalVars'
  BY <1>1 DEF SampleInv, HasArray, LocalVars
<1>4. /\ label \in ThreadLabels \ {"unborn", "setup", "clear"} /\ label \notin Measuring
      /\ Sampling(t)
  BY <1>1, <1>2 DEF ThreadLabels, SamplingLabels, Sampling, Measuring, Collecting
<1> QED
  BY <1>1, <1>2, <1>3, <1>4, OwnerBooks DEF SampleTypes

LEMMA FinishBooks ==
  ASSUME SampleTypes, SampleInv, NEW t \in Threads, Finish(t)
  PROVE  SampleInv'
<1>1. /\ tpc' = [tpc EXCEPT ![t] = "done"] /\ loc' = [loc EXCEPT ![t] = NoLocals]
      /\ UNCHANGED <<taken, all_samples, number_of_samples, reconfigured>>
  BY DEF Finish, ThreadTo, history
<1>2. LocalVars' /\ \A u \in Threads : u /= t => loc'[u] = loc[u]
  BY <1>1, LocalsChange DEF SampleInv
<1>3. /\ \A u \in Threads : u = t \/ tpc'[u] = tpc[u]
      /\ tpc'[t] = "done"
  BY <1>1 DEF SampleTypes, SamplerInv, ThreadTypes
<1>4. \A u \in Threads : tpc'[u] \in {"unborn", "setup", "clear"} => Fresh(u)'
  BY <1>2, <1>3 DEF SampleInv, Fresh
<1>5. ~ reconfigured' => \A u \in Threads : tpc'[u] \in Measuring => Booked(u)'
  BY <1>1, <1>2, <1>3 DEF SampleInv, Booked, Measuring, Collecting
<1> QED
  BY <1>1, <1>2, <1>4, <1>5 DEF SampleInv, HasArray

LEMMA ThreadSamples ==
  ASSUME SampleTypes, SampleInv, NEW t \in Threads, ThreadStep(t)
  PROVE  SampleInv'
<1>1. CASE ClearSamples(t)
  <2>1. Sampling(t)
    BY <1>1 DEF ClearSamples, Sampling, SamplingLabels
  <2>2. CASE Oops(t, TRUE)
    BY <2>1, <2>2, OopsSamples
  <2>3. CASE ~ Oops(t, TRUE)
    BY <1>1, <2>3, ClearBooks DEF ClearSamples, ThreadTo
  <2> QED
    BY <2>2, <2>3
<1>2. CASE CollectRead(t) \/ CollectWoken(t)
  <2>1. Sampling(t)
    BY <1>2 DEF CollectRead, CollectWoken, Sampling, SamplingLabels
  <2>2. CASE all_samples.result = NoMemory
    <3>1. Oops(t, TRUE)
      BY <1>2, <2>2 DEF CollectRead, CollectWoken, Collected
    <3> QED
      BY <2>1, <3>1, OopsSamples
  <2> QED
    BY <1>2, <2>2, CollectBooks
<1>3. CASE Average(t)
  <2>1. Sampling(t)
    BY <1>3 DEF Average, Sampling, SamplingLabels
  <2>2. CASE number_of_samples = 0
    <3>1. Oops(t, FALSE)
      BY <1>3, <2>2 DEF Average
    <3> QED
      BY <2>1, <3>1, OopsSamples
  <2> QED
    BY <1>3, <2>2, AverageBooks
<1> QED
  BY <1>1, <1>2, <1>3, PulseBooks, CollectEndBooks, CollectSleepBooks,
     SetInterruptBooks, EndBooks, FinishBooks DEF ThreadStep

LEMMA EchoSamples ==
  ASSUME SampleTypes, SampleInv, Echo
  PROVE  SampleInv'
<1>1. CASE EchoUnheard \/ EchoLost
  <2>1. UNCHANGED sampled
    BY <1>1 DEF EchoUnheard, EchoLost, sampled, device, threads, history
  <2> QED
    BY <2>1, SampleUntouched
<1>2. ASSUME NEW d \in Distances, EchoSample(d), all_samples.result = NoMemory
      PROVE  SampleInv'
  <2>1. UNCHANGED sampled
    BY <1>2 DEF EchoSample, sampled
  <2> QED
    BY <2>1, SampleUntouched
<1>3. ASSUME NEW d \in Distances, EchoSample(d), all_samples.result /= NoMemory
      PROVE  SampleInv'
  <2> DEFINE e == [timestamp |-> 0, distance |-> d]
             b == all_samples
  <2>1. /\ all_samples' = insert_buffer(b, e) /\ taken' = Append(taken, d)
        /\ tpc' = [t \in Threads |-> IF t \in WokenBy(b) THEN "woken" ELSE tpc[t]]
        /\ UNCHANGED <<loc, number_of_samples, reconfigured>>
    BY <1>3 DEF EchoSample
  <2>2. e.distance = d /\ d \in Int
    BY DeviceAssumption
  <2> HIDE DEF e
  <2>3. /\ OneCell(b) /\ HasArray(b) /\ b.result /= NoMemory
        /\ number_of_samples \in Int
    BY <1>3, DeviceAssumption DEF SampleTypes, SampleInv
  <2>4. HasArray(all_samples)'
    <3>1. HasArray(all_samples')
      BY <2>1, <2>3, SampleMoves
    <3> QED
      BY <3>1 DEF HasArray
  <2>5. \A t \in WokenBy(b) : t = irq_owner /\ tpc[t] = "asleep"
    BY DEF SampleTypes, SamplerInv, WaitList, WokenBy
  <2>6. \A t \in Threads : tpc'[t] \in {"unborn", "setup", "clear"} => Fresh(t)'
    BY <2>1 DEF SampleInv, Fresh
  <2>7. ASSUME ~ reconfigured', NEW t \in Threads, tpc'[t] \in Measuring
        PROVE  Booked(t)'
    <3>1. tpc[t] \in Measuring
      BY <2>1, <2>5, <2>7 DEF Measuring, Collecting
    <3>2. t = irq_owner
      BY <3>1 DEF SampleTypes, SamplerInv, OneSampler, Sampling, SamplingLabels, Measuring,
         Collecting
    <3>3. Account(tpc[t], loc[t], taken, b, number_of_samples)
      BY <2>1, <2>7, <3>1 DEF SampleInv, Booked
    <3>4. /\ b.waiters /= <<>> => tpc[t] = "asleep" /\ t \in WokenBy(b)
          /\ b.waiters = <<>> => t \notin WokenBy(b)
      BY <3>2 DEF SampleTypes, SamplerInv, WaitList, WokenBy
    <3>5. tpc'[t] = IF b.waiters = <<>> THEN tpc[t] ELSE "woken"
      BY <2>1, <3>4
    <3> DEFINE label == tpc[t]  l == loc[t]  n == number_of_samples
    <3>6. /\ label \in Measuring /\ n \in Int
          /\ b.waiters /= <<>> => label = "asleep"
          /\ Account(label, l, taken, b, n)
      BY <2>3, <3>1, <3>3, <3>4
    <3> HIDE DEF label, l, n, b
    <3>7. Account(IF b.waiters = <<>> THEN label ELSE "woken", l, Append(taken, d),
                  insert_buffer(b, e), n)
      BY <2>2, <2>3, <3>6, AccountSample
    <3> QED
      BY <2>1, <3>5, <3>7 DEF Booked, label, l, n
  <2> QED
    BY <2>1, <2>4, <2>6, <2>7 DEF SampleInv, LocalVars
<1> QED
  BY <1>1, <1>2, <1>3 DEF Echo

LEMMA NextSamples == SampleTypes /\ SampleInv /\ [Next]_vars => SampleInv'
<1> SUFFICES ASSUME SampleTypes, SampleInv, [Next]_vars PROVE SampleInv'
  OBVIOUS
<1>1. CASE UNCHANGED vars
  <2>1. UNCHANGED sampled
    BY <1>1 DEF vars, sampled, device, threads, history
  <2> QED
    BY <2>1, SampleUntouched
<1>2. CASE Next
  BY <1>2, ClientSamples, ThreadSamples, EchoSamples DEF Next
<1> QED
  BY <1>1, <1>2

\* What the books say of a result that is about to be published.
LEMMA BooksAreRight == SampleInv => ResultFromFreshSamples
<1> SUFFICES ASSUME SampleInv, NEW t \in Threads, tpc[t] = "insert",
                    number_of_samples >= 1, ~ reconfigured
             PROVE  /\ Len(taken) >= number_of_samples
                    /\ \E i, j \in DOMAIN taken : /\ taken[i] <= loc[t].distance
                                                  /\ loc[t].distance <= taken[j]
  BY DEF ResultFromFreshSamples
<1>1. Account("insert", loc[t], taken, all_samples, number_of_samples)
  BY DEF SampleInv, Booked, Measuring
<1> QED
  BY <1>1 DEF Account, Averaged

\* A result is made from at least as many samples as the parameter asks for, all
\* inserted since the thread cleared all_samples, and lies between two of them: for
\* every parameter and all samples, negative ones too, in both kernel builds, and
\* whichever threads and programs race.  (Echoes of earlier pulses are samples.)
THEOREM FreshSamples ==
  (Spec => []ResultFromFreshSamples) /\ (OperatingSpec => []ResultFromFreshSamples)
<1> DEFINE Inv == TypeInv /\ SampleInv
<1>1. Init \/ ConfiguredInit => Inv
  BY InitType, InitSample
<1>2. Inv /\ [Next]_vars => Inv'
  <2>1. TypeInv => SampleTypes
    BY TypesOfSamples DEF TypeInv
  <2> QED
    BY <2>1, NextType, NextSamples
<1>3. Inv => ResultFromFreshSamples
  BY BooksAreRight
<1> HIDE DEF Inv
<1>4. Spec => []ResultFromFreshSamples
  BY <1>1, <1>2, <1>3, PTL DEF Spec
<1>5. OperatingSpec => []ResultFromFreshSamples
  BY <1>1, <1>2, <1>3, OperatingIsNext, PTL DEF OperatingSpec
<1> QED
  BY <1>4, <1>5


-----------------------------------------------------------------------------
(* is_in_progress is never left set with nobody to clear it.  Served gives a  *)
(* thread; it can go on because the locks are free unless somebody sleeps     *)
(* with one, and because the pulses it has sent are enough for the samples    *)
(* it still waits for.                                                        *)

\* Who holds a lock, sleeps with it or has died with it.
LockInv ==
  /\ buffer.lock /= NoOne => SMP /\ \E c \in Clients : cpc[c] = "asleep"
  /\ all_samples.lock /= NoOne =>
       SMP /\ (failed \/ \E t \in Threads : tpc[t] = "asleep")
  /\ \A t \in Threads : tpc[t] = "oops" => failed

LEMMA LockMoves ==
  ASSUME NEW b, IsBuffer(b), NEW p, NEW d
  PROVE  /\ SleepIn(b, p).lock = IF SMP THEN p ELSE NoOne
         /\ clear_buffer(b, d).lock = b.lock /\ alloc_buffer(b, d).lock = b.lock
         /\ AfterRead(b).lock = NoOne /\ ReadNow(b).lock = NoOne
         /\ insert_buffer(b, d).lock = b.lock
<1>1. /\ SleepIn(b, p).lock = IF SMP THEN p ELSE NoOne
      /\ clear_buffer(b, d).lock = b.lock /\ alloc_buffer(b, d).lock = b.lock
      /\ AfterRead(b).lock = NoOne
  BY DEF SleepIn, clear_buffer, SemaInit, alloc_buffer, AfterRead, IsBuffer, Fields
<1>2. ReadNow(b).lock = NoOne
  BY ReadMoves
<1>3. insert_buffer(b, d).lock = b.lock
  BY InsertMoves
<1> QED
  BY <1>1, <1>2, <1>3

LEMMA InitLocks ==
  ASSUME NEW n, NEW samples, samples.lock = NoOne, Unused(n, samples)
  PROVE  LockInv
<1>1. buffer.lock = NoOne
  BY DEF Unused, init_buffer, SemaInit, alloc_buffer, Zeroed
<1> QED
  BY <1>1 DEF Unused, LockInv

LEMMA LocksUntouched ==
  LockInv /\ UNCHANGED <<buffer, all_samples, cpc, tpc, failed>> => LockInv'
  BY DEF LockInv

\* Steps of a program: whoever sleeps goes on sleeping.
LEMMA ClientLocks ==
  ASSUME LockInv, ReaderInv, SamplerInv, NEW c \in Clients, Call(c) \/ ClientStep(c)
  PROVE  LockInv'
<1>1. /\ cpc \in [Clients -> ClientLabels] /\ tpc \in [Threads -> ThreadLabels]
      /\ IsBuffer(buffer) /\ IsBuffer(all_samples)
  BY DEF ReaderInv, ReaderTypes, SamplerInv, ThreadTypes
<1>2. /\ cpc[c] /= "asleep" /\ \E label : cpc' = [cpc EXCEPT ![c] = label]
      /\ failed => failed'
  BY DEF Call, ClientStep, WriteCall, ReadCall, SetParameters, StartCheck,
     StartClear, StartMark, StartSpawn, SpawnFails, ReadProgress, ReadFifo,
     ReadSleep, ReadWoken, AllocSamples, Deliver, ClientTo, history
<1>3. \A e \in Clients : cpc[e] = "asleep" => cpc'[e] = "asleep"
  BY <1>1, <1>2
<1>4. \A t \in Threads : /\ tpc[t] = "asleep" => tpc'[t] = "asleep"
                         /\ tpc'[t] = "oops" => tpc[t] = "oops"
  <2>1. CASE StartSpawn(c)
    <3>1. /\ starts + 1 \in Threads /\ tpc' = [tpc EXCEPT ![starts + 1] = "setup"]
      BY <2>1 DEF StartSpawn, ThreadTo
    <3>2. tpc[starts + 1] = "unborn"
      BY <3>1 DEF SamplerInv, ThreadTypes, Unborn
    <3> QED
      BY <1>1, <3>1, <3>2
  <2>2. CASE ~ StartSpawn(c)
    <3>1. tpc' = tpc
      BY <2>2 DEF Call, ClientStep, WriteCall, ReadCall, SetParameters, StartCheck,
         StartClear, StartMark, SpawnFails, ReadProgress, ReadFifo, ReadSleep,
         ReadWoken, AllocSamples, Deliver, threads
    <3> QED
      BY <3>1
  <2> QED
    BY <2>1, <2>2
<1>5. all_samples'.lock = all_samples.lock
  <2>1. all_samples' = all_samples \/ \E x : all_samples' = alloc_buffer(all_samples, x)
    BY DEF Call, ClientStep, WriteCall, ReadCall, SetParameters, StartCheck,
       StartClear, StartMark, StartSpawn, SpawnFails, ReadProgress, ReadFifo,
       ReadSleep, ReadWoken, AllocSamples, Deliver, device
  <2> QED
    BY <1>1, <2>1, LockMoves
<1>6. \/ buffer'.lock = buffer.lock \/ buffer'.lock = NoOne
      \/ SMP /\ cpc'[c] = "asleep"
  <2>1. \/ buffer' = buffer \/ buffer' = clear_buffer(buffer, MAX_BUFF_SIZE)
        \/ buffer' = ReadNow(buffer) \/ buffer' = AfterRead(buffer)
        \/ buffer' = SleepIn(buffer, c) /\ cpc' = [cpc EXCEPT ![c] = "asleep"]
    BY DEF Call, ClientStep, WriteCall, ReadCall, SetParameters, StartCheck,
       StartClear, StartMark, StartSpawn, SpawnFails, ReadProgress, ReadFifo,
       ReadSleep, ReadWoken, AllocSamples, Deliver, ClientTo, device
  <2>2. CASE buffer' = SleepIn(buffer, c) /\ cpc' = [cpc EXCEPT ![c] = "asleep"]
    BY <1>1, <2>2, LockMoves
  <2> QED
    BY <1>1, <2>1, <2>2, LockMoves
<1> QED
  BY <1>2, <1>3, <1>4, <1>5, <1>6 DEF LockInv

\* Steps of a thread: no thread that sleeps, and none that another has woken.
LEMMA ThreadLocks ==
  ASSUME LockInv, ReaderInv, SamplerInv, NEW t \in Threads, ThreadStep(t)
  PROVE  LockInv'
<1>1. /\ tpc \in [Threads -> ThreadLabels]
      /\ IsBuffer(buffer) /\ IsBuffer(all_samples)
  BY DEF ReaderInv, ReaderTypes, SamplerInv, ThreadTypes
<1>2. CASE \E locked \in BOOLEAN : Oops(t, locked)
  <2>1. /\ failed' /\ buffer' = buffer /\ cpc' = cpc
        /\ all_samples' = all_samples \/ SMP
    BY <1>2 DEF Oops
  <2> QED
    BY <2>1 DEF LockInv
<1>3. CASE ~ \E locked \in BOOLEAN : Oops(t, locked)
  <2>1. /\ tpc[t] /= "asleep"
        /\ \E label \in ThreadLabels \ {"oops"} : tpc' = [tpc EXCEPT ![t] = label]
    BY <1>3 DEF ThreadStep, SetInterrupt, ClearSamples, Pulse, CollectEnd,
       CollectSleep, CollectRead, CollectWoken, Collected, Average, InsertResult,
       ReleaseIrq, Finish, ThreadTo, ThreadLabels, SamplingLabels
  <2>2. /\ \A u \in Threads : tpc[u] = "asleep" => tpc'[u] = "asleep"
        /\ \A u \in Threads : tpc'[u] = "oops" => tpc[u] = "oops"
    BY <1>1, <2>1
  <2>3. failed => failed'
    BY <1>3 DEF ThreadStep, SetInterrupt, ClearSamples, Pulse, CollectEnd,
       CollectSleep, CollectRead, CollectWoken, Collected, Average, InsertResult,
       ReleaseIrq, Finish, history
  <2>4. \/ all_samples'.lock = all_samples.lock \/ all_samples'.lock = NoOne
        \/ SMP /\ tpc'[t] = "asleep"
    <3>1. \/ all_samples' = all_samples
          \/ \E n : all_samples' = clear_buffer(all_samples, n)
          \/ all_samples' = ReadNow(all_samples) \/ all_samples' = AfterRead(all_samples)
          \/ all_samples' = SleepIn(all_samples, t) /\ tpc' = [tpc EXCEPT ![t] = "asleep"]
      BY <1>3 DEF ThreadStep, SetInterrupt, ClearSamples, Pulse, CollectEnd,
         CollectSleep, CollectRead, CollectWoken, Collected, Average, InsertResult,
         ReleaseIrq, Finish, ThreadTo, device
    <3>2. CASE all_samples' = SleepIn(all_samples, t) /\ tpc' = [tpc EXCEPT ![t] = "asleep"]
      BY <1>1, <3>2, LockMoves
    <3> QED
      BY <1>1, <3>1, <3>2, LockMoves
  <2>5. CASE InsertResult(t)
    <3>1. Unlocked(buffer) /\ buffer' = insert_buffer(buffer, Result(t))
      BY <2>5 DEF InsertResult
    <3>2. buffer'.lock = NoOne
      BY <1>1, <3>1, LockMoves DEF Unlocked
    <3> QED
      BY <2>2, <2>3, <2>4, <3>2 DEF LockInv
  <2>6. CASE ~ InsertResult(t)
    <3>1. buffer' = buffer /\ cpc' = cpc
      BY <1>3, <2>6 DEF ThreadStep, SetInterrupt, ClearSamples, Pulse, CollectEnd,
         CollectSleep, CollectRead, CollectWoken, Collected, Average, ReleaseIrq,
         Finish, device
    <3> QED
      BY <2>2, <2>3, <2>4, <3>1 DEF LockInv
  <2> QED
    BY <2>5, <2>6
<1> QED
  BY <1>2, <1>3

LEMMA EchoLocks ==
  ASSUME LockInv, SamplerInv, Echo
  PROVE  LockInv'
<1>1. UNCHANGED <<buffer, cpc, failed>>
  BY DEF Echo, EchoSample, EchoUnheard, EchoLost, device, history
<1>2. CASE UNCHANGED <<all_samples, tpc>>
  BY <1>1, <1>2, LocksUntouched
<1>3. CASE ~ UNCHANGED <<all_samples, tpc>>
  <2>1. PICK e : /\ Unlocked(all_samples)
                 /\ all_samples' = insert_buffer(all_samples, e)
                 /\ tpc' = [t \in Threads |-> IF t \in WokenBy(all_samples)
                                                THEN "woken" ELSE tpc[t]]
    BY <1>3 DEF Echo, EchoSample, EchoUnheard, EchoLost, device, threads
  <2>2. IsBuffer(all_samples)
    BY DEF SamplerInv, ThreadTypes
  <2>3. all_samples'.lock = NoOne
    BY <2>1, <2>2, LockMoves DEF Unlocked
  <2>4. \A t \in Threads : tpc'[t] = "oops" => tpc[t] = "oops"
    BY <2>1
  <2> QED
    BY <1>1, <2>3, <2>4 DEF LockInv
<1> QED
  BY <1>2, <1>3

LEMMA NextLocks ==
  ASSUME LockInv, ReaderInv, SamplerInv, [Next]_vars
  PROVE  LockInv'
<1>1. CASE UNCHANGED vars
  BY <1>1, LocksUntouched DEF vars, device, threads, history
<1>2. CASE Next
  BY <1>2, ClientLocks, ThreadLocks, EchoLocks DEF Next
<1> QED
  BY <1>1, <1>2

\* The pulses of the thread that have not been heard or lost are still to come,
\* and a thread that collects has sent two more than it needs.
Supplied(t) ==
  /\ loc[t].counter \in Nat
  /\ loc[t].counter <= echoes + Len(taken) + lost
  /\ tpc[t] /= "pulse" => loc[t].counter >= number_of_samples + 2
  /\ tpc[t] = "asleep" => all_samples.waiters = <<t>> /\ all_samples.sem = 0

SupplyInv ==
  /\ \A t \in Threads :
       tpc[t] \in {"unborn", "setup", "clear"} => loc[t].counter = 0
  /\ ~ (reconfigured \/ panic) =>
       \A t \in Threads : tpc[t] \in Collecting => Supplied(t)

supply == <<tpc, loc, echoes, taken, lost, number_of_samples, all_samples,
            reconfigured, panic>>

LEMMA SupplyUntouched == SupplyInv /\ UNCHANGED supply => SupplyInv'
  BY DEF SupplyInv, supply, Supplied

\* What the steps rely on: the types, and the books of the samples.
SupplyTypes == SampleTypes /\ SampleInv /\ echoes \in Nat /\ lost \in Nat

LEMMA InitSupply ==
  ASSUME NEW n, NEW samples, Unused(n, samples)
  PROVE  SupplyInv
  BY DEF Unused, SupplyInv, NoLocals, Collecting

LEMMA OwnerSupply ==
  ASSUME SamplerInv, SupplyInv, NEW t \in Threads, Sampling(t),
         NEW label \in ThreadLabels \ {"unborn", "setup", "clear"},
         tpc' = [tpc EXCEPT ![t] = label],
         \A u \in Threads : u /= t => loc'[u] = loc[u],
         ~ (reconfigured' \/ panic') /\ label \in Collecting => Supplied(t)'
  PROVE  SupplyInv'
<1>1. tpc \in [Threads -> ThreadLabels]
  BY DEF SamplerInv, ThreadTypes
<1>2. \A u \in Threads : u /= t => ~ Sampling(u)
  BY DEF SamplerInv, OneSampler
<1>3. \A u \in Threads : u /= t => tpc'[u] = tpc[u] /\ tpc'[u] \notin Collecting
  BY <1>1, <1>2 DEF Sampling, SamplingLabels, Collecting
<1>4. tpc'[t] = label
  BY <1>1
<1>5. \A u \in Threads : tpc'[u] \in {"unborn", "setup", "clear"} => loc'[u].counter = 0
  BY <1>3, <1>4 DEF SupplyInv
<1>6. ~ (reconfigured' \/ panic') =>
        \A u \in Threads : tpc'[u] \in Collecting => Supplied(u)'
  BY <1>3, <1>4
<1> QED
  BY <1>5, <1>6 DEF SupplyInv

LEMMA ClientSupply ==
  ASSUME SupplyTypes, SupplyInv, NEW c \in Clients, Call(c) \/ ClientStep(c)
  PROVE  SupplyInv'
<1>1. CASE StartSpawn(c)
  <2>1. /\ starts + 1 \in Threads /\ tpc' = [tpc EXCEPT ![starts + 1] = "setup"]
        /\ UNCHANGED <<loc, echoes, taken, lost, number_of_samples, all_samples,
                       reconfigured, panic>>
    BY <1>1 DEF StartSpawn, ThreadTo, device, world, history
  <2>2. /\ tpc[starts + 1] = "unborn" /\ tpc \in [Threads -> ThreadLabels]
    BY <2>1 DEF SupplyTypes, SampleTypes, SamplerInv, ThreadTypes, Unborn
  <2>3. \A u \in Threads : /\ u = starts + 1 \/ tpc'[u] = tpc[u]
                           /\ u = starts + 1 => tpc'[u] = "setup"
    BY <2>1, <2>2
  <2>4. \A u \in Threads : tpc'[u] \in {"unborn", "setup", "clear"} => loc'[u].counter = 0
    BY <2>1, <2>2, <2>3 DEF SupplyInv
  <2>5. ~ (reconfigured' \/ panic') =>
          \A u \in Threads : tpc'[u] \in Collecting => Supplied(u)'
    BY <2>1, <2>3 DEF SupplyInv, Supplied, Collecting
  <2> QED
    BY <2>4, <2>5 DEF SupplyInv
<1>2. CASE (\E n \in NumSamples : SetParameters(c, n)) \/ AllocSamples(c)
  <2>1. reconfigured' /\ UNCHANGED <<tpc, loc>>
    BY <1>2 DEF SetParameters, AllocSamples, threads
  <2> QED
    BY <2>1 DEF SupplyInv
<1>3. CASE /\ ~ StartSpawn(c) /\ ~ AllocSamples(c)
           /\ ~ \E n \in NumSamples : SetParameters(c, n)
  <2>1. UNCHANGED supply
    BY <1>3 DEF Call, ClientStep, WriteCall, ReadCall, StartCheck, StartClear,
       StartMark, SpawnFails, ReadProgress, ReadFifo, ReadSleep, ReadWoken, Deliver,
       supply, device, world, threads, history
  <2> QED
    BY <2>1, SupplyUntouched
<1> QED
  BY <1>1, <1>2, <1>3

\* The steps in which a thread stays in its measurement.
LEMMA CollectorSupply ==
  ASSUME SupplyTypes, SupplyInv, NEW t \in Threads,
         ClearSamples(t) \/ Pulse(t) \/ CollectSleep(t) \/ CollectRead(t) \/ CollectWoken(t),
         ~ \E locked \in BOOLEAN : Oops(t, locked)
  PROVE  SupplyInv'
<1>1. /\ tpc \in [Threads -> ThreadLabels] /\ IsBuffer(all_samples) /\ LocalVars
      /\ number_of_samples \in Int /\ echoes \in Nat /\ lost \in Nat /\ SamplerInv
  BY DeviceAssumption DEF SupplyTypes, SampleTypes, SampleInv, SamplerInv, ThreadTypes
<1>2. Sampling(t)
  BY DEF ClearSamples, Pulse, CollectSleep, CollectRead, CollectWoken, Sampling,
     SamplingLabels
<1>3. ASSUME ~ reconfigured, ~ panic, tpc[t] \in Collecting
      PROVE  Supplied(t) /\ Len(taken) \in Nat
  <2>1. Supplied(t)
    BY <1>3 DEF SupplyInv
  <2>2. taken \in Seq(Int)
    BY <1>3 DEF SupplyTypes, SampleInv, Booked, Account, Measuring
  <2> QED
    BY <2>1, <2>2
<1>4. CASE ClearSamples(t)
  <2>1. /\ tpc[t] = "clear" /\ tpc' = [tpc EXCEPT ![t] = "pulse"]
        /\ taken' = <<>> /\ lost' = 0 /\ UNCHANGED <<loc, echoes>>
    BY <1>4 DEF ClearSamples, ThreadTo
  <2>2. loc[t].counter = 0 /\ tpc'[t] = "pulse" /\ Len(<<>>) = 0
    BY <1>1, <2>1 DEF SupplyInv
  <2>3. Supplied(t)'
    BY <1>1, <2>1, <2>2 DEF Supplied
  <2> QED
    BY <1>1, <1>2, <2>1, <2>3, OwnerSupply DEF ThreadLabels, SamplingLabels
<1>5. CASE Pulse(t)
  <2> DEFINE n == loc[t].counter + 1
  <2>1. /\ tpc[t] = "pulse" /\ echoes' = echoes + 1 /\ loc' = [loc EXCEPT ![t].counter = n]
        /\ UNCHANGED <<taken, lost, number_of_samples, all_samples, reconfigured, panic>>
    BY <1>5 DEF Pulse, device, history
  <2>2. PICK label \in {"pulse", "collect"} :
          /\ tpc' = [tpc EXCEPT ![t] = label]
          /\ label = "collect" => ~ n < number_of_samples + 2
    BY <1>5 DEF Pulse, ThreadTo
  <2> HIDE DEF n
  <2>3. /\ \A u \in Threads : u /= t => loc'[u] = loc[u]
        /\ loc'[t].counter = n
    BY <1>1, <2>1, LocalsChange, LocalsCount
  <2>4. ASSUME ~ (reconfigured' \/ panic') PROVE Supplied(t)'
    <3>1. Supplied(t) /\ Len(taken) \in Nat
      BY <1>3, <2>1, <2>4 DEF Collecting
    <3>2. n \in Nat /\ n <= echoes' + Len(taken') + lost'
      BY <1>1, <2>1, <3>1 DEF Supplied, n
    <3>3. tpc'[t] = label
      BY <1>1, <2>2
    <3> QED
      BY <1>1, <2>1, <2>2, <2>3, <3>2, <3>3 DEF Supplied
  <2>5. label \in ThreadLabels \ {"unborn", "setup", "clear"}
    BY <2>2 DEF ThreadLabels, SamplingLabels
  <2> QED
    BY <1>1, <1>2, <2>2, <2>3, <2>4, <2>5, OwnerSupply
<1>6. CASE CollectSleep(t)
  <2>1. /\ tpc[t] = "collect" /\ tpc' = [tpc EXCEPT ![t] = "asleep"]
        /\ all_samples.sem = 0 /\ all_samples' = SleepIn(all_samples, t)
        /\ UNCHANGED <<loc, echoes, taken, lost, number_of_samples, reconfigured, panic>>
    BY <1>6 DEF CollectSleep, ThreadTo, world, history
  <2>2. all_samples.waiters = <<>>
    BY <1>1, <2>1, OwnerRuns DEF SamplingLabels
  <2>3. all_samples'.waiters = <<t>> /\ all_samples'.sem = 0
    <3>1. SleepIn(all_samples, t).sem = 0
      BY <1>1, <2>1 DEF SleepIn, IsBuffer, Fields
    <3> QED
      BY <1>1, <2>1, <2>2, <3>1, AddsWaiter
  <2>4. ASSUME ~ (reconfigured' \/ panic') PROVE Supplied(t)'
    <3>1. Supplied(t)
      BY <1>3, <2>1, <2>4 DEF Collecting
    <3> QED
      BY <2>1, <2>3, <3>1 DEF Supplied
  <2> QED
    BY <1>1, <1>2, <2>1, <2>4, OwnerSupply DEF ThreadLabels, SamplingLabels
<1>7. CASE CollectRead(t) \/ CollectWoken(t)
  <2> DEFINE y == loc[t].distance + ReadValue(all_samples).distance
             z == loc[t].i + 1
  <2>1. /\ tpc[t] \in {"collect", "woken"} /\ tpc' = [tpc EXCEPT ![t] = "collect"]
        /\ loc' = [loc EXCEPT ![t].distance = y, ![t].i = z]
        /\ UNCHANGED <<echoes, taken, lost, number_of_samples, reconfigured, panic>>
    BY <1>7 DEF CollectRead, CollectWoken, Collected, ThreadTo, world, history
  <2> HIDE DEF y, z
  <2>2. /\ \A u \in Threads : u /= t => loc'[u] = loc[u]
        /\ loc'[t].counter = loc[t].counter
    BY <1>1, <2>1, LocalsChange, LocalsCount
  <2>3. ASSUME ~ (reconfigured' \/ panic') PROVE Supplied(t)'
    <3>1. Supplied(t)
      BY <1>3, <2>1, <2>3 DEF Collecting
    <3>2. tpc'[t] = "collect"
      BY <1>1, <2>1
    <3> QED
      BY <2>1, <2>2, <3>1, <3>2 DEF Supplied
  <2> QED
    BY <1>1, <1>2, <2>1, <2>2, <2>3, OwnerSupply DEF ThreadLabels, SamplingLabels
<1> QED
  BY <1>4, <1>5, <1>6, <1>7

LEMMA ThreadSupply ==
  ASSUME SupplyTypes, SupplyInv, NEW t \in Threads, ThreadStep(t)
  PROVE  SupplyInv'
<1>1. SamplerInv /\ tpc \in [Threads -> ThreadLabels]
  BY DEF SupplyTypes, SampleTypes, SamplerInv, ThreadTypes
<1>2. CASE SetInterrupt(t)
  <2>1. /\ tpc[t] = "setup"
        /\ UNCHANGED <<loc, echoes, taken, lost, number_of_samples, all_samples,
                       reconfigured, panic>>
    BY <1>2 DEF SetInterrupt, device
  <2>2. PICK label \in {"clear", "done"} : tpc' = [tpc EXCEPT ![t] = label]
    BY <1>2 DEF SetInterrupt, ThreadTo
  <2>3. \A u \in Threads : /\ u = t \/ tpc'[u] = tpc[u]
                           /\ u = t => tpc'[u] = label
    BY <1>1, <2>2
  <2>4. \A u \in Threads : tpc'[u] \in {"unborn", "setup", "clear"} => loc'[u].counter = 0
    BY <2>1, <2>3 DEF SupplyInv
  <2>5. ~ (reconfigured' \/ panic') =>
          \A u \in Threads : tpc'[u] \in Collecting => Supplied(u)'
    BY <2>1, <2>2, <2>3 DEF SupplyInv, Supplied, Collecting
  <2> QED
    BY <2>4, <2>5 DEF SupplyInv
<1>3. CASE Finish(t)
  <2>1. /\ tpc' = [tpc EXCEPT ![t] = "done"] /\ loc' = [loc EXCEPT ![t] = NoLocals]
        /\ UNCHANGED <<echoes, taken, lost, number_of_samples, all_samples,
                       reconfigured, panic>>
    BY <1>3 DEF Finish, ThreadTo, world, history
  <2>2. LocalVars
    BY DEF SupplyTypes, SampleInv
  <2>3. \A u \in Threads : u /= t => loc'[u] = loc[u]
    BY <2>1, <2>2, LocalsChange
  <2>4. \A u \in Threads : /\ u = t \/ tpc'[u] = tpc[u]
                           /\ u = t => tpc'[u] = "done"
    BY <1>1, <2>1
  <2>5. \A u \in Threads : tpc'[u] \in {"unborn", "setup", "clear"} => loc'[u].counter = 0
    BY <2>3, <2>4 DEF SupplyInv
  <2>6. ~ (reconfigured' \/ panic') =>
          \A u \in Threads : tpc'[u] \in Collecting => Supplied(u)'
    BY <2>1, <2>3, <2>4 DEF SupplyInv, Supplied, Collecting
  <2> QED
    BY <2>5, <2>6 DEF SupplyInv
<1>4. CASE /\ ~ SetInterrupt(t) /\ ~ Finish(t)
           /\ \E locked \in BOOLEAN : Oops(t, locked)
  <2>1. tpc' = [tpc EXCEPT ![t] = "oops"] /\ loc' = loc
    BY <1>4 DEF Oops, ThreadTo
  <2>2. Sampling(t)
    BY <1>4 DEF ThreadStep, ClearSamples, Pulse, CollectEnd, CollectSleep, CollectRead,
       CollectWoken, Average, InsertResult, ReleaseIrq, Sampling, SamplingLabels
  <2> QED
    BY <1>1, <2>1, <2>2, OwnerSupply DEF ThreadLabels, SamplingLabels, Collecting
<1>5. CASE /\ CollectEnd(t) \/ Average(t) \/ InsertResult(t) \/ ReleaseIrq(t)
           /\ ~ \E locked \in BOOLEAN : Oops(t, locked)
  <2>1. Sampling(t)
    BY <1>5 DEF CollectEnd, Average, InsertResult, ReleaseIrq, Sampling, SamplingLabels
  <2>2. PICK label \in {"average", "insert", "release", "finish"} :
          tpc' = [tpc EXCEPT ![t] = label]
    BY <1>5 DEF CollectEnd, Average, InsertResult, ReleaseIrq, ThreadTo
  <2>3. \A u \in Threads : u /= t => loc'[u] = loc[u]
    <3>1. \/ loc' = loc
          \/ loc' = [loc EXCEPT ![t].distance = Quotient(@, number_of_samples)]
      BY <1>5 DEF CollectEnd, Average, InsertResult, ReleaseIrq
    <3>2. LocalVars
      BY DEF SupplyTypes, SampleInv
    <3> QED
      BY <3>1, <3>2, LocalsChange
  <2> QED
    BY <1>1, <2>1, <2>2, <2>3, OwnerSupply DEF ThreadLabels, SamplingLabels, Collecting
<1> QED
  BY <1>2, <1>3, <1>4, <1>5, CollectorSupply DEF ThreadStep

LEMMA EchoSupply ==
  ASSUME SupplyTypes, SupplyInv, Echo
  PROVE  SupplyInv'
<1>1. /\ SamplerInv /\ tpc \in [Threads -> ThreadLabels] /\ LocalVars
      /\ number_of_samples \in Int /\ echoes \in Nat /\ lost \in Nat
  BY DeviceAssumption DEF SupplyTypes, SampleTypes, SampleInv, SamplerInv, ThreadTypes
<1>2. UNCHANGED <<loc, number_of_samples, reconfigured>>
  BY DEF Echo, EchoSample, EchoUnheard, EchoLost, device, threads, history
<1>3. \A t \in WokenBy(all_samples) : t = irq_owner /\ tpc[t] = "asleep"
  BY <1>1 DEF SamplerInv, WaitList, WokenBy
<1>4. \/ tpc' = tpc
      \/ tpc' = [t \in Threads |-> IF t \in WokenBy(all_samples)
                                     THEN "woken" ELSE tpc[t]]
  BY DEF Echo, EchoSample, EchoUnheard, EchoLost, threads
<1>5. \A t \in Threads : tpc'[t] \in {"unborn", "setup", "clear"} => loc'[t].counter = 0
  BY <1>2, <1>4 DEF SupplyInv
<1>6. ASSUME ~ (reconfigured' \/ panic'), NEW t \in Threads, tpc'[t] \in Collecting
      PROVE  Supplied(t)'
  <2>1. tpc[t] \in Collecting /\ t = irq_owner
    <3>1. tpc[t] \in Collecting
      BY <1>3, <1>4, <1>6 DEF Collecting
    <3> QED
      BY <1>1, <3>1 DEF SamplerInv, OneSampler, Sampling, SamplingLabels, Collecting
  <2>2. ~ reconfigured /\ ~ panic
    <3>1. panic' = panic \/ panic' = TRUE
      BY DEF Echo, EchoSample, EchoUnheard, EchoLost
    <3> QED
      BY <1>2, <1>6, <3>1
  <2>3. Supplied(t) /\ taken \in Seq(Int)
    <3>1. Booked(t)
      BY <2>1, <2>2 DEF SupplyTypes, SampleInv, Measuring
    <3> QED
      BY <2>1, <2>2, <3>1 DEF SupplyInv, Booked, Account
  <2>4. Len(taken) \in Nat
    BY <2>3
  <2>5. CASE EchoUnheard
    BY <1>1, <2>1, <2>5, ThreadAssumption DEF EchoUnheard
  <2>6. CASE EchoLost
    <3>1. /\ echoes' = echoes - 1 /\ lost' = lost + 1
          /\ UNCHANGED <<taken, all_samples, tpc>>
      BY <2>6 DEF EchoLost, device, threads, history
    <3> QED
      BY <1>1, <1>2, <2>3, <2>4, <3>1 DEF Supplied
  <2>7. ASSUME NEW d \in Distances, EchoSample(d) PROVE Supplied(t)'
    <3>1. /\ echoes' = echoes - 1 /\ lost' = lost /\ taken' = Append(taken, d)
          /\ tpc' = [u \in Threads |-> IF u \in WokenBy(all_samples)
                                         THEN "woken" ELSE tpc[u]]
      BY <1>6, <2>7 DEF EchoSample
    <3>2. Len(taken') = Len(taken) + 1
      BY <2>3, <3>1
    <3>3. tpc'[t] /= "asleep"
      <4>1. CASE tpc[t] = "asleep"
        <5>1. all_samples.waiters = <<t>>
          BY <2>3, <4>1 DEF Supplied
        <5>2. t \in WokenBy(all_samples)
          BY <5>1 DEF WokenBy
        <5> QED
          BY <3>1, <5>2
      <4> QED
        BY <3>1, <4>1
    <3>4. loc'[t].counter <= echoes' + Len(taken') + lost'
      BY <1>1, <1>2, <2>3, <2>4, <3>1, <3>2 DEF Supplied
    <3>5. tpc'[t] /= "pulse" => tpc[t] /= "pulse"
      BY <1>3, <3>1
    <3> QED
      BY <1>2, <2>3, <3>3, <3>4, <3>5 DEF Supplied
  <2> QED
    BY <2>5, <2>6, <2>7 DEF Echo
<1> QED
  BY <1>5, <1>6 DEF SupplyInv

LEMMA NextSupply ==
  ASSUME SupplyTypes, SupplyInv, [Next]_vars
  PROVE  SupplyInv'
<1>1. CASE UNCHANGED vars
  <2>1. UNCHANGED supply
    BY <1>1 DEF vars, supply, device, world, threads, history
  <2> QED
    BY <2>1, SupplyUntouched
<1>2. CASE Next
  BY <1>2, ClientSupply, ThreadSupply, EchoSupply DEF Next
<1> QED
  BY <1>1, <1>2

\* All that a thread which serves the flag needs to go on.
GoingInv == SampleInv /\ LockInv /\ SupplyInv

LEMMA GoesOn ==
  ASSUME SupplyTypes, BusyInv, GoingInv
  PROVE  BusyIsServed
<1> SUFFICES ASSUME is_in_progress,
                    ~ (failed \/ panic \/ reconfigured \/ lost > 2 \/ Stuck),
                    ~ \E c \in Clients : cpc[c] = "spawn"
             PROVE  \E t \in Threads : CanGoOn(t)
  BY DEF BusyIsServed
<1>1. PICK s \in Threads : Live(s)
  BY DEF BusyInv, Served
<1>2. /\ tpc \in [Threads -> ThreadLabels] /\ OneSampler
      /\ irq_owner \in Threads \cup {NoOne}
  BY DEF BusyInv, SamplerInv, ThreadTypes
<1>3. Unlocked(buffer) /\ Unlocked(all_samples)
  BY DEF GoingInv, LockInv, Stuck, Unlocked
<1>4. CASE ~ Sampling(s) /\ (tpc[s] /= "setup" \/ irq_owner = NoOne)
  <2>1. CanGoOn(s)
    BY <1>1, <1>4 DEF Live, CanGoOn
  <2> QED
    BY <2>1
<1>5. CASE Sampling(s) \/ (tpc[s] = "setup" /\ irq_owner /= NoOne)
  <2>1. PICK t \in Threads : Sampling(t)
    BY <1>2, <1>5 DEF OneSampler
  <2>2. tpc[t] /= "oops"
    BY DEF GoingInv, LockInv
  <2>3. CASE tpc[t] /= "asleep"
    <3>1. CanGoOn(t)
      BY <1>3, <2>1, <2>2, <2>3 DEF CanGoOn, Sampling, SamplingLabels
    <3> QED
      BY <3>1
  <2>4. CASE tpc[t] = "asleep"
    <3>1. Supplied(t) /\ Booked(t)
      BY <2>4 DEF GoingInv, SupplyInv, SampleInv, Collecting, Measuring
    <3>2. /\ all_samples.waiters = <<t>> /\ all_samples.sem = 0
          /\ loc[t].counter >= number_of_samples + 2
          /\ loc[t].counter <= echoes + Len(taken) + lost
          /\ loc[t].counter \in Nat
      BY <2>4, <3>1 DEF Supplied
    <3>3. /\ taken \in Seq(Int) /\ loc[t].i \in Nat
          /\ Len(taken) = all_samples.sem + (loc[t].i - 1) + 0
          /\ loc[t].i - 1 < number_of_samples
      BY <2>4, <3>1 DEF Booked, Account, Counted, Got, Collecting
    <3>4. /\ number_of_samples \in Int /\ echoes \in Nat /\ lost \in Nat
          /\ Len(taken) \in Nat
      BY <3>3, DeviceAssumption DEF SupplyTypes, SampleTypes
    <3>5. echoes > 0
      BY <3>2, <3>3, <3>4
    <3>6. t \in WokenBy(all_samples)
      BY <3>2 DEF WokenBy
    <3>7. CanGoOn(t)
      BY <1>3, <2>4, <3>5, <3>6 DEF CanGoOn
    <3> QED
      BY <3>7
  <2> QED
    BY <2>3, <2>4
<1> QED
  BY <1>4, <1>5

LEMMA InitGoing == Init \/ ConfiguredInit => GoingInv
<1> SUFFICES ASSUME Init \/ ConfiguredInit PROVE LockInv /\ SupplyInv
  BY InitSample DEF GoingInv
<1>1. PICK n, samples : Unused(n, samples) /\ samples.lock = NoOne
  <2>1. CASE Init
    BY <2>1 DEF Init, Zeroed
  <2>2. CASE ConfiguredInit
    <3>1. PICK n \in NumSamples : Unused(n, alloc_buffer(Zeroed, Cells(n + 2)))
      BY <2>2 DEF ConfiguredInit
    <3>2. alloc_buffer(Zeroed, Cells(n + 2)).lock = NoOne
      BY DEF alloc_buffer, Zeroed
    <3> QED
      BY <3>1, <3>2
  <2> QED
    BY <2>1, <2>2
<1> QED
  BY <1>1, InitLocks, InitSupply

\* As long as is_in_progress is set some thread can go on, or a program is about
\* to start one: for any number of programs and threads, every parameter and both
\* kernel builds, however the echoes come, as long as no more than the two that
\* are to spare get lost.
THEOREM FlagIsServed ==
  (Spec => []BusyIsServed) /\ (OperatingSpec => []BusyIsServed)
<1> DEFINE Inv == TypeInv /\ BusyInv /\ GoingInv
<1>1. Inv => SupplyTypes
  BY TypesOfSamples, DeviceAssumption
     DEF SupplyTypes, GoingInv, TypeInv, RingsInv
<1>2. Init \/ ConfiguredInit => Inv
  BY InitType, InitBusy, InitGoing
<1>3. Inv /\ [Next]_vars => Inv'
  <2> SUFFICES ASSUME Inv, [Next]_vars PROVE Inv'
    OBVIOUS
  <2>1. SampleTypes /\ ReaderInv /\ SamplerInv
    BY <1>1 DEF SupplyTypes, BusyInv
  <2>2. GoingInv'
    BY <1>1, <2>1, NextSamples, NextLocks, NextSupply DEF GoingInv
  <2> QED
    BY <2>2, NextType, NextBusy
<1>4. Inv => BusyIsServed
  BY <1>1, GoesOn
<1> HIDE DEF Inv
<1>5. Spec => []BusyIsServed
  BY <1>2, <1>3, <1>4, PTL DEF Spec
<1>6. OperatingSpec => []BusyIsServed
  BY <1>2, <1>3, <1>4, OperatingIsNext, PTL DEF OperatingSpec
<1> QED
  BY <1>5, <1>6


-----------------------------------------------------------------------------
(* One program.  It starts a measurement only when no other is under way, and *)
(* empties the buffer first: there is never more than one result to read.     *)

SoleClient == \A c, d \in Clients : c = d

\* At most one thread at work, and only while the flag is set and nobody starts.
CourseInv ==
  /\ \A s, t \in Threads : Live(s) /\ Live(t) => s = t
  /\ (\E t \in Threads : Live(t)) =>
        is_in_progress /\ \A c \in Clients : cpc[c] \notin {"clear", "mark", "spawn"}
  /\ \A c \in Clients : cpc[c] \in {"clear", "mark"} => ~ is_in_progress
  /\ \A c \in Clients : cpc[c] = "spawn" => is_in_progress

Woken(p) == IF \E c \in Clients : p[c] = "woken" THEN 1 ELSE 0

\* At most one result in the ring, and that in its first element.
OneResult(b, p) ==
  /\ b.result = [j \in 0 .. MAX_BUFF_SIZE - 1 |-> b.result[j]]
  /\ b.sem \in Nat /\ b.sem + Woken(p) <= 1
  /\ b.sem + Woken(p) = 1 => b.head = 0

Empty(b, p) == b.sem = 0 /\ Woken(p) = 0 /\ b.head = 0 /\ b.tail = 0

ResultInv ==
  /\ OneResult(buffer, cpc)
  /\ Phase = "sampling" => Empty(buffer, cpc)
  /\ delivered \in Seq({delivered[i] : i \in DOMAIN delivered})

SoleInv == CourseInv /\ ResultInv

\* What Measurement sees of delivered.
Shown == [i \in DOMAIN delivered |-> delivered[i].timestamp]

ReadyOf(b, p) ==
  [i \in 1 .. b.sem + Cardinality({c \in Clients : p[c] = "woken"}) |->
     b.result[(b.head + i - 1) % MAX_BUFF_SIZE].timestamp]

OneOrNone(b, p) ==
  IF b.sem + Woken(p) = 0 THEN <<>> ELSE <<b.result[0].timestamp>>

LEMMA ReadyIs ==
  ASSUME SoleClient, NEW b, NEW p, OneResult(b, p)
  PROVE  ReadyOf(b, p) = OneOrNone(b, p)
<1> DEFINE w == {c \in Clients : p[c] = "woken"}
           k == b.sem + Woken(p)
<1>1. Cardinality(w) = Woken(p)
  <2>1. CASE \E c \in Clients : p[c] = "woken"
    <3>1. PICK c \in Clients : p[c] = "woken"
      BY <2>1
    <3>2. w = {c}
      BY <3>1 DEF SoleClient
    <3> HIDE DEF w
    <3> QED
      BY <2>1, <3>2, FS_Singleton DEF Woken
  <2>2. CASE ~ \E c \in Clients : p[c] = "woken"
    <3>1. w = {}
      BY <2>2
    <3> HIDE DEF w
    <3> QED
      BY <2>2, <3>1, FS_EmptySet DEF Woken
  <2> QED
    BY <2>1, <2>2
<1>2. ReadyOf(b, p) = [i \in 1 .. k |-> b.result[(b.head + i - 1) % MAX_BUFF_SIZE].timestamp]
  BY <1>1 DEF ReadyOf
<1>3. k \in Nat /\ k <= 1 /\ (k = 1 => b.head = 0)
  BY DEF OneResult, Woken
<1> HIDE DEF k
<1>4. CASE k = 0
  BY <1>2, <1>4 DEF k, OneOrNone
<1>5. CASE k = 1
  <2>1. \A i \in 1 .. 1 : (b.head + i - 1) % MAX_BUFF_SIZE = 0
    BY <1>3, <1>5, DeviceAssumption
  <2>2. [i \in 1 .. 1 |-> b.result[(b.head + i - 1) % MAX_BUFF_SIZE].timestamp]
          = [i \in 1 .. 1 |-> b.result[0].timestamp]
    BY <2>1
  <2>3. [i \in 1 .. 1 |-> b.result[0].timestamp] = <<b.result[0].timestamp>>
    OBVIOUS
  <2> QED
    BY <1>2, <1>5, <2>2, <2>3 DEF k, OneOrNone
<1> QED
  BY <1>3, <1>4, <1>5

LEMMA FunctionIsSeq ==
  ASSUME NEW S, NEW n \in Nat, NEW f \in [1 .. n -> S]
  PROVE  f \in Seq(S) /\ Len(f) = n
<1>1. f \in Seq(S)
  BY SeqDef
<1>2. DOMAIN f = 1 .. Len(f) /\ Len(f) \in Nat
  BY <1>1, LenProperties
<1> QED
  BY <1>1, <1>2

LEMMA AppendShows ==
  ASSUME NEW s, s \in Seq({s[i] : i \in DOMAIN s}), NEW e
  PROVE  LET a == Append(s, e) IN
         /\ a \in Seq({a[i] : i \in DOMAIN a})
         /\ [i \in DOMAIN a |-> a[i].timestamp]
              = Append([i \in DOMAIN s |-> s[i].timestamp], e.timestamp)
<1> DEFINE a == Append(s, e)
           r == {s[i] : i \in DOMAIN s} \cup {e}
           n == Len(s)
<1>1. s \in Seq(r) /\ e \in r
  BY SeqMonotonic
<1> HIDE DEF r
<1>2. /\ n \in Nat /\ DOMAIN s = 1 .. n /\ DOMAIN a = 1 .. n + 1
      /\ a[n + 1] = e /\ \A i \in 1 .. n : a[i] = s[i]
      /\ a = [i \in 1 .. n + 1 |-> a[i]]
  <2>1. a \in Seq(r) /\ Len(a) = n + 1
    BY <1>1, AppendProperties
  <2>2. n \in Nat /\ DOMAIN s = 1 .. n
    BY <1>1, LenProperties
  <2>3. DOMAIN a = 1 .. n + 1 /\ a \in [1 .. n + 1 -> r]
    BY <2>1, LenProperties
  <2>4. a[n + 1] = e /\ \A i \in 1 .. n : a[i] = s[i]
    BY <1>1, AppendProperties
  <2> HIDE DEF a, n
  <2> QED
    BY <2>2, <2>3, <2>4
<1> HIDE DEF a, n
<1>3. a \in Seq({a[i] : i \in DOMAIN a})
  <2>1. \A i \in 1 .. n + 1 : a[i] \in {a[j] : j \in DOMAIN a}
    BY <1>2
  <2>2. n + 1 \in Nat /\ a \in [1 .. n + 1 -> {a[j] : j \in DOMAIN a}]
    BY <1>2, <2>1
  <2> QED
    BY <2>2, FunctionIsSeq
<1> DEFINE x == [i \in DOMAIN s |-> s[i].timestamp]
           y == Append(x, e.timestamp)
           z == [i \in DOMAIN a |-> a[i].timestamp]
           q == {s[i].timestamp : i \in DOMAIN s} \cup {e.timestamp}
<1>4. x \in Seq(q) /\ Len(x) = n /\ e.timestamp \in q
  <2>1. x \in [1 .. n -> q]
    BY <1>2
  <2> HIDE DEF x
  <2> QED
    BY <1>2, <2>1, FunctionIsSeq
<1>5. \A i \in 1 .. n : x[i] = s[i].timestamp
  BY <1>2
<1> HIDE DEF x, q
<1>6. /\ y \in Seq(q) /\ DOMAIN y = 1 .. n + 1 /\ y[n + 1] = e.timestamp
      /\ \A i \in 1 .. n : y[i] = x[i]
      /\ y = [i \in 1 .. n + 1 |-> y[i]]
  <2>1. y \in Seq(q) /\ Len(y) = n + 1
    BY <1>4, AppendProperties
  <2>2. DOMAIN y = 1 .. n + 1 /\ y \in [1 .. n + 1 -> q]
    BY <2>1, LenProperties
  <2>3. y[n + 1] = e.timestamp /\ \A i \in 1 .. n : y[i] = x[i]
    BY <1>4, AppendProperties
  <2> HIDE DEF y
  <2> QED
    BY <2>1, <2>2, <2>3
<1> HIDE DEF y
<1>7. \A i \in 1 .. n + 1 : z[i] = y[i]
  <2> SUFFICES ASSUME NEW i \in 1 .. n + 1 PROVE z[i] = y[i]
    OBVIOUS
  <2>1. CASE i = n + 1
    BY <1>2, <1>6, <2>1
  <2>2. CASE i /= n + 1
    <3>1. i \in 1 .. n
      BY <1>2, <2>2
    <3> QED
      BY <1>2, <1>5, <1>6, <3>1
  <2> QED
    BY <2>1, <2>2
<1>8. z = y
  BY <1>2, <1>6, <1>7
<1> QED
  BY <1>3, <1>8 DEF a, x, y


LEMMA ReadyBoth ==
  ASSUME SoleClient, OneResult(buffer, cpc), OneResult(buffer', cpc')
  PROVE  Ready = OneOrNone(buffer, cpc) /\ Ready' = OneOrNone(buffer', cpc')
<1>1. Ready = ReadyOf(buffer, cpc)
  BY DEF Ready, ReadyOf
<1>2. Ready' = ReadyOf(buffer', cpc')
  BY DEF Ready, ReadyOf
<1> QED
  BY <1>1, <1>2, ReadyIs

LEMMA InitSole == Init \/ ConfiguredInit =>
  SoleInv /\ (SoleClient => Phase = "idle" /\ Ready = <<>> /\ Shown = <<>>)
<1> SUFFICES ASSUME Init \/ ConfiguredInit
             PROVE  SoleInv /\ (SoleClient => Phase = "idle" /\ Ready = <<>> /\ Shown = <<>>)
  OBVIOUS
<1>1. PICK n, s : Unused(n, s)
  BY InitUnused
<1>2. /\ cpc = [c \in Clients |-> "idle"] /\ tpc = [t \in Threads |-> "unborn"]
      /\ is_in_progress = FALSE /\ delivered = <<>>
      /\ buffer = init_buffer(alloc_buffer(Zeroed, Cells(MAX_BUFF_SIZE)), MAX_BUFF_SIZE)
  BY <1>1 DEF Unused
<1>3. CourseInv
  BY <1>2 DEF CourseInv, Live, Sampling, SamplingLabels
<1>4. Woken(cpc) = 0
  BY <1>2 DEF Woken
<1>5. Stocked(buffer, {}, MAX_BUFF_SIZE)
  BY <1>2, NewStocked, DeviceAssumption
<1>6. buffer.sem = 0 /\ buffer.head = 0
  <2> DEFINE a == alloc_buffer(Zeroed, Cells(MAX_BUFF_SIZE))
  <2>1. IsBuffer(a) /\ buffer = init_buffer(a, MAX_BUFF_SIZE)
    BY <1>2, NewBuffer
  <2> HIDE DEF a
  <2> QED
    BY <2>1 DEF init_buffer, SemaInit, IsBuffer, Fields
<1>7. OneResult(buffer, cpc)
  BY <1>4, <1>5, <1>6 DEF OneResult, Stocked
<1>8. Phase = "idle"
  BY <1>2 DEF Phase
<1>9. delivered \in Seq({delivered[i] : i \in DOMAIN delivered}) /\ Shown = <<>>
  BY <1>2 DEF Shown
<1>10. SoleClient => Ready = <<>>
  <2>1. Ready = ReadyOf(buffer, cpc)
    BY DEF Ready, ReadyOf
  <2> QED
    BY <1>4, <1>6, <1>7, <2>1, ReadyIs DEF OneOrNone
<1> QED
  BY <1>3, <1>7, <1>8, <1>9, <1>10 DEF SoleInv, ResultInv

\* A step of the program that has to do neither with the buffer nor with starting.
LEMMA QuietStep ==
  ASSUME SoleClient, TypeInv, SoleInv, NEW c \in Clients, NEW label,
         cpc' = [cpc EXCEPT ![c] = label],
         cpc[c] \notin {"mark", "spawn", "woken"}, label \notin {"mark", "spawn", "woken"},
         label = "clear" => ~ is_in_progress,
         UNCHANGED <<buffer, is_in_progress, tpc, delivered>>
  PROVE  SoleInv' /\ UNCHANGED <<Phase, Ready, Shown>>
<1>1. cpc \in [Clients -> ClientLabels]
  BY DEF TypeInv, ReaderInv, ReaderTypes
<1>2. cpc'[c] = label /\ \A d \in Clients : d = c
  BY <1>1 DEF SoleClient
<1>3. CourseInv'
  BY <1>2 DEF SoleInv, CourseInv, Live, Sampling
<1>4. Phase' = Phase
  BY <1>2 DEF Phase
<1>5. Woken(cpc) = 0 /\ Woken(cpc') = 0
  BY <1>2 DEF Woken
<1>6. OneResult(buffer, cpc) /\ OneResult(buffer', cpc')
  BY <1>5 DEF SoleInv, ResultInv, OneResult
<1>7. Ready' = Ready
  BY <1>5, <1>6, ReadyBoth DEF OneOrNone
<1>8. ResultInv'
  <2>1. OneResult(buffer, cpc)'
    BY <1>6 DEF OneResult, Woken
  <2>2. Phase' = "sampling" => Empty(buffer, cpc)'
    BY <1>2, <1>4, <1>5 DEF SoleInv, ResultInv, Empty, Woken
  <2> QED
    BY <2>1, <2>2 DEF SoleInv, ResultInv
<1> QED
  BY <1>3, <1>4, <1>7, <1>8 DEF SoleInv, Shown

\* What clear_buffer, read_fifo and insert_buffer make of such a ring.
LEMMA ClearedRing ==
  ASSUME TypeInv, OneResult(buffer, cpc), NEW p, Woken(p) = 0, NEW bytes
  PROVE  /\ OneResult(clear_buffer(buffer, bytes), p)
         /\ Empty(clear_buffer(buffer, bytes), p)
<1> DEFINE c == clear_buffer(buffer, bytes)
           r == [buffer.result EXCEPT ![0] = Stampless(buffer.result[0])]
<1>1. /\ c.head = 0 /\ c.tail = 0 /\ c.sem = 0
      /\ c.result = IF bytes = 0 THEN buffer.result ELSE r
  BY DEF clear_buffer, SemaInit, TypeInv, ReaderInv, ReaderTypes, IsBuffer, Fields
<1>2. r = [j \in 0 .. MAX_BUFF_SIZE - 1 |-> r[j]]
  BY DEF OneResult
<1> HIDE DEF c, r
<1>3. c.result = [j \in 0 .. MAX_BUFF_SIZE - 1 |-> c.result[j]]
  BY <1>1, <1>2 DEF OneResult
<1>4. c.sem \in Nat /\ c.sem + Woken(p) <= 1
  BY <1>1
<1>5. OneResult(c, p) /\ Empty(c, p)
  BY <1>1, <1>3, <1>4 DEF OneResult, Empty
<1> QED
  BY <1>5 DEF c

LEMMA FilledRing ==
  ASSUME TypeInv, OneResult(buffer, cpc), Empty(buffer, cpc), NEW p, NEW d,
         Woken(p) = IF buffer.waiters = <<>> THEN 0 ELSE 1
  PROVE  LET c == insert_buffer(buffer, d) IN
         OneResult(c, p) /\ OneOrNone(c, p) = <<d.timestamp>>
<1> DEFINE c == insert_buffer(buffer, d)
<1>1. InRing(buffer, MAX_BUFF_SIZE) /\ MAX_BUFF_SIZE \in Nat \ {0}
  BY DeviceAssumption DEF TypeInv, RingsInv
<1>2. InsertIndex(buffer) = 0
  BY <1>1 DEF Empty, InsertIndex, InRing
<1>3. /\ c.result = [buffer.result EXCEPT ![0] = d] /\ c.head = 0
      /\ buffer.waiters = <<>> => c.sem = 1
  BY <1>1, <1>2, InsertMoves DEF InRing, Empty
<1>4. buffer.waiters /= <<>> => c.sem = 0
  BY <1>1 DEF insert_buffer, Up, InRing, IsBuffer, Fields, Empty
<1> HIDE DEF c
<1>5. /\ c.result = [j \in 0 .. MAX_BUFF_SIZE - 1 |-> c.result[j]] /\ c.result[0] = d
  BY <1>1, <1>3 DEF OneResult
<1>6. c.sem + Woken(p) = 1 /\ c.sem \in Nat
  BY <1>3, <1>4
<1>7. OneResult(c, p) /\ OneOrNone(c, p) = <<d.timestamp>>
  <2>1. c.sem + Woken(p) <= 1 /\ c.sem + Woken(p) /= 0
    BY <1>6
  <2>2. OneResult(c, p)
    BY <1>3, <1>5, <1>6, <2>1 DEF OneResult
  <2>3. OneOrNone(c, p) = <<c.result[0].timestamp>>
    BY <2>1 DEF OneOrNone
  <2> QED
    BY <1>5, <2>2, <2>3
<1> QED
  BY <1>7 DEF c


\* The program starts a measurement.
LEMMA ClearIsStart ==
  ASSUME SoleClient, TypeInv, SoleInv, NEW c \in Clients, StartClear(c)
  PROVE  SoleInv' /\ Promise!Start
<1>1. /\ cpc[c] = "clear" /\ cpc' = [cpc EXCEPT ![c] = "mark"]
      /\ buffer' = clear_buffer(buffer, MAX_BUFF_SIZE)
      /\ UNCHANGED <<is_in_progress, tpc, delivered>>
  BY DEF StartClear, ClientTo, threads, history
<1>2. cpc'[c] = "mark" /\ \A d \in Clients : d = c
  BY <1>1 DEF SoleClient, TypeInv, ReaderInv, ReaderTypes
<1>3. ~ is_in_progress /\ \A t \in Threads : ~ Live(t)
  BY <1>1 DEF SoleInv, CourseInv
<1>4. CourseInv'
  BY <1>1, <1>2, <1>3 DEF CourseInv, Live, Sampling
<1>5. Phase = "idle" /\ Phase' = "sampling"
  BY <1>1, <1>2, <1>3 DEF Phase, Live, Sampling, SamplingLabels
<1>6. Woken(cpc') = 0
  BY <1>2 DEF Woken
<1>7. OneResult(buffer', cpc') /\ Empty(buffer', cpc')
  BY <1>1, <1>6, ClearedRing DEF SoleInv, ResultInv
<1>8. Ready' = <<>>
  BY <1>7, ReadyBoth DEF SoleInv, ResultInv, Empty, OneOrNone
<1>9. ResultInv'
  BY <1>1, <1>7 DEF SoleInv, ResultInv, OneResult, Empty, Woken
<1> QED
  BY <1>1, <1>4, <1>5, <1>8, <1>9 DEF SoleInv, Promise!Start, Shown

\* The rest of the start: what Measurement sees does not change.
LEMMA StartGoesOn ==
  ASSUME SoleClient, TypeInv, SoleInv, NEW c \in Clients,
         StartMark(c) \/ StartSpawn(c) \/ SpawnFails(c)
  PROVE  SoleInv' /\ UNCHANGED <<Phase, Ready, Shown>>
<1>0. /\ cpc \in [Clients -> ClientLabels] /\ tpc \in [Threads -> ThreadLabels]
      /\ \A d \in Clients : d = c
  BY DEF SoleClient, TypeInv, ReaderInv, ReaderTypes, SamplerInv, ThreadTypes
<1>1. /\ cpc[c] \in {"mark", "spawn"} /\ UNCHANGED <<buffer, delivered>>
      /\ is_in_progress'
      /\ \/ cpc[c] = "mark" /\ cpc' = [cpc EXCEPT ![c] = "spawn"] /\ tpc' = tpc
         \/ cpc[c] = "spawn" /\ cpc' = [cpc EXCEPT ![c] = "idle"]
  <2>1. CASE StartMark(c)
    BY <2>1 DEF StartMark, ClientTo, threads, history
  <2>2. CASE StartSpawn(c) \/ SpawnFails(c)
    <3>1. /\ cpc[c] = "spawn" /\ cpc' = [cpc EXCEPT ![c] = "idle"]
          /\ UNCHANGED <<buffer, delivered, is_in_progress>>
      BY <2>2 DEF StartSpawn, SpawnFails, ClientTo, device, history
    <3>2. is_in_progress
      BY <3>1 DEF SoleInv, CourseInv
    <3> QED
      BY <3>1, <3>2
  <2> QED
    BY <2>1, <2>2
<1>2. tpc' = tpc \/ \E t \in Threads : tpc' = [tpc EXCEPT ![t] = "setup"]
  BY DEF StartMark, StartSpawn, SpawnFails, ThreadTo, threads
<1>3. \A t \in Threads : ~ Live(t)
  BY <1>1 DEF SoleInv, CourseInv
<1>4. CourseInv'
  BY <1>0, <1>1, <1>2, <1>3 DEF CourseInv, Live, Sampling, SamplingLabels
<1>5. Phase = "sampling" /\ Phase' = "sampling"
  <2>1. \A t \in Threads : tpc[t] \notin {"release", "finish"}
    BY <1>3 DEF Live, Sampling, SamplingLabels
  <2>2. \A t \in Threads : tpc'[t] \notin {"release", "finish"}
    BY <1>0, <1>2, <2>1
  <2> QED
    BY <1>1, <2>1, <2>2 DEF Phase
<1>6. Woken(cpc) = 0 /\ Woken(cpc') = 0
  BY <1>0, <1>1 DEF Woken
<1>7. OneResult(buffer, cpc) /\ OneResult(buffer', cpc') /\ Empty(buffer', cpc')
  BY <1>1, <1>5, <1>6 DEF SoleInv, ResultInv, OneResult, Empty
<1>8. Ready' = Ready
  BY <1>1, <1>6, <1>7, ReadyBoth DEF OneOrNone
<1>9. ResultInv'
  BY <1>1, <1>7 DEF SoleInv, ResultInv, OneResult, Empty, Woken
<1> QED
  BY <1>1, <1>4, <1>5, <1>8, <1>9 DEF SoleInv, Shown

LEMMA SleepIsNothing ==
  ASSUME SoleClient, TypeInv, SoleInv, NEW c \in Clients, ReadSleep(c)
  PROVE  SoleInv' /\ UNCHANGED <<Phase, Ready, Shown>>
<1>1. /\ cpc[c] = "lock" /\ cpc' = [cpc EXCEPT ![c] = "asleep"]
      /\ buffer' = SleepIn(buffer, c)
      /\ UNCHANGED <<is_in_progress, tpc, delivered>>
  BY DEF ReadSleep, ClientTo, threads, history
<1>2. cpc'[c] = "asleep" /\ \A d \in Clients : d = c
  BY <1>1 DEF SoleClient, TypeInv, ReaderInv, ReaderTypes
<1>3. CourseInv'
  BY <1>1, <1>2 DEF SoleInv, CourseInv, Live, Sampling
<1>4. Phase' = Phase
  BY <1>1, <1>2 DEF Phase
<1>5. Woken(cpc) = 0 /\ Woken(cpc') = 0
  BY <1>1, <1>2 DEF Woken
<1>6. /\ buffer'.sem = buffer.sem /\ buffer'.head = buffer.head
      /\ buffer'.tail = buffer.tail /\ buffer'.result = buffer.result
  BY <1>1 DEF SleepIn, TypeInv, ReaderInv, ReaderTypes, IsBuffer, Fields
<1>7. OneResult(buffer, cpc) /\ OneResult(buffer', cpc')
  BY <1>5, <1>6 DEF SoleInv, ResultInv, OneResult
<1>8. Ready' = Ready
  BY <1>5, <1>6, <1>7, ReadyBoth DEF OneOrNone
<1>9. Phase' = "sampling" => Empty(buffer', cpc')
  BY <1>4, <1>5, <1>6 DEF SoleInv, ResultInv, Empty
<1>10. ResultInv'
  BY <1>1, <1>7, <1>9 DEF SoleInv, ResultInv, OneResult, Empty, Woken
<1> QED
  BY <1>1, <1>3, <1>4, <1>8, <1>10 DEF SoleInv, Shown

LEMMA ReadDelivers ==
  ASSUME SoleClient, TypeInv, SoleInv, NEW c \in Clients, ReadFifo(c) \/ ReadWoken(c)
  PROVE  SoleInv' /\ Promise!Deliver
<1>0. cpc \in [Clients -> ClientLabels] /\ IsBuffer(buffer)
  BY DEF TypeInv, ReaderInv, ReaderTypes
<1>1. /\ cpc' = [cpc EXCEPT ![c] = "idle"]
      /\ delivered' = Append(delivered, ReadValue(buffer))
      /\ UNCHANGED <<is_in_progress, tpc>>
      /\ \/ cpc[c] = "lock" /\ buffer.sem > 0 /\ buffer' = ReadNow(buffer)
         \/ cpc[c] = "woken" /\ buffer' = AfterRead(buffer)
  BY DEF ReadFifo, ReadWoken, Deliver, ClientTo, threads
<1>2. cpc'[c] = "idle" /\ \A d \in Clients : d = c
  BY <1>0, <1>1 DEF SoleClient
<1>3. CourseInv'
  BY <1>1, <1>2 DEF SoleInv, CourseInv, Live, Sampling
<1>4. Phase' = Phase
  BY <1>1, <1>2 DEF Phase
<1>5. OneResult(buffer, cpc)
  BY DEF SoleInv, ResultInv
<1>6. /\ buffer.sem + Woken(cpc) = 1 /\ buffer.head = 0
      /\ buffer'.sem = 0 /\ buffer'.result = buffer.result
  <2>1. CASE cpc[c] = "lock" /\ buffer.sem > 0 /\ buffer' = ReadNow(buffer)
    <3>1. Woken(cpc) = 0
      BY <1>2, <2>1 DEF Woken
    <3>2. buffer.sem = 1
      BY <1>5, <2>1, <3>1 DEF OneResult
    <3>3. buffer'.sem = buffer.sem - 1 /\ buffer'.result = buffer.result
      BY <1>0, <2>1, ReadMoves
    <3> QED
      BY <1>5, <3>1, <3>2, <3>3 DEF OneResult
  <2>2. CASE cpc[c] = "woken" /\ buffer' = AfterRead(buffer)
    <3>1. Woken(cpc) = 1
      BY <2>2 DEF Woken
    <3>2. buffer.sem = 0
      BY <1>5, <3>1 DEF OneResult
    <3>3. buffer'.sem = buffer.sem /\ buffer'.result = buffer.result
      BY <1>0, <2>2 DEF AfterRead, IsBuffer, Fields
    <3> QED
      BY <1>5, <3>1, <3>2, <3>3 DEF OneResult
  <2> QED
    BY <1>1, <2>1, <2>2
<1>7. Woken(cpc') = 0
  BY <1>2 DEF Woken
<1>8. OneResult(buffer', cpc')
  BY <1>5, <1>6, <1>7 DEF OneResult
<1>9. Ready = <<buffer.result[0].timestamp>> /\ Ready' = <<>>
  BY <1>5, <1>6, <1>7, <1>8, ReadyBoth DEF OneOrNone
<1>10. Phase' /= "sampling"
  <2>1. ~ Empty(buffer, cpc)
    BY <1>6 DEF Empty
  <2> QED
    BY <1>4, <2>1 DEF SoleInv, ResultInv
<1>11. /\ delivered' \in Seq({delivered'[i] : i \in DOMAIN delivered'})
       /\ Shown' = Append(Shown, ReadValue(buffer).timestamp)
  <2>1. delivered \in Seq({delivered[i] : i \in DOMAIN delivered})
    BY DEF SoleInv, ResultInv
  <2> DEFINE a == Append(delivered, ReadValue(buffer))
  <2>2. /\ a \in Seq({a[i] : i \in DOMAIN a})
        /\ [i \in DOMAIN a |-> a[i].timestamp]
             = Append(Shown, ReadValue(buffer).timestamp)
    BY <2>1, AppendShows DEF Shown
  <2>3. delivered' = a
    BY <1>1
  <2> HIDE DEF a
  <2>4. Shown' = [i \in DOMAIN a |-> a[i].timestamp]
    BY <2>3 DEF Shown
  <2> QED
    BY <2>2, <2>3, <2>4
<1>12. ResultInv'
  BY <1>8, <1>10, <1>11 DEF ResultInv, OneResult, Woken
<1>13. /\ Ready /= <<>> /\ Head(Ready) = buffer.result[0].timestamp
       /\ Tail(Ready) = <<>>
  BY <1>9
<1>14. ReadValue(buffer) = buffer.result[0]
  BY <1>6 DEF ReadValue
<1> QED
  BY <1>3, <1>4, <1>9, <1>11, <1>12, <1>13, <1>14 DEF SoleInv, Promise!Deliver, Shown


LEMMA ClientSole ==
  ASSUME SoleClient, TypeInv, SoleInv, NEW c \in Clients, Call(c) \/ ClientStep(c)
  PROVE  SoleInv' /\ (Promise!Start \/ Promise!Deliver \/ UNCHANGED <<Phase, Ready, Shown>>)
<1>1. CASE StartClear(c)
  BY <1>1, ClearIsStart
<1>2. CASE StartMark(c) \/ StartSpawn(c) \/ SpawnFails(c)
  BY <1>2, StartGoesOn
<1>3. CASE ReadSleep(c)
  BY <1>3, SleepIsNothing
<1>4. CASE ReadFifo(c) \/ ReadWoken(c)
  BY <1>4, ReadDelivers
<1>5. CASE \/ WriteCall(c) \/ ReadCall(c) \/ StartCheck(c) \/ ReadProgress(c)
           \/ AllocSamples(c) \/ \E n \in NumSamples : SetParameters(c, n)
  <2>1. /\ cpc[c] \in {"idle", "start", "progress", "alloc"}
        /\ UNCHANGED <<buffer, is_in_progress, tpc, delivered>>
    BY <1>5 DEF WriteCall, ReadCall, StartCheck, ReadProgress, AllocSamples,
       SetParameters, device, threads, history
  <2>2. \E label \in {"idle", "start", "lock", "progress", "alloc", "clear"} :
          /\ cpc' = [cpc EXCEPT ![c] = label]
          /\ label = "clear" => ~ is_in_progress
    <3>1. CASE StartCheck(c)
      BY <3>1 DEF StartCheck, ClientTo
    <3>2. CASE WriteCall(c) \/ AllocSamples(c) \/ \E n \in NumSamples : SetParameters(c, n)
      BY <3>2 DEF WriteCall, AllocSamples, SetParameters, ClientTo
    <3>3. CASE ReadCall(c) \/ ReadProgress(c)
      BY <3>3 DEF ReadCall, ReadProgress, ClientTo
    <3> QED
      BY <1>5, <3>1, <3>2, <3>3
  <2>3. PICK label \in {"idle", "start", "lock", "progress", "alloc", "clear"} :
          /\ cpc' = [cpc EXCEPT ![c] = label]
          /\ label = "clear" => ~ is_in_progress
    BY <2>2
  <2> QED
    BY <2>1, <2>3, QuietStep
<1> QED
  BY <1>1, <1>2, <1>3, <1>4, <1>5 DEF Call, ClientStep

\* A step of a thread or of the sensor that neither publishes nor ends anything.
LEMMA ThreadsMove ==
  ASSUME SoleClient, SoleInv,
         UNCHANGED <<buffer, cpc, is_in_progress, delivered>>,
         \A t \in Threads : Live(t)' => Live(t),
         \A t \in Threads :
           tpc'[t] \in {"release", "finish"} <=> tpc[t] \in {"release", "finish"}
  PROVE  SoleInv' /\ UNCHANGED <<Phase, Ready, Shown>>
<1>1. CourseInv'
  BY DEF SoleInv, CourseInv
<1>2. Phase' = Phase
  BY DEF Phase
<1>3. OneResult(buffer, cpc)' /\ OneResult(buffer, cpc)
  BY DEF SoleInv, ResultInv, OneResult, Woken
<1>4. ResultInv'
  BY <1>2, <1>3 DEF SoleInv, ResultInv, Empty, Woken
<1>5. Ready' = Ready
  BY DEF Ready
<1>6. Shown' = Shown
  BY DEF Shown
<1> QED
  BY <1>1, <1>2, <1>4, <1>5, <1>6 DEF SoleInv

\* Giving the line back is such a step: the result has been out since the insert.
LEMMA ReleaseSole ==
  ASSUME SoleClient, TypeInv, SoleInv, NEW t \in Threads, ReleaseIrq(t)
  PROVE  SoleInv' /\ UNCHANGED <<Phase, Ready, Shown>>
<1>1. /\ tpc[t] = "release" /\ tpc' = [tpc EXCEPT ![t] = "finish"]
      /\ UNCHANGED <<buffer, cpc, is_in_progress, delivered>>
      /\ tpc \in [Threads -> ThreadLabels]
  BY DEF ReleaseIrq, ThreadTo, device, history, TypeInv, SamplerInv, ThreadTypes
<1>2. \A s \in Threads : Live(s)' => Live(s)
  BY <1>1 DEF Live, Sampling, SamplingLabels
<1>3. \A s \in Threads :
        tpc'[s] \in {"release", "finish"} <=> tpc[s] \in {"release", "finish"}
  BY <1>1
<1> QED
  BY <1>1, <1>2, <1>3, ThreadsMove

LEMMA FinishSole ==
  ASSUME SoleClient, TypeInv, SoleInv, NEW t \in Threads, Finish(t)
  PROVE  SoleInv' /\ Promise!Finish
<1>1. /\ tpc[t] = "finish" /\ tpc' = [tpc EXCEPT ![t] = "done"]
      /\ is_in_progress' = FALSE
      /\ UNCHANGED <<buffer, cpc, delivered>>
      /\ tpc \in [Threads -> ThreadLabels]
  BY DEF Finish, ThreadTo, history, TypeInv, SamplerInv, ThreadTypes
<1>2. Live(t)
  BY <1>1 DEF Live
<1>3. /\ \A s \in Threads : s /= t => ~ Live(s)
      /\ \A c \in Clients : cpc[c] \notin {"clear", "mark", "spawn"}
  BY <1>2 DEF SoleInv, CourseInv
<1>4. \A s \in Threads : ~ Live(s)'
  BY <1>1, <1>3 DEF Live, Sampling, SamplingLabels
<1>5. CourseInv'
  BY <1>1, <1>3, <1>4 DEF CourseInv
<1>6. Phase = "published"
  BY <1>1 DEF Phase
<1>7. Phase' = "idle"
  BY <1>1, <1>3, <1>4 DEF Phase, Live, Sampling, SamplingLabels
<1>8. OneResult(buffer, cpc)'
  BY <1>1 DEF SoleInv, ResultInv, OneResult, Woken
<1>9. ResultInv'
  BY <1>1, <1>7, <1>8 DEF SoleInv, ResultInv
<1>10. Ready' = Ready /\ Shown' = Shown
  BY <1>1 DEF Ready, Shown
<1> QED
  BY <1>5, <1>6, <1>7, <1>9, <1>10 DEF SoleInv, Promise!Finish, Shown

LEMMA InsertPublishes ==
  ASSUME SoleClient, TypeInv, SoleInv, NEW t \in Threads, InsertResult(t)
  PROVE  SoleInv' /\ Promise!Publish(t)
<1>1. /\ tpc[t] = "insert" /\ tpc' = [tpc EXCEPT ![t] = "release"]
      /\ buffer' = insert_buffer(buffer, Result(t))
      /\ cpc' = [c \in Clients |-> IF c \in WokenBy(buffer) THEN "woken" ELSE cpc[c]]
      /\ UNCHANGED <<is_in_progress, delivered>>
      /\ tpc \in [Threads -> ThreadLabels]
  BY DEF InsertResult, ThreadTo, TypeInv, SamplerInv, ThreadTypes
<1>2. Live(t) /\ \A s \in Threads : Live(s) => s = t
  <2>1. Live(t)
    BY <1>1 DEF Live, Sampling, SamplingLabels
  <2> QED
    BY <2>1 DEF SoleInv, CourseInv
<1>3. is_in_progress /\ \A c \in Clients : cpc[c] \notin {"clear", "mark", "spawn"}
  BY <1>2 DEF SoleInv, CourseInv
<1>4. \A s \in Threads : Live(s)' => s = t
  BY <1>1, <1>2 DEF Live, Sampling
<1>5. CourseInv'
  <2>1. \A c \in Clients : cpc'[c] \notin {"clear", "mark", "spawn"}
    BY <1>1, <1>3
  <2> QED
    BY <1>1, <1>3, <1>4, <2>1 DEF CourseInv
<1>6. Phase = "sampling"
  <2>1. \A s \in Threads : tpc[s] \notin {"release", "finish"}
    BY <1>1, <1>2 DEF Live, Sampling, SamplingLabels
  <2> QED
    BY <1>3, <2>1 DEF Phase
<1>7. Phase' = "published"
  BY <1>1 DEF Phase
<1>8. OneResult(buffer, cpc) /\ Empty(buffer, cpc)
  BY <1>6 DEF SoleInv, ResultInv
<1>9. Woken(cpc') = IF buffer.waiters = <<>> THEN 0 ELSE 1
  <2>1. \A c \in Clients : cpc[c] /= "woken"
    BY <1>8 DEF Empty, Woken
  <2>2. CASE buffer.waiters = <<>>
    BY <1>1, <2>1, <2>2 DEF WokenBy, Woken
  <2>3. CASE buffer.waiters /= <<>>
    <3>1. buffer.waiters \in Seq(Clients)
      BY DEF TypeInv, ReaderInv, ReaderTypes
    <3>2. Head(buffer.waiters) \in Clients
      BY <2>3, <3>1
    <3> QED
      BY <1>1, <2>3, <3>2 DEF WokenBy, Woken
  <2> QED
    BY <2>2, <2>3
<1>10. OneResult(buffer', cpc') /\ OneOrNone(buffer', cpc') = <<t>>
  <2> DEFINE d == Result(t)
  <2>1. d.timestamp = t
    BY DEF Result
  <2> HIDE DEF d
  <2>2. LET b == insert_buffer(buffer, d) IN
        OneResult(b, cpc') /\ OneOrNone(b, cpc') = <<d.timestamp>>
    BY <1>8, <1>9, FilledRing
  <2>3. buffer' = insert_buffer(buffer, d)
    BY <1>1 DEF d
  <2> QED
    BY <2>1, <2>2, <2>3
<1>11. Ready = <<>> /\ Ready' = <<t>>
  BY <1>8, <1>10, ReadyBoth DEF Empty, OneOrNone
<1>12. ResultInv'
  <2>1. OneResult(buffer, cpc)'
    BY <1>10 DEF OneResult, Woken
  <2> QED
    BY <1>1, <1>7, <2>1 DEF SoleInv, ResultInv
<1>13. Shown' = Shown
  BY <1>1 DEF Shown
<1>14. Ready' = Append(Ready, t)
  BY <1>11
<1> QED
  BY <1>5, <1>6, <1>7, <1>12, <1>13, <1>14 DEF SoleInv, Promise!Publish, Shown

LEMMA ThreadSole ==
  ASSUME SoleClient, TypeInv, SoleInv, NEW t \in Threads, ThreadStep(t)
  PROVE  /\ SoleInv'
         /\ \/ InsertResult(t) /\ Promise!Publish(t)
            \/ Promise!Finish \/ UNCHANGED <<Phase, Ready, Shown>>
<1>1. CASE InsertResult(t)
  BY <1>1, InsertPublishes
<1>2. CASE Finish(t)
  BY <1>2, FinishSole
<1>3. CASE ReleaseIrq(t)
  BY <1>3, ReleaseSole
<1>4. CASE ~ (InsertResult(t) \/ Finish(t) \/ ReleaseIrq(t))
  <2>1. UNCHANGED <<buffer, cpc, is_in_progress, delivered>>
    BY <1>4 DEF ThreadStep, SetInterrupt, ClearSamples, Pulse, CollectEnd,
       CollectSleep, CollectRead, CollectWoken, Collected, Oops, Average,
       device, history
  <2>2. /\ Live(t) /\ tpc[t] \notin {"release", "finish"}
        /\ \E label \in ThreadLabels \ {"release", "finish"} :
             tpc' = [tpc EXCEPT ![t] = label]
    BY <1>4 DEF ThreadStep, SetInterrupt, ClearSamples, Pulse, CollectEnd,
       CollectSleep, CollectRead, CollectWoken, Collected, Oops, Average,
       ThreadTo, Live, Sampling, SamplingLabels, ThreadLabels
  <2>3. tpc \in [Threads -> ThreadLabels]
    BY DEF TypeInv, SamplerInv, ThreadTypes
  <2>4. \A s \in Threads : Live(s)' => Live(s)
    BY <2>2, <2>3 DEF Live, Sampling
  <2>5. \A s \in Threads :
          tpc'[s] \in {"release", "finish"} <=> tpc[s] \in {"release", "finish"}
    BY <2>2, <2>3
  <2> QED
    BY <2>1, <2>4, <2>5, ThreadsMove
<1> QED
  BY <1>1, <1>2, <1>3, <1>4

LEMMA EchoSole ==
  ASSUME SoleClient, TypeInv, SoleInv, Echo \/ UNCHANGED vars
  PROVE  SoleInv' /\ UNCHANGED <<Phase, Ready, Shown>>
<1>1. UNCHANGED <<buffer, cpc, is_in_progress, delivered>>
  BY DEF Echo, EchoSample, EchoUnheard, EchoLost, vars, device, history
<1>2. \/ tpc' = tpc
      \/ tpc' = [s \in Threads |-> IF s \in WokenBy(all_samples)
                                     THEN "woken" ELSE tpc[s]]
  BY DEF Echo, EchoSample, EchoUnheard, EchoLost, vars, threads
<1>3. \A s \in WokenBy(all_samples) : tpc[s] = "asleep"
  BY DEF TypeInv, SamplerInv, WaitList, WokenBy
<1>4. \A s \in Threads : Live(s)' => Live(s)
  BY <1>2, <1>3 DEF Live, Sampling, SamplingLabels
<1>5. \A s \in Threads :
        tpc'[s] \in {"release", "finish"} <=> tpc[s] \in {"release", "finish"}
  BY <1>2, <1>3
<1> QED
  BY <1>1, <1>4, <1>5, ThreadsMove

LEMMA NextSole ==
  SoleClient /\ TypeInv /\ SoleInv /\ [Next]_vars =>
    SoleInv' /\ [Promise!Next]_<<Phase, Ready, Shown>>
<1> SUFFICES ASSUME SoleClient, TypeInv, SoleInv, [Next]_vars
             PROVE  SoleInv' /\ [Promise!Next]_<<Phase, Ready, Shown>>
  OBVIOUS
<1>1. ASSUME NEW c \in Clients, Call(c) \/ ClientStep(c)
      PROVE  SoleInv' /\ [Promise!Next]_<<Phase, Ready, Shown>>
  BY <1>1, ClientSole DEF Promise!Next
<1>2. ASSUME NEW t \in Threads, ThreadStep(t)
      PROVE  SoleInv' /\ [Promise!Next]_<<Phase, Ready, Shown>>
  BY <1>2, ThreadSole DEF Promise!Next
<1>3. CASE Echo \/ UNCHANGED vars
  BY <1>3, EchoSole
<1> QED
  BY <1>1, <1>2, <1>3 DEF Next

\* With one program, the device does what Measurement promises: one measurement
\* at a time, one result for each, read once and in order, whatever fails.
THEOREM ImplementsMeasurement ==
  SoleClient => (Spec => IsMeasurement) /\ (OperatingSpec => IsMeasurement)
<1> SUFFICES ASSUME SoleClient
             PROVE  (Spec => IsMeasurement) /\ (OperatingSpec => IsMeasurement)
  OBVIOUS
<1>1. Init \/ ConfiguredInit => TypeInv /\ SoleInv /\ Promise!Init
  BY InitType, InitSole DEF Promise!Init, Shown
<1>2. TypeInv /\ SoleInv /\ [Next]_vars =>
        TypeInv' /\ SoleInv' /\ [Promise!Next]_(Promise!vars)
  BY NextType, NextSole DEF Promise!vars, Shown
<1>3. Spec => IsMeasurement
  BY <1>1, <1>2, PTL DEF Spec, IsMeasurement, Promise!Spec
<1>4. OperatingSpec => IsMeasurement
  BY <1>1, <1>2, OperatingIsNext, PTL DEF OperatingSpec, IsMeasurement, Promise!Spec
<1> QED
  BY <1>3, <1>4


-----------------------------------------------------------------------------
(* Each thread publishes once, and its result is handed out once: a result   *)
(* that is out, read or not, belongs to a thread that is past its insert.    *)

\* (A platform thread can fault in the printk of its result.)
Past == {"release", "finish", "done", "oops"}

Inserted(x) == x \in Threads /\ tpc[x] \in Past

OnceInv ==
  /\ \A i \in DOMAIN Shown : Inserted(Shown[i])
  /\ \A i, j \in DOMAIN Shown : Shown[i] = Shown[j] => i = j
  /\ Ready /= <<>> => Inserted(Ready[1]) /\ \A i \in DOMAIN Shown : Shown[i] /= Ready[1]

LEMMA InsertedStays ==
  ASSUME SamplerInv, [Next]_vars
  PROVE  \A x : Inserted(x) => Inserted(x)'
<1> SUFFICES ASSUME NEW x \in Threads, Inserted(x)
             PROVE  tpc'[x] \in Past
  BY DEF Inserted
<1>0. /\ tpc \in [Threads -> ThreadLabels] /\ starts \in Nat /\ Unborn
      /\ tpc[x] \in Past
  BY DEF SamplerInv, ThreadTypes, Inserted
<1>1. ASSUME NEW c \in Clients, Call(c) \/ ClientStep(c)
      PROVE  tpc'[x] \in Past
  <2>1. CASE StartSpawn(c)
    <3>1. tpc' = [tpc EXCEPT ![starts + 1] = "setup"] /\ starts + 1 \in Threads
      BY <2>1 DEF StartSpawn, ThreadTo
    <3>2. tpc[starts + 1] = "unborn"
      BY <1>0, <3>1 DEF Unborn
    <3> QED
      BY <1>0, <3>1, <3>2 DEF Past
  <2>2. CASE ~ StartSpawn(c)
    <3>1. tpc' = tpc
      BY <1>1, <2>2 DEF Call, ClientStep, WriteCall, ReadCall, SetParameters,
         StartCheck, StartClear, StartMark, SpawnFails, ReadProgress, ReadFifo,
         ReadSleep, ReadWoken, Deliver, AllocSamples, threads
    <3> QED
      BY <1>0, <3>1
  <2> QED
    BY <2>1, <2>2
<1>2. ASSUME NEW t \in Threads, ThreadStep(t)
      PROVE  tpc'[x] \in Past
  <2>1. CASE ReleaseIrq(t) \/ Finish(t)
    BY <1>0, <2>1 DEF ReleaseIrq, Finish, ThreadTo, Past
  <2>2. CASE ~ (ReleaseIrq(t) \/ Finish(t))
    <3>1. /\ tpc[t] \notin Past
          /\ \E label \in ThreadLabels : tpc' = [tpc EXCEPT ![t] = label]
      BY <1>2, <2>2 DEF ThreadStep, SetInterrupt, ClearSamples, Pulse, CollectEnd,
         CollectSleep, CollectRead, CollectWoken, Collected, Oops, Average,
         InsertResult, ThreadTo, ThreadLabels, SamplingLabels, Past
    <3> QED
      BY <1>0, <3>1
  <2> QED
    BY <2>1, <2>2
<1>3. CASE Echo \/ UNCHANGED vars
  <2>1. \/ tpc' = tpc
        \/ tpc' = [s \in Threads |-> IF s \in WokenBy(all_samples)
                                       THEN "woken" ELSE tpc[s]]
    BY <1>3 DEF Echo, EchoSample, EchoUnheard, EchoLost, vars, threads
  <2>2. \A s \in WokenBy(all_samples) : tpc[s] = "asleep"
    BY DEF SamplerInv, WaitList, WokenBy
  <2> QED
    BY <1>0, <2>1, <2>2 DEF Past
<1> QED
  BY <1>1, <1>2, <1>3 DEF Next

LEMMA ShownGrows ==
  ASSUME NEW s, s \in Seq({s[i] : i \in DOMAIN s}), NEW e
  PROVE  LET a == Append(s, e) IN
         /\ DOMAIN a = DOMAIN s \cup {Len(s) + 1} /\ Len(s) + 1 \notin DOMAIN s
         /\ a[Len(s) + 1] = e
         /\ \A i \in DOMAIN s : a[i] = s[i]
<1> DEFINE r == {s[i] : i \in DOMAIN s} \cup {e}
           a == Append(s, e)
<1>1. s \in Seq(r) /\ e \in r
  BY SeqMonotonic
<1> HIDE DEF r
<1>2. /\ Len(s) \in Nat /\ DOMAIN s = 1 .. Len(s)
      /\ a \in Seq(r) /\ Len(a) = Len(s) + 1 /\ DOMAIN a = 1 .. Len(a)
      /\ a[Len(s) + 1] = e /\ \A i \in 1 .. Len(s) : a[i] = s[i]
  BY <1>1, AppendProperties, LenProperties
<1> HIDE DEF a
<1> QED
  BY <1>2 DEF a

\* delivered is a sequence, and so is what Measurement sees of it.
LEMMA ShownIsSeq ==
  ASSUME SoleInv
  PROVE  Shown \in Seq({Shown[i] : i \in DOMAIN Shown})
<1>1. delivered \in Seq({delivered[i] : i \in DOMAIN delivered})
  BY DEF SoleInv, ResultInv
<1>2. Len(delivered) \in Nat /\ DOMAIN delivered = 1 .. Len(delivered)
  BY <1>1, LenProperties
<1> DEFINE n == Len(delivered)
<1>3. DOMAIN Shown = 1 .. n /\ n \in Nat /\ Shown = [i \in 1 .. n |-> Shown[i]]
  BY <1>2 DEF Shown
<1> HIDE DEF n
<1>4. \A i \in 1 .. n : Shown[i] \in {Shown[j] : j \in DOMAIN Shown}
  BY <1>3
<1>5. Shown \in [1 .. n -> {Shown[j] : j \in DOMAIN Shown}]
  BY <1>3, <1>4
<1> QED
  BY <1>3, <1>5, FunctionIsSeq

LEMMA NextOnce ==
  ASSUME SoleClient, TypeInv, SoleInv, OnceInv, [Next]_vars
  PROVE  OnceInv'
<1>1. \A x : Inserted(x) => Inserted(x)'
  BY InsertedStays DEF TypeInv
<1>2. SoleInv' /\ Ready = OneOrNone(buffer, cpc)
  BY NextSole, ReadyBoth DEF SoleInv, ResultInv
<1>3. CASE UNCHANGED <<Ready, Shown>>
  BY <1>1, <1>3 DEF OnceInv
<1>4. CASE Promise!Start
  <2>1. Ready' = <<>> /\ Shown' = Shown
    BY <1>4 DEF Promise!Start, Shown
  <2> QED
    BY <1>1, <2>1 DEF OnceInv
<1>5. CASE Promise!Deliver
  <2>0. PICK e : e = Ready[1]
    OBVIOUS
  <2>1. Ready /= <<>> /\ Ready' = <<>> /\ Head(Ready) = e
    BY <1>2, <1>5, <2>0 DEF Promise!Deliver, OneOrNone
  <2>2. Shown' = Append(Shown, e)
    BY <1>5, <2>1 DEF Promise!Deliver, Shown
  <2>3. Inserted(e) /\ \A i \in DOMAIN Shown : Shown[i] /= e
    BY <2>0, <2>1 DEF OnceInv
  <2>4. PICK k : /\ DOMAIN Shown' = DOMAIN Shown \cup {k} /\ k \notin DOMAIN Shown
                 /\ Shown'[k] = e
                 /\ \A i \in DOMAIN Shown : Shown'[i] = Shown[i]
    BY <2>2, ShownIsSeq, ShownGrows
  <2>5. \A x : (x = e \/ \E i \in DOMAIN Shown : x = Shown[i]) => Inserted(x)'
    BY <1>1, <2>3 DEF OnceInv
  <2>6. (\A i \in DOMAIN Shown : Inserted(Shown[i]))'
    BY <2>4, <2>5
  <2> QED
    BY <2>1, <2>3, <2>4, <2>6 DEF OnceInv
<1>6. ASSUME NEW t \in Threads, InsertResult(t), Promise!Publish(t)
      PROVE  OnceInv'
  <2>1. tpc[t] = "insert" /\ tpc' = [tpc EXCEPT ![t] = "release"]
    BY <1>6 DEF InsertResult, ThreadTo
  <2>2. ~ Inserted(t) /\ Inserted(t)'
    BY <2>1 DEF Inserted, Past, TypeInv, SamplerInv, ThreadTypes
  <2>3. Ready = <<>> /\ Ready' = <<t>> /\ Shown' = Shown
    <3>1. Ready = <<>>
      BY <1>2, <1>6 DEF Promise!Publish, SoleInv, ResultInv, Empty, OneOrNone
    <3> QED
      BY <1>6, <3>1 DEF Promise!Publish, Shown
  <2>4. Ready'[1] = t
    BY <2>3
  <2>5. \A i \in DOMAIN Shown : Shown[i] /= t
    BY <2>2 DEF OnceInv
  <2> QED
    BY <1>1, <2>2, <2>3, <2>4, <2>5 DEF OnceInv
<1>7. ASSUME NEW c \in Clients, Call(c) \/ ClientStep(c)
      PROVE  OnceInv'
  BY <1>3, <1>4, <1>5, <1>7, ClientSole
<1>8. ASSUME NEW t \in Threads, ThreadStep(t)
      PROVE  OnceInv'
  <2>1. Promise!Finish => UNCHANGED <<Ready, Shown>>
    BY DEF Promise!Finish, Shown
  <2> QED
    BY <1>3, <1>6, <1>8, <2>1, ThreadSole
<1>9. CASE Echo \/ UNCHANGED vars
  BY <1>3, <1>9, EchoSole
<1> QED
  BY <1>7, <1>8, <1>9 DEF Next

\* With one program the ring has room for every result.
LEMMA RoomForOne ==
  ASSUME SoleClient, TypeInv, SoleInv, ~ overrun, [Next]_vars
  PROVE  ~ overrun'
<1>1. ASSUME NEW t \in Threads, InsertResult(t)
      PROVE  ~ overrun'
  <2>1. Phase = "sampling"
    BY <1>1, InsertPublishes DEF Promise!Publish
  <2>2. buffer.sem = 0
    BY <2>1 DEF SoleInv, ResultInv, Empty
  <2>3. ~ (buffer.sem >= MAX_BUFF_SIZE)
    BY <2>2, DeviceAssumption
  <2> QED
    BY <1>1, <2>3, Zenon DEF InsertResult
<1>2. ASSUME NEW t \in Threads, ThreadStep(t), ~ InsertResult(t)
      PROVE  ~ overrun'
  BY <1>2 DEF ThreadStep, SetInterrupt, ClearSamples, Pulse, CollectEnd,
     CollectSleep, CollectRead, CollectWoken, Collected, Oops, Average,
     ReleaseIrq, Finish, history
<1>3. ASSUME NEW c \in Clients, Call(c) \/ ClientStep(c)
      PROVE  ~ overrun'
  BY <1>3 DEF Call, ClientStep, WriteCall, ReadCall, SetParameters, StartCheck,
     StartClear, StartMark, StartSpawn, SpawnFails, ReadProgress, ReadFifo,
     ReadSleep, ReadWoken, Deliver, AllocSamples, history
<1>4. CASE Echo \/ UNCHANGED vars
  BY <1>4 DEF Echo, EchoSample, EchoUnheard, EchoLost, vars, history
<1> QED
  BY <1>1, <1>2, <1>3, <1>4 DEF Next

\* No result has been handed out twice.
NeverTwice ==
  \A i, j \in DOMAIN delivered : delivered[i] = delivered[j] => i = j

\* With one program no result is ever handed out twice, and the ring is never
\* overrun, on either build.
THEOREM EachOnce ==
  SoleClient => /\ Spec => [](NeverTwice /\ ~ overrun)
                /\ OperatingSpec => [](NeverTwice /\ ~ overrun)
<1> SUFFICES ASSUME SoleClient
             PROVE  /\ Spec => [](NeverTwice /\ ~ overrun)
                    /\ OperatingSpec => [](NeverTwice /\ ~ overrun)
  OBVIOUS
<1> DEFINE Inv == TypeInv /\ SoleInv /\ OnceInv /\ ~ overrun
<1>1. Init \/ ConfiguredInit => Inv
  <2>1. Init \/ ConfiguredInit => ~ overrun
    BY DEF Init, ConfiguredInit, Unused
  <2> QED
    BY <2>1, InitType, InitSole DEF OnceInv
<1>2. Inv /\ [Next]_vars => Inv'
  BY NextType, NextSole, NextOnce, RoomForOne
<1>3. Inv => NeverTwice /\ ~ overrun
  BY DEF OnceInv, NeverTwice, Shown
<1> HIDE DEF Inv
<1>4. Spec => [](NeverTwice /\ ~ overrun)
  BY <1>1, <1>2, <1>3, PTL DEF Spec
<1>5. OperatingSpec => [](NeverTwice /\ ~ overrun)
  BY <1>1, <1>2, <1>3, OperatingIsNext, PTL DEF OperatingSpec
<1> QED
  BY <1>4, <1>5

-----------------------------------------------------------------------------
(* Which result a read returns, with any number of programs.  While no more   *)
(* results have come since the last clear than the ring has elements, the     *)
(* elements that there are units for, from head on and around the end of the  *)
(* array, are results that no read has returned, each of another thread; the  *)
(* next insert goes behind the last of them.                                  *)

\* The k-th element from head on.
Slot(b, n, k) == IF b.head + k < n THEN b.head + k ELSE b.head + k - n

Unread(b, results, gone, n) ==
  /\ b.sem \in Nat /\ b.sem <= n
  /\ InsertIndex(b) = Slot(b, n, b.sem)
  /\ \A k \in 0 .. b.sem - 1 : b.result[Slot(b, n, k)] \in results \ gone
  /\ \A k, l \in 0 .. b.sem - 1 :
       b.result[Slot(b, n, k)] = b.result[Slot(b, n, l)] => k = l

\* Elements less than a whole turn apart are different elements of the array.
LEMMA SlotsDiffer ==
  ASSUME NEW n \in Nat \ {0}, NEW b, b.head \in 0 .. n - 1
  PROVE  /\ \A k \in 0 .. n - 1 : Slot(b, n, k) \in 0 .. n - 1
         /\ \A k, l \in 0 .. n - 1 : Slot(b, n, k) = Slot(b, n, l) => k = l
  BY DEF Slot

LEMMA EmptyUnread ==
  ASSUME NEW n \in Nat \ {0}, NEW b, b.head = 0, b.tail = 0, b.sem = 0, b.size = n,
         NEW results, NEW gone
  PROVE  Unread(b, results, gone, n)
<1>1. InsertIndex(b) = Slot(b, n, b.sem)
  BY DEF InsertIndex, Slot
<1>2. 0 .. b.sem - 1 = {}
  OBVIOUS
<1> QED
  BY <1>1, <1>2 DEF Unread

LEMMA ReadUnread ==
  ASSUME NEW n \in Nat \ {0}, NEW b, IsBuffer(b), b.size = n, b.head \in 0 .. n - 1,
         NEW results, NEW gone, Unread(b, results, gone, n), b.sem > 0
  PROVE  /\ ReadValue(b) \in results \ gone
         /\ Unread(ReadNow(b), results, gone \cup {ReadValue(b)}, n)
<1> DEFINE c == ReadNow(b)
           x == ReadValue(b)
<1>1. /\ c.size = b.size /\ c.tail = b.tail /\ c.result = b.result
      /\ c.head = IF b.head + 1 >= b.size THEN 0 ELSE b.head + 1
      /\ c.sem = b.sem - 1
  BY ReadMoves
<1>2. InsertIndex(c) = InsertIndex(b)
  BY <1>1 DEF InsertIndex
<1> HIDE DEF c
<1>3. b.sem \in Nat /\ b.sem <= n
  BY DEF Unread
<1>4. \A k \in 0 .. n - 1 : Slot(c, n, k) = Slot(b, n, k + 1)
  BY <1>1 DEF Slot
<1>5. /\ b.sem - 1 \in 0 .. n - 1 /\ b.sem - 1 + 1 = b.sem
      /\ c.sem \in Nat /\ c.sem <= n
  BY <1>1, <1>3
<1>6. InsertIndex(c) = Slot(c, n, c.sem)
  BY <1>1, <1>2, <1>4, <1>5 DEF Unread
<1>7. Slot(b, n, 0) = b.head /\ 0 \in 0 .. b.sem - 1
  BY <1>3 DEF Slot
<1>8. x = b.result[Slot(b, n, 0)] /\ x \in results \ gone
  BY <1>7 DEF Unread, ReadValue
<1> HIDE DEF x
<1>9. ASSUME NEW k \in 0 .. c.sem - 1
      PROVE  /\ k + 1 \in 0 .. b.sem - 1 /\ k + 1 /= 0
             /\ c.result[Slot(c, n, k)] = b.result[Slot(b, n, k + 1)]
  <2>1. k \in 0 .. n - 1 /\ k + 1 \in 0 .. b.sem - 1 /\ k + 1 /= 0
    BY <1>1, <1>3
  <2> QED
    BY <1>1, <1>4, <2>1
<1>10. ASSUME NEW k \in 0 .. c.sem - 1
       PROVE  c.result[Slot(c, n, k)] \in results \ (gone \cup {x})
  <2>1. b.result[Slot(b, n, k + 1)] \in results \ gone
    BY <1>9 DEF Unread
  <2>2. b.result[Slot(b, n, k + 1)] /= x
    BY <1>7, <1>8, <1>9 DEF Unread
  <2> QED
    BY <1>9, <2>1, <2>2
<1>11. ASSUME NEW k \in 0 .. c.sem - 1, NEW l \in 0 .. c.sem - 1,
              c.result[Slot(c, n, k)] = c.result[Slot(c, n, l)]
       PROVE  k = l
  <2>1. k + 1 = l + 1
    BY <1>9, <1>11 DEF Unread
  <2> QED
    BY <2>1
<1>12. Unread(c, results, gone \cup {x}, n)
  BY <1>5, <1>6, <1>10, <1>11 DEF Unread
<1> QED
  BY <1>8, <1>12 DEF c, x

LEMMA InsertUnread ==
  ASSUME NEW n \in Nat \ {0}, NEW b, IsBuffer(b), b.size = n, b.head \in 0 .. n - 1,
         b.waiters = <<>>, b.result = [j \in 0 .. n - 1 |-> b.result[j]],
         NEW results, NEW gone, Unread(b, results, gone, n), b.sem < n,
         NEW d, d \notin results, d \notin gone
  PROVE  Unread(insert_buffer(b, d), results \cup {d}, gone, n)
<1> DEFINE c == insert_buffer(b, d)
           i == InsertIndex(b)
           r == [b.result EXCEPT ![i] = d]
<1>1. /\ c.head = b.head /\ c.tail = i + 1 /\ c.size = n /\ c.sem = b.sem + 1
      /\ c.result = r
  BY InsertMoves
<1> HIDE DEF c
<1>2. b.sem \in Nat /\ i = Slot(b, n, b.sem)
  BY DEF Unread
<1> HIDE DEF i
<1>3. \A k : Slot(c, n, k) = Slot(b, n, k)
  BY <1>1 DEF Slot
<1>4. InsertIndex(c) = Slot(c, n, c.sem)
  BY <1>1, <1>2 DEF InsertIndex, Slot
<1>5. b.sem \in 0 .. n - 1 /\ i \in 0 .. n - 1
  BY <1>2, SlotsDiffer
<1>6. r[i] = d /\ \A j \in 0 .. n - 1 : j /= i => r[j] = b.result[j]
  BY <1>5
<1> HIDE DEF r
<1>7. c.result[Slot(c, n, b.sem)] = d
  BY <1>1, <1>2, <1>3, <1>6
<1>8. ASSUME NEW k \in 0 .. b.sem - 1
      PROVE  c.result[Slot(c, n, k)] = b.result[Slot(b, n, k)]
  <2>1. k \in 0 .. n - 1 /\ k /= b.sem
    BY <1>2
  <2>2. Slot(b, n, k) \in 0 .. n - 1 /\ Slot(b, n, k) /= i
    BY <1>2, <1>5, <2>1, SlotsDiffer
  <2> QED
    BY <1>1, <1>3, <1>6, <2>2
<1>9. \A k \in 0 .. c.sem - 1 : k \in 0 .. b.sem - 1 \/ k = b.sem
  BY <1>1, <1>2
<1>10. ASSUME NEW k \in 0 .. b.sem - 1
       PROVE  c.result[Slot(c, n, k)] \in results \ gone
  BY <1>8 DEF Unread
<1>11. \A k \in 0 .. c.sem - 1 : c.result[Slot(c, n, k)] \in (results \cup {d}) \ gone
  BY <1>7, <1>9, <1>10
<1>12. \A k, l \in 0 .. c.sem - 1 :
         c.result[Slot(c, n, k)] = c.result[Slot(c, n, l)] => k = l
  <2>1. \A k, l \in 0 .. b.sem - 1 :
          c.result[Slot(c, n, k)] = c.result[Slot(c, n, l)] => k = l
    BY <1>8 DEF Unread
  <2>2. \A k \in 0 .. b.sem - 1 : c.result[Slot(c, n, k)] /= d
    BY <1>10
  <2> QED
    BY <1>7, <1>9, <2>1, <2>2
<1>13. c.sem \in Nat /\ c.sem <= n
  BY <1>1, <1>2
<1>14. Unread(c, results \cup {d}, gone, n)
  BY <1>4, <1>11, <1>12, <1>13 DEF Unread
<1> QED
  BY <1>14 DEF c

LEMMA SleepUnread ==
  ASSUME NEW n, NEW b, IsBuffer(b), NEW p, NEW results, NEW gone,
         Unread(b, results, gone, n)
  PROVE  Unread(SleepIn(b, p), results, gone, n)
<1>1. LET c == SleepIn(b, p) IN
      /\ c.head = b.head /\ c.tail = b.tail /\ c.size = b.size
      /\ c.sem = b.sem /\ c.result = b.result
  BY DEF SleepIn, IsBuffer, Fields
<1> QED
  BY <1>1 DEF Unread, Slot, InsertIndex

Returned == {delivered[i] : i \in DOMAIN delivered}

TurnInv ==
  /\ \A r \in published : Inserted(r.timestamp)
  /\ ~ overrun => Unread(buffer, published, Returned, MAX_BUFF_SIZE)

turn == <<buffer, published, delivered, overrun>>

LEMMA UnusedTurn ==
  ASSUME NEW n, NEW samples, Unused(n, samples)
  PROVE  TurnInv
<1> DEFINE a == alloc_buffer(Zeroed, Cells(MAX_BUFF_SIZE))
<1>1. /\ buffer = init_buffer(a, MAX_BUFF_SIZE) /\ published = {}
      /\ MAX_BUFF_SIZE \in Nat \ {0}
  BY DeviceAssumption DEF Unused
<1>2. IsBuffer(a)
  BY NewBuffer
<1> HIDE DEF a
<1>3. /\ buffer.head = 0 /\ buffer.tail = 0 /\ buffer.sem = 0
      /\ buffer.size = MAX_BUFF_SIZE
  BY <1>1, <1>2 DEF init_buffer, SemaInit, IsBuffer, Fields
<1>4. Unread(buffer, published, Returned, MAX_BUFF_SIZE)
  BY <1>1, <1>3, EmptyUnread
<1> QED
  BY <1>1, <1>4 DEF TurnInv

LEMMA InitTurn == Init \/ ConfiguredInit => TurnInv
  BY InitUnused, UnusedTurn

\* What a step keeps that leaves the buffer alone.
LEMMA TurnUntouched ==
  ASSUME TurnInv, \A x : Inserted(x) => Inserted(x)', UNCHANGED turn
  PROVE  TurnInv'
<1>1. (\A r \in published : Inserted(r.timestamp))'
  BY DEF TurnInv, turn
<1>2. Returned' = Returned
  BY DEF Returned, turn
<1>3. (~ overrun => Unread(buffer, published, Returned, MAX_BUFF_SIZE))'
  BY <1>2 DEF TurnInv, turn, Unread, Slot, InsertIndex
<1> QED
  BY <1>1, <1>3 DEF TurnInv

\* A read returns what no read has returned, unless the ring has been overrun.
LEMMA ReadTurn ==
  ASSUME SamplerInv, ShelfInv, TurnInv, [Next]_vars, NEW c \in Clients, ReadFifo(c)
  PROVE  /\ TurnInv'
         /\ ~ overrun =>
              \A i \in DOMAIN delivered :
                delivered[i] /= delivered'[Len(delivered')]
<1> DEFINE x == ReadValue(buffer)
           n == MAX_BUFF_SIZE
<1>1. /\ buffer.sem > 0 /\ buffer' = ReadNow(buffer)
      /\ delivered' = Append(delivered, x)
      /\ UNCHANGED <<published, overrun>>
  BY DEF ReadFifo, Deliver
<1>2. /\ IsBuffer(buffer) /\ buffer.size = n /\ buffer.head \in 0 .. n - 1
      /\ n \in Nat \ {0}
  BY DeviceAssumption DEF ShelfInv, Stocked, InRing
<1>3. delivered \in Seq(Returned)
  <2>1. delivered \in Seq(published)
    BY DEF ShelfInv
  <2>2. Len(delivered) \in Nat /\ DOMAIN delivered = 1 .. Len(delivered)
    BY <2>1
  <2>3. delivered = [i \in 1 .. Len(delivered) |-> delivered[i]]
    BY <2>1
  <2>4. delivered \in [1 .. Len(delivered) -> Returned]
    BY <2>2, <2>3 DEF Returned
  <2> QED
    BY <2>2, <2>4, FunctionIsSeq
<1>4. PICK k : /\ DOMAIN delivered' = DOMAIN delivered \cup {k}
               /\ k \notin DOMAIN delivered /\ delivered'[k] = x
               /\ k = Len(delivered')
               /\ \A i \in DOMAIN delivered : delivered'[i] = delivered[i]
  <2>1. DOMAIN delivered' = DOMAIN delivered \cup {Len(delivered) + 1}
        /\ Len(delivered) + 1 \notin DOMAIN delivered
        /\ delivered'[Len(delivered) + 1] = x
        /\ \A i \in DOMAIN delivered : delivered'[i] = delivered[i]
    BY <1>1, <1>3, ShownGrows DEF Returned
  <2>2. Len(delivered') = Len(delivered) + 1
    <3>1. delivered \in Seq(Returned \cup {x})
      BY <1>3
    <3> QED
      BY <1>1, <3>1
  <2> QED
    BY <2>1, <2>2
<1>5. Returned' = Returned \cup {x}
  BY <1>4 DEF Returned
<1> HIDE DEF x, n
<1>6. \A y : Inserted(y) => Inserted(y)'
  BY InsertedStays
<1>7. (\A r \in published : Inserted(r.timestamp))'
  BY <1>1, <1>6 DEF TurnInv
<1>8. CASE overrun
  BY <1>1, <1>7, <1>8 DEF TurnInv
<1>9. CASE ~ overrun
  <2>1. Unread(buffer, published, Returned, n)
    BY <1>9 DEF TurnInv, n
  <2>2. x \in published \ Returned
        /\ Unread(ReadNow(buffer), published, Returned \cup {x}, n)
    BY <1>1, <1>2, <2>1, ReadUnread DEF x
  <2>3. Unread(buffer, published, Returned, MAX_BUFF_SIZE)'
    <3>1. Unread(buffer', published', Returned', n)
      BY <1>1, <1>5, <2>2
    <3> QED
      BY <3>1 DEF Unread, Slot, InsertIndex, n
  <2>4. \A i \in DOMAIN delivered : delivered[i] /= delivered'[Len(delivered')]
    BY <1>4, <2>2 DEF Returned
  <2> QED
    BY <1>7, <2>3, <2>4 DEF TurnInv
<1> QED
  BY <1>8, <1>9

LEMMA ClientTurn ==
  ASSUME SMP, SamplerInv, ShelfInv, TurnInv, [Next]_vars,
         NEW c \in Clients, Call(c) \/ ClientStep(c)
  PROVE  /\ TurnInv'
         /\ ReadFifo(c) \/ delivered' = delivered
<1>0. /\ IsBuffer(buffer) /\ buffer.size = MAX_BUFF_SIZE
      /\ buffer.head \in 0 .. MAX_BUFF_SIZE - 1 /\ MAX_BUFF_SIZE \in Nat \ {0}
  BY DeviceAssumption DEF ShelfInv, Stocked, InRing
<1>1. \A y : Inserted(y) => Inserted(y)'
  BY InsertedStays
<1>2. CASE ReadFifo(c)
  BY <1>2, ReadTurn
<1>3. CASE StartClear(c)
  <2> DEFINE b == clear_buffer(buffer, MAX_BUFF_SIZE)
  <2>1. buffer' = b /\ UNCHANGED <<published, delivered>>
    BY <1>3 DEF StartClear
  <2>2. b.head = 0 /\ b.tail = 0 /\ b.sem = 0 /\ b.size = MAX_BUFF_SIZE
    BY <1>0 DEF clear_buffer, SemaInit, IsBuffer, Fields
  <2> HIDE DEF b
  <2>3. Unread(b, published', Returned', MAX_BUFF_SIZE)
    BY <1>0, <2>2, EmptyUnread
  <2>4. Unread(buffer, published, Returned, MAX_BUFF_SIZE)'
    BY <2>1, <2>3 DEF Unread, Slot, InsertIndex
  <2>5. (\A r \in published : Inserted(r.timestamp))'
    BY <1>1, <2>1 DEF TurnInv
  <2> QED
    BY <2>1, <2>4, <2>5 DEF TurnInv
<1>4. CASE ReadSleep(c)
  <2>1. /\ buffer' = SleepIn(buffer, c)
        /\ UNCHANGED <<published, delivered, overrun>>
    BY <1>4 DEF ReadSleep, history
  <2>2. Returned' = Returned
    BY <2>1 DEF Returned
  <2>3. ~ overrun => Unread(SleepIn(buffer, c), published', Returned', MAX_BUFF_SIZE)
    BY <1>0, <2>1, <2>2, SleepUnread DEF TurnInv
  <2>4. (~ overrun => Unread(buffer, published, Returned, MAX_BUFF_SIZE))'
    BY <2>1, <2>3 DEF Unread, Slot, InsertIndex
  <2>5. (\A r \in published : Inserted(r.timestamp))'
    BY <1>1, <2>1 DEF TurnInv
  <2> QED
    BY <2>1, <2>4, <2>5 DEF TurnInv
<1>5. CASE ~ (ReadFifo(c) \/ StartClear(c) \/ ReadSleep(c))
  <2>1. ~ ReadWoken(c)
    BY DEF ReadWoken, ShelfInv
  <2>2. UNCHANGED turn
    BY <1>5, <2>1 DEF Call, ClientStep, WriteCall, ReadCall, SetParameters,
       StartCheck, StartMark, StartSpawn, SpawnFails, ReadProgress, AllocSamples,
       device, history, turn
  <2> QED
    BY <1>1, <2>2, TurnUntouched DEF turn
<1> QED
  BY <1>2, <1>3, <1>4, <1>5

\* A result comes from a thread that has not inserted one before.
LEMMA InsertTurn ==
  ASSUME SamplerInv, ShelfInv, TurnInv, [Next]_vars, NEW t \in Threads, InsertResult(t)
  PROVE  TurnInv'
<1> DEFINE d == Result(t)
           n == MAX_BUFF_SIZE
<1>1. /\ tpc[t] = "insert" /\ tpc' = [tpc EXCEPT ![t] = "release"]
      /\ Unlocked(buffer) /\ buffer' = insert_buffer(buffer, d)
      /\ published' = published \cup {d} /\ UNCHANGED delivered
      /\ overrun' = (overrun \/ buffer.sem >= n)
  BY DEF InsertResult, ThreadTo
<1>2. d.timestamp = t
  BY DEF Result
<1>3. ~ Inserted(t) /\ Inserted(t)'
  BY <1>1 DEF Inserted, Past, SamplerInv, ThreadTypes
<1> HIDE DEF d
<1>4. d \notin published
  BY <1>2, <1>3 DEF TurnInv
<1>5. d \notin Returned
  <2>1. delivered \in Seq(published)
    BY DEF ShelfInv
  <2>2. \A i \in DOMAIN delivered : delivered[i] \in published
    BY <2>1
  <2> QED
    BY <1>4, <2>2 DEF Returned
<1>6. \A y : Inserted(y) => Inserted(y)'
  BY InsertedStays
<1>7. (\A r \in published : Inserted(r.timestamp))'
  <2>1. \A r \in published' : r \in published \/ r.timestamp = t
    BY <1>1, <1>2
  <2> QED
    BY <1>3, <1>6, <2>1 DEF TurnInv
<1>8. CASE overrun'
  BY <1>7, <1>8 DEF TurnInv
<1>9. CASE ~ overrun'
  <2>1. /\ IsBuffer(buffer) /\ buffer.size = n /\ buffer.head \in 0 .. n - 1
        /\ n \in Nat \ {0}
    BY DeviceAssumption DEF ShelfInv, Stocked, InRing
  <2>2. /\ buffer.waiters = <<>>
        /\ buffer.result = [j \in 0 .. n - 1 |-> buffer.result[j]]
    BY <1>1 DEF ShelfInv, Stocked
  <2>3. Unread(buffer, published, Returned, n)
    BY <1>1, <1>9 DEF TurnInv
  <2>4. buffer.sem < n
    <3>1. ~ (buffer.sem >= n)
      BY <1>1, <1>9, Zenon
    <3> QED
      BY <2>1, <2>3, <3>1 DEF Unread
  <2> HIDE DEF n
  <2>5. Unread(insert_buffer(buffer, d), published \cup {d}, Returned, n)
    BY <1>4, <1>5, <2>1, <2>2, <2>3, <2>4, InsertUnread
  <2>6. Returned' = Returned
    BY <1>1 DEF Returned
  <2>7. Unread(buffer', published', Returned', n)
    BY <1>1, <2>5, <2>6
  <2>8. Unread(buffer, published, Returned, MAX_BUFF_SIZE)'
    BY <2>7 DEF Unread, Slot, InsertIndex, n
  <2> QED
    BY <1>7, <2>8 DEF TurnInv
<1> QED
  BY <1>8, <1>9

LEMMA NextTurn ==
  ASSUME SMP, SamplerInv, ShelfInv, TurnInv, [Next]_vars
  PROVE  /\ TurnInv'
         /\ ~ overrun /\ delivered' /= delivered =>
              \A i \in DOMAIN delivered :
                delivered[i] /= delivered'[Len(delivered')]
<1>1. ASSUME NEW c \in Clients, Call(c) \/ ClientStep(c)
      PROVE  /\ TurnInv'
             /\ ~ overrun /\ delivered' /= delivered =>
                  \A i \in DOMAIN delivered :
                    delivered[i] /= delivered'[Len(delivered')]
  BY <1>1, ClientTurn, ReadTurn
<1>2. ASSUME NEW t \in Threads, ThreadStep(t)
      PROVE  TurnInv' /\ delivered' = delivered
  <2>1. CASE InsertResult(t)
    BY <2>1, InsertTurn DEF InsertResult
  <2>2. CASE ~ InsertResult(t)
    <3>1. UNCHANGED turn
      BY <1>2, <2>2 DEF ThreadStep, SetInterrupt, ClearSamples, Pulse, CollectEnd,
         CollectSleep, CollectRead, CollectWoken, Collected, Oops, Average,
         ReleaseIrq, Finish, device, history, turn
    <3> QED
      BY <3>1, InsertedStays, TurnUntouched DEF turn
  <2> QED
    BY <2>1, <2>2
<1>3. CASE Echo \/ UNCHANGED vars
  <2>1. UNCHANGED turn
    BY <1>3 DEF Echo, EchoSample, EchoUnheard, EchoLost, vars, device, history, turn
  <2> QED
    BY <2>1, InsertedStays, TurnUntouched DEF turn
<1> QED
  BY <1>1, <1>2, <1>3 DEF Next

\* On SMP, with any number of programs and of threads that are let through, a
\* read returns a result that no read has returned, unless more have come since
\* the last clear than the ring has elements.
THEOREM FreshReads ==
  SMP => (Spec => DeliveredOnce) /\ (OperatingSpec => DeliveredOnce)
<1> SUFFICES ASSUME SMP
             PROVE  (Spec => DeliveredOnce) /\ (OperatingSpec => DeliveredOnce)
  OBVIOUS
<1> DEFINE Inv == TypeInv /\ ShelfInv /\ TurnInv
           Once ==
             ~ overrun /\ delivered' /= delivered =>
               \A i \in DOMAIN delivered :
                 delivered[i] /= delivered'[Len(delivered')]
<1>1. Init \/ ConfiguredInit => Inv
  BY InitType, InitShelf, InitTurn
<1>2. Inv /\ [Next]_vars => Inv'
  BY NextType, NextShelf, NextTurn DEF TypeInv
<1>3. Inv /\ [Next]_vars => [Once]_vars
  BY NextTurn DEF TypeInv
<1> HIDE DEF Inv, Once
<1>4. Spec => [][Once]_vars
  BY <1>1, <1>2, <1>3, PTL DEF Spec
<1>5. OperatingSpec => [][Once]_vars
  BY <1>1, <1>2, <1>3, OperatingIsNext, PTL DEF OperatingSpec
<1> QED
  BY <1>4, <1>5 DEF Once, DeliveredOnce
=============================================================================
