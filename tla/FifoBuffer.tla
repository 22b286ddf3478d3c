----------------------------- MODULE FifoBuffer -----------------------------
(***************************************************************************)
(* One of a device's two buffers, of either driver, and the processes that *)
(* use it at the same time: readers (read(2) callers or the sampling       *)
(* thread), inserters (the sampling thread or the interrupt handler), and  *)
(* those who clear it.  The ring called buffer gets its array and its size *)
(* once, before anybody can reach it.  The other, all_samples, starts      *)
(* zeroed, and is given a new array by every SET_PARAMETERS and every      *)
(* write of sample_numbers, of as many elements as the program asked for   *)
(* or none at all, while others use it and without its lock.               *)
(***************************************************************************)
EXTENDS RingBuffer, FiniteSets

CONSTANTS
  Procs,     \* the processes that call read_fifo and clear_buffer
  Data,      \* the struct data values
  Nothing,   \* what a process that has not read has got
  Size,      \* MAX_BUFF_SIZE: the size of the ring called buffer
  Cells,     \* bound: the elements all_samples is ever given
  MaxUnits,  \* bound: the semaphore's count
  MaxStores  \* bound: writes of sample_numbers between their two calls

ASSUME BufferAssumption ==
  /\ Size \in Nat \ {0}
  /\ Cells \in Nat
  /\ MaxUnits \in Nat
  /\ MaxStores \in Nat
  /\ NoOne \notin Procs
  /\ Nothing \notin Data
  /\ \A d \in Data : Stampless(d) \in Data

VARIABLES
  which,   \* which of the device's two buffers this is; never changed
  buf,     \* the struct buff
  pc,      \* where each process is; "oops" is where a fault has left it
  got,     \* what its last read_fifo returned
  stores,  \* writes of sample_numbers that have not called init_buffer yet
  halted   \* a fault in the interrupt handler stopped the machine

vars == <<which, buf, pc, got, stores, halted>>

\* What kmalloc answers: memory that is not initialised, or none; for a size of
\* 0 a pointer that is not NULL, but no memory either.
Arrays == {NoMemory} \cup UNION {[0 .. n - 1 -> Data] : n \in 1 .. Cells}

Init ==
  /\ \/ /\ which = "buffer"
        /\ \E cells \in [0 .. Size - 1 -> Data] :
             buf = init_buffer(alloc_buffer(Zeroed, cells), Size)
     \/ which = "all_samples" /\ buf = Zeroed
  /\ pc = [p \in Procs |-> "idle"]
  /\ got = [p \in Procs |-> Nothing]
  /\ stores = 0 /\ halted = FALSE

-----------------------------------------------------------------------------

\* A fault kills the process inside its section: on SMP the lock stays taken.
Dies(p, b) ==
  /\ pc' = [pc EXCEPT ![p] = "oops"]
  /\ buf' = [b EXCEPT !.lock = IF SMP THEN p ELSE NoOne]
  /\ UNCHANGED <<which, got, stores, halted>>

\* The rest of read_fifo after down(), which leaves the buffer as next.
Takes(p, next) ==
  /\ got' = [got EXCEPT ![p] = ReadValue(buf)]
  /\ buf' = next
  /\ pc' = [pc EXCEPT ![p] = "idle"]
  /\ UNCHANGED <<which, stores, halted>>

\* read_fifo finds a unit: it runs from lock to unlock without sleeping.
ReadFifo(p) ==
  /\ pc[p] = "idle" /\ Unlocked(buf) /\ buf.sem > 0
  /\ IF buf.result = NoMemory THEN Dies(p, [buf EXCEPT !.sem = @ - 1])
                              ELSE Takes(p, ReadNow(buf))

\* read_fifo finds none: it sleeps in down().
ReadSleep(p) ==
  /\ pc[p] = "idle" /\ Unlocked(buf) /\ buf.sem = 0
  /\ buf' = SleepIn(buf, p)
  /\ pc' = [pc EXCEPT ![p] = "asleep"]
  /\ UNCHANGED <<which, got, stores, halted>>

\* A reader that up() has woken runs the rest of read_fifo.
ReadWoken(p) ==
  /\ pc[p] = "woken"
  /\ IF buf.result = NoMemory THEN Dies(p, buf) ELSE Takes(p, AfterRead(buf))

\* insert_buffer.  Into all_samples the interrupt handler inserts.
Insert(d) ==
  /\ Unlocked(buf) /\ buf.sem < MaxUnits
  /\ IF buf.result = NoMemory
       THEN halted' = TRUE /\ UNCHANGED <<buf, pc>>
       ELSE /\ buf' = insert_buffer(buf, d)
            /\ pc' = [p \in Procs |->
                        IF p \in WokenBy(buf) THEN "woken" ELSE pc[p]]
            /\ UNCHANGED halted
  /\ UNCHANGED <<which, got, stores>>

\* clear_buffer; bytes is its size argument.
Clear(p, bytes) ==
  /\ pc[p] = "idle" /\ Unlocked(buf)
  /\ IF MemsetFaults(buf, bytes)
       THEN Dies(p, [buf EXCEPT !.tail = 0, !.head = 0, !.count = 0])
       ELSE buf' = clear_buffer(buf, bytes)
            /\ UNCHANGED <<which, pc, got, stores, halted>>

\* alloc_buffer, with no lock taken: in SET_PARAMETERS of the character driver
\* it is all there is, in sample_numbers init_buffer follows if it succeeded.
AllocSamples(cells) ==
  /\ which = "all_samples"
  /\ buf' = alloc_buffer(buf, cells)
  /\ stores' \in {stores, stores + 1} /\ stores' <= MaxStores
  /\ UNCHANGED <<which, pc, got, halted>>

\* Mutated InitSamples: the size of the other ring.
InitSamplesSize ==
  /\ which = "all_samples" /\ stores > 0
  /\ buf' = init_buffer(buf, Size)
  /\ stores' = stores - 1
  /\ UNCHANGED <<which, pc, got, halted>>

\* init_buffer of sample_numbers, whoever reads or inserts meanwhile.  The size is
\* the platform driver's MAX_BUFF_SIZE, which is 1, whatever was allocated.
InitSamples ==
  /\ which = "all_samples" /\ stores > 0
  /\ buf' = init_buffer(buf, 1)
  /\ stores' = stores - 1
  /\ UNCHANGED <<which, pc, got, halted>>

Next ==
  /\ ~ halted
  /\ \/ \E p \in Procs : ReadFifo(p) \/ ReadSleep(p) \/ ReadWoken(p) \/ Clear(p, 1)
     \/ \E d \in Data : Insert(d)
     \/ \E cells \in Arrays : AllocSamples(cells)
     \/ InitSamples

Spec == Init /\ [][Next]_vars

-----------------------------------------------------------------------------
(* The discipline under which the ring called buffer is a queue: no insert  *)
(* into a full ring, and no clear while a reader is inside read_fifo.       *)

Woken == {p \in Procs : pc[p] = "woken"}

\* The elements inserted and not read: the units of the semaphore and those
\* up() gave to readers that have not run since.
Outstanding == buf.sem + Cardinality(Woken)

Idle == \A p \in Procs : pc[p] = "idle"

DisciplinedNext ==
  /\ ~ halted
  /\ \/ \E p \in Procs : ReadFifo(p) \/ ReadSleep(p) \/ ReadWoken(p)
     \/ Outstanding < Size /\ \E d \in Data : Insert(d)
     \/ Idle /\ \E p \in Procs : Clear(p, 1)

DisciplinedInit == Init /\ which = "buffer"

DisciplinedSpec == DisciplinedInit /\ [][DisciplinedNext]_vars

-----------------------------------------------------------------------------
(* Properties.                                                             *)

\* No call, in any order and whatever was cleared or reallocated in between,
\* reads or writes beside the array, however few elements it was given: if there
\* is one, it has the element that insert_buffer would write next and the element
\* that read_fifo would return next.  (If there is none the access faults.)
IndexInBounds ==
  buf.result /= NoMemory =>
    {buf.head, InsertIndex(buf)} \subseteq DOMAIN buf.result

\* On SMP a reader that found the semaphore at 0 never returns: insert_buffer
\* needs the lock that the sleeper holds, and whatever frees that lock by force
\* (init_buffer) has emptied the wait list first.
SleepIsForever ==
  [][SMP => \A p \in Procs : pc[p] = "asleep" => pc'[p] = "asleep"]_vars

\* Under the discipline the buffer is a queue: reads return what was inserted,
\* oldest first, each element once, also around the end of the array.
Contents ==
  [i \in 1 .. Outstanding |->
     buf.result[IF buf.head + i - 1 < Size THEN buf.head + i - 1
                                           ELSE buf.head + i - 1 - Size]]

Queue == INSTANCE Fifo WITH Capacity <- Size, queue <- Contents

IsQueue == Queue!Spec
=============================================================================
