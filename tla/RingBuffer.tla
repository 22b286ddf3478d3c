----------------------------- MODULE RingBuffer -----------------------------
(***************************************************************************)
(* struct buff of buffer.h, the same in both drivers: an array of samples  *)
(* with its cursors, a counting semaphore and a spin lock.  The operators  *)
(* below are the bodies of its functions, as functions of the whole        *)
(* record.  The operations are put together, with the processes that run   *)
(* them, in the modules that extend this one.                              *)
(*                                                                         *)
(* The lock and the semaphore are the kernel's, and are modelled by what   *)
(* they do in the two builds of a kernel:                                  *)
(*   - SMP: spin_lock_irqsave excludes every other CPU until the unlock,   *)
(*     also while the holder sleeps in down();                             *)
(*   - uniprocessor (the Galileo board of the README): it only disables    *)
(*     interrupts and preemption, so a section that does not sleep is      *)
(*     atomic and a section that sleeps in down() lets everybody in.       *)
(* A section that does not sleep is one atomic step in both.               *)
(***************************************************************************)
EXTENDS Integers, Sequences

CONSTANTS
  SMP,   \* TRUE: the kernel is built for several CPUs
  NoOne  \* the owner of a lock nobody holds

ASSUME BuildAssumption == SMP \in BOOLEAN

\* kmalloc's answer when it has no memory, and the array of a zeroed struct.
NoMemory == <<>>

\* The struct as memset(…, 0, sizeof (struct hcsr_dev)) leaves it.
Zeroed == [result |-> NoMemory, head |-> 0, tail |-> 0, size |-> 0,
           count |-> 0, sem |-> 0, waiters |-> <<>>, lock |-> NoOne]

-----------------------------------------------------------------------------
(* The kernel's primitives.                                                *)

\* spin_lock_irqsave returns at once: it is not held by another CPU.
Unlocked(b) == b.lock = NoOne

\* down() on a semaphore at 0: the caller joins the wait list and sleeps.  On
\* SMP it sleeps with the spin lock it took before.
SleepIn(b, p) == [b EXCEPT !.waiters = Append(@, p),
                           !.lock = IF SMP THEN p ELSE NoOne]

\* up(): the first sleeper gets the unit, if there is one.
Up(b) == IF b.waiters = <<>> THEN [b EXCEPT !.sem = @ + 1]
                             ELSE [b EXCEPT !.waiters = Tail(@)]

\* The processes up() wakes.
WokenBy(b) == IF b.waiters = <<>> THEN {} ELSE {Head(b.waiters)}

\* sema_init(sem, 0): the wait list is emptied without waking anybody.
SemaInit(b) == [b EXCEPT !.sem = 0, !.waiters = <<>>]

-----------------------------------------------------------------------------
(* The functions of buffer.h.                                              *)

\* init_buffer; spin_lock_init makes the lock free whoever holds it.
init_buffer(b, size) ==
  [SemaInit(b) EXCEPT !.tail = 0, !.head = 0, !.count = 0, !.size = size,
                      !.lock = NoOne]

\* alloc_buffer: only the array is replaced, the cursors and size are not.
alloc_buffer(b, cells) == [b EXCEPT !.result = cells]

\* clear_buffer's memset(result, 0, size) counts bytes, not elements: the few
\* bytes it clears belong to the timestamp of element 0.  It faults when there
\* is no array (and when the byte count is negative, hence huge).
MemsetFaults(b, bytes) == bytes < 0 \/ (bytes > 0 /\ b.result = NoMemory)

Stampless(d) == [d EXCEPT !.timestamp = 0]

\* Mutated clear_buffer: sema_init is forgotten, the units that are there stay.
ClearKeepsUnits(b, bytes) ==
  [b EXCEPT
     !.tail = 0, !.head = 0, !.count = 0,
     !.result = IF bytes = 0 THEN @
                 ELSE [b.result EXCEPT ![0] = Stampless(b.result[0])]]

clear_buffer(b, bytes) ==
  [SemaInit(b) EXCEPT
     !.tail = 0, !.head = 0, !.count = 0,
     !.result = IF bytes = 0 THEN @
                 ELSE [b.result EXCEPT ![0] = Stampless(b.result[0])]]

\* Mutated InsertIndex: the wrap comes one element late.
InsertIndexLate(b) == IF b.tail > b.size THEN 0 ELSE b.tail

\* insert_buffer: the element it writes, and what it leaves behind.
InsertIndex(b) == IF b.tail >= b.size THEN 0 ELSE b.tail

insert_buffer(b, d) ==
  Up([b EXCEPT !.result = [b.result EXCEPT ![InsertIndex(b)] = d],
               !.tail = InsertIndex(b) + 1,
               !.count = IF @ + 1 > b.size THEN @ ELSE @ + 1])

\* read_fifo after down(): the value it returns, and what it leaves behind.
ReadValue(b) == b.result[b.head]

\* Mutated AfterRead: the head never wraps.
AfterReadNoWrap(b) == [b EXCEPT !.head = @ + 1, !.count = @ - 1, !.lock = NoOne]

\* Mutated AfterRead: the head stays.
AfterReadStays(b) == [b EXCEPT !.count = @ - 1, !.lock = NoOne]

AfterRead(b) ==
  IF b.head + 1 >= b.size
    THEN [b EXCEPT !.head = 0, !.count = b.tail - 1, !.lock = NoOne]
    ELSE [b EXCEPT !.head = @ + 1, !.count = @ - 1, !.lock = NoOne]

\* read_fifo with a unit at hand: down() does not sleep.
ReadNow(b) == AfterRead([b EXCEPT !.sem = @ - 1])
=============================================================================
