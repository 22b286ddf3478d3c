-------------------------------- MODULE Fifo --------------------------------
(***************************************************************************)
(* What buffer.h promises its callers: a queue of at most Capacity         *)
(* elements.  read_fifo returns the oldest, clear_buffer drops them all.   *)
(***************************************************************************)
EXTENDS Integers, Sequences

CONSTANTS
  Procs,     \* the readers
  Data,      \* the elements
  Capacity,  \* how many fit
  Nothing    \* what a process that has not read has got

VARIABLES
  queue,  \* the elements inserted and not read yet, oldest first
  got     \* what the last read of each process returned

Init == queue = <<>> /\ got = [p \in Procs |-> Nothing]

Put(d) == /\ Len(queue) < Capacity
          /\ queue' = Append(queue, d)
          /\ UNCHANGED got

Get(p) == /\ queue /= <<>>
          /\ got' = [got EXCEPT ![p] = Head(queue)]
          /\ queue' = Tail(queue)

Drop == queue' = <<>> /\ UNCHANGED got

Next == \/ \E d \in Data : Put(d)
        \/ \E p \in Procs : Get(p)
        \/ Drop

Spec == Init /\ [][Next]_<<queue, got>>
=============================================================================
