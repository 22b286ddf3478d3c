---------------------------- MODULE Measurement -----------------------------
(***************************************************************************)
(* What a range sensor driver promises one program that uses it: at most   *)
(* one measurement at a time, one result for each, and a reader that gets  *)
(* the results that the latest start has not thrown away, oldest first.    *)
(***************************************************************************)
EXTENDS Sequences

CONSTANT Results

VARIABLES
  phase,     \* "idle", "sampling", or "published": the result is out
  ready,     \* the results nobody has read, oldest first
  delivered  \* the results that were read, in the order of the reads

vars == <<phase, ready, delivered>>

Init == phase = "idle" /\ ready = <<>> /\ delivered = <<>>

\* Starting a measurement throws the old results away.
Start == /\ phase = "idle" /\ phase' = "sampling"
         /\ ready' = <<>>
         /\ UNCHANGED delivered

Publish(r) == /\ phase = "sampling" /\ phase' = "published"
              /\ ready' = Append(ready, r)
              /\ UNCHANGED delivered

Finish == /\ phase = "published" /\ phase' = "idle"
          /\ UNCHANGED <<ready, delivered>>

Deliver == /\ ready /= <<>>
           /\ delivered' = Append(delivered, Head(ready))
           /\ ready' = Tail(ready)
           /\ UNCHANGED phase

Next == Start \/ (\E r \in Results : Publish(r)) \/ Finish \/ Deliver

Spec == Init /\ [][Next]_vars
=============================================================================
