---------------------------- MODULE MCFifoBuffer ----------------------------
(* Small instances of FifoBuffer: three distinguishable elements, of which  *)
(* the one with timestamp 0 is what clear_buffer makes of the others.       *)
EXTENDS FifoBuffer, TLC

MCData == [timestamp : 0 .. 2]

MCTwoData == [timestamp : 0 .. 1]

\* The readers are interchangeable.
Symmetry == Permutations(Procs)
=============================================================================
