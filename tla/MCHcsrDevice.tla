---------------------------- MODULE MCHcsrDevice ----------------------------
(* Small instances of HcsrDevice.                                           *)
EXTENDS HcsrDevice, TLC

\* Parameters that main.c may pass on: everything scanf("%d") accepts.
MCSamples == {-3, -2, -1, 0, 1}

\* A parameter for which a measurement is one pulse and no echo is waited for:
\* the run can afford three programs, and they can overrun the ring.
MCOnePulse == {-1}

\* The second lies a turn of tv_nsec away from the first.
MCDistances == {-2, 1}

\* The programs are interchangeable.
Symmetry == Permutations(Clients)
=============================================================================
