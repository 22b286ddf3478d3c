----------------------------- MODULE MCMuxTable -----------------------------
(* The mux table of the Galileo board, and instances that use some pins of  *)
(* it.  A pin has two rows in muxtable.h, which differ in their function    *)
(* and in the level of the direction gpio, 1 for input and 0 for output.    *)
EXTENDS EchoLine, TLC

\* pin, gpio_pin, direction_pin, the function pins (all of level 0).
mux_table ==
  {<<0, 11, 32, {}>>, <<1, 12, 28, {45}>>, <<2, 13, 34, {77}>>,
   <<4, 6, 36, {}>>, <<5, 0, 18, {66}>>, <<6, 1, 20, {68}>>,
   <<9, 4, 22, {70}>>, <<10, 10, 26, {74}>>, <<11, 5, 24, {44}>>,
   <<12, 15, 18, {}>>, <<13, 7, 30, {46}>>, <<14, 48, 24, {44}>>}

Row(n) == CHOOSE row \in mux_table : row[1] = n

MCGpioPin == [n \in Pins |-> Row(n)[2]]

MCDirectionPin == [n \in Pins |-> Row(n)[3]]

MCFunctionPins == [n \in Pins |-> Row(n)[4]]

\* The programs are interchangeable.
Symmetry == Permutations(Programs) \cup Permutations(Threads)
=============================================================================
