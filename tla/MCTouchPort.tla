---------------------------- MODULE MCTouchPort ----------------------------
(***************************************************************************)
(* TouchPort with the clocks of the design: 150 MHz over 50 MHz.  The      *)
(* processor (Nios II/e, 150 MHz) needs six clocks for an instruction, and *)
(* executes at least one between two accesses; an access is over two       *)
(* clocks before the next fetch.  The UART interrupts twice.               *)
(***************************************************************************)
EXTENDS TouchPort
=============================================================================
