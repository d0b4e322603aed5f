--------------------------- MODULE MCJtagConsole ---------------------------
(***************************************************************************)
(* JtagConsole with a ring of three slots, a UART FIFO of two characters   *)
(* that interrupts at one, calls of up to four characters and six in all:  *)
(* the ring wraps and fills, a call is cut in two by the end of the ring   *)
(* and by a full ring, and touch_isr prints inside a write of main and     *)
(* again in the loop.                                                      *)
(***************************************************************************)
EXTENDS JtagConsole
=============================================================================
