----------------------------- MODULE MCDisplay -----------------------------
(***************************************************************************)
(* Display with a picture of 6 x 4 pixels, in six bursts of 4, so that     *)
(* bursts and lines begin at different places as in the design (bursts of  *)
(* 256, lines of 800), and three system clocks per pixel instead of 24.    *)
(***************************************************************************)
EXTENDS Display
=============================================================================
