----------------------------- MODULE MCAdcSpi -----------------------------
(***************************************************************************)
(* AdcSpi with dclk one clock in three instead of one in 2084, and every   *)
(* other number of the design.                                             *)
(***************************************************************************)
EXTENDS AdcSpi
=============================================================================
