---------------------------- MODULE MCLcdConfig ----------------------------
(***************************************************************************)
(* LcdConfig at the design's size, 21 registers of 16 bits, with one reset *)
(* at any edge and any number of refusals of any register.                 *)
(***************************************************************************)
EXTENDS LcdConfig
=============================================================================
