----------------------------- MODULE MCButtons -----------------------------
(***************************************************************************)
(* Buttons with the three keys of the board that reach the port: KEY1 is   *)
(* CLEAR (0x2), KEY2 is RECOGNISE (0x4) and KEY3 has no meaning.           *)
(***************************************************************************)
EXTENDS Buttons
=============================================================================
