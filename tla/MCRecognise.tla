---------------------------- MODULE MCRecognise ----------------------------
(***************************************************************************)
(* Recognise with half registers of four values and eight timer clocks a  *)
(* second: times of up to two seconds, in whole and in broken hundredths,  *)
(* and inferences that outlast the timer.  The geometry has the numbers of *)
(* the program, with touches at the ends of the digitiser's range, in the  *)
(* thumbnail's corner and in the middle.                                   *)
(***************************************************************************)
EXTENDS Recognise
=============================================================================
