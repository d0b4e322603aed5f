------------------------------ MODULE MCSdram ------------------------------
(***************************************************************************)
(* Sdram with two banks of two rows: a hit in the open row, a miss in the  *)
(* same bank and a miss in another one, for reads and writes.              *)
(***************************************************************************)
EXTENDS Sdram

MCAddresses == {[bank |-> 0, row |-> 0, col |-> 0],
                [bank |-> 0, row |-> 0, col |-> 1],
                [bank |-> 0, row |-> 1, col |-> 0],
                [bank |-> 1, row |-> 0, col |-> 0]}
=============================================================================
