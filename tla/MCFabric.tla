----------------------------- MODULE MCFabric ------------------------------
(***************************************************************************)
(* Fabric with the processor's data port, the display with bursts of three *)
(* words, and a master that only writes.                                   *)
(***************************************************************************)
EXTENDS Fabric, TLC

MCAsks == (0 :> {"read", "write"}) @@ (1 :> {"read"}) @@ (2 :> {"write"})
MCWords == (0 :> 1) @@ (1 :> 3) @@ (2 :> 1)
=============================================================================
