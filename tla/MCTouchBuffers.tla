-------------------------- MODULE MCTouchBuffers --------------------------
(***************************************************************************)
(* Small instances of TouchBuffers.  FIFO_SIZE, STACK_SIZE and MaxTouches  *)
(* come from the .cfg files; the program's are 32 and 512.  With more      *)
(* touches than slots the ring wraps and both buffers fill up.             *)
(***************************************************************************)
EXTENDS TouchBuffers

ASSUME BoundsReachLimits ==
    /\ MaxTouches > FIFO_SIZE
    /\ MaxTouches > STACK_SIZE
=============================================================================
