-------------------------- MODULE MCBounceBarrier --------------------------
(***************************************************************************)
(* BounceBarrier alone, where the yields of a worker do not let the others *)
(* come back to their wait; two bounces are enough for the lost signal.    *)
(* With the 64 of the source it is part of MCPthreadSuite.                 *)
(***************************************************************************)
EXTENDS BounceBarrier
=============================================================================
