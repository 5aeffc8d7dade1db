--------------------------- MODULE MCPthreadBucket --------------------------
(***************************************************************************)
(* PthreadBucket with more items than the bucket holds, so that it runs    *)
(* empty and full, and each side falls asleep on the other.                *)
(***************************************************************************)
EXTENDS PthreadBucket
=============================================================================
