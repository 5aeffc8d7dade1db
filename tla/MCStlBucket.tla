---------------------------- MODULE MCStlBucket ----------------------------
(***************************************************************************)
(* StlBucket with more items than the bucket holds, so that it runs        *)
(* empty and full, and each side falls asleep on the other.                *)
(***************************************************************************)
EXTENDS StlBucket
=============================================================================
