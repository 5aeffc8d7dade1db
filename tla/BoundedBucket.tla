--------------------------- MODULE BoundedBucket ---------------------------
(***************************************************************************)
(* What the producer/consumer programs promise, without a thread, a lock   *)
(* or a condition variable: items go into the bucket and out of it one at  *)
(* a time, it never holds more than BucketCapacity of them, and in the end *)
(* every one of the ItemCount items has gone through.                      *)
(***************************************************************************)
EXTENDS Integers

CONSTANTS ItemCount, BucketCapacity

VARIABLES bucket_value, bucket_given, bucket_taken

bucketVars == <<bucket_value, bucket_given, bucket_taken>>

Init ==
    /\ bucket_value = 0
    /\ bucket_given = 0
    /\ bucket_taken = 0

GiveItem ==
    /\ bucket_given < ItemCount
    /\ bucket_value < BucketCapacity
    /\ bucket_value' = bucket_value + 1
    /\ bucket_given' = bucket_given + 1
    /\ UNCHANGED bucket_taken

TakeItem ==
    /\ bucket_taken < ItemCount
    /\ bucket_value > 0
    /\ bucket_value' = bucket_value - 1
    /\ bucket_taken' = bucket_taken + 1
    /\ UNCHANGED bucket_given

Next == GiveItem \/ TakeItem

Safety == Init /\ [][Next]_bucketVars

Spec == Safety /\ WF_bucketVars(GiveItem) /\ WF_bucketVars(TakeItem)
=============================================================================
