-------------------------- MODULE MCMemModelTests --------------------------
(***************************************************************************)
(* MemModelTests with the four readers of test03, three pairs as in the    *)
(* source (max_threads / 2), an array of three, and repeated rounds.       *)
(***************************************************************************)
EXTENDS MemModelTests
=============================================================================
