---------------------------- MODULE MCTestImage ----------------------------
(***************************************************************************)
(* TestImage with the pools of prj.conf, which leave four threads to the   *)
(* race; their own waits may always return unsignalled.  Four key ids: as  *)
(* many as there are key variables, twice as many as there are ever keys,  *)
(* so that ids are used again.                                             *)
(***************************************************************************)
EXTENDS TestImage

FourIds == 0..3
WaitingThreads == 0..3
=============================================================================
