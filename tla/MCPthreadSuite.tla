--------------------------- MODULE MCPthreadSuite ---------------------------
(***************************************************************************)
(* PthreadSuite with the numbers of the source and of prj.conf: a pool of  *)
(* six threads, three workers with 64 bounces each.                        *)
(***************************************************************************)
EXTENDS PthreadSuite
=============================================================================
