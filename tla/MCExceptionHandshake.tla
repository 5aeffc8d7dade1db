------------------------ MODULE MCExceptionHandshake ------------------------
(***************************************************************************)
(* ExceptionHandshake as it is: the program has no parameters.             *)
(***************************************************************************)
EXTENDS ExceptionHandshake
=============================================================================
