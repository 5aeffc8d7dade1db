----------------------------- MODULE MCPingPong -----------------------------
(***************************************************************************)
(* PingPong with the constants of its run: enough turns to see first,      *)
(* middle and last ones, and rounds in both orders of creation, the second *)
(* round of each reusing what the first has left behind.                   *)
(***************************************************************************)
EXTENDS PingPong
=============================================================================
