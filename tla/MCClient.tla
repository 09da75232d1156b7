------------------------------ MODULE MCClient ------------------------------
(***************************************************************************)
(* Client with the times of the code, in seconds.                          *)
(***************************************************************************)
EXTENDS Client

ContextTimeout == 30

HolePunchWindow == 3
=============================================================================
