------------------------------ MODULE MCServer ------------------------------
(***************************************************************************)
(* Two clients at a time on two names.  Clients are not symmetric here:    *)
(* one of the properties is about liveness.                                *)
(***************************************************************************)
EXTENDS Server

\* A first and a last chunk.
TwoChunks == 2
=============================================================================
