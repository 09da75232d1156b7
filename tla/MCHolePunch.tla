---------------------------- MODULE MCHolePunch ----------------------------
(***************************************************************************)
(* HolePunch in units of 100 ms.  The ticker and the client's timeout are  *)
(* the code's; the server's 15 s are cut to 1.5 s, which like 15 s is a    *)
(* multiple of the ticker's 300 ms (10 s is not).                          *)
(***************************************************************************)
EXTENDS HolePunch

Ticker == 3

TenSeconds == 100

ShortTimeout == 15
=============================================================================
