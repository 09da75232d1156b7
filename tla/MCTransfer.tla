----------------------------- MODULE MCTransfer -----------------------------
(***************************************************************************)
(* Small instances of Transfer: chunks of two bytes and files of zero to   *)
(* three chunks, the last one full or not.                                 *)
(***************************************************************************)
EXTENDS TransferCopy, Lockstep, TLC

Upto(n) == { [i \in 1 .. k |-> i] : k \in 0 .. n }

\* Bytes are numbered by position, so that a misplaced chunk shows.
MCBytes == 1 .. 5

MCFiles == Upto(5)

MCFewFiles == Upto(3)

KeySymmetry == Permutations(Keys)
=============================================================================
