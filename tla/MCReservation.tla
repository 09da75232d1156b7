--------------------------- MODULE MCReservation ---------------------------
(***************************************************************************)
(* Small instances of Reservation.                                         *)
(***************************************************************************)
EXTENDS Reservation

\* The same relay twice, as StaticRelayAddrs allows.
SameRelayTwice == <<"r1", "r1">>

TwoRelays == <<"r1", "r2">>
=============================================================================
