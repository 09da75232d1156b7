------------------------------- MODULE Stream -------------------------------
(***************************************************************************)
(* The libp2p stream of one session, as Protocol.Stream and its users see  *)
(* it: reliable and ordered in each direction until an end is closed or    *)
(* the connection is lost.  libp2p itself is not part of the repository.   *)
(***************************************************************************)
EXTENDS Protocol, Sequences

VARIABLES
  toRcv,    \* messages written by the sender, not yet read by the receiver
  toSnd,    \* messages written by the receiver, not yet read by the sender
  alive,    \* the connection under the stream is up
  sState,   \* Session.State of the sending end
  rState,   \* Session.State of the receiving end
  faulty    \* history: some fault of the environment has happened

streamVars == <<toRcv, toSnd, alive, faulty>>

StreamInit ==
  /\ toRcv = <<>> /\ toSnd = <<>>
  /\ alive = TRUE
  /\ sState = "NoSession" /\ rState = "NoSession"
  /\ faulty = FALSE

\* What a successful Write leaves in flight.  A write may also succeed into
\* the local buffers of a connection that is already lost.
Sent(channel, msg) == IF alive THEN Append(channel, msg) ELSE channel

\* Seeded fault: the stream is closed only when Run succeeds.
ClosedFault_SuccessOnly(state) == state = "Finished"

\* The caller of Run closes its end of the stream (the deferred s.Close())
\* when Run returns, with an error or without; an ended process has none.
Closed(state) == state \in Ended

\* A write can fail once the connection is lost or the peer's end is closed.
WriteFails(peer) == alive => Closed(peer)

Arrived(channel) == alive /\ channel # <<>>

\* A read returns the next message ...
Accepted(channel, expected) == Arrived(channel) /\ expected

\* ... which the step rejects when it is not the expected one, or it fails:
\* the connection is lost, or everything was read and the peer has closed.
Refused(channel, peer, expected) ==
  IF Arrived(channel) THEN ~expected ELSE alive => Closed(peer)

\* The connection goes down, with what was in flight: because an end closed
\* its host, or by a fault.
Cut == alive' = FALSE /\ toRcv' = <<>> /\ toSnd' = <<>>

Lose == Cut /\ faulty' = TRUE
=============================================================================
