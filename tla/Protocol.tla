------------------------------ MODULE Protocol ------------------------------
(***************************************************************************)
(* The transfer state machine shared by both ends of a session             *)
(* (Protocol/state.go, session.go, fsm.go): the states, the transition     *)
(* table, and what Run does with the state a step asks for.                *)
(***************************************************************************)
EXTENDS Naturals

(***************************************************************************)
(* The keys of the two step tables that Run dispatches on.                 *)
(***************************************************************************)
senderSteps ==
  {"Idle", "SendHeader", "WaitingChunkRequest", "SendChunkResponse",
   "WaitingLotteryTicket", "SendKeyReveal", "VerifyMerkle"}

receiverSteps ==
  {"Idle", "ReceiveHeader", "SendChunkRequest", "WaitingChunkResponse",
   "SendLotteryTicket", "WaitingKeyReveal", "VerifyChunk", "VerifyMerkle"}

validTransitions ==
  { <<"Idle", "SendHeader">>,
    <<"Idle", "ReceiveHeader">>,
    <<"SendHeader", "WaitingChunkRequest">>,
    <<"SendHeader", "Finished">>,
    <<"WaitingChunkRequest", "SendChunkResponse">>,
    <<"SendChunkResponse", "WaitingLotteryTicket">>,
    <<"WaitingLotteryTicket", "SendKeyReveal">>,
    <<"SendKeyReveal", "WaitingChunkRequest">>,
    <<"SendKeyReveal", "VerifyMerkle">>,
    <<"ReceiveHeader", "SendChunkRequest">>,
    <<"ReceiveHeader", "Finished">>,
    <<"SendChunkRequest", "WaitingChunkResponse">>,
    <<"WaitingChunkResponse", "SendLotteryTicket">>,
    <<"SendLotteryTicket", "WaitingKeyReveal">>,
    <<"WaitingKeyReveal", "VerifyChunk">>,
    <<"VerifyChunk", "SendChunkRequest">>,
    <<"VerifyChunk", "VerifyMerkle">>,
    <<"VerifyMerkle", "Finished">> }

\* Seeded faults: the table forgets that an empty file ends the transfer with
\* its header, or that the Merkle check ends it.
isAllowedFault_NoEmptyFile(current, next) ==
  <<current, next>> \in validTransitions \ {<<"SendHeader", "Finished">>}

isAllowedFault_NoFinish(current, next) ==
  <<current, next>> \in validTransitions \ {<<"VerifyMerkle", "Finished">>}

isAllowed(current, next) == <<current, next>> \in validTransitions

\* Run's last act in each round: Transition to the state the step returned,
\* or Fail when the table does not have that edge.
Transition(current, next) == IF isAllowed(current, next) THEN next ELSE "Error"

IsLastChunk(current, total) == total > 0 /\ current = total - 1

(***************************************************************************)
(* A session's life outside Run: before SendFile or RecieveFile has made   *)
(* it there is none; the process that holds it may go away.  Returned is   *)
(* the set of states in which Run has returned to its caller, whose        *)
(* deferred s.Close() then closes this end of the stream.                  *)
(***************************************************************************)
Returned == {"Finished", "Error"}

Ended == Returned \cup {"Exited"}
=============================================================================
