------------------------------ MODULE Lockstep ------------------------------
(***************************************************************************)
(* How far apart the two ends of a session can be: for every state of the  *)
(* receiver, what the sender's state is and which messages are in flight.  *)
(* A connection that is down carries nothing and the ends no longer move   *)
(* together.                                                               *)
(***************************************************************************)
EXTENDS TransferInvariants

\* A session runs only where main or HandleStream started it, and HandleStream
\* only after RequestFile.
Endpoints ==
  /\ sState # "NoSession" => MaySend
  /\ rState # "NoSession" => MayReceive
  /\ handler = "SendFile" => method = "GET" /\ client = "requested"
  /\ handler = "RecieveFile" => method = "POST" /\ client = "requested"
  /\ alive => client # "exited" /\ handler # "dropped"

BothEmpty == toRcv = <<>> /\ toSnd = <<>>

Request ==
  IF client = "requested" /\ handler = "reading" THEN <<WhatToDo(TypeCode)>> ELSE <<>>

\* Before the receiver has its header.
Early ==
  /\ rState \in {"NoSession", "Idle", "ReceiveHeader"}
  /\ ~sRootSent /\ ~rRootOK
  /\ toSnd = IF method = "GET" THEN Request ELSE <<>>
  /\ LET before == IF method = "POST" THEN Request ELSE <<>>
     IN  \/ /\ sState \in {"NoSession", "Idle", "SendHeader"}
            /\ toRcv = before
         \/ /\ sState = IF sTotal = 0 THEN "Finished" ELSE "WaitingChunkRequest"
            /\ sChunk = 0
            /\ toRcv = Append(before, Header(sTotal, sFileID, sSize))

\* A chunk is asked for, sent and acknowledged.
Exchange ==
  /\ rTotal = sTotal /\ rChunk = sChunk
  /\ ~sRootSent /\ ~rRootOK
  /\ \/ /\ rState = "SendChunkRequest" /\ sState = "WaitingChunkRequest"
        /\ BothEmpty
     \/ /\ rState = "WaitingChunkResponse" /\ sState = "WaitingChunkRequest"
        /\ toRcv = <<>> /\ toSnd = <<ChunkRequest(rChunk)>>
     \/ /\ rState = "WaitingChunkResponse" /\ sState = "SendChunkResponse"
        /\ BothEmpty
     \/ /\ rState = "WaitingChunkResponse" /\ sState = "WaitingLotteryTicket"
        /\ toRcv = <<ChunkResponse(sPending)>> /\ toSnd = <<>>
     \/ /\ rState = "SendLotteryTicket" /\ sState = "WaitingLotteryTicket"
        /\ BothEmpty
     \/ /\ rState = "WaitingKeyReveal" /\ sState = "WaitingLotteryTicket"
        /\ toRcv = <<>> /\ toSnd = <<LotteryTicket(rChunk)>>
     \/ /\ rState = "WaitingKeyReveal" /\ sState = "SendKeyReveal"
        /\ BothEmpty

\* The sender has revealed the chunk's key and gone on, to the next chunk or to
\* the root.
KeyOut ==
  /\ rState \in {"WaitingKeyReveal", "VerifyChunk"}
  /\ rTotal = sTotal /\ ~rRootOK
  /\ toSnd = <<>>
  /\ \E key \in Keys :
       LET reveal == IF rState = "WaitingKeyReveal" THEN <<KeyReveal(rChunk, key)>> ELSE <<>>
       IN  IF IsLastChunk(rChunk, rTotal)
           THEN /\ sState = "VerifyMerkle"
                /\ toRcv = IF sRootSent THEN Append(reveal, RootOf(sLeaves)) ELSE reveal
           ELSE /\ sState = "WaitingChunkRequest" /\ ~sRootSent
                /\ sChunk = rChunk + 1
                /\ toRcv = reveal

Verifying ==
  /\ rState = "VerifyMerkle" /\ sState = "VerifyMerkle"
  /\ rTotal = sTotal
  /\ rRootOK => sRootSent
  /\ toRcv = IF sRootSent /\ ~rRootOK THEN <<RootOf(sLeaves)>> ELSE <<>>
  /\ toSnd = <<>>

Finishing ==
  /\ rState = "Finished"
  /\ toRcv = <<>>
  /\ \/ sState = "VerifyMerkle" /\ sRootSent /\ toSnd = <<FinalAck>>
     \/ sState = "Finished" /\ toSnd = <<>>

\* A disk has failed at one end; the other is about to find out.
Failing ==
  /\ faulty /\ toSnd = <<>>
  /\ \/ rState = "WaitingChunkResponse" /\ sState = "Error" /\ toRcv = <<>>
     \/ /\ rState = "Error"
        /\ sState \in {"WaitingChunkRequest", "VerifyMerkle", "Finished", "Error"}
        /\ Len(toRcv) <= 1
        /\ sState = "VerifyMerkle" /\ ~sRootSent => toRcv = <<>>

\* The connection of a session without faults goes down only when the client
\* has finished.
Down == BothEmpty /\ (faulty \/ ClientEnd = "Finished")

\* The whole protocol at a glance: the two step tables move together, at every
\* moment at most one end has something to do but for the root, and each waits
\* for the message the other is about to send or has sent.
InLockstep ==
  IF alive THEN Early \/ Exchange \/ KeyOut \/ Verifying \/ Finishing \/ Failing
           ELSE Down
=============================================================================
