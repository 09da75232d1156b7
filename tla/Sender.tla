------------------------------- MODULE Sender -------------------------------
(***************************************************************************)
(* The sending end of a session: SendFile and the seven steps of           *)
(* Controllers.senderSteps, as Run executes them.  One action is one round *)
(* of Run (a step and the Transition it asks for), except that             *)
(* stepSenderVerifyMerkle blocks between its two stream operations and is  *)
(* two actions.                                                            *)
(***************************************************************************)
EXTENDS Protocol, Chunk, Merkle, Stream

VARIABLES
  srcFile,    \* the file on the sender's disk
  touched,    \* history: the file was changed after SendFile looked at it
  sFileID,    \* Session.FileID
  sSize,      \* Session.FileSize
  sTotal,     \* Session.TotalChunks
  sChunk,     \* Session.CurrentChunk
  sPending,   \* Session.PendingChunk
  sLeaves,    \* Session.Leaves
  sRootSent   \* stepSenderVerifyMerkle is between SendRoot and ReadFinalAck

senderVars == <<srcFile, touched, sState, sFileID, sSize, sTotal, sChunk,
                sPending, sLeaves, sRootSent>>

\* What SendFile fixes for the whole session, and the file itself.
sFixed == <<srcFile, touched, sFileID, sSize, sTotal>>

SenderTypeOK ==
  /\ srcFile \in Files
  /\ touched \in BOOLEAN
  /\ sState \in senderSteps \cup Ended \cup {"NoSession"}
  /\ sFileID \in FileIDs
  /\ sSize \in Nat /\ sTotal \in Nat /\ sChunk \in Nat
  /\ sPending \in ChunkRecord \cup {Nil}
  /\ sLeaves \in Seq(Leaf)
  /\ sRootSent \in BOOLEAN

SenderInit ==
  /\ srcFile \in Files
  /\ touched = FALSE
  /\ sFileID \in FileIDs
  /\ sSize = 0 /\ sTotal = 0 /\ sChunk = 0
  /\ sPending = Nil
  /\ sLeaves = <<>>
  /\ sRootSent = FALSE

(***************************************************************************)
(* SendFile: the file is opened and measured once, here.                   *)
(***************************************************************************)
SendFile ==
  /\ sState = "NoSession"
  /\ sState' = "Idle"
  /\ sSize' = FileSize(srcFile)
  /\ sTotal' = Reps(srcFile)
  /\ UNCHANGED <<srcFile, touched, sFileID, sChunk, sPending, sLeaves,
                 sRootSent>>
  /\ UNCHANGED streamVars

\* The process ends: log.Fatal in SendFile when the file cannot be opened or
\* measured, a signal, or a fatal error elsewhere.  Its connections go down.
SenderExits ==
  /\ sState \notin Ended
  /\ sState' = "Exited"
  /\ Lose
  /\ UNCHANGED <<sFixed, sChunk, sPending, sLeaves, sRootSent>>

(***************************************************************************)
(* The steps.                                                              *)
(***************************************************************************)
\* Seeded fault: the sender starts on the receiver's path.
stepSenderIdleFault_WrongRole ==
  /\ sState = "Idle"
  /\ sState' = Transition(sState, "ReceiveHeader")
  /\ UNCHANGED <<sFixed, sChunk, sPending, sLeaves, sRootSent, toRcv, toSnd,
                 alive, faulty>>

stepSenderIdle ==
  /\ sState = "Idle"
  /\ sState' = Transition(sState, "SendHeader")
  /\ UNCHANGED <<sFixed, sChunk, sPending, sLeaves, sRootSent, toRcv, toSnd,
                 alive, faulty>>

stepSenderSendHeader ==
  /\ sState = "SendHeader"
  /\ \/ /\ toRcv' = Sent(toRcv, Header(sTotal, sFileID, sSize))
        /\ sState' = Transition(sState, IF sTotal = 0 THEN "Finished"
                                        ELSE "WaitingChunkRequest")
     \/ /\ WriteFails(rState)
        /\ sState' = "Error"
        /\ UNCHANGED toRcv
  /\ UNCHANGED <<sFixed, sChunk, sPending, sLeaves, sRootSent, toSnd, alive,
                 faulty>>

\* Seeded fault: the chunk is sent unasked.
stepSenderWaitChunkRequestFault_NoRead ==
  /\ sState = "WaitingChunkRequest"
  /\ sState' = Transition(sState, "SendChunkResponse")
  /\ UNCHANGED <<sFixed, sChunk, sPending, sLeaves, sRootSent>>
  /\ UNCHANGED streamVars

stepSenderWaitChunkRequest ==
  /\ sState = "WaitingChunkRequest"
  /\ LET expected == Head(toSnd) = ChunkRequest(sChunk)
     IN  \/ /\ Accepted(toSnd, expected)
            /\ toSnd' = Tail(toSnd)
            /\ sState' = Transition(sState, "SendChunkResponse")
         \/ /\ Refused(toSnd, rState, expected)
            /\ sState' = "Error"
            /\ UNCHANGED toSnd
  /\ UNCHANGED <<sFixed, sChunk, sPending, sLeaves, sRootSent, toRcv, alive,
                 faulty>>

\* The second disjunct is a failed disk read or a failed read of the random
\* source, the third a failed write to the stream.
stepSenderSendChunkResponse ==
  /\ sState = "SendChunkResponse"
  /\ \/ \E key \in Keys :
          LET c == BuildAndEncryptChunk(sFileID, sChunk,
                                        ReadChunkPlaintext(srcFile, sChunk), key)
          IN  /\ toRcv' = Sent(toRcv, ChunkResponse(c))
              /\ sPending' = c
              /\ sState' = Transition(sState, "WaitingLotteryTicket")
              /\ UNCHANGED faulty
     \/ /\ faulty' = TRUE
        /\ sState' = "Error"
        /\ UNCHANGED <<toRcv, sPending>>
     \/ /\ WriteFails(rState)
        /\ sState' = "Error"
        /\ UNCHANGED <<toRcv, sPending, faulty>>
  /\ UNCHANGED <<sFixed, sChunk, sLeaves, sRootSent, toSnd, alive>>

\* Seeded fault: the key is revealed without waiting for the ticket.
stepSenderWaitLotteryTicketFault_NoRead ==
  /\ sState = "WaitingLotteryTicket"
  /\ sState' = Transition(sState, "SendKeyReveal")
  /\ UNCHANGED <<sFixed, sChunk, sPending, sLeaves, sRootSent>>
  /\ UNCHANGED streamVars

stepSenderWaitLotteryTicket ==
  /\ sState = "WaitingLotteryTicket"
  /\ LET expected == Head(toSnd) = LotteryTicket(sChunk)
     IN  \/ /\ Accepted(toSnd, expected)
            /\ toSnd' = Tail(toSnd)
            /\ sState' = Transition(sState, "SendKeyReveal")
         \/ /\ Refused(toSnd, rState, expected)
            /\ sState' = "Error"
            /\ UNCHANGED toSnd
  /\ UNCHANGED <<sFixed, sChunk, sPending, sLeaves, sRootSent, toRcv, alive,
                 faulty>>

\* Seeded fault: the leaf of the last chunk is never added.
stepSenderSendKeyRevealFault_LastLeaf ==
  /\ sState = "SendKeyReveal"
  /\ LET last == IsLastChunk(sChunk, sTotal)
     IN  /\ toRcv' = Sent(toRcv, KeyReveal(sChunk, sPending.key))
         /\ sLeaves' = IF last THEN sLeaves
                       ELSE Append(sLeaves, GenerateLeaf(sPending))
         /\ sPending' = Nil
         /\ sChunk' = IF last THEN sChunk ELSE sChunk + 1
         /\ sState' = Transition(sState, IF last THEN "VerifyMerkle"
                                         ELSE "WaitingChunkRequest")
  /\ UNCHANGED <<sFixed, sRootSent, toSnd, alive, faulty>>

stepSenderSendKeyReveal ==
  /\ sState = "SendKeyReveal"
  /\ LET last == IsLastChunk(sChunk, sTotal)
     IN  \/ /\ toRcv' = Sent(toRcv, KeyReveal(sChunk, sPending.key))
            /\ sLeaves' = Append(sLeaves, GenerateLeaf(sPending))
            /\ sPending' = Nil
            /\ sChunk' = IF last THEN sChunk ELSE sChunk + 1
            /\ sState' = Transition(sState, IF last THEN "VerifyMerkle"
                                            ELSE "WaitingChunkRequest")
         \/ /\ WriteFails(rState)
            /\ sState' = "Error"
            /\ UNCHANGED <<toRcv, sLeaves, sPending, sChunk>>
  /\ UNCHANGED <<sFixed, sRootSent, toSnd, alive, faulty>>

\* stepSenderVerifyMerkle, as far as SendRoot ...
stepSenderSendRoot ==
  /\ sState = "VerifyMerkle" /\ ~sRootSent
  /\ \/ /\ toRcv' = Sent(toRcv, RootOf(sLeaves))
        /\ sRootSent' = TRUE
        /\ UNCHANGED sState
     \/ /\ WriteFails(rState)
        /\ sState' = "Error"
        /\ UNCHANGED <<toRcv, sRootSent>>
  /\ UNCHANGED <<sFixed, sChunk, sPending, sLeaves, toSnd, alive, faulty>>

\* Seeded fault: the sender finishes without reading the final ack.
stepSenderReadFinalAckFault_NoRead ==
  /\ sState = "VerifyMerkle" /\ sRootSent
  /\ sState' = Transition(sState, "Finished")
  /\ UNCHANGED <<sFixed, sChunk, sPending, sLeaves, sRootSent>>
  /\ UNCHANGED streamVars

\* ... and from ReadFinalAck on.
stepSenderReadFinalAck ==
  /\ sState = "VerifyMerkle" /\ sRootSent
  /\ LET expected == Head(toSnd) = FinalAck
     IN  \/ /\ Accepted(toSnd, expected)
            /\ toSnd' = Tail(toSnd)
            /\ sState' = Transition(sState, "Finished")
         \/ /\ Refused(toSnd, rState, expected)
            /\ sState' = "Error"
            /\ UNCHANGED toSnd
  /\ UNCHANGED <<sFixed, sChunk, sPending, sLeaves, sRootSent, toRcv, alive,
                 faulty>>

SenderStep ==
  \/ stepSenderIdle
  \/ stepSenderSendHeader
  \/ stepSenderWaitChunkRequest
  \/ stepSenderSendChunkResponse
  \/ stepSenderWaitLotteryTicket
  \/ stepSenderSendKeyReveal
  \/ stepSenderSendRoot
  \/ stepSenderReadFinalAck

(***************************************************************************)
(* Another program, or another session of the same server, rewrites the    *)
(* file while it is being sent.                                            *)
(***************************************************************************)
FileChanges ==
  /\ sState \in senderSteps
  /\ srcFile' \in Files
  /\ touched' = TRUE
  /\ UNCHANGED <<sState, sFileID, sSize, sTotal, sChunk, sPending, sLeaves,
                 sRootSent>>
  /\ UNCHANGED streamVars
=============================================================================
