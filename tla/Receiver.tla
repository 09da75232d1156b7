------------------------------ MODULE Receiver ------------------------------
(***************************************************************************)
(* The receiving end of a session: RecieveFile and the eight steps of      *)
(* Controllers.receiverSteps, as Run executes them.  One action is one     *)
(* round of Run, except that stepReceiverVerifyMerkle does two stream      *)
(* operations between which the connection may be lost, and is two         *)
(* actions.                                                                *)
(***************************************************************************)
EXTENDS Protocol, Chunk, Merkle, Stream

VARIABLES
  rFileID,    \* Session.FileID
  rSize,      \* Session.FileSize
  rTotal,     \* Session.TotalChunks
  rChunk,     \* Session.CurrentChunk
  rPending,   \* Session.PendingChunk
  rLeaves,    \* Session.Leaves
  rRootOK,    \* stepReceiverVerifyMerkle is between ReadRoot and SendFinalAck
  rFileOpen,  \* Session.File is open
  out         \* the contents of the file created under ./received/

receiverVars == <<rState, rFileID, rSize, rTotal, rChunk, rPending, rLeaves,
                  rRootOK, rFileOpen, out>>

\* What the header fixes for the whole session.
rFixed == <<rFileID, rSize, rTotal>>

ReceiverTypeOK ==
  /\ rState \in receiverSteps \cup Ended \cup {"NoSession"}
  /\ rFileID \in FileIDs \cup {Nil}
  /\ rSize \in Nat /\ rTotal \in Nat /\ rChunk \in Nat
  /\ rPending \in ChunkRecord \cup {Nil}
  /\ rLeaves \in Seq(Leaf)
  /\ rRootOK \in BOOLEAN
  /\ rFileOpen \in BOOLEAN
  /\ out \in Seq(Byte)

ReceiverInit ==
  /\ rFileID = Nil
  /\ rSize = 0 /\ rTotal = 0 /\ rChunk = 0
  /\ rPending = Nil
  /\ rLeaves = <<>>
  /\ rRootOK = FALSE
  /\ rFileOpen = FALSE
  /\ out = <<>>

RecieveFile ==
  /\ rState = "NoSession"
  /\ rState' = "Idle"
  /\ UNCHANGED <<rFixed, rChunk, rPending, rLeaves, rRootOK, rFileOpen, out>>
  /\ UNCHANGED streamVars

\* The process ends, by a signal or a fatal error elsewhere in it.  What was
\* written to the output file stays; the operating system closes it.
ReceiverExits ==
  /\ rState \notin Ended
  /\ rState' = "Exited"
  /\ Lose
  /\ rFileOpen' = FALSE
  /\ UNCHANGED <<rFixed, rChunk, rPending, rLeaves, rRootOK, out>>

(***************************************************************************)
(* The steps.                                                              *)
(***************************************************************************)
stepReceiverIdle ==
  /\ rState = "Idle"
  /\ rState' = Transition(rState, "ReceiveHeader")
  /\ UNCHANGED <<rFixed, rChunk, rPending, rLeaves, rRootOK, rFileOpen, out,
                 toRcv, toSnd, alive, faulty>>

\* Seeded fault: the output file of an empty transfer is not closed.
OpenAfterHeaderFault_NoClose(reps) == TRUE

\* Whether the output file is still open when the step has returned: for an
\* empty file it was closed at once.
OpenAfterHeader(reps) == reps # 0

\* The inner second disjunct is a failed os.Create, or a failed Close of the
\* empty output file.
stepReceiverReceiveHeader ==
  /\ rState = "ReceiveHeader"
  /\ LET m == Head(toRcv)
     IN  \/ /\ Accepted(toRcv, m.kind = "Header")
            /\ toRcv' = Tail(toRcv)
            /\ rFileID' = m.fileID /\ rSize' = m.size /\ rTotal' = m.reps
            /\ \/ /\ out' = <<>>
                  /\ rFileOpen' = OpenAfterHeader(m.reps)
                  /\ rState' = Transition(rState, IF m.reps = 0 THEN "Finished"
                                                  ELSE "SendChunkRequest")
                  /\ UNCHANGED faulty
               \/ /\ faulty' = TRUE
                  /\ rState' = "Error"
                  /\ UNCHANGED <<rFileOpen, out>>
         \/ /\ Refused(toRcv, sState, m.kind = "Header")
            /\ rState' = "Error"
            /\ UNCHANGED <<toRcv, rFileID, rSize, rTotal, rFileOpen, out, faulty>>
  /\ UNCHANGED <<rChunk, rPending, rLeaves, rRootOK, toSnd, alive>>

stepReceiverSendChunkRequest ==
  /\ rState = "SendChunkRequest"
  /\ \/ /\ toSnd' = Sent(toSnd, ChunkRequest(rChunk))
        /\ rState' = Transition(rState, "WaitingChunkResponse")
     \/ /\ WriteFails(sState)
        /\ rState' = "Error"
        /\ UNCHANGED toSnd
  /\ UNCHANGED <<rFixed, rChunk, rPending, rLeaves, rRootOK, rFileOpen, out,
                 toRcv, alive, faulty>>

stepReceiverWaitChunkResponse ==
  /\ rState = "WaitingChunkResponse"
  /\ LET m == Head(toRcv)
         expected == m.kind = "ChunkResponse" /\ m.index = rChunk
     IN  \/ /\ Accepted(toRcv, expected)
            /\ toRcv' = Tail(toRcv)
            /\ rPending' = [fileID |-> rFileID, index |-> m.index,
                            ciphertext |-> m.ciphertext, hresp |-> m.hresp,
                            key |-> Nil]
            /\ rState' = Transition(rState, "SendLotteryTicket")
         \/ /\ Refused(toRcv, sState, expected)
            /\ rState' = "Error"
            /\ UNCHANGED <<toRcv, rPending>>
  /\ UNCHANGED <<rFixed, rChunk, rLeaves, rRootOK, rFileOpen, out, toSnd,
                 alive, faulty>>

stepReceiverSendLotteryTicket ==
  /\ rState = "SendLotteryTicket"
  /\ \/ /\ toSnd' = Sent(toSnd, LotteryTicket(rChunk))
        /\ rState' = Transition(rState, "WaitingKeyReveal")
     \/ /\ WriteFails(sState)
        /\ rState' = "Error"
        /\ UNCHANGED toSnd
  /\ UNCHANGED <<rFixed, rChunk, rPending, rLeaves, rRootOK, rFileOpen, out,
                 toRcv, alive, faulty>>

stepReceiverWaitKeyReveal ==
  /\ rState = "WaitingKeyReveal"
  /\ LET m == Head(toRcv)
         expected == m.kind = "KeyReveal" /\ m.index = rChunk
     IN  \/ /\ Accepted(toRcv, expected)
            /\ toRcv' = Tail(toRcv)
            /\ rPending' = [rPending EXCEPT !.key = m.key]
            /\ rState' = Transition(rState, "VerifyChunk")
         \/ /\ Refused(toRcv, sState, expected)
            /\ rState' = "Error"
            /\ UNCHANGED <<toRcv, rPending>>
  /\ UNCHANGED <<rFixed, rChunk, rLeaves, rRootOK, rFileOpen, out, toSnd,
                 alive, faulty>>

\* The leaf is appended before the plaintext is written; a failed Write may
\* have written part of it.
stepReceiverVerifyChunk ==
  /\ rState = "VerifyChunk"
  /\ LET plaintext == DecryptAndCheck(rPending)
         last == IsLastChunk(rChunk, rTotal)
     IN  IF plaintext = Nil
         THEN /\ rState' = "Error"
              /\ UNCHANGED <<rLeaves, out, rPending, rChunk, faulty>>
         ELSE /\ rLeaves' = Append(rLeaves, GenerateLeaf(rPending))
              /\ \/ /\ out' = out \o plaintext
                    /\ rPending' = Nil
                    /\ rChunk' = IF last THEN rChunk ELSE rChunk + 1
                    /\ rState' = Transition(rState, IF last THEN "VerifyMerkle"
                                                    ELSE "SendChunkRequest")
                    /\ UNCHANGED faulty
                 \/ /\ \E n \in 0 .. Len(plaintext) :
                         out' = out \o SubSeq(plaintext, 1, n)
                    /\ faulty' = TRUE
                    /\ rState' = "Error"
                    /\ UNCHANGED <<rPending, rChunk>>
  /\ UNCHANGED <<rFixed, rRootOK, rFileOpen, toRcv, toSnd, alive>>

\* stepReceiverVerifyMerkle, as far as the comparison of the roots.  The
\* file is closed whenever the step returns ...
stepReceiverReadRoot ==
  /\ rState = "VerifyMerkle" /\ ~rRootOK
  /\ LET m == Head(toRcv)
         expected == m.kind = "Root" /\ MerkleRoot(m.leaves) = MerkleRoot(rLeaves)
     IN  \/ /\ Accepted(toRcv, expected)
            /\ toRcv' = Tail(toRcv)
            /\ rRootOK' = TRUE
            /\ UNCHANGED <<rState, rFileOpen>>
         \/ /\ Refused(toRcv, sState, expected)
            /\ rFileOpen' = FALSE
            /\ rState' = "Error"
            /\ UNCHANGED <<toRcv, rRootOK>>
  /\ UNCHANGED <<rFixed, rChunk, rPending, rLeaves, out, toSnd, alive, faulty>>

\* ... and from SendFinalAck on.
stepReceiverSendFinalAck ==
  /\ rState = "VerifyMerkle" /\ rRootOK
  /\ rFileOpen' = FALSE
  /\ \/ /\ toSnd' = Sent(toSnd, FinalAck)
        /\ rState' = Transition(rState, "Finished")
     \/ /\ WriteFails(sState)
        /\ rState' = "Error"
        /\ UNCHANGED toSnd
  /\ UNCHANGED <<rFixed, rChunk, rPending, rLeaves, rRootOK, out, toRcv, alive,
                 faulty>>

ReceiverStep ==
  \/ stepReceiverIdle
  \/ stepReceiverReceiveHeader
  \/ stepReceiverSendChunkRequest
  \/ stepReceiverWaitChunkResponse
  \/ stepReceiverSendLotteryTicket
  \/ stepReceiverWaitKeyReveal
  \/ stepReceiverVerifyChunk
  \/ stepReceiverReadRoot
  \/ stepReceiverSendFinalAck
=============================================================================
