------------------------- MODULE TransferInvariants -------------------------
(***************************************************************************)
(* What relates the two sessions and the messages between them in every    *)
(* reachable state of Transfer, strong enough to be inductive.             *)
(***************************************************************************)
EXTENDS Transfer

(***************************************************************************)
(* Each session by itself: which fields its state promises.                *)
(***************************************************************************)
SenderShape ==
  /\ sState \in {"NoSession", "Idle", "SendHeader"} => sChunk = 0
  /\ sState \in {"NoSession", "Idle", "SendHeader", "WaitingChunkRequest",
                 "SendChunkResponse"}
       => sPending = Nil /\ Len(sLeaves) = sChunk
  /\ sState \in {"WaitingChunkRequest", "SendChunkResponse",
                 "WaitingLotteryTicket", "SendKeyReveal", "VerifyMerkle"}
       => sChunk < sTotal
  /\ sState \in {"WaitingLotteryTicket", "SendKeyReveal"}
       => /\ sPending # Nil
          /\ sPending.key # Nil /\ sPending.hresp.key = sPending.key
          /\ sPending.index = sChunk /\ Len(sLeaves) = sChunk
  /\ sState = "VerifyMerkle" => sPending = Nil /\ Len(sLeaves) = sTotal

ReceiverShape ==
  /\ rState \in {"NoSession", "Idle", "ReceiveHeader"}
       => rChunk = 0 /\ rLeaves = <<>> /\ out = <<>> /\ rFileID = Nil
  /\ rState \in {"SendChunkRequest", "WaitingChunkResponse", "SendLotteryTicket",
                 "WaitingKeyReveal", "VerifyChunk"}
       => rFileID # Nil /\ rChunk < rTotal /\ Len(rLeaves) = rChunk
  /\ rState \in {"SendLotteryTicket", "WaitingKeyReveal", "VerifyChunk"}
       => rPending # Nil /\ rPending.index = rChunk
  /\ rState = "VerifyChunk" => rPending.key # Nil
  /\ rState \in {"VerifyMerkle", "Finished"}
       => rFileID # Nil /\ Len(rLeaves) = rTotal

(***************************************************************************)
(* What the sender has let go of is sealed under the key and for the       *)
(* plaintext it is committed to; while the file is untouched, that         *)
(* plaintext is the chunk's part of the file.                              *)
(***************************************************************************)
CommittedOK ==
  \A i \in 1 .. Len(Committed) :
    LET l == Committed[i]
    IN  /\ l.fileID = sFileID /\ l.index = i - 1
        /\ l.ciphertext = Seal(l.hresp.key, l.hresp.plaintext)
        /\ ~touched => l.hresp.plaintext = ReadChunkPlaintext(srcFile, i - 1)

MeasuredOnce == sState \in senderSteps /\ ~touched => sTotal = Reps(srcFile)

(***************************************************************************)
(* Every message on its way to the receiver is about a committed chunk.    *)
(***************************************************************************)
AboutCommitted(m) ==
  /\ m.kind = "Header"
       => m.fileID = sFileID /\ (~touched => m.reps = Reps(srcFile))
  /\ m.kind = "ChunkResponse"
       => /\ m.index < Len(Committed)
          /\ m.ciphertext = Committed[m.index + 1].ciphertext
          /\ m.hresp = Committed[m.index + 1].hresp
  /\ m.kind = "KeyReveal"
       => m.index < Len(Committed) /\ m.key = Committed[m.index + 1].hresp.key

MessagesOK == \A i \in 1 .. Len(toRcv) : AboutCommitted(toRcv[i])

(***************************************************************************)
(* The receiver's session is about the sender's, and so is its pending     *)
(* chunk.                                                                  *)
(***************************************************************************)
HeaderOK ==
  rFileID # Nil => rFileID = sFileID /\ (~touched => rTotal = Reps(srcFile))

PendingOK ==
  /\ rState \in {"SendLotteryTicket", "WaitingKeyReveal", "VerifyChunk"}
       => rChunk < Len(Committed) /\ GenerateLeaf(rPending) = Committed[rChunk + 1]
  /\ rState = "VerifyChunk" => rPending.key = Committed[rChunk + 1].hresp.key

(***************************************************************************)
(* The output file: all of the verified chunks, or what a failed write     *)
(* left of the last one.                                                   *)
(***************************************************************************)
Verified ==
  IF Len(rLeaves) * ChunkSize < Len(srcFile) THEN Len(rLeaves) * ChunkSize
                                             ELSE Len(srcFile)

OutputComplete ==
  ~touched /\ rState \notin {"Error", "Exited"} => Len(out) = Verified

\* The receiver finishes only after its final ack is on its way, and the
\* sender of a file that is not empty only when it has read that ack.
AckOK ==
  /\ \A i \in 1 .. Len(toSnd) : toSnd[i].kind = "FinalAck" => rState = "Finished"
  /\ AckedMeansFinished

\* The agreement of the two sessions on the data, inductive relative to TypeOK
\* and the two shapes.
Content ==
  /\ CommittedOK /\ MeasuredOnce /\ MessagesOK
  /\ HeaderOK /\ PendingOK /\ LeavesAgree
  /\ OutputIsPrefix /\ OutputComplete

Inv == SenderShape /\ ReceiverShape /\ Content /\ AckOK
=============================================================================
