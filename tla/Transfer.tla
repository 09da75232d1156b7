------------------------------ MODULE Transfer ------------------------------
(***************************************************************************)
(* One file transfer over one stream, from the client's RequestFile and    *)
(* the server's HandleStream to the return of both ends' Run.  On POST the *)
(* client sends and the server receives; on GET it is the other way round. *)
(***************************************************************************)
EXTENDS Sender, Receiver

VARIABLES
  method,   \* the client's command
  client,   \* "dialed", then "requested", or "exited" by log.Fatal
  handler   \* HandleStream: "reading" the request, then what it called, or
            \* "dropped" after s.Reset()

endpointVars == <<method, client, handler>>

vars == <<streamVars, senderVars, receiverVars, endpointVars>>

TypeOK ==
  /\ toRcv \in Seq(ToReceiver) /\ toSnd \in Seq(ToSender)
  /\ alive \in BOOLEAN /\ faulty \in BOOLEAN
  /\ SenderTypeOK
  /\ ReceiverTypeOK
  /\ method \in {"GET", "POST"}
  /\ client \in {"dialed", "requested", "exited"}
  /\ handler \in {"reading", "SendFile", "RecieveFile", "dropped"}

Init ==
  /\ StreamInit /\ SenderInit /\ ReceiverInit
  /\ method \in {"GET", "POST"}
  /\ client = "dialed"
  /\ handler = "reading"

(***************************************************************************)
(* The request.                                                            *)
(***************************************************************************)
TypeCode == IF method = "GET" THEN 0 ELSE 1

RequestFile ==
  /\ client = "dialed"
  /\ \/ /\ client' = "requested"
        /\ IF method = "GET"
           THEN toSnd' = Sent(toSnd, WhatToDo(TypeCode)) /\ UNCHANGED toRcv
           ELSE toRcv' = Sent(toRcv, WhatToDo(TypeCode)) /\ UNCHANGED toSnd
     \/ /\ ~alive
        /\ client' = "exited"
        /\ UNCHANGED <<toRcv, toSnd>>
  /\ UNCHANGED <<alive, faulty, senderVars, receiverVars,
                 method, handler>>

HandleStream ==
  /\ handler = "reading"
  /\ LET request == IF method = "GET" THEN toSnd ELSE toRcv
     IN  \/ /\ Arrived(request)
            /\ handler' = IF Head(request).typ = 0 THEN "SendFile" ELSE "RecieveFile"
            /\ IF method = "GET"
               THEN toSnd' = Tail(toSnd) /\ UNCHANGED toRcv
               ELSE toRcv' = Tail(toRcv) /\ UNCHANGED toSnd
         \/ /\ ~alive
            /\ handler' = "dropped"
            /\ UNCHANGED <<toRcv, toSnd>>
  /\ UNCHANGED <<alive, faulty, senderVars, receiverVars,
                 method, client>>

\* Which end has been told to run which role.
MaySend == (client = "requested" /\ method = "POST") \/ handler = "SendFile"

MayReceive == (client = "requested" /\ method = "GET") \/ handler = "RecieveFile"

StartSend == MaySend /\ SendFile /\ UNCHANGED <<receiverVars, endpointVars>>

StartReceive == MayReceive /\ RecieveFile /\ UNCHANGED <<senderVars, endpointVars>>

(***************************************************************************)
(* The two Run loops and the environment.                                  *)
(***************************************************************************)
Sending == SenderStep /\ UNCHANGED <<receiverVars, endpointVars>>

Receiving == ReceiverStep /\ UNCHANGED <<senderVars, endpointVars>>

SenderGone == MaySend /\ SenderExits /\ UNCHANGED <<receiverVars, endpointVars>>

ReceiverGone == MayReceive /\ ReceiverExits /\ UNCHANGED <<senderVars, endpointVars>>

SourceChanges == FileChanges /\ UNCHANGED <<receiverVars, endpointVars>>

ConnectionLost ==
  /\ alive
  /\ Lose
  /\ UNCHANGED <<senderVars, receiverVars, endpointVars>>

ClientEnd == IF method = "GET" THEN rState ELSE sState

ServerEnd == IF method = "GET" THEN sState ELSE rState

\* The client's main returns right after its Run and the deferred h.Close()
\* closes the connection.  It does not wait for what was written last: a
\* QUIC connection is closed with stream data still unacknowledged.
ClientCloses ==
  /\ alive
  /\ ClientEnd \in Returned
  /\ Cut
  /\ UNCHANGED <<faulty, senderVars, receiverVars, endpointVars>>

ClientDone == client = "exited" \/ ClientEnd \in Ended

ServerDone == handler = "dropped" \/ ServerEnd \in Ended

\* Both ends have returned: the session may stop here.
Terminated == ClientDone /\ ServerDone /\ UNCHANGED vars

Next ==
  \/ RequestFile
  \/ HandleStream
  \/ StartSend
  \/ StartReceive
  \/ Sending
  \/ Receiving
  \/ SenderGone
  \/ ReceiverGone
  \/ SourceChanges
  \/ ConnectionLost
  \/ ClientCloses
  \/ Terminated

Spec == Init /\ [][Next]_vars

(***************************************************************************)
(* Every goroutine that can run does run.  Nothing is assumed of the       *)
(* environment: faults may or may not happen.                              *)
(***************************************************************************)
Fairness ==
  /\ WF_vars(RequestFile) /\ WF_vars(HandleStream)
  /\ WF_vars(StartSend) /\ WF_vars(StartReceive)
  /\ WF_vars(Sending) /\ WF_vars(Receiving)

FairSpec == Spec /\ Fairness

(***************************************************************************)
(* Safety.                                                                 *)
(***************************************************************************)
\* SequencesExt's IsPrefix, spelled out: the library's definitions would make
\* up most of every proof obligation.
IsPrefixOf(s, t) == Len(s) <= Len(t) /\ \A i \in 1 .. Len(s) : s[i] = t[i]

\* The leaves of every chunk the sender has let go of so far: those whose
\* key it revealed, and the one whose key it still holds.
Committed ==
  IF sPending = Nil THEN sLeaves ELSE Append(sLeaves, GenerateLeaf(sPending))

\* "Leaves accumulates merkle leaves as chunks are confirmed, on both sides"
\* (session.go:43): whatever fails and wherever, the receiver's leaves are
\* those of the sender's chunks, in order, none missing and none repeated.
LeavesAgree == IsPrefixOf(rLeaves, Committed)

\* stepReceiverVerifyMerkle, DecryptAndCheck and the index checks together: a
\* receiver that finishes holds exactly the sender's file, provided that the
\* file did not change while it was sent (PrepareMetadata measures it once).
FinishedCopyIsExact == rState = "Finished" /\ ~touched => out = srcFile

\* stepReceiverVerifyChunk writes chunk by chunk under the final name: the
\* output file is at all times, after a failure too, a prefix of the source.
OutputIsPrefix == ~touched => IsPrefixOf(out, srcFile)

\* stepSenderVerifyMerkle waits for the final ack: a sender that finishes a
\* file with at least one chunk knows that the receiver has finished.  (For
\* an empty file stepSenderSendHeader finishes without hearing from it.)
AckedMeansFinished ==
  sState = "Finished" /\ sTotal > 0 => rState = "Finished"

\* The step functions of the two ends and the transition table fit: unless
\* the environment fails, the client's Run never fails, and the server's only
\* because the client closed its host right after finishing: on a GET the
\* final ack is lost, on a POST of an empty file its header.  (A file that
\* shrinks or grows under the sender makes neither end fail.)
ErrorOnlyAfterFault ==
  ~faulty => /\ sState = "Error" => method = "GET" /\ rState = "Finished"
             /\ rState = "Error" => method = "POST" /\ sState = "Finished" /\ sTotal = 0

\* "key is not put on the wire until SendKeyReveal" (session.go:38), which
\* follows the lottery ticket: while the receiver has yet to send its ticket
\* for a chunk, no key is on its way to it.
KeyHiddenUntilTicket ==
  rState \in {"SendChunkRequest", "WaitingChunkResponse", "SendLotteryTicket"}
    => \A i \in DOMAIN toRcv : toRcv[i].kind # "KeyReveal"

\* Neither end ever writes ahead of the other by more than two messages
\* towards the receiver (the last key and the root, or the request and the
\* header) and one towards the sender, so no write blocks on flow control
\* while the other end is blocked writing too.
InFlightBounded == Len(toRcv) <= 2 /\ Len(toSnd) <= 1

\* stepReceiverReceiveHeader closes the file of an empty transfer, VerifyMerkle's
\* defer any other: the output file is open after Run has returned only if
\* Run failed before the Merkle check, with chunks left to verify or to write.
HandleLeftOpenOnlyOnError ==
  rFileOpen /\ rState \in Returned
    => rState = "Error" /\ (Len(rLeaves) < rTotal \/ rPending # Nil)

(***************************************************************************)
(* Liveness.                                                               *)
(***************************************************************************)
\* Run and HandleStream set no deadline on the stream: still neither end
\* waits for ever, because the other answers, closes, or is cut off.
SessionsEnd == <>(ClientDone /\ ServerDone)

\* Without a fault the client finishes, and so does the receiver, except that
\* the header of an empty file may be cut off by the client's h.Close().
CompletesWithoutFault ==
  [](~faulty) => <>(ClientEnd = "Finished" /\ (rState = "Finished" \/ sTotal = 0))
=============================================================================
