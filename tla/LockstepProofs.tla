--------------------------- MODULE LockstepProofs ---------------------------
(***************************************************************************)
(* Proofs, for every file, chunk size, key set and width, that             *)
(*                                                                         *)
(*   1. the two ends of a session move in lockstep, and what follows from it; *)
(*   2. Transfer implements FileCopy.                                      *)
(***************************************************************************)
EXTENDS TransferProofs, Lockstep, TransferCopy

(***************************************************************************)
(* 1. Lockstep.                                                            *)
(***************************************************************************)
\* Writing to and reading from channels with one or two messages.
LEMMA ShortChannels ==
  ASSUME NEW a, NEW b
  PROVE  /\ Append(<<>>, a) = <<a>>
         /\ <<a>> # <<>>
         /\ Head(<<a>>) = a
         /\ Tail(<<a>>) = <<>>
         /\ Append(<<a>>, b) # <<>>
         /\ Append(<<a>>, b) # <<a>>
         /\ Head(Append(<<a>>, b)) = a
         /\ Tail(Append(<<a>>, b)) = <<b>>
<1>1. Append(<<>>, a) = <<a>> /\ <<a>> # <<>>
  OBVIOUS
<1>2. Head(<<a>>) = a /\ Tail(<<a>>) = <<>>
  OBVIOUS
<1>3. <<a>> \in Seq({a, b}) /\ <<b>> \in Seq({a, b}) /\ Len(<<a>>) = 1 /\ Len(<<b>>) = 1
  OBVIOUS
<1> DEFINE ab == Append(<<a>>, b)
<1>4. ab \in Seq({a, b}) /\ Len(ab) = 2 /\ ab[2] = b /\ ab[1] = a
  BY <1>3, AppendFacts
<1>5. ab # <<>> /\ ab # <<a>>
  <2>1. Len(ab) = 2 /\ Len(<<a>>) = 1 /\ Len(<<>>) = 0
    BY <1>3, <1>4
  <2> HIDE DEF ab
  <2>2. 2 # 1 /\ 2 # 0
    OBVIOUS
  <2> QED BY ONLY <2>1, <2>2, Zenon
<1>6. Head(ab) = a /\ Tail(ab) \in Seq({a, b}) /\ Len(Tail(ab)) = 1 /\ Tail(ab)[1] = b
  BY <1>4, <1>5, ReadMessage
<1>7. Tail(ab) = <<b>>
  <2> HIDE DEF ab
  <2>0. <<b>>[1] = b
    BY Zenon
  <2>1. \A i \in 1 .. Len(Tail(ab)) : Tail(ab)[i] = <<b>>[i]
    <3>1. \A i \in 1 .. Len(Tail(ab)) : i = 1
      BY ONLY <1>6
    <3> QED BY ONLY <1>6, <2>0, <3>1, Zenon
  <2>2. Len(Tail(ab)) = Len(<<b>>)
    BY <1>3, <1>6, Zenon
  <2> QED BY <1>3, <1>6, <2>1, <2>2, SameElements, Zenon
<1> QED BY <1>1, <1>2, <1>5, <1>6, <1>7, Zenon

\* Their lengths.
LEMMA ShortLengths ==
  ASSUME NEW a, NEW b
  PROVE  Len(<<>>) = 0 /\ Len(<<a>>) = 1 /\ Len(Append(<<a>>, b)) = 2
OBVIOUS

\* Comparing them with a bound.
LEMMA SmallNumbers ==
  ASSUME NEW n
  PROVE  /\ n = 0 \/ n = 1 => n <= 1 /\ n <= 2
         /\ n = 2 => n <= 2
         /\ n \in Nat /\ n <= 1 => n <= 2
OBVIOUS

(***************************************************************************)
(* The request.                                                            *)
(***************************************************************************)
Joint == Endpoints /\ InLockstep

\* While the handler has not read the request the server's end does not run.
LEMMA HandlerReading ==
  ASSUME Shape, Joint, alive, handler = "reading"
  PROVE  Early
<1>1. IF method = "GET" THEN sState = "NoSession" ELSE rState = "NoSession"
  BY Zenon DEF Joint, Endpoints, MaySend, MayReceive, Shape, EndpointTypeOK
<1> QED BY <1>1, Zenon DEF Joint, InLockstep, Early, Exchange, KeyOut, Verifying, Finishing,
                    Failing, Shape, EndpointTypeOK

\* The client's request is all there is.
LEMMA RequestJoint ==
  ASSUME Shape, Joint, RequestFile
  PROVE  Joint'
<1>1. Endpoints'
  BY Zenon DEF RequestFile, Joint, Endpoints, MaySend, MayReceive, senderVars, receiverVars,
         Shape, EndpointTypeOK
<1>2. CASE alive
  <2>1. handler = "reading" /\ client = "dialed" /\ client' = "requested"
    BY <1>2, Zenon DEF RequestFile, Joint, Endpoints, Shape, EndpointTypeOK
  <2>2. Early /\ sState = "NoSession" /\ rState = "NoSession"
    BY <1>2, <2>1, HandlerReading, Zenon DEF Joint, Endpoints, MaySend, MayReceive
  <2>3. Request = <<>> /\ Request' = <<WhatToDo(TypeCode)>> /\ TypeCode' = TypeCode
    BY <2>1, Zenon DEF Request, RequestFile, TypeCode
  <2>4. toRcv = <<>> /\ toSnd = <<>>
    BY <2>2, <2>3, Zenon DEF Early
  <2>5. Append(<<>>, WhatToDo(TypeCode)) = Request'
    BY <2>3, ShortChannels, Zenon
  <2>6. /\ toRcv' = IF method = "POST" THEN Request' ELSE <<>>
        /\ toSnd' = IF method = "GET" THEN Request' ELSE <<>>
    BY <1>2, <2>1, <2>4, <2>5, Zenon DEF RequestFile, Sent, Shape, EndpointTypeOK
  <2>7. Early'
    BY <2>2, <2>6, Zenon DEF Early, RequestFile, senderVars, receiverVars
  <2> QED BY <1>1, <1>2, <2>7, Zenon DEF Joint, InLockstep, RequestFile
<1>3. CASE ~alive
  BY <1>1, <1>3, Zenon DEF Joint, InLockstep, Down, BothEmpty, RequestFile, Sent, ClientEnd,
                    senderVars, receiverVars
<1> QED BY <1>2, <1>3, Zenon

\* The server reads it and starts the other role than the client's.
LEMMA HandleJoint ==
  ASSUME Shape, Joint, HandleStream
  PROVE  Joint'
<1>1. CASE alive
  <2>1. Early /\ handler = "reading"
    BY <1>1, HandlerReading, Zenon DEF HandleStream
  <2>2. client = "requested"
    <3>1. CASE client = "dialed"
      <4>1. sState = "NoSession" /\ Request = <<>>
        BY <2>1, <3>1, Zenon DEF Joint, Endpoints, MaySend, Request
      <4>2. toRcv = <<>> /\ toSnd = <<>>
        BY <2>1, <4>1, Zenon DEF Early
      <4> QED BY <1>1, <4>2, Zenon DEF HandleStream, Arrived
    <3> QED BY <1>1, <3>1, Zenon DEF Joint, Endpoints, Shape, EndpointTypeOK
  <2>3. Request = <<WhatToDo(TypeCode)>>
    BY <2>1, <2>2, Zenon DEF Request
  <2>4. WhatToDo(TypeCode).typ = IF method = "GET" THEN 0 ELSE 1
    BY Zenon DEF WhatToDo, TypeCode
  <2>5. CASE method = "GET"
    <3>1. toSnd = <<WhatToDo(TypeCode)>>
      BY <2>1, <2>3, <2>5, Zenon DEF Early
    <3>2. handler' = "SendFile" /\ toSnd' = <<>> /\ UNCHANGED toRcv
      BY <1>1, <2>4, <2>5, <3>1, ShortChannels, Zenon DEF HandleStream, Arrived
    <3>3. Request' = <<>>
      BY <3>2, Zenon DEF Request
    <3>4. Early'
      BY <2>1, <2>5, <3>2, <3>3, Zenon DEF Early, HandleStream, senderVars, receiverVars
    <3>5. Endpoints'
      BY <2>2, <2>5, <3>2, Zenon DEF HandleStream, Joint, Endpoints, MaySend, MayReceive,
                              senderVars, receiverVars
    <3> QED BY <1>1, <3>4, <3>5, Zenon DEF Joint, InLockstep, HandleStream
  <2>6. CASE method = "POST"
    <3> DEFINE m == WhatToDo(TypeCode)
               h == Header(sTotal, sFileID, sSize)
    <3> HIDE DEF m, h
    <3>1. /\ toSnd = <<>>
          /\ \/ /\ sState \in {"NoSession", "Idle", "SendHeader"}
                /\ toRcv = <<m>>
             \/ /\ sState = IF sTotal = 0 THEN "Finished" ELSE "WaitingChunkRequest"
                /\ sChunk = 0
                /\ toRcv = Append(<<m>>, h)
      BY <2>1, <2>3, <2>6, Zenon DEF Early, m, h
    <3>2. toRcv # <<>> /\ Head(toRcv) = m
          /\ Tail(toRcv) = IF toRcv = <<m>> THEN <<>> ELSE <<h>>
      <4>1. /\ <<m>> # <<>> /\ Head(<<m>>) = m /\ Tail(<<m>>) = <<>>
            /\ Append(<<m>>, h) # <<>> /\ Append(<<m>>, h) # <<m>>
            /\ Head(Append(<<m>>, h)) = m /\ Tail(Append(<<m>>, h)) = <<h>>
        BY ShortChannels, Zenon
      <4> QED BY ONLY <3>1, <4>1, Zenon
    <3>3. handler' = "RecieveFile" /\ toRcv' = Tail(toRcv) /\ UNCHANGED toSnd
      BY <1>1, <2>4, <2>6, <3>2 DEF HandleStream, Arrived, m
    <3>4. Request' = <<>> /\ UNCHANGED h
      BY <3>3, Zenon DEF Request, HandleStream, senderVars, h
    <3>5. toRcv' = <<>> \/ toRcv' = Append(<<>>, h)
      BY <3>2, <3>3, ShortChannels, Zenon
    <3>6. Early'
      <4>1. CASE toRcv = <<m>>
        BY <2>1, <2>6, <3>1, <3>2, <3>3, <3>4, <4>1, ShortChannels
           DEF Early, HandleStream, senderVars, receiverVars
      <4>2. CASE toRcv # <<m>>
        BY <2>1, <2>6, <3>1, <3>2, <3>3, <3>4, <4>2, ShortChannels, Zenon
           DEF Early, HandleStream, senderVars, receiverVars, h
      <4> QED BY <4>1, <4>2, Zenon
    <3>7. Endpoints'
      BY <2>2, <2>6, <3>3, Zenon DEF HandleStream, Joint, Endpoints, MaySend, MayReceive,
                              senderVars, receiverVars
    <3> QED BY <1>1, <3>6, <3>7, Zenon DEF Joint, InLockstep, HandleStream
  <2> QED BY <2>5, <2>6, Zenon DEF Shape, EndpointTypeOK
<1>2. CASE ~alive
  BY <1>2, Zenon DEF Joint, Endpoints, InLockstep, Down, BothEmpty, HandleStream, Arrived,
              ClientEnd, senderVars, receiverVars, MaySend, MayReceive
<1> QED BY <1>1, <1>2, Zenon

(***************************************************************************)
(* The sender's rounds.                                                    *)
(***************************************************************************)
\* On a connection that is down nothing is sent or read any more.
LEMMA SenderDown ==
  ASSUME Shape, Down, ~alive, SenderStep, UNCHANGED <<receiverVars, endpointVars>>
  PROVE  Down' /\ ~alive'
<1>1. sState # "Finished"
  BY Zenon DEF SenderStep, stepSenderIdle, stepSenderSendHeader, stepSenderWaitChunkRequest,
         stepSenderSendChunkResponse, stepSenderWaitLotteryTicket, stepSenderSendKeyReveal,
         stepSenderSendRoot, stepSenderReadFinalAck
<1>2. UNCHANGED <<toRcv, toSnd, alive>>
  BY Zenon DEF SenderStep, stepSenderIdle, stepSenderSendHeader, stepSenderWaitChunkRequest,
         stepSenderSendChunkResponse, stepSenderWaitLotteryTicket, stepSenderSendKeyReveal,
         stepSenderSendRoot, stepSenderReadFinalAck, Sent, Accepted, Arrived
<1>3. faulty => faulty'
  BY Zenon DEF SenderStep, stepSenderIdle, stepSenderSendHeader, stepSenderWaitChunkRequest,
         stepSenderSendChunkResponse, stepSenderWaitLotteryTicket, stepSenderSendKeyReveal,
         stepSenderSendRoot, stepSenderReadFinalAck
<1> QED BY <1>1, <1>2, <1>3, Zenon DEF Down, BothEmpty, ClientEnd, receiverVars, endpointVars

\* The rows of the table in which the sender runs, state by state.
LEMMA SenderRows ==
  ASSUME alive, InLockstep
  PROVE  /\ sState \in {"Idle", "SendHeader"} => Early
         /\ sState = "WaitingChunkRequest" => Early \/ Exchange \/ KeyOut \/ Failing
         /\ sState \in {"SendChunkResponse", "WaitingLotteryTicket", "SendKeyReveal"}
              => Exchange
         /\ sState = "VerifyMerkle" => KeyOut \/ Verifying \/ Finishing \/ Failing
BY Zenon DEF InLockstep, Early, Exchange, KeyOut, Verifying, Finishing, Failing

\* Idle and the header.
LEMMA SenderEarly ==
  ASSUME Shape, Joint, alive, UNCHANGED <<receiverVars, endpointVars>>,
         stepSenderIdle \/ stepSenderSendHeader
  PROVE  Early' /\ alive'
<1>1. sState \in {"Idle", "SendHeader"} /\ alive' /\ UNCHANGED <<toSnd, sRootSent>>
  BY Zenon DEF stepSenderIdle, stepSenderSendHeader
<1>2. Early /\ sState # "WaitingChunkRequest" /\ sState # "Finished"
  BY <1>1, SenderRows, Zenon DEF Joint
<1>3. UNCHANGED <<Request, rState, rRootOK, method, sTotal, sFileID, sSize>>
  BY Zenon DEF Request, TypeCode, endpointVars, receiverVars, stepSenderIdle,
         stepSenderSendHeader, sFixed
<1>4. sChunk = 0 /\ sChunk' = sChunk
  BY <1>1, Zenon DEF Shape, SenderShape, stepSenderIdle, stepSenderSendHeader
<1>5. CASE stepSenderIdle
  BY <1>1, <1>2, <1>3, <1>5, TransitionsTaken DEF Early, stepSenderIdle
<1>6. CASE stepSenderSendHeader
  <2>1. rState \notin Ended
    BY <1>2, Zenon DEF Early, Ended, Returned
  <2>2. /\ toRcv' = Append(toRcv, Header(sTotal, sFileID, sSize))
        /\ sState' = IF sTotal = 0 THEN "Finished" ELSE "WaitingChunkRequest"
    BY <1>6, <2>1, TransitionsTaken, Zenon DEF stepSenderSendHeader, Sent, WriteFails, Closed
  <2> QED BY <1>1, <1>2, <1>3, <1>4, <2>2, Zenon DEF Early
<1> QED BY <1>5, <1>6, Zenon

\* The chunk request.
LEMMA SenderRequest ==
  ASSUME Shape, Joint, alive, UNCHANGED <<receiverVars, endpointVars>>,
         stepSenderWaitChunkRequest
  PROVE  InLockstep' /\ alive'
<1>1. /\ sState = "WaitingChunkRequest" /\ alive'
      /\ UNCHANGED <<toRcv, sTotal, sChunk, sPending, sLeaves, sRootSent, faulty>>
      /\ UNCHANGED <<rState, rTotal, rChunk, rRootOK>>
  BY Zenon DEF stepSenderWaitChunkRequest, sFixed, receiverVars
<1>2. CASE toSnd = <<>>
  <2>1. rState \in Ended /\ sState' = "Error" /\ toSnd' = toSnd
    BY <1>2, Zenon DEF stepSenderWaitChunkRequest, Accepted, Refused, Arrived, Closed
  <2>2. Failing /\ rState = "Error"
    BY <1>1, <2>1, SenderRows, Zenon DEF Joint, Early, Exchange, KeyOut, Failing, Ended, Returned
  <2>3. Failing'
    BY <1>1, <2>1, <2>2, Zenon DEF Failing
  <2> QED BY <1>1, <2>3, Zenon DEF InLockstep
<1>3. CASE toSnd # <<>>
  <2>1. ~Early
    <3>1. SUFFICES ASSUME Early PROVE FALSE
      BY Zenon
    <3>2. method = "GET" /\ Request # <<>>
      BY <1>3, <3>1, Zenon DEF Early
    <3>3. MaySend /\ handler = "reading"
      BY <1>1, <3>2, Zenon DEF Request, Joint, Endpoints
    <3> QED BY <3>2, <3>3, Zenon DEF MaySend
  <2>2. Exchange /\ toRcv = <<>> /\ toSnd = <<ChunkRequest(sChunk)>>
    BY <1>1, <1>3, <2>1, SenderRows, Zenon DEF Joint, Exchange, KeyOut, Failing, BothEmpty
  <2>3. rState = "WaitingChunkResponse"
    BY <1>1, <1>3, <2>2, Zenon DEF Exchange, BothEmpty
  <2>4. toSnd' = <<>> /\ sState' = "SendChunkResponse"
    BY <1>1, <2>2, ShortChannels, TransitionsTaken
       DEF stepSenderWaitChunkRequest, Accepted, Refused, Arrived
  <2>5. Exchange'
    BY <1>1, <2>2, <2>3, <2>4, Zenon DEF Exchange, BothEmpty
  <2> QED BY <1>1, <2>5, Zenon DEF InLockstep
<1> QED BY <1>2, <1>3, Zenon

\* The chunk, or a failed disk.
LEMMA SenderResponse ==
  ASSUME Shape, Joint, alive, UNCHANGED <<receiverVars, endpointVars>>,
         stepSenderSendChunkResponse
  PROVE  InLockstep' /\ alive'
<1>1. /\ sState = "SendChunkResponse" /\ alive'
      /\ UNCHANGED <<toSnd, sTotal, sChunk, sRootSent, rState, rTotal, rChunk, rRootOK>>
  BY Zenon DEF stepSenderSendChunkResponse, sFixed, receiverVars
<1>2. Exchange /\ rState = "WaitingChunkResponse" /\ BothEmpty
  BY <1>1, SenderRows, Zenon DEF Joint, Exchange
<1>3. ~WriteFails(rState)
  BY <1>2, Zenon DEF WriteFails, Closed, Ended, Returned
<1>4. CASE sState' = "Error"
  <2>1. faulty' /\ toRcv' = toRcv
    BY <1>3, <1>4, <1>1, TransitionsTaken, Zenon DEF stepSenderSendChunkResponse
  <2>2. Failing'
    BY <1>1, <1>2, <1>4, <2>1, Zenon DEF Failing, BothEmpty
  <2> QED BY <1>1, <2>2, Zenon DEF InLockstep
<1>5. CASE sState' # "Error"
  <2>1. /\ toRcv' = Append(toRcv, ChunkResponse(sPending'))
        /\ sState' = "WaitingLotteryTicket"
    BY <1>1, <1>5, TransitionsTaken, Zenon DEF stepSenderSendChunkResponse, Sent
  <2>2. toRcv' = <<ChunkResponse(sPending')>>
    BY <1>2, <2>1, ShortChannels, Zenon DEF BothEmpty
  <2>3. Exchange'
    BY <1>1, <1>2, <2>1, <2>2, Zenon DEF Exchange, BothEmpty
  <2> QED BY <1>1, <2>3, Zenon DEF InLockstep
<1> QED BY <1>4, <1>5, Zenon

\* The ticket.
LEMMA SenderTicket ==
  ASSUME Shape, Joint, alive, UNCHANGED <<receiverVars, endpointVars>>,
         stepSenderWaitLotteryTicket
  PROVE  InLockstep' /\ alive'
<1>1. /\ sState = "WaitingLotteryTicket" /\ alive'
      /\ UNCHANGED <<toRcv, sTotal, sChunk, sRootSent, rState, rTotal, rChunk, rRootOK>>
  BY Zenon DEF stepSenderWaitLotteryTicket, sFixed, receiverVars
<1>2. Exchange
  BY <1>1, SenderRows, Zenon DEF Joint
<1>3. rState \notin Ended
  BY <1>2, Zenon DEF Exchange, Ended, Returned
<1>4. toSnd # <<>>
  BY <1>3, Zenon DEF stepSenderWaitLotteryTicket, Accepted, Refused, Arrived, Closed
<1>5. rState = "WaitingKeyReveal" /\ toRcv = <<>> /\ toSnd = <<LotteryTicket(sChunk)>>
  BY <1>1, <1>2, <1>4, Zenon DEF Exchange, BothEmpty
<1>6. toSnd' = <<>> /\ sState' = "SendKeyReveal"
  BY <1>1, <1>5, ShortChannels, TransitionsTaken
     DEF stepSenderWaitLotteryTicket, Accepted, Refused, Arrived
<1>7. Exchange'
  BY <1>1, <1>2, <1>5, <1>6, Zenon DEF Exchange, BothEmpty
<1> QED BY <1>1, <1>7, Zenon DEF InLockstep

\* The key.
LEMMA SenderKey ==
  ASSUME Shape, Joint, alive, UNCHANGED <<receiverVars, endpointVars>>,
         stepSenderSendKeyReveal
  PROVE  InLockstep' /\ alive'
<1>1. /\ sState = "SendKeyReveal" /\ alive'
      /\ UNCHANGED <<toSnd, sTotal, sRootSent, rState, rTotal, rChunk, rRootOK>>
  BY Zenon DEF stepSenderSendKeyReveal, sFixed, receiverVars
<1>2. Exchange /\ rState = "WaitingKeyReveal" /\ BothEmpty
  BY <1>1, SenderRows, Zenon DEF Joint, Exchange
<1>3. ~WriteFails(rState)
  BY <1>2, Zenon DEF WriteFails, Closed, Ended, Returned
<1>4. sPending.key \in Keys
  <2>1. sPending # Nil /\ sPending.key # Nil /\ sPending \in ChunkRecord \cup {Nil}
    BY <1>1, Zenon DEF Shape, SenderShape, SenderTypeOK
  <2> QED BY <2>1, Zenon DEF ChunkRecord
<1> DEFINE m == KeyReveal(rChunk, sPending.key)
           last == IsLastChunk(rChunk, rTotal)
<1>5. /\ toRcv' = Append(toRcv, m)
      /\ sChunk' = IF last THEN sChunk ELSE sChunk + 1
      /\ sState' = IF last THEN "VerifyMerkle" ELSE "WaitingChunkRequest"
  BY <1>1, <1>2, <1>3, TransitionsTaken DEF stepSenderSendKeyReveal, Sent, Exchange
<1>6. toRcv' = <<m>>
  BY <1>2, <1>5, ShortChannels, Zenon DEF BothEmpty
<1>7. last' = last /\ ~sRootSent /\ ~rRootOK /\ rTotal = sTotal /\ rChunk = sChunk
  BY <1>1, <1>2, Zenon DEF Exchange
<1>8. KeyOut'
  BY <1>1, <1>2, <1>4, <1>5, <1>6, <1>7, Zenon DEF KeyOut, BothEmpty
<1> QED BY <1>1, <1>8, Zenon DEF InLockstep

\* The root.
LEMMA SenderRoot ==
  ASSUME Shape, Joint, alive, UNCHANGED <<receiverVars, endpointVars>>,
         stepSenderSendRoot
  PROVE  InLockstep' /\ alive'
<1>1. /\ sState = "VerifyMerkle" /\ ~sRootSent /\ alive'
      /\ UNCHANGED <<toSnd, sTotal, sChunk, sLeaves, faulty>>
      /\ UNCHANGED <<rState, rTotal, rChunk, rRootOK>>
  BY Zenon DEF stepSenderSendRoot, sFixed, receiverVars
<1>2. \/ toRcv' = Append(toRcv, RootOf(sLeaves)) /\ sRootSent' /\ sState' = sState
      \/ rState \in Ended /\ sState' = "Error" /\ UNCHANGED <<toRcv, sRootSent>>
  BY Zenon DEF stepSenderSendRoot, Sent, WriteFails, Closed
<1>3. CASE KeyOut
  <2>1. rState \notin Ended
    BY <1>3, Zenon DEF KeyOut, Ended, Returned
  <2>2. KeyOut'
    BY <1>1, <1>2, <1>3, <2>1, Zenon DEF KeyOut
  <2> QED BY <1>1, <2>2, Zenon DEF InLockstep
<1>4. CASE Verifying
  <2>1. rState \notin Ended /\ toRcv = <<>>
    BY <1>1, <1>4, Zenon DEF Verifying, Ended, Returned
  <2>2. toRcv' = <<RootOf(sLeaves)>>
    BY <1>2, <2>1, ShortChannels, Zenon
  <2>3. Verifying'
    BY <1>1, <1>2, <1>4, <2>1, <2>2, Zenon DEF Verifying
  <2> QED BY <1>1, <2>3, Zenon DEF InLockstep
<1>5. CASE Failing
  <2>1. toRcv = <<>> /\ rState = "Error"
    BY <1>1, <1>5, Zenon DEF Failing
  <2>2. Len(toRcv') <= 1
    <3>1. toRcv' = <<>> \/ toRcv' = <<RootOf(sLeaves)>>
      BY <1>2, <2>1, ShortChannels, Zenon
    <3> QED BY <3>1
  <2>3. Failing'
    BY <1>1, <1>2, <1>5, <2>1, <2>2, Zenon DEF Failing
  <2> QED BY <1>1, <2>3, Zenon DEF InLockstep
<1> QED BY <1>1, <1>3, <1>4, <1>5, SenderRows, Zenon DEF Joint, Finishing

\* The final ack.
LEMMA SenderAcked ==
  ASSUME Shape, Joint, alive, UNCHANGED <<receiverVars, endpointVars>>,
         stepSenderReadFinalAck
  PROVE  InLockstep' /\ alive'
<1>1. /\ sState = "VerifyMerkle" /\ sRootSent /\ alive'
      /\ UNCHANGED <<toRcv, sRootSent, faulty, rState>>
  BY Zenon DEF stepSenderReadFinalAck, receiverVars
<1>2. CASE toSnd = <<>>
  <2>1. rState \in Ended /\ sState' = "Error" /\ toSnd' = toSnd
    BY <1>2, Zenon DEF stepSenderReadFinalAck, Accepted, Refused, Arrived, Closed
  <2>2. <<FinalAck>> # <<>>
    BY ShortChannels, Zenon
  <2>3. Failing /\ rState = "Error"
    BY <1>1, <1>2, <2>1, <2>2, SenderRows, Zenon
       DEF Joint, KeyOut, Verifying, Finishing, Failing, Ended, Returned
  <2>4. Failing'
    BY <1>1, <2>1, <2>3, Zenon DEF Failing
  <2> QED BY <1>1, <2>4, Zenon DEF InLockstep
<1>3. CASE toSnd # <<>>
  <2>1. Finishing /\ toSnd = <<FinalAck>>
    BY <1>1, <1>3, SenderRows, Zenon DEF Joint, KeyOut, Verifying, Finishing, Failing
  <2>2. toSnd' = <<>> /\ sState' = "Finished"
    BY <1>1, <2>1, ShortChannels, TransitionsTaken
       DEF stepSenderReadFinalAck, Accepted, Refused, Arrived
  <2>3. Finishing'
    BY <1>1, <2>1, <2>2, Zenon DEF Finishing
  <2> QED BY <1>1, <2>3, Zenon DEF InLockstep
<1> QED BY <1>2, <1>3, Zenon

\* Every round of the sender.
LEMMA SenderLockstep ==
  ASSUME Shape, Joint, SenderStep, UNCHANGED <<receiverVars, endpointVars>>
  PROVE  InLockstep' /\ (alive' <=> alive)
<1>1. CASE ~alive
  BY <1>1, SenderDown, Zenon DEF Joint, InLockstep
<1>2. CASE alive
  BY <1>2, SenderEarly, SenderRequest, SenderResponse, SenderTicket, SenderKey,
     SenderRoot, SenderAcked, Zenon DEF SenderStep, InLockstep
<1> QED BY <1>1, <1>2, Zenon

(***************************************************************************)
(* The receiver's rounds.                                                  *)
(***************************************************************************)
\* On a connection that is down nothing is sent or read any more.
LEMMA ReceiverDown ==
  ASSUME Shape, Down, ~alive, ReceiverStep, UNCHANGED <<senderVars, endpointVars>>
  PROVE  Down' /\ ~alive'
<1>1. rState # "Finished"
  BY Zenon DEF ReceiverStep, stepReceiverIdle, stepReceiverReceiveHeader,
         stepReceiverSendChunkRequest, stepReceiverWaitChunkResponse,
         stepReceiverSendLotteryTicket, stepReceiverWaitKeyReveal, stepReceiverVerifyChunk,
         stepReceiverReadRoot, stepReceiverSendFinalAck
<1>2. UNCHANGED <<toRcv, toSnd, alive>>
  BY Zenon DEF ReceiverStep, stepReceiverIdle, stepReceiverReceiveHeader,
         stepReceiverSendChunkRequest, stepReceiverWaitChunkResponse,
         stepReceiverSendLotteryTicket, stepReceiverWaitKeyReveal, stepReceiverVerifyChunk,
         stepReceiverReadRoot, stepReceiverSendFinalAck, Sent, Accepted, Arrived
<1>3. faulty => faulty'
  <2>1. stepReceiverVerifyChunk => faulty' = faulty \/ faulty' = TRUE
    BY Zenon DEF stepReceiverVerifyChunk
  <2> QED
    BY <2>1, Zenon
       DEF ReceiverStep, stepReceiverIdle, stepReceiverReceiveHeader,
           stepReceiverSendChunkRequest, stepReceiverWaitChunkResponse,
           stepReceiverSendLotteryTicket, stepReceiverWaitKeyReveal,
           stepReceiverReadRoot, stepReceiverSendFinalAck
<1> QED BY <1>1, <1>2, <1>3, Zenon DEF Down, BothEmpty, ClientEnd, senderVars, endpointVars

\* The rows of the table in which the receiver runs, state by state.
LEMMA ReceiverRows ==
  ASSUME alive, InLockstep
  PROVE  /\ rState \in {"Idle", "ReceiveHeader"} => Early
         /\ rState \in {"SendChunkRequest", "SendLotteryTicket"} => Exchange
         /\ rState = "WaitingChunkResponse" => Exchange \/ Failing
         /\ rState = "WaitingKeyReveal" => Exchange \/ KeyOut
         /\ rState = "VerifyChunk" => KeyOut
         /\ rState = "VerifyMerkle" => Verifying
BY Zenon DEF InLockstep, Early, Exchange, KeyOut, Verifying, Finishing, Failing

\* Idle.
LEMMA ReceiverIdle ==
  ASSUME Shape, Joint, alive, UNCHANGED <<senderVars, endpointVars>>, stepReceiverIdle
  PROVE  InLockstep' /\ alive'
<1>1. Early
  BY ReceiverRows, Zenon DEF Joint, stepReceiverIdle
<1>2. UNCHANGED <<Request, toRcv, toSnd, alive, rRootOK>> /\ rState' = "ReceiveHeader"
  BY TransitionsTaken, Zenon DEF stepReceiverIdle, Request, TypeCode, endpointVars
<1>3. Early'
  BY <1>1, <1>2, Zenon DEF Early, senderVars, endpointVars
<1> QED BY <1>2, <1>3, Zenon DEF InLockstep

\* The header, or a failed os.Create or Close.
LEMMA ReceiverHeader ==
  ASSUME Shape, Joint, alive, UNCHANGED <<senderVars, endpointVars>>,
         stepReceiverReceiveHeader
  PROVE  InLockstep' /\ alive'
<1> DEFINE h == Header(sTotal, sFileID, sSize)
<1>1. /\ rState = "ReceiveHeader" /\ alive' /\ rChunk = 0
      /\ UNCHANGED <<toSnd, rChunk, rRootOK, sState, sTotal, sChunk, sRootSent>>
  BY Zenon DEF stepReceiverReceiveHeader, senderVars, Shape, ReceiverShape
<1>2. Early /\ MayReceive
  BY <1>1, ReceiverRows, Zenon DEF Joint, Endpoints
<1>3. method = "POST" => Request = <<>>
  BY <1>2, Zenon DEF MayReceive, Request
<1>4. toRcv = <<h>>
  <2>1. \/ sState \in {"NoSession", "Idle", "SendHeader"} /\ toRcv = <<>>
        \/ toRcv = Append(<<>>, h)
    BY <1>2, <1>3, Zenon DEF Early
  <2>2. sState \in {"NoSession", "Idle", "SendHeader"} => ~Closed(sState)
    BY Zenon DEF Closed, Ended, Returned
  <2>3. toRcv # <<>> \/ Closed(sState)
    BY <1>1, Zenon DEF stepReceiverReceiveHeader, Accepted, Refused, Arrived
  <2> QED BY <2>1, <2>2, <2>3, ShortChannels, Zenon
<1>5. /\ sState = IF sTotal = 0 THEN "Finished" ELSE "WaitingChunkRequest"
      /\ sChunk = 0 /\ ~sRootSent /\ ~rRootOK
  <2>1. <<h>> # <<>>
    BY ShortChannels, Zenon
  <2> QED BY <1>2, <1>3, <1>4, <2>1, Zenon DEF Early
<1>6. toSnd = <<>>
  <2>1. MaySend
    BY <1>5, Zenon DEF Joint, Endpoints
  <2>2. method = "GET" => Request = <<>>
    BY <2>1, Zenon DEF MaySend, Request
  <2> QED BY <1>2, <2>2, Zenon DEF Early
<1>7. Head(toRcv) = h /\ Tail(toRcv) = <<>> /\ toRcv # <<>>
  BY <1>4, ShortChannels, Zenon
<1>8. h.kind = "Header" /\ h.reps = sTotal
  BY Zenon DEF Header
<1> HIDE DEF h
<1>9. /\ toRcv' = <<>> /\ rTotal' = sTotal
      /\ \/ rState' = IF sTotal = 0 THEN "Finished" ELSE "SendChunkRequest"
         \/ faulty' /\ rState' = "Error"
  BY <1>1, <1>7, <1>8, TransitionsTaken DEF stepReceiverReceiveHeader, Accepted, Refused, Arrived
<1>10. Len(<<>>) = 0
  BY ShortLengths, Zenon
<1>11. Finishing' \/ Exchange' \/ Failing'
  <2>1. CASE faulty' /\ rState' = "Error"
    <3>1. Failing'
      BY <1>1, <1>5, <1>6, <1>9, <1>10, <2>1 DEF Failing
    <3> QED BY <3>1, Zenon
  <2>2. CASE sTotal = 0 /\ rState' = "Finished"
    <3>1. Finishing'
      BY <1>1, <1>5, <1>6, <1>9, <2>2, Zenon DEF Finishing
    <3> QED BY <3>1, Zenon
  <2>3. CASE sTotal # 0 /\ rState' = "SendChunkRequest"
    <3>1. Exchange'
      BY <1>1, <1>5, <1>6, <1>9, <2>3, Zenon DEF Exchange, BothEmpty
    <3> QED BY <3>1, Zenon
  <2> QED BY <1>9, <2>1, <2>2, <2>3, Zenon
<1> QED BY <1>1, <1>11, Zenon DEF InLockstep

\* The chunk request and the ticket.
LEMMA ReceiverAsks ==
  ASSUME Shape, Joint, alive, UNCHANGED <<senderVars, endpointVars>>,
         stepReceiverSendChunkRequest \/ stepReceiverSendLotteryTicket
  PROVE  InLockstep' /\ alive'
<1>1. /\ rState \in {"SendChunkRequest", "SendLotteryTicket"} /\ alive'
      /\ UNCHANGED <<toRcv, rTotal, rChunk, rRootOK, sState, sTotal, sChunk, sRootSent>>
  BY Zenon DEF stepReceiverSendChunkRequest, stepReceiverSendLotteryTicket, senderVars, rFixed
<1>2. Exchange /\ BothEmpty
  BY <1>1, ReceiverRows, Zenon DEF Joint, Exchange
<1>3. ~WriteFails(sState)
  BY <1>1, <1>2, Zenon DEF Exchange, WriteFails, Closed, Ended, Returned
<1>4. CASE stepReceiverSendChunkRequest
  <2>1. toSnd' = Append(<<>>, ChunkRequest(rChunk)) /\ rState' = "WaitingChunkResponse"
    BY <1>2, <1>3, <1>4, TransitionsTaken, Zenon DEF stepReceiverSendChunkRequest, Sent, BothEmpty
  <2>2. sState = "WaitingChunkRequest"
    BY <1>2, <1>4, Zenon DEF Exchange, stepReceiverSendChunkRequest
  <2>3. Exchange'
    BY <1>1, <1>2, <2>1, <2>2, ShortChannels, Zenon DEF Exchange, BothEmpty
  <2> QED BY <1>1, <2>3, Zenon DEF InLockstep
<1>5. CASE stepReceiverSendLotteryTicket
  <2>1. toSnd' = Append(<<>>, LotteryTicket(rChunk)) /\ rState' = "WaitingKeyReveal"
    BY <1>2, <1>3, <1>5, TransitionsTaken, Zenon DEF stepReceiverSendLotteryTicket, Sent, BothEmpty
  <2>2. sState = "WaitingLotteryTicket"
    BY <1>2, <1>5, Zenon DEF Exchange, stepReceiverSendLotteryTicket
  <2>3. Exchange'
    BY <1>1, <1>2, <2>1, <2>2, ShortChannels, Zenon DEF Exchange, BothEmpty
  <2> QED BY <1>1, <2>3, Zenon DEF InLockstep
<1> QED BY <1>4, <1>5, Zenon

\* The chunk, or the news that the sender has failed.
LEMMA ReceiverResponse ==
  ASSUME Shape, Joint, alive, UNCHANGED <<senderVars, endpointVars>>,
         stepReceiverWaitChunkResponse
  PROVE  InLockstep' /\ alive'
<1>1. /\ rState = "WaitingChunkResponse" /\ alive'
      /\ UNCHANGED <<toSnd, rTotal, rChunk, rRootOK, faulty>>
      /\ UNCHANGED <<sState, sTotal, sChunk, sRootSent>>
  BY Zenon DEF stepReceiverWaitChunkResponse, senderVars, rFixed
<1>2. CASE Failing
  <2>1. toRcv = <<>> /\ sState = "Error" /\ toSnd = <<>> /\ faulty
    BY <1>1, <1>2, Zenon DEF Failing
  <2>2. toRcv' = <<>> /\ rState' = "Error" /\ Len(<<>>) = 0
    BY <2>1, ShortLengths, Zenon DEF stepReceiverWaitChunkResponse, Accepted, Refused, Arrived
  <2>3. Failing'
    BY <1>1, <2>1, <2>2 DEF Failing
  <2> QED BY <1>1, <2>3, Zenon DEF InLockstep
<1>3. CASE Exchange
  <2>1. ~Closed(sState)
    BY <1>1, <1>3, Zenon DEF Exchange, Closed, Ended, Returned
  <2>2. toRcv # <<>>
    BY <2>1, Zenon DEF stepReceiverWaitChunkResponse, Accepted, Refused, Arrived
  <2>3. /\ sState = "WaitingLotteryTicket" /\ rChunk = sChunk
        /\ toRcv = <<ChunkResponse(sPending)>> /\ toSnd = <<>>
    BY <1>1, <1>3, <2>2, Zenon DEF Exchange, BothEmpty
  <2>4. sPending.index = rChunk
    BY <2>3, Zenon DEF Shape, SenderShape
  <2>5. ChunkResponse(sPending).kind = "ChunkResponse" /\ ChunkResponse(sPending).index = rChunk
    BY <2>4, Zenon DEF ChunkResponse
  <2>6. Head(toRcv) = ChunkResponse(sPending) /\ Tail(toRcv) = <<>>
    BY <2>3, ShortChannels, Zenon
  <2>7. toRcv' = <<>> /\ rState' = "SendLotteryTicket"
    BY <1>1, <2>2, <2>5, <2>6, TransitionsTaken
       DEF stepReceiverWaitChunkResponse, Accepted, Refused, Arrived
  <2>8. Exchange'
    BY <1>1, <1>3, <2>3, <2>7, Zenon DEF Exchange, BothEmpty
  <2> QED BY <1>1, <2>8, Zenon DEF InLockstep
<1> QED BY <1>1, <1>2, <1>3, ReceiverRows, Zenon DEF Joint

\* The key.
LEMMA ReceiverKey ==
  ASSUME Shape, Joint, alive, UNCHANGED <<senderVars, endpointVars>>,
         stepReceiverWaitKeyReveal
  PROVE  InLockstep' /\ alive'
<1>1. /\ rState = "WaitingKeyReveal" /\ alive'
      /\ UNCHANGED <<toSnd, rTotal, rChunk, rRootOK>>
      /\ UNCHANGED <<sState, sTotal, sChunk, sLeaves, sRootSent>>
  BY Zenon DEF stepReceiverWaitKeyReveal, senderVars, rFixed
<1>2. ~Exchange
  <2> SUFFICES ASSUME Exchange PROVE FALSE
    BY Zenon
  <2>1. toRcv = <<>> /\ sState \in {"WaitingLotteryTicket", "SendKeyReveal"}
    BY <1>1, Zenon DEF Exchange, BothEmpty
  <2> QED
    BY <2>1, Zenon
       DEF stepReceiverWaitKeyReveal, Accepted, Refused, Arrived, Closed, Ended, Returned
<1>3. KeyOut
  BY <1>1, <1>2, ReceiverRows, Zenon DEF Joint
<1> DEFINE last == IsLastChunk(rChunk, rTotal)
           root == RootOf(sLeaves)
<1>4. PICK key \in Keys :
        LET reveal == <<KeyReveal(rChunk, key)>>
        IN  IF last
            THEN /\ sState = "VerifyMerkle"
                 /\ toRcv = IF sRootSent THEN Append(reveal, root) ELSE reveal
            ELSE /\ sState = "WaitingChunkRequest" /\ ~sRootSent
                 /\ sChunk = rChunk + 1
                 /\ toRcv = reveal
  BY <1>1, <1>3, Zenon DEF KeyOut
<1> DEFINE m == KeyReveal(rChunk, key)
<1>5. m.kind = "KeyReveal" /\ m.index = rChunk
  BY Zenon DEF KeyReveal
<1>6. toRcv = IF last /\ sRootSent THEN Append(<<m>>, root) ELSE <<m>>
  BY <1>4, Zenon
<1> HIDE DEF m, root, last
<1>7. /\ toRcv # <<>> /\ Head(toRcv) = m
      /\ Tail(toRcv) = IF last /\ sRootSent THEN <<root>> ELSE <<>>
  <2>1. /\ <<m>> # <<>> /\ Head(<<m>>) = m /\ Tail(<<m>>) = <<>>
        /\ Append(<<m>>, root) # <<>> /\ Head(Append(<<m>>, root)) = m
        /\ Tail(Append(<<m>>, root)) = <<root>>
    BY ShortChannels, Zenon
  <2> QED BY ONLY <1>6, <2>1, Zenon
<1>8. toRcv' = Tail(toRcv) /\ rState' = "VerifyChunk"
  BY <1>1, <1>5, <1>7, TransitionsTaken, Zenon
     DEF stepReceiverWaitKeyReveal, Accepted, Refused, Arrived
<1>9. <<root>> = Append(<<>>, root)
  BY ShortChannels, Zenon
<1>10. /\ UNCHANGED <<last, root>>
       /\ rTotal' = sTotal' /\ ~rRootOK' /\ toSnd' = <<>>
       /\ IF last THEN sState' = "VerifyMerkle"
          ELSE sState' = "WaitingChunkRequest" /\ ~sRootSent' /\ sChunk' = rChunk' + 1
  BY <1>1, <1>3, <1>4, Zenon DEF KeyOut, last, root
<1>11. toRcv' = IF last /\ sRootSent' THEN Append(<<>>, root') ELSE <<>>
  BY <1>1, <1>7, <1>8, <1>9, <1>10, Zenon
<1>12. KeyOut'
  BY <1>4, <1>8, <1>10, <1>11, Zenon DEF KeyOut, last, root
<1> QED BY <1>1, <1>12, Zenon DEF InLockstep

\* The chunk verified and written, or a failed disk.
LEMMA ReceiverVerifies ==
  ASSUME Shape, Joint, Content, alive, UNCHANGED <<senderVars, endpointVars>>,
         stepReceiverVerifyChunk
  PROVE  InLockstep' /\ alive'
<1> DEFINE last == IsLastChunk(rChunk, rTotal)
<1>1. /\ rState = "VerifyChunk" /\ alive'
      /\ UNCHANGED <<toRcv, toSnd, rTotal, rRootOK>>
      /\ UNCHANGED <<sState, sTotal, sChunk, sLeaves, sRootSent>>
  BY Zenon DEF stepReceiverVerifyChunk, senderVars, rFixed
<1>2. DecryptAndCheck(rPending) # Nil
  BY <1>1, PendingOpens, NilAssumption, Zenon DEF Content
<1>3. \/ /\ rChunk' = IF last THEN rChunk ELSE rChunk + 1
         /\ rState' = IF last THEN "VerifyMerkle" ELSE "SendChunkRequest"
      \/ faulty' = TRUE /\ rState' = "Error"
  BY <1>1, <1>2, TransitionsTaken, Zenon DEF stepReceiverVerifyChunk
<1>4. KeyOut
  BY <1>1, ReceiverRows, Zenon DEF Joint
<1> DEFINE root == RootOf(sLeaves)
<1> HIDE DEF last, root
<1>5. /\ rTotal = sTotal /\ ~rRootOK /\ toSnd = <<>>
      /\ IF last
         THEN /\ sState = "VerifyMerkle"
              /\ toRcv = IF sRootSent THEN Append(<<>>, root) ELSE <<>>
         ELSE /\ sState = "WaitingChunkRequest" /\ ~sRootSent /\ sChunk = rChunk + 1
              /\ toRcv = <<>>
  BY <1>1, <1>4, Zenon DEF KeyOut, last, root
<1>6. Append(<<>>, root) = <<root>> /\ Len(<<root>>) = 1 /\ Len(<<>>) = 0 /\ root' = root
  BY <1>1, ShortChannels, ShortLengths, Zenon DEF root
<1>7. CASE faulty' = TRUE /\ rState' = "Error"
  <2>1. Len(toRcv') <= 1
    <3>1. toRcv = <<>> \/ toRcv = Append(<<>>, root)
      BY ONLY <1>5, Zenon
    <3>2. toRcv' = <<>> \/ toRcv' = <<root>>
      BY ONLY <1>1, <1>6, <3>1, Zenon
    <3>3. Len(toRcv') = 0 \/ Len(toRcv') = 1
      BY ONLY <1>6, <3>2, Zenon
    <3> QED BY ONLY <3>3, SmallNumbers, Zenon
  <2>2. /\ faulty' /\ rState' = "Error" /\ toSnd' = <<>>
        /\ sState' \in {"WaitingChunkRequest", "VerifyMerkle", "Finished", "Error"}
        /\ sState' = "VerifyMerkle" /\ ~sRootSent' => toRcv' = <<>>
    BY <1>1, <1>5, <1>7, Zenon
  <2>3. Failing'
    BY <2>1, <2>2, Zenon DEF Failing
  <2> QED BY <1>1, <2>3, Zenon DEF InLockstep
<1>8. CASE last /\ rState' = "VerifyMerkle"
  <2>1. Verifying'
    BY <1>1, <1>5, <1>6, <1>8, Zenon DEF Verifying, root
  <2> QED BY <1>1, <2>1, Zenon DEF InLockstep
<1>9. CASE ~last /\ rState' = "SendChunkRequest" /\ rChunk' = rChunk + 1
  <2>1. Exchange'
    BY <1>1, <1>5, <1>9, Zenon DEF Exchange, BothEmpty
  <2> QED BY <1>1, <2>1, Zenon DEF InLockstep
<1> QED BY <1>3, <1>7, <1>8, <1>9, Zenon

\* Both ends have the same leaves when the roots are compared.
LEMMA SameLeaves ==
  ASSUME Shape, Content, Verifying
  PROVE  rLeaves = sLeaves
<1>1. /\ rLeaves \in Seq(Leaf) /\ sLeaves \in Seq(Leaf) /\ sPending = Nil
      /\ Len(rLeaves) = Len(sLeaves)
  BY Zenon DEF Shape, ReceiverTypeOK, SenderTypeOK, Verifying, SenderShape, ReceiverShape
<1>2. Committed = sLeaves
  BY <1>1, Zenon DEF Committed
<1>3. \A i \in 1 .. Len(rLeaves) : rLeaves[i] = sLeaves[i]
  BY <1>2, Zenon DEF Content, LeavesAgree, IsPrefixOf
<1> QED BY <1>1, <1>3, SameElements, Zenon

\* The root.
LEMMA ReceiverRoot ==
  ASSUME Shape, Joint, Content, alive, UNCHANGED <<senderVars, endpointVars>>,
         stepReceiverReadRoot
  PROVE  InLockstep' /\ alive'
<1>1. /\ rState = "VerifyMerkle" /\ ~rRootOK /\ alive'
      /\ UNCHANGED <<toSnd, rTotal, sState, sTotal, sRootSent, sLeaves>>
  BY Zenon DEF stepReceiverReadRoot, senderVars, rFixed
<1>2. Verifying
  BY <1>1, ReceiverRows, Zenon DEF Joint
<1>3. ~Closed(sState)
  BY <1>2, Zenon DEF Verifying, Closed, Ended, Returned
<1>4. toRcv # <<>>
  BY <1>3, Zenon DEF stepReceiverReadRoot, Accepted, Refused, Arrived
<1>5. sRootSent /\ toRcv = <<RootOf(sLeaves)>>
  BY <1>1, <1>2, <1>4, Zenon DEF Verifying
<1>6. Head(toRcv) = RootOf(sLeaves) /\ Tail(toRcv) = <<>>
  BY <1>5, ShortChannels, Zenon
<1>7. /\ RootOf(sLeaves).kind = "Root"
      /\ MerkleRoot(RootOf(sLeaves).leaves) = MerkleRoot(rLeaves)
  BY <1>2, SameLeaves, Zenon DEF RootOf
<1>8. toRcv' = <<>> /\ rRootOK' /\ rState' = rState
  BY <1>4, <1>6, <1>7, Zenon DEF stepReceiverReadRoot, Accepted, Refused, Arrived
<1>9. Verifying'
  BY <1>1, <1>2, <1>5, <1>8, Zenon DEF Verifying
<1> QED BY <1>1, <1>9, Zenon DEF InLockstep

\* The final ack.
LEMMA ReceiverAcks ==
  ASSUME Shape, Joint, alive, UNCHANGED <<senderVars, endpointVars>>,
         stepReceiverSendFinalAck
  PROVE  InLockstep' /\ alive'
<1>1. /\ rState = "VerifyMerkle" /\ rRootOK /\ alive'
      /\ UNCHANGED <<toRcv, sState, sRootSent>>
  BY Zenon DEF stepReceiverSendFinalAck, senderVars
<1>2. Verifying
  BY <1>1, ReceiverRows, Zenon DEF Joint
<1>3. /\ toRcv = <<>> /\ toSnd = <<>> /\ sRootSent /\ sState = "VerifyMerkle"
      /\ ~WriteFails(sState)
  BY <1>1, <1>2, Zenon DEF Verifying, WriteFails, Closed, Ended, Returned
<1>4. toSnd' = <<FinalAck>> /\ rState' = "Finished"
  BY <1>1, <1>3, ShortChannels, TransitionsTaken DEF stepReceiverSendFinalAck, Sent
<1>5. Finishing'
  BY <1>1, <1>3, <1>4, Zenon DEF Finishing
<1> QED BY <1>1, <1>5, Zenon DEF InLockstep

\* Every round of the receiver.
LEMMA ReceiverLockstep ==
  ASSUME Shape, Joint, Content, ReceiverStep, UNCHANGED <<senderVars, endpointVars>>
  PROVE  InLockstep' /\ (alive' <=> alive)
<1>1. CASE ~alive
  BY <1>1, ReceiverDown, Zenon DEF Joint, InLockstep
<1>2. CASE alive
  BY <1>2, ReceiverIdle, ReceiverHeader, ReceiverAsks, ReceiverResponse, ReceiverKey,
     ReceiverVerifies, ReceiverRoot, ReceiverAcks, Zenon DEF ReceiverStep
<1> QED BY <1>1, <1>2, Zenon

(***************************************************************************)
(* Everything else, and all of it together.                                *)
(***************************************************************************)
\* Nothing has been requested.
LEMMA JointInit == Init => Joint
BY Zenon DEF Init, StreamInit, SenderInit, ReceiverInit, Joint, Endpoints, InLockstep, Early,
       Request

\* SendFile and RecieveFile start where the request has put them.
LEMMA StartJoint ==
  ASSUME Shape, Joint, StartSend \/ StartReceive
  PROVE  Joint'
<1>1. /\ UNCHANGED <<toRcv, toSnd, alive, faulty, sChunk, sRootSent, rRootOK, endpointVars>>
      /\ UNCHANGED Request
      /\ \/ /\ MaySend /\ sState = "NoSession" /\ sState' = "Idle" /\ UNCHANGED rState
         \/ /\ MayReceive /\ rState = "NoSession" /\ rState' = "Idle"
            /\ UNCHANGED <<sState, sTotal, sFileID, sSize>>
  BY Zenon DEF StartSend, StartReceive, SendFile, RecieveFile, streamVars, senderVars,
         receiverVars, endpointVars, Request, TypeCode
<1>2. Endpoints'
  BY <1>1, Zenon DEF Joint, Endpoints, MaySend, MayReceive, endpointVars
<1>3. CASE alive
  <2>1. Early
    BY <1>1, <1>3, Zenon DEF Joint, InLockstep, Exchange, KeyOut, Verifying, Finishing, Failing
  <2>2. Early'
    BY <1>1, <2>1, Zenon DEF Early, endpointVars
  <2> QED BY <1>1, <1>2, <1>3, <2>2, Zenon DEF Joint, InLockstep
<1>4. CASE ~alive
  <2>1. Down'
    BY <1>1, <1>4, Zenon DEF Joint, InLockstep, Down, BothEmpty, ClientEnd, endpointVars
  <2> QED BY <1>1, <1>2, <1>4, <2>1, Zenon DEF Joint, InLockstep
<1> QED BY <1>3, <1>4, Zenon

\* Whatever takes the connection down.
LEMMA CutJoint ==
  ASSUME Shape, Joint, SenderGone \/ ReceiverGone \/ ConnectionLost \/ ClientCloses
  PROVE  Joint'
<1>1. /\ ~alive' /\ toRcv' = <<>> /\ toSnd' = <<>> /\ UNCHANGED endpointVars
      /\ sState' # "NoSession" => MaySend
      /\ rState' # "NoSession" => MayReceive
  BY Zenon DEF SenderGone, SenderExits, ReceiverGone, ReceiverExits, ConnectionLost, Lose, Cut,
         ClientCloses, senderVars, receiverVars, Joint, Endpoints
<1>2. Endpoints'
  BY <1>1, Zenon DEF Joint, Endpoints, MaySend, MayReceive, endpointVars
<1>3. ClientCloses => faulty' \/ ClientEnd' = "Finished"
  <2> SUFFICES ASSUME ClientCloses PROVE faulty' \/ ClientEnd' = "Finished"
    BY Zenon
  <2>1. alive /\ ClientEnd \in Returned /\ UNCHANGED <<faulty, ClientEnd>>
    BY Zenon DEF ClientCloses, ClientEnd, senderVars, receiverVars, endpointVars
  <2>2. ClientEnd = "Error" => faulty
    BY <2>1, Zenon DEF Joint, InLockstep, Early, Exchange, KeyOut, Verifying, Finishing, Failing,
                ClientEnd
  <2> QED BY <2>1, <2>2, Zenon DEF Returned
<1>4. SenderGone \/ ReceiverGone \/ ConnectionLost => faulty'
  BY Zenon DEF SenderGone, SenderExits, ReceiverGone, ReceiverExits, ConnectionLost, Lose
<1>5. Down'
  BY <1>1, <1>3, <1>4, Zenon DEF Down, BothEmpty
<1> QED BY <1>1, <1>2, <1>5, Zenon DEF Joint, InLockstep

\* Endpoints speaks of starting only.
LEMMA EndpointsKept ==
  ASSUME Endpoints, UNCHANGED endpointVars, alive' <=> alive,
         sState' # "NoSession" => sState # "NoSession",
         rState' # "NoSession" => rState # "NoSession"
  PROVE  Endpoints'
BY Zenon DEF Endpoints, MaySend, MayReceive, endpointVars

\* A change of the source file is nobody's step; neither is a stutter.
LEMMA UnseenJoint ==
  ASSUME Shape, Joint, SourceChanges \/ UNCHANGED vars
  PROVE  Joint'
<1>1. /\ UNCHANGED <<toRcv, toSnd, alive, faulty, receiverVars, endpointVars>>
      /\ UNCHANGED <<sState, sFileID, sSize, sTotal, sChunk, sPending, sLeaves, sRootSent>>
  BY Zenon DEF SourceChanges, FileChanges, vars, streamVars, senderVars
<1>2. UNCHANGED <<Request, ClientEnd, rState, rRootOK, rTotal, rChunk, rLeaves, method>>
  BY <1>1, Zenon DEF Request, TypeCode, ClientEnd, receiverVars, endpointVars
<1>3. Endpoints'
  BY <1>1, <1>2, EndpointsKept, Zenon DEF Joint
<1>4. Early => Early'
  BY <1>1, <1>2, Zenon DEF Early
<1>5. (Exchange => Exchange') /\ (KeyOut => KeyOut') /\ (Verifying => Verifying')
  BY <1>1, <1>2, Zenon DEF Exchange, KeyOut, Verifying, BothEmpty
<1>6. (Finishing => Finishing') /\ (Failing => Failing') /\ (Down => Down')
  BY <1>1, <1>2, Zenon DEF Finishing, Failing, Down, BothEmpty
<1> QED BY <1>1, <1>3, <1>4, <1>5, <1>6, Zenon DEF Joint, InLockstep

\* Every step keeps the table.
LEMMA JointStep == Shape /\ Content /\ Joint /\ [Next]_vars => Joint'
<1> SUFFICES ASSUME Shape, Content, Joint, [Next]_vars PROVE Joint'
  BY Zenon
<1>1. CASE Sending
  <2>1. InLockstep' /\ (alive' <=> alive) /\ UNCHANGED <<receiverVars, endpointVars>>
    BY <1>1, SenderLockstep, Zenon DEF Sending
  <2>2. sState # "NoSession"
    BY <1>1, Zenon DEF Sending, SenderStep, stepSenderIdle, stepSenderSendHeader,
                stepSenderWaitChunkRequest, stepSenderSendChunkResponse,
                stepSenderWaitLotteryTicket, stepSenderSendKeyReveal, stepSenderSendRoot,
                stepSenderReadFinalAck
  <2> QED BY <2>1, <2>2, EndpointsKept, Zenon DEF Joint, receiverVars
<1>2. CASE Receiving
  <2>1. InLockstep' /\ (alive' <=> alive) /\ UNCHANGED <<senderVars, endpointVars>>
    BY <1>2, ReceiverLockstep, Zenon DEF Receiving
  <2>2. rState # "NoSession"
    BY <1>2, Zenon DEF Receiving, ReceiverStep, stepReceiverIdle, stepReceiverReceiveHeader,
                stepReceiverSendChunkRequest, stepReceiverWaitChunkResponse,
                stepReceiverSendLotteryTicket, stepReceiverWaitKeyReveal,
                stepReceiverVerifyChunk, stepReceiverReadRoot, stepReceiverSendFinalAck
  <2> QED BY <2>1, <2>2, EndpointsKept, Zenon DEF Joint, senderVars
<1> QED BY <1>1, <1>2, RequestJoint, HandleJoint, StartJoint, CutJoint, UnseenJoint, Zenon
        DEF Next, Terminated

\* The two step tables fit: in every reachable state the receiver's state fixes
\* the sender's and the messages between them, as the table in Lockstep says.
THEOREM LockstepTheorem == Spec => []InLockstep
<1>1. Joint => InLockstep
  BY Zenon DEF Joint
<1> QED BY ShapeInit, ShapeStep, ContentTheorem, JointInit, JointStep, <1>1, PTL DEF Spec

(***************************************************************************)
(* What follows from the table.                                            *)
(***************************************************************************)
\* The key of a chunk is not on its way before the ticket for it: the comment
\* at Session.PendingChunk holds for every file and every interleaving.
THEOREM KeyHidden == Spec => []KeyHiddenUntilTicket
<1>1. Joint => KeyHiddenUntilTicket
  <2> SUFFICES ASSUME Joint,
                      rState \in {"SendChunkRequest", "WaitingChunkResponse", "SendLotteryTicket"},
                      NEW i \in DOMAIN toRcv
               PROVE  toRcv[i].kind # "KeyReveal"
    BY Zenon DEF KeyHiddenUntilTicket
  <2>1. toRcv = <<>> \/ toRcv = <<ChunkResponse(sPending)>>
    BY Zenon DEF Joint, InLockstep, Early, Exchange, KeyOut, Verifying, Finishing, Failing, Down,
           BothEmpty
  <2>2. toRcv # <<>>
    OBVIOUS
  <2>3. ChunkResponse(sPending).kind = "ChunkResponse"
    BY Zenon DEF ChunkResponse
  <2> HIDE DEF ChunkResponse
  <2>4. i = 1 /\ toRcv[1] = ChunkResponse(sPending)
    BY <2>1, <2>2
  <2> QED BY <2>3, <2>4, Zenon
<1> QED BY ShapeInit, ShapeStep, ContentTheorem, JointInit, JointStep, <1>1, PTL DEF Spec

\* At most two messages are on their way to the receiver and one to the sender.
THEOREM InFlight == Spec => []InFlightBounded
<1>1. Shape /\ Joint => InFlightBounded
  <2> SUFFICES ASSUME Shape, Joint PROVE InFlightBounded
    BY Zenon
  <2>1. Len(toRcv) \in Nat
    BY DEF Shape, StreamTypeOK
  <2>2. toSnd = <<>> \/ \E m : toSnd = <<m>>
    BY Zenon DEF Joint, InLockstep, Early, Exchange, KeyOut, Verifying, Finishing, Failing, Down,
           BothEmpty, Request
  <2>3. \/ Len(toRcv) <= 1
        \/ \E b, h : \/ toRcv = <<>> \/ toRcv = <<b>>
                     \/ toRcv = Append(<<>>, h) \/ toRcv = Append(<<b>>, h)
    BY Zenon DEF Joint, InLockstep, Early, Exchange, KeyOut, Verifying, Finishing, Failing,
                 Down, BothEmpty, Request
  <2>4. Len(toSnd) <= 1
    <3>1. Len(toSnd) = 0 \/ Len(toSnd) = 1
      BY <2>2, ShortLengths, Zenon
    <3> QED BY <3>1, SmallNumbers, Zenon
  <2>5. CASE Len(toRcv) <= 1
    BY <2>1, <2>4, <2>5, SmallNumbers, Zenon DEF InFlightBounded
  <2>6. ASSUME NEW b, NEW h, \/ toRcv = <<>> \/ toRcv = <<b>>
                             \/ toRcv = Append(<<>>, h) \/ toRcv = Append(<<b>>, h)
        PROVE  InFlightBounded
    <3>1. /\ Len(<<>>) = 0 /\ Len(<<b>>) = 1 /\ Len(<<h>>) = 1
          /\ Len(Append(<<b>>, h)) = 2 /\ Append(<<>>, h) = <<h>>
      BY ShortChannels, ShortLengths, Zenon
    <3>2. Len(toRcv) = 0 \/ Len(toRcv) = 1 \/ Len(toRcv) = 2
      BY ONLY <2>6, <3>1, Zenon
    <3> QED BY <2>4, <3>2, SmallNumbers, Zenon DEF InFlightBounded
  <2> QED BY <2>3, <2>5, <2>6, Zenon
<1> QED BY ShapeInit, ShapeStep, ContentTheorem, JointInit, JointStep, <1>1, PTL DEF Spec

\* Without a fault of the environment the client's Run never fails, and the
\* server's only when the client's last message was cut off.
THEOREM NoSpuriousError == Spec => []ErrorOnlyAfterFault
<1>1. Shape /\ Joint /\ AckedMeansFinished => ErrorOnlyAfterFault
  <2> SUFFICES ASSUME Shape, Joint, AckedMeansFinished, ~faulty
               PROVE  /\ sState = "Error" => method = "GET" /\ rState = "Finished"
                      /\ rState = "Error" => /\ method = "POST" /\ sState = "Finished"
                                             /\ sTotal = 0
    BY Zenon DEF ErrorOnlyAfterFault
  <2>1. CASE alive
    BY <2>1, Zenon DEF Joint, InLockstep, Early, Exchange, KeyOut, Verifying, Finishing, Failing
  <2>2. CASE ~alive
    <3>1. IF method = "GET" THEN rState = "Finished" ELSE sState = "Finished"
      BY <2>2, Zenon DEF Joint, InLockstep, Down, ClientEnd
    <3>2. method \in {"GET", "POST"} /\ sTotal \in Nat
      BY Zenon DEF Shape, EndpointTypeOK, SenderTypeOK
    <3> QED BY <3>1, <3>2 DEF AckedMeansFinished
  <2> QED BY <2>1, <2>2, Zenon
<1> QED
  BY ShapeInit, ShapeStep, ContentTheorem, AckTheorem, JointInit, JointStep, <1>1, PTL
  DEF Spec

\* Where the output file can be open: in the steps from the header to the
\* Merkle check, and after a failure in one of them but the last.
OpenOnlyInside ==
  rFileOpen =>
    \/ rState \in {"SendChunkRequest", "WaitingChunkResponse", "SendLotteryTicket",
                   "WaitingKeyReveal", "VerifyChunk", "VerifyMerkle"}
    \/ rState = "Error" /\ (Len(rLeaves) < rTotal \/ rPending # Nil)

\* The receiver's rounds keep it so.
LEMMA ReceiverOpens ==
  ASSUME Shape, OpenOnlyInside, ReceiverStep
  PROVE  OpenOnlyInside'
<1>0. /\ rState \in {"SendChunkRequest", "WaitingChunkResponse", "SendLotteryTicket",
                     "WaitingKeyReveal", "VerifyChunk"} => Len(rLeaves) < rTotal
      /\ rState = "VerifyChunk" => rPending # Nil
  BY Zenon DEF Shape, ReceiverShape
<1>1. CASE stepReceiverIdle
  BY <1>1, TransitionsTaken, Zenon DEF stepReceiverIdle, OpenOnlyInside
<1>2. CASE stepReceiverReceiveHeader
  BY <1>2, TransitionsTaken, Zenon DEF stepReceiverReceiveHeader, OpenOnlyInside, OpenAfterHeader
<1>3. CASE stepReceiverSendChunkRequest \/ stepReceiverSendLotteryTicket
  BY <1>0, <1>3, TransitionsTaken, Zenon
     DEF stepReceiverSendChunkRequest, stepReceiverSendLotteryTicket, OpenOnlyInside, rFixed
<1>4. CASE stepReceiverWaitChunkResponse \/ stepReceiverWaitKeyReveal
  BY <1>0, <1>4, TransitionsTaken, Zenon
     DEF stepReceiverWaitChunkResponse, stepReceiverWaitKeyReveal, OpenOnlyInside, rFixed
<1>5. CASE stepReceiverVerifyChunk
  <2>1. /\ UNCHANGED rTotal
        /\ \/ rState' = "Error" /\ UNCHANGED rLeaves
           \/ rState' \in {"VerifyMerkle", "SendChunkRequest"}
           \/ rState' = "Error" /\ UNCHANGED rPending
    BY <1>5, TransitionsTaken, Zenon DEF stepReceiverVerifyChunk, rFixed
  <2>2. rState = "VerifyChunk"
    BY <1>5, Zenon DEF stepReceiverVerifyChunk
  <2> QED BY <1>0, <2>1, <2>2, Zenon DEF OpenOnlyInside
<1>6. CASE stepReceiverReadRoot \/ stepReceiverSendFinalAck
  BY <1>6, Zenon DEF stepReceiverReadRoot, stepReceiverSendFinalAck, OpenOnlyInside
<1> QED BY <1>1, <1>2, <1>3, <1>4, <1>5, <1>6, Zenon DEF ReceiverStep

\* The output file is left open only by a Run that failed before the Merkle
\* check: never after success, and never by the step that compares the roots.
THEOREM HandleClosed == Spec => []HandleLeftOpenOnlyOnError
<1>1. Init => OpenOnlyInside
  BY Zenon DEF Init, ReceiverInit, OpenOnlyInside
<1>2. Shape /\ OpenOnlyInside /\ [Next]_vars => OpenOnlyInside'
  <2> SUFFICES ASSUME Shape, OpenOnlyInside, [Next]_vars PROVE OpenOnlyInside'
    BY Zenon
  <2>1. CASE Receiving
    BY <2>1, ReceiverOpens, Zenon DEF Receiving
  <2>2. CASE UNCHANGED receiverVars
    BY <2>2, Zenon DEF receiverVars, OpenOnlyInside
  <2>3. CASE StartReceive \/ ReceiverGone
    BY <2>3, Zenon DEF StartReceive, RecieveFile, ReceiverGone, ReceiverExits, OpenOnlyInside
  <2> QED
    BY <2>1, <2>2, <2>3, Zenon
       DEF Next, Terminated, RequestFile, HandleStream, StartSend, Sending, SenderGone,
           SourceChanges, ConnectionLost, ClientCloses, vars
<1>3. OpenOnlyInside => HandleLeftOpenOnlyOnError
  BY Zenon DEF OpenOnlyInside, HandleLeftOpenOnlyOnError, Returned
<1> QED BY ShapeInit, ShapeStep, <1>1, <1>2, <1>3, PTL DEF Spec

(***************************************************************************)
(* 2. Transfer implements FileCopy.                                        *)
(***************************************************************************)
\* PrepareMetadata counts no chunks for an empty file only.
LEMMA NoChunks ==
  ASSUME NEW file \in Seq(Byte)
  PROVE  Reps(file) = 0 <=> file = <<>>
<1>1. Reps(file) \in Nat /\ Len(file) <= Reps(file) * ChunkSize
  BY MetadataType, RepsCovers, Zenon
<1>2. ChunkSize \in Nat /\ ChunkSize > 0
  BY SizesAssumption
<1>3. CASE Reps(file) = 0
  <2>1. Len(file) = 0
    BY <1>1, <1>2, <1>3
  <2> QED BY <2>1, <1>3
<1>4. CASE file = <<>>
  <2>1. Reps(file) = (ChunkSize - 1) \div ChunkSize
    BY <1>2, <1>4 DEF Reps
  <2>2. (ChunkSize - 1) \div ChunkSize = 0
    BY <1>2
  <2> QED BY <2>1, <2>2, <1>4, Zenon
<1> QED BY <1>3, <1>4, Zenon

\* A round of the sender's Run: it was running, and the file is left alone.
LEMMA SenderRound ==
  ASSUME SenderStep
  PROVE  sState \in senderSteps /\ UNCHANGED <<srcFile, touched, sTotal>>
<1>1. sState \in senderSteps
  BY DEF SenderStep, stepSenderIdle, stepSenderSendHeader, stepSenderWaitChunkRequest,
         stepSenderSendChunkResponse, stepSenderWaitLotteryTicket, stepSenderSendKeyReveal,
         stepSenderSendRoot, stepSenderReadFinalAck, senderSteps
<1> QED BY <1>1, SenderFixed, Zenon DEF sFixed

\* The output grows by what is appended to it.
LEMMA GrowsByConcat ==
  ASSUME NEW o \in Seq(Byte), NEW p \in Seq(Byte)
  PROVE  Copy!Begins(o, o \o p)
BY ConcatFacts DEF Copy!Begins

\* A round of the receiver's Run: it was running, what is in the output stays,
\* and the round that finishes writes nothing.
LEMMA ReceiverRound ==
  ASSUME Shape, CommittedOK, PendingOK, ReceiverStep
  PROVE  /\ rState \in receiverSteps
         /\ Copy!Begins(out, out')
         /\ rState' = "Finished" => out' = out
<1>0. out \in Seq(Byte) /\ Copy!Begins(out, out)
  BY DEF Shape, ReceiverTypeOK, Copy!Begins
<1>1. CASE stepReceiverVerifyChunk
  <2> DEFINE p == DecryptAndCheck(rPending)
  <2>1. rState = "VerifyChunk"
    BY <1>1, Zenon DEF stepReceiverVerifyChunk
  <2>2. p \in Seq(Byte)
    BY <2>1, PendingOpens, Zenon
  <2>3. \/ out' = out
        \/ out' = out \o p
        \/ \E n \in 0 .. Len(p) : out' = out \o SubSeq(p, 1, n)
    BY <1>1, Zenon DEF stepReceiverVerifyChunk
  <2>4. \A n \in 0 .. Len(p) : SubSeq(p, 1, n) \in Seq(Byte)
    BY <2>2
  <2>5. Copy!Begins(out, out')
    <3> HIDE DEF p
    <3> QED BY <1>0, <2>2, <2>3, <2>4, GrowsByConcat, Zenon
  <2>6. rState' # "Finished"
    BY <1>1, <2>1, TransitionsTaken, Zenon DEF stepReceiverVerifyChunk
  <2> QED BY <2>1, <2>5, <2>6, Zenon DEF receiverSteps
<1>2. CASE stepReceiverReceiveHeader
  <2>1. rState = "ReceiveHeader" /\ (out' = out \/ out' = <<>>)
    BY <1>2, Zenon DEF stepReceiverReceiveHeader
  <2>2. out = <<>>
    BY <2>1, Zenon DEF Shape, ReceiverShape
  <2> QED BY <1>0, <2>1, <2>2, Zenon DEF receiverSteps
<1>3. CASE \/ stepReceiverIdle \/ stepReceiverSendChunkRequest
           \/ stepReceiverWaitChunkResponse \/ stepReceiverSendLotteryTicket
           \/ stepReceiverWaitKeyReveal \/ stepReceiverReadRoot
           \/ stepReceiverSendFinalAck
  <2>1. rState \in receiverSteps /\ out' = out
    BY <1>3, Zenon DEF stepReceiverIdle, stepReceiverSendChunkRequest,
         stepReceiverWaitChunkResponse, stepReceiverSendLotteryTicket,
         stepReceiverWaitKeyReveal, stepReceiverReadRoot, stepReceiverSendFinalAck,
         receiverSteps
  <2> QED BY <1>0, <2>1, Zenon
<1> QED BY <1>1, <1>2, <1>3, Zenon DEF ReceiverStep

\* What is known of the states before and after a step.
Known == Shape /\ Content /\ AckedMeansFinished /\ FinishedCopyIsExact

\* Nobody has reported anything, and the copy is empty.
LEMMA CopyInit == Init => Copy!Init
BY Zenon DEF Init, StreamInit, SenderInit, ReceiverInit, Copy!Init, SenderReports, Reported

\* A step that leaves the files and the two outcomes alone does not show.
LEMMA Unseen ==
  ASSUME UNCHANGED <<srcFile, touched, sTotal, out, sState, rState>>
  PROVE  UNCHANGED Copy!vars
BY Zenon DEF Copy!vars, SenderReports, Reported

\* The sender's rounds show when they finish or fail.
LEMMA SenderShows ==
  ASSUME Known, Known', SenderStep, UNCHANGED receiverVars
  PROVE  [Copy!Next]_(Copy!vars)
<1>1. sState \in senderSteps /\ UNCHANGED <<srcFile, touched, sTotal, out, rState>>
  BY SenderRound, Zenon DEF receiverVars
<1>2. SenderReports = "running"
  BY <1>1, Zenon DEF SenderReports, Reported, senderSteps
<1>3. UNCHANGED Reported(rState)
  BY <1>1, Zenon
<1>4. CASE sState' = "Finished"
  <2>1. SenderReports' = "finished"
    BY <1>4, Zenon DEF SenderReports, Reported
  <2>2. sTotal = 0 \/ rState = "Finished"
    BY <1>1, <1>4 DEF Known, AckedMeansFinished, Shape, SenderTypeOK
  <2>3. sTotal = 0 \/ Reported(rState) = "finished"
    BY <2>2, Zenon DEF Reported
  <2> QED BY <1>1, <1>2, <1>3, <2>1, <2>3, Zenon DEF Copy!Next, Copy!Send
<1>5. CASE sState' \in {"Error", "Exited"}
  <2>1. SenderReports' = "failed"
    BY <1>5, Zenon DEF SenderReports, Reported
  <2> QED BY <1>1, <1>2, <1>3, <2>1, Zenon DEF Copy!Next, Copy!SenderFails
<1>6. CASE sState' \notin {"NoSession", "Finished", "Error", "Exited"}
  <2>1. SenderReports' = "running"
    BY <1>6, Zenon DEF SenderReports, Reported
  <2> QED BY <1>1, <1>2, <1>3, <2>1, Zenon DEF Copy!vars
<1>7. sState' # "NoSession"
  BY <1>1, TransitionsTaken
     DEF SenderStep, stepSenderIdle, stepSenderSendHeader, stepSenderWaitChunkRequest,
         stepSenderSendChunkResponse, stepSenderWaitLotteryTicket, stepSenderSendKeyReveal,
         stepSenderSendRoot, stepSenderReadFinalAck
<1> QED BY <1>4, <1>5, <1>6, <1>7, Zenon

\* The receiver's rounds show when they write, finish or fail.
LEMMA ReceiverShows ==
  ASSUME Known, Known', UNCHANGED senderVars,
         rState \notin Ended, Copy!Begins(out, out'),
         rState' = "Finished" => out' = out
  PROVE  [Copy!Next]_(Copy!vars)
<1>1. UNCHANGED <<srcFile, touched, sTotal, SenderReports>>
  BY Zenon DEF senderVars, SenderReports
<1>2. Reported(rState) = "running"
  BY Zenon DEF Reported, Ended, Returned
<1>3. CASE rState' = "Finished"
  <2>1. Reported(rState)' = "finished"
    BY <1>3, Zenon DEF Reported
  <2>2. ~touched => out = srcFile
    BY <1>1, <1>3, Zenon DEF Known, FinishedCopyIsExact
  <2> QED BY <1>1, <1>2, <1>3, <2>1, <2>2, Zenon DEF Copy!Next, Copy!Receive
<1>4. CASE rState' # "Finished"
  <2>1. Reported(rState)' \in {"running", "failed"}
    BY <1>4, Zenon DEF Reported
  <2>2. ~touched => Copy!Begins(out', srcFile)
    BY <1>1, Zenon DEF Known, Content, OutputIsPrefix, IsPrefixOf, Copy!Begins
  <2> QED BY <1>1, <1>2, <2>1, <2>2, Zenon DEF Copy!Next, Copy!Grow
<1> QED BY <1>3, <1>4, Zenon

\* Every step is a step of FileCopy, or does not show.
LEMMA CopyStep == Known /\ Known' /\ [Next]_vars => [Copy!Next]_(Copy!vars)
<1> SUFFICES ASSUME Known, Known', [Next]_vars PROVE [Copy!Next]_(Copy!vars)
  BY Zenon
<1>1. CASE RequestFile \/ HandleStream \/ ConnectionLost \/ ClientCloses \/ UNCHANGED vars
  BY <1>1, Unseen
     DEF RequestFile, HandleStream, ConnectionLost, ClientCloses, vars,
         senderVars, receiverVars
<1>2. CASE StartSend
  <2>1. /\ sState = "NoSession" /\ sState' = "Idle" /\ sTotal' = Reps(srcFile)
        /\ UNCHANGED <<srcFile, touched, out, rState>>
    BY <1>2, Zenon DEF StartSend, SendFile, receiverVars
  <2>2. SenderReports = "new" /\ SenderReports' = "running" /\ UNCHANGED Reported(rState)
    BY <2>1, Zenon DEF SenderReports, Reported
  <2>3. srcFile \in Seq(Byte)
    BY FilesAssumption, Zenon DEF Known, Shape, SenderTypeOK
  <2>4. (sTotal = 0)' = (srcFile = <<>>)
    BY <2>1, <2>3, NoChunks, Zenon
  <2> QED BY <2>1, <2>2, <2>4, Zenon DEF Copy!Next, Copy!Open
<1>3. CASE StartReceive
  <2>1. UNCHANGED <<srcFile, touched, sTotal, out, sState>>
        /\ rState = "NoSession" /\ rState' = "Idle"
    BY <1>3, Zenon DEF StartReceive, RecieveFile, senderVars
  <2> QED BY <2>1, Zenon DEF Copy!vars, SenderReports, Reported
<1>4. CASE Sending
  BY <1>4, SenderShows, Zenon DEF Sending
<1>5. CASE Receiving
  <2>1. rState \in receiverSteps /\ Copy!Begins(out, out')
        /\ (rState' = "Finished" => out' = out)
    BY <1>5, ReceiverRound, Zenon DEF Receiving, Known, Content
  <2>2. rState \notin Ended
    BY <2>1, Zenon DEF receiverSteps, Ended, Returned
  <2> QED BY <1>5, <2>1, <2>2, ReceiverShows, Zenon DEF Receiving
<1>6. CASE SenderGone
  <2>1. sState \notin Ended /\ sState' = "Exited"
        /\ UNCHANGED <<srcFile, touched, sTotal, out, rState>>
    BY <1>6, Zenon DEF SenderGone, SenderExits, sFixed, receiverVars
  <2>2. SenderReports \in {"new", "running"} /\ SenderReports' = "failed"
        /\ UNCHANGED Reported(rState)
    BY <2>1, Zenon DEF SenderReports, Reported, Ended, Returned
  <2> QED BY <2>1, <2>2, Zenon DEF Copy!Next, Copy!SenderFails
<1>7. CASE ReceiverGone
  <2>1. rState \notin Ended /\ rState' = "Exited" /\ out' = out /\ UNCHANGED senderVars
    BY <1>7, Zenon DEF ReceiverGone, ReceiverExits
  <2>2. Copy!Begins(out, out')
    BY <2>1 DEF Copy!Begins, Known, Shape, ReceiverTypeOK
  <2> QED BY <2>1, <2>2, ReceiverShows, Zenon
<1>8. CASE SourceChanges
  <2>1. /\ sState \in senderSteps /\ srcFile' \in Files /\ touched' = TRUE
        /\ UNCHANGED <<sTotal, out, sState, rState>>
    BY <1>8, Zenon DEF SourceChanges, FileChanges, receiverVars
  <2>2. SenderReports = "running" /\ UNCHANGED <<SenderReports, Reported(rState)>>
    BY <2>1, Zenon DEF SenderReports, Reported, senderSteps
  <2> QED BY <2>1, <2>2, Zenon DEF Copy!Next, Copy!Change
<1> QED BY <1>1, <1>2, <1>3, <1>4, <1>5, <1>6, <1>7, <1>8, Zenon DEF Next, Terminated

\* What the two ends' Run return can be taken at its word: a transfer, with
\* all its chunks, keys, messages and faults, implements the copying of a file.
THEOREM CopyTheorem == Spec => ImplementsCopy
<1>1. Spec => []Known
  BY ShapeInit, ShapeStep, ContentTheorem, AckTheorem, ExactCopy, PTL DEF Spec, Known
<1> QED BY <1>1, CopyInit, CopyStep, PTL DEF Spec, ImplementsCopy, Copy!Spec
=============================================================================
