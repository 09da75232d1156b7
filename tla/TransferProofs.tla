--------------------------- MODULE TransferProofs ---------------------------
(***************************************************************************)
(* Proofs about Transfer, for every file, chunk size, key set and width:   *)
(*                                                                         *)
(*   1. facts about sequences and division;                                *)
(*   2. the types of what the two ends and the channels hold;              *)
(*   3. a sender that finishes has been acknowledged;                      *)
(*   4. what the receiver verifies and writes is what the sender read.     *)
(***************************************************************************)
EXTENDS TransferInvariants, TLAPS

(***************************************************************************)
(* 1. Facts about sequences and division.  They mention nothing of the     *)
(*    program.                                                             *)
(***************************************************************************)
\* The empty sequence has every type: an empty channel, list or file.
LEMMA EmptyIsSeq ==
  ASSUME NEW S
  PROVE  <<>> \in Seq(S)
OBVIOUS

\* What Append yields: a message written, a leaf added.
LEMMA AppendFacts ==
  ASSUME NEW S, NEW s \in Seq(S), NEW e \in S
  PROVE  /\ Append(s, e) \in Seq(S) /\ Len(Append(s, e)) = Len(s) + 1
         /\ Append(s, e)[Len(s) + 1] = e
         /\ \A i \in 1 .. Len(s) : Append(s, e)[i] = s[i]
         /\ Len(s) \in Nat
OBVIOUS

\* The next message of a channel, and what is left of it.
LEMMA ReadMessage ==
  ASSUME NEW S, NEW channel \in Seq(S), channel # <<>>
  PROVE  /\ Head(channel) = channel[1] /\ Head(channel) \in S
         /\ 1 \in 1 .. Len(channel)
         /\ Tail(channel) \in Seq(S)
         /\ Len(Tail(channel)) = Len(channel) - 1
         /\ \A i \in 1 .. Len(Tail(channel)) :
              /\ i + 1 \in 1 .. Len(channel)
              /\ Tail(channel)[i] = channel[i + 1]
OBVIOUS

\* Concatenation, element by element: a plaintext written to the output.
LEMMA ConcatFacts ==
  ASSUME NEW S, NEW s \in Seq(S), NEW t \in Seq(S)
  PROVE  /\ s \o t \in Seq(S) /\ Len(s \o t) = Len(s) + Len(t)
         /\ \A i \in 1 .. Len(s) + Len(t) :
              (s \o t)[i] = IF i <= Len(s) THEN s[i] ELSE t[i - Len(s)]
OBVIOUS

\* A sequence is given by its length and its elements.
LEMMA SameElements ==
  ASSUME NEW S, NEW s \in Seq(S), NEW t \in Seq(S), Len(s) = Len(t),
         \A i \in 1 .. Len(s) : s[i] = t[i]
  PROVE  s = t
<1>1. DOMAIN s = DOMAIN t /\ DOMAIN s = 1 .. Len(s)
  OBVIOUS
<1>2. s = [i \in DOMAIN s |-> s[i]] /\ t = [i \in DOMAIN t |-> t[i]]
  OBVIOUS
<1>3. [i \in DOMAIN s |-> s[i]] = [i \in DOMAIN t |-> t[i]]
  BY <1>1, Zenon
<1> QED BY <1>2, <1>3, Zenon

\* The position n, or the end of the file when it comes first.
Within(file, n) == IF n < Len(file) THEN n ELSE Len(file)

\* o is a beginning of the file; o is its first n elements; p is its part
\* after position a, up to b.
Begins(o, file) == Len(o) <= Len(file) /\ \A i \in 1 .. Len(o) : o[i] = file[i]
HoldsFirst(o, file, n) == Begins(o, file) /\ Len(o) = Within(file, n)
NextPart(p, file, a, b) == p = SubSeq(file, a + 1, Within(file, b))

\* An output o that holds the first a bytes of the file, followed by the next
\* part of the file up to b, or by the first m bytes of that part only.
LEMMA ExtendPrefix ==
  ASSUME NEW S, NEW file \in Seq(S), NEW o \in Seq(S), NEW a \in Nat, NEW b \in Nat,
         NEW p, a <= b, HoldsFirst(o, file, a), NextPart(p, file, a, b)
  PROVE  /\ HoldsFirst(o \o p, file, b)
         /\ \A m \in 0 .. Len(p) : Begins(o \o SubSeq(p, 1, m), file)
<1>0. /\ a \in Nat /\ b \in Nat /\ a <= b /\ o \in Seq(S) /\ Len(o) \in Nat
      /\ Len(file) \in Nat
      /\ Len(o) = IF a < Len(file) THEN a ELSE Len(file)
      /\ \A i \in 1 .. Len(o) : o[i] = file[i]
  BY DEF HoldsFirst, Begins, Within
<1>1. /\ p \in Seq(S) /\ Len(p) \in Nat
      /\ a < Len(file) => Len(p) = (IF Len(file) < b THEN Len(file) ELSE b) - a
      /\ ~(a < Len(file)) => Len(p) = 0
      /\ \A i \in 1 .. Len(p) : p[i] = file[a + i]
  <2>1. PICK e \in Nat : e = Within(file, b)
    BY ONLY <1>0, Zenon DEF Within
  <2>2. e <= Len(file) /\ e = IF Len(file) < b THEN Len(file) ELSE b
    BY ONLY <1>0, <2>1 DEF Within
  <2>3. file \in Seq(S) /\ p = SubSeq(file, a + 1, e)
    BY <2>1, Zenon DEF NextPart
  <2>4. /\ p \in Seq(S) /\ Len(p) \in Nat
        /\ Len(p) = IF a + 1 <= e THEN e - a ELSE 0
    BY ONLY <1>0, <2>2, <2>3, e \in Nat
  <2>5. ASSUME NEW i \in 1 .. Len(p)
        PROVE  p[i] = file[a + i]
    <3>1. i \in 1 .. e - a /\ a + i = i + (a + 1) - 1
      BY ONLY <1>0, <2>4, e \in Nat, i \in 1 .. Len(p)
    <3>2. a + 1 \in Nat /\ 1 <= a + 1 /\ e <= Len(file)
      BY ONLY <1>0, <2>2
    <3> QED BY ONLY <2>3, <3>1, <3>2, a \in Nat, e \in Nat
  <2>6. (a < Len(file) => a <= e) /\ (~(a < Len(file)) => e <= a)
    BY ONLY <1>0, <2>2, e \in Nat
  <2>7. Len(p) = IF a <= e THEN e - a ELSE 0
    BY ONLY <1>0, <2>4, e \in Nat
  <2> QED BY ONLY <1>0, <2>2, <2>4, <2>5, <2>6, <2>7, e \in Nat
<1>2. Len(o \o p) = IF b < Len(file) THEN b ELSE Len(file)
  <2>1. Len(o \o p) = Len(o) + Len(p)
    BY <1>1, ConcatFacts, Zenon
  <2> QED BY ONLY <1>0, <1>1, <2>1
<1>3. ASSUME NEW m \in 0 .. Len(p)
      PROVE  /\ Len(o \o SubSeq(p, 1, m)) <= Len(file)
             /\ \A i \in 1 .. Len(o \o SubSeq(p, 1, m)) :
                  (o \o SubSeq(p, 1, m))[i] = file[i]
  <2> DEFINE q == SubSeq(p, 1, m)
  <2>1. q \in Seq(S) /\ Len(q) = m /\ \A i \in 1 .. m : q[i] = p[i]
    BY ONLY <1>1, m \in 0 .. Len(p)
  <2> HIDE DEF q
  <2>2. /\ Len(o \o q) = Len(o) + m
        /\ \A i \in 1 .. Len(o) + m :
             (o \o q)[i] = IF i <= Len(o) THEN o[i] ELSE q[i - Len(o)]
    <3>1. /\ Len(o \o q) = Len(o) + Len(q)
          /\ \A i \in 1 .. Len(o) + Len(q) :
               (o \o q)[i] = IF i <= Len(o) THEN o[i] ELSE q[i - Len(o)]
      <4>1. o \in Seq(S) /\ q \in Seq(S)
        BY ONLY <1>0, <2>1, Zenon
      <4> QED BY ONLY <4>1, ConcatFacts, Zenon
    <3> QED BY ONLY <2>1, <3>1, Zenon
  <2>3. Len(o) + m <= Len(file)
    BY ONLY m \in 0 .. Len(p), <1>0, <1>1
  <2>4. ASSUME NEW i \in 1 .. Len(o) + m
        PROVE  (o \o q)[i] = file[i]
    <3>1. CASE i <= Len(o)
      BY ONLY <1>0, <2>2, <3>1, i \in 1 .. Len(o) + m, m \in 0 .. Len(p)
    <3>2. CASE ~(i <= Len(o))
      <4>1. i - Len(o) \in 1 .. m /\ a < Len(file) /\ Len(o) = a
        BY ONLY <1>0, <1>1, <3>2, i \in 1 .. Len(o) + m, m \in 0 .. Len(p)
      <4>2. (o \o q)[i] = p[i - Len(o)]
        BY <2>1, <2>2, <3>2, <4>1, Zenon
      <4>3. p[i - Len(o)] = file[i]
        <5>1. i - Len(o) \in 1 .. Len(p) /\ a + (i - Len(o)) = i
          BY ONLY <1>0, <1>1, <4>1, i \in 1 .. Len(o) + m, m \in 0 .. Len(p)
        <5>2. p[i - Len(o)] = file[a + (i - Len(o))]
          BY <1>1, <5>1, Zenon
        <5> QED BY <5>1, <5>2, Zenon
      <4> QED BY <4>2, <4>3, Zenon
    <3> QED BY <3>1, <3>2, Zenon
  <2> QED BY <2>2, <2>3, <2>4, Zenon DEF q
<1>4. SubSeq(p, 1, Len(p)) = p /\ Len(p) \in 0 .. Len(p)
  BY ONLY <1>1
<1>5. \A i \in 1 .. Len(o \o p) : (o \o p)[i] = file[i]
  <2>1. \A i \in 1 .. Len(o \o SubSeq(p, 1, Len(p))) :
          (o \o SubSeq(p, 1, Len(p)))[i] = file[i]
    BY ONLY <1>3, <1>4, Zenon
  <2> QED BY ONLY <1>4, <2>1, Zenon
<1>6. Len(o \o p) <= Len(file)
  BY ONLY <1>0, <1>2
<1>7. HoldsFirst(o \o p, file, b)
  BY ONLY <1>2, <1>5, <1>6, Zenon DEF HoldsFirst, Begins, Within
<1> QED BY ONLY <1>3, <1>7, Zenon DEF Begins

\* Division rounds down, by less than one chunk.
LEMMA Division ==
  ASSUME NEW x \in Nat, NEW c \in Nat, c > 0
  PROVE  x \div c \in Nat /\ x < (x \div c) * c + c
OBVIOUS

(***************************************************************************)
(* 2. Types, states and the shape of the channels.                         *)
(***************************************************************************)
(***************************************************************************)
(* Types.                                                                  *)
(***************************************************************************)

\* Every edge the steps ask the transition table for is in it.
LEMMA TransitionsTaken ==
  /\ Transition("Idle", "SendHeader") = "SendHeader"
  /\ Transition("SendHeader", "Finished") = "Finished"
  /\ Transition("SendHeader", "WaitingChunkRequest") = "WaitingChunkRequest"
  /\ Transition("WaitingChunkRequest", "SendChunkResponse") = "SendChunkResponse"
  /\ Transition("SendChunkResponse", "WaitingLotteryTicket") = "WaitingLotteryTicket"
  /\ Transition("WaitingLotteryTicket", "SendKeyReveal") = "SendKeyReveal"
  /\ Transition("SendKeyReveal", "WaitingChunkRequest") = "WaitingChunkRequest"
  /\ Transition("SendKeyReveal", "VerifyMerkle") = "VerifyMerkle"
  /\ Transition("VerifyMerkle", "Finished") = "Finished"
  /\ Transition("Idle", "ReceiveHeader") = "ReceiveHeader"
  /\ Transition("ReceiveHeader", "Finished") = "Finished"
  /\ Transition("ReceiveHeader", "SendChunkRequest") = "SendChunkRequest"
  /\ Transition("SendChunkRequest", "WaitingChunkResponse") = "WaitingChunkResponse"
  /\ Transition("WaitingChunkResponse", "SendLotteryTicket") = "SendLotteryTicket"
  /\ Transition("SendLotteryTicket", "WaitingKeyReveal") = "WaitingKeyReveal"
  /\ Transition("WaitingKeyReveal", "VerifyChunk") = "VerifyChunk"
  /\ Transition("VerifyChunk", "SendChunkRequest") = "SendChunkRequest"
  /\ Transition("VerifyChunk", "VerifyMerkle") = "VerifyMerkle"
BY Zenon DEF Transition, isAllowed, validTransitions

\* A write leaves a sequence of messages in flight.
LEMMA SentType ==
  ASSUME NEW S, NEW channel \in Seq(S), NEW msg \in S
  PROVE  Sent(channel, msg) \in Seq(S)
BY DEF Sent

\* Reading a chunk, sealing it and hashing it give values of the right type.
LEMMA ReadType ==
  ASSUME NEW file \in Seq(Byte), NEW index \in Nat
  PROVE  ReadChunkPlaintext(file, index) \in Seq(Byte)
BY SizesAssumption DEF ReadChunkPlaintext

\* A chunk as BuildAndEncryptChunk makes it, and the message that carries it.
LEMMA ChunkType ==
  ASSUME NEW id \in FileIDs, NEW index \in Nat, NEW plaintext \in Seq(Byte),
         NEW key \in Keys
  PROVE  LET c == BuildAndEncryptChunk(id, index, plaintext, key)
         IN  /\ c \in ChunkRecord /\ c # Nil /\ c.index = index
             /\ c.key # Nil /\ c.hresp.key = c.key
             /\ ChunkResponse(c) \in ToReceiver
BY NilAssumption, NoChunkAssumption
   DEF BuildAndEncryptChunk, ChunkRecord, ChunkResponse, ToReceiver, Seal,
       ComputeResponseCommitment, Ciphertext, Commitment, Plaintext

\* A leaf as GenerateLeaf makes it.
LEMMA LeafType ==
  ASSUME NEW c \in ChunkRecord
  PROVE  GenerateLeaf(c) \in Leaf
BY Zenon DEF GenerateLeaf, ChunkRecord, Leaf

\* What a message of each kind carries.
LEMMA FieldsType ==
  ASSUME NEW m \in ToReceiver
  PROVE  /\ m.kind = "Header" => m.fileID \in FileIDs /\ m.reps \in Nat /\ m.size \in Nat
         /\ m.kind = "ChunkResponse"
              => m.index \in Nat /\ m.ciphertext \in Ciphertext /\ m.hresp \in Commitment
         /\ m.kind = "KeyReveal" => m.index \in Nat /\ m.key \in Keys
         /\ m.kind = "Root" => m.leaves \in Seq(Leaf)
BY Zenon DEF ToReceiver

\* What PrepareMetadata computes.
LEMMA MetadataType ==
  ASSUME NEW file \in Seq(Byte)
  PROVE  Reps(file) \in Nat /\ FileSize(file) \in Nat
BY SizesAssumption DEF Reps, FileSize

StreamTypeOK ==
  /\ toRcv \in Seq(ToReceiver) /\ toSnd \in Seq(ToSender)
  /\ alive \in BOOLEAN /\ faulty \in BOOLEAN

\* Taking the next message off a channel keeps the type of the stream.
LEMMA ReadStream ==
  ASSUME StreamTypeOK, alive' = alive, faulty' \in BOOLEAN,
         toRcv' = toRcv \/ (toRcv # <<>> /\ toRcv' = Tail(toRcv)),
         toSnd' = toSnd \/ (toSnd # <<>> /\ toSnd' = Tail(toSnd))
  PROVE  StreamTypeOK'
<1>1. toRcv' \in Seq(ToReceiver)
  BY ReadMessage, Zenon DEF StreamTypeOK
<1>2. toSnd' \in Seq(ToSender)
  BY ReadMessage, Zenon DEF StreamTypeOK
<1> QED BY <1>1, <1>2, Zenon DEF StreamTypeOK

\* So does writing a message to the receiver, or to the sender.
LEMMA WriteStream ==
  ASSUME StreamTypeOK, UNCHANGED <<alive, faulty>>,
         \/ /\ UNCHANGED toSnd
            /\ toRcv' = toRcv \/ \E m \in ToReceiver : toRcv' = Sent(toRcv, m)
         \/ /\ UNCHANGED toRcv
            /\ toSnd' = toSnd \/ \E m \in ToSender : toSnd' = Sent(toSnd, m)
  PROVE  StreamTypeOK'
<1>1. toRcv' \in Seq(ToReceiver)
  BY SentType, Zenon DEF StreamTypeOK
<1>2. toSnd' \in Seq(ToSender)
  BY SentType, Zenon DEF StreamTypeOK
<1> QED BY <1>1, <1>2, Zenon DEF StreamTypeOK

\* The sender's steps that read take a message off the stream ...
LEMMA SenderReads ==
  ASSUME StreamTypeOK,
         \/ stepSenderWaitChunkRequest
         \/ stepSenderWaitLotteryTicket
         \/ stepSenderReadFinalAck
  PROVE  StreamTypeOK'
<1>1. /\ toSnd' = toSnd \/ (toSnd # <<>> /\ toSnd' = Tail(toSnd))
      /\ UNCHANGED <<toRcv, alive, faulty>>
  BY Zenon DEF stepSenderWaitChunkRequest, stepSenderWaitLotteryTicket,
         stepSenderReadFinalAck, Accepted, Arrived
<1>2. faulty \in BOOLEAN
  BY Zenon DEF StreamTypeOK
<1> QED BY <1>1, <1>2, ReadStream, Zenon

\* ... and so do the receiver's.
LEMMA ReceiverReads ==
  ASSUME StreamTypeOK,
         \/ stepReceiverReceiveHeader
         \/ stepReceiverWaitChunkResponse
         \/ stepReceiverWaitKeyReveal
         \/ stepReceiverReadRoot
  PROVE  StreamTypeOK'
<1>1. toRcv' = toRcv \/ (toRcv # <<>> /\ toRcv' = Tail(toRcv))
  BY Zenon DEF stepReceiverReceiveHeader, stepReceiverWaitChunkResponse,
         stepReceiverWaitKeyReveal, stepReceiverReadRoot, Accepted, Arrived
<1>2. UNCHANGED <<toSnd, alive>> /\ faulty' \in {faulty, TRUE}
  BY Zenon DEF stepReceiverReceiveHeader, stepReceiverWaitChunkResponse,
         stepReceiverWaitKeyReveal, stepReceiverReadRoot
<1>3. faulty' \in BOOLEAN
  BY <1>2, Zenon DEF StreamTypeOK
<1> QED BY <1>1, <1>2, <1>3, ReadStream, Zenon

\* A round of the sender's Run keeps the types of the session and of the
\* stream, and the promises of the session's state.
LEMMA SenderStepType ==
  ASSUME StreamTypeOK, SenderTypeOK, SenderShape, SenderStep
  PROVE  StreamTypeOK' /\ SenderTypeOK' /\ SenderShape'
<1> USE DEF StreamTypeOK, SenderTypeOK, SenderShape, senderSteps,
        Returned, Ended, sFixed
<1>1. CASE stepSenderIdle
  BY TransitionsTaken, <1>1, Zenon DEF stepSenderIdle
<1>2. CASE stepSenderSendHeader
  <2>1. Header(sTotal, sFileID, sSize) \in ToReceiver
    BY Zenon DEF Header, ToReceiver
  <2>2. StreamTypeOK'
    <3>1. /\ UNCHANGED <<toSnd, alive, faulty>>
          /\ toRcv' = toRcv \/ toRcv' = Sent(toRcv, Header(sTotal, sFileID, sSize))
      BY TransitionsTaken, <1>2, Zenon DEF stepSenderSendHeader
    <3> QED BY ONLY StreamTypeOK, <2>1, <3>1, WriteStream, Zenon
  <2>3. SenderTypeOK'
    BY ONLY SenderTypeOK, TransitionsTaken, <1>2 DEF stepSenderSendHeader
  <2>4. SenderShape'
    BY ONLY SenderTypeOK, SenderShape, TransitionsTaken, <1>2 DEF stepSenderSendHeader
  <2> QED BY <2>2, <2>3, <2>4, Zenon
<1>3. CASE stepSenderWaitChunkRequest
  <2>1. StreamTypeOK'
    BY ONLY StreamTypeOK, <1>3, SenderReads, Zenon
  <2>2. SenderTypeOK'
    BY ONLY SenderTypeOK, TransitionsTaken, <1>3 DEF stepSenderWaitChunkRequest
  <2>3. SenderShape'
    BY ONLY SenderTypeOK, SenderShape, TransitionsTaken, <1>3, Zenon DEF stepSenderWaitChunkRequest
  <2> QED BY <2>1, <2>2, <2>3, Zenon
<1>4. CASE stepSenderSendChunkResponse
  <2>1. ReadChunkPlaintext(srcFile, sChunk) \in Seq(Byte)
    BY ReadType, FilesAssumption, Zenon
  <2>2. \/ UNCHANGED <<toRcv, sPending>> /\ sState' = "Error"
        \/ \E c \in ChunkRecord :
             /\ c # Nil /\ c.index = sChunk /\ c.key # Nil /\ c.hresp.key = c.key
             /\ ChunkResponse(c) \in ToReceiver
             /\ toRcv' = Sent(toRcv, ChunkResponse(c))
             /\ sPending' = c
             /\ sState' = "WaitingLotteryTicket"
    BY TransitionsTaken, <1>4, <2>1, ChunkType DEF stepSenderSendChunkResponse
  <2>3. /\ UNCHANGED <<sFixed, sChunk, sLeaves, sRootSent, toSnd, alive>>
        /\ faulty' \in BOOLEAN
    BY TransitionsTaken, <1>4, Zenon DEF stepSenderSendChunkResponse
  <2>4. StreamTypeOK'
    BY <2>2, <2>3, SentType
  <2>5. SenderTypeOK'
    BY ONLY SenderTypeOK, TransitionsTaken, <2>2, <2>3, Zenon
  <2>6. SenderShape'
    BY ONLY SenderTypeOK, SenderShape, TransitionsTaken, <1>4, <2>2, <2>3
       DEF stepSenderSendChunkResponse
  <2> QED BY <2>4, <2>5, <2>6, Zenon
<1>5. CASE stepSenderWaitLotteryTicket
  <2>1. StreamTypeOK'
    BY ONLY StreamTypeOK, <1>5, SenderReads, Zenon
  <2>2. SenderTypeOK'
    BY ONLY SenderTypeOK, TransitionsTaken, <1>5 DEF stepSenderWaitLotteryTicket
  <2>3. SenderShape'
    BY ONLY SenderTypeOK, SenderShape, TransitionsTaken, <1>5, Zenon
       DEF stepSenderWaitLotteryTicket
  <2> QED BY <2>1, <2>2, <2>3, Zenon
<1>6. CASE stepSenderSendKeyReveal
  <2>1. sPending \in ChunkRecord /\ KeyReveal(sChunk, sPending.key) \in ToReceiver
    BY TransitionsTaken, <1>6, Zenon
       DEF stepSenderSendKeyReveal, KeyReveal, ToReceiver, ChunkRecord
  <2>2. Append(sLeaves, GenerateLeaf(sPending)) \in Seq(Leaf)
    BY <2>1, LeafType
  <2>3. StreamTypeOK'
    <3>1. /\ UNCHANGED <<toSnd, alive, faulty>>
          /\ toRcv' = toRcv \/ toRcv' = Sent(toRcv, KeyReveal(sChunk, sPending.key))
      BY TransitionsTaken, <1>6, Zenon DEF stepSenderSendKeyReveal
    <3> QED BY ONLY StreamTypeOK, <2>1, <3>1, WriteStream, Zenon
  <2>4. sLeaves' \in Seq(Leaf)
    BY TransitionsTaken, <1>6, <2>2, Zenon DEF stepSenderSendKeyReveal
  <2>5. sPending' \in {sPending, Nil} /\ sChunk' \in Nat
    BY TransitionsTaken, <1>6 DEF stepSenderSendKeyReveal, IsLastChunk
  <2>6. sState' \in {"WaitingChunkRequest", "VerifyMerkle", "Error"}
    BY TransitionsTaken, <1>6 DEF stepSenderSendKeyReveal, IsLastChunk
  <2>7. SenderTypeOK'
    BY ONLY SenderTypeOK, TransitionsTaken, <1>6, <2>4, <2>6, <2>5, Zenon
       DEF stepSenderSendKeyReveal
  <2>8. SenderShape'
    BY ONLY SenderTypeOK, SenderShape, TransitionsTaken, <1>6, <2>1, LeafType
       DEF stepSenderSendKeyReveal, IsLastChunk
  <2> QED BY <2>3, <2>7, <2>8, Zenon
<1>7. CASE stepSenderSendRoot
  <2>1. RootOf(sLeaves) \in ToReceiver
    BY Zenon DEF RootOf, ToReceiver
  <2>2. StreamTypeOK'
    <3>1. /\ UNCHANGED <<toSnd, alive, faulty>>
          /\ toRcv' = toRcv \/ toRcv' = Sent(toRcv, RootOf(sLeaves))
      BY TransitionsTaken, <1>7, Zenon DEF stepSenderSendRoot
    <3> QED BY ONLY StreamTypeOK, <2>1, <3>1, WriteStream, Zenon
  <2>3. SenderTypeOK'
    BY ONLY SenderTypeOK, TransitionsTaken, <1>7, Zenon DEF stepSenderSendRoot
  <2>4. SenderShape'
    BY ONLY SenderTypeOK, SenderShape, TransitionsTaken, <1>7, Zenon DEF stepSenderSendRoot
  <2> QED BY <2>2, <2>3, <2>4, Zenon
<1>8. CASE stepSenderReadFinalAck
  <2>1. StreamTypeOK'
    BY ONLY StreamTypeOK, <1>8, SenderReads, Zenon
  <2>2. SenderTypeOK'
    BY ONLY SenderTypeOK, TransitionsTaken, <1>8 DEF stepSenderReadFinalAck
  <2>3. SenderShape'
    BY ONLY SenderTypeOK, SenderShape, TransitionsTaken, <1>8, Zenon DEF stepSenderReadFinalAck
  <2> QED BY <2>1, <2>2, <2>3, Zenon
<1> QED
  BY ONLY SenderStep, <1>1, <1>2, <1>3, <1>4, <1>5, <1>6, <1>7, <1>8, Zenon
     DEF SenderStep

\* The same of a round of the receiver's Run.
LEMMA ReceiverStepType ==
  ASSUME StreamTypeOK, ReceiverTypeOK, ReceiverShape, ReceiverStep
  PROVE  StreamTypeOK' /\ ReceiverTypeOK' /\ ReceiverShape'
<1> USE DEF StreamTypeOK, ReceiverTypeOK, ReceiverShape, receiverSteps,
        Returned, Ended, rFixed
<1>1. CASE stepReceiverIdle
  BY TransitionsTaken, <1>1, Zenon DEF stepReceiverIdle
<1>2. CASE stepReceiverReceiveHeader
  <2>1. StreamTypeOK'
    BY ONLY StreamTypeOK, <1>2, ReceiverReads, Zenon
  <2>2. rFileOpen' \in BOOLEAN
    BY TransitionsTaken, <1>2, Zenon DEF stepReceiverReceiveHeader, OpenAfterHeader
  <2>3. \/ /\ rFileID' \in FileIDs /\ rSize' \in Nat /\ rTotal' \in Nat
           /\ \/ out' = <<>> /\ rTotal' = 0 /\ rState' = "Finished"
              \/ out' = <<>> /\ rTotal' # 0 /\ rState' = "SendChunkRequest"
              \/ rState' = "Error" /\ out' = out
        \/ rState' = "Error" /\ UNCHANGED <<rFixed, out>>
    <3>1. CASE UNCHANGED <<rFixed, out>> /\ rState' = "Error"
      BY <3>1, Zenon
    <3>2. CASE ~(UNCHANGED <<rFixed, out>> /\ rState' = "Error")
      <4>1. /\ toRcv # <<>> /\ Head(toRcv).kind = "Header"
            /\ rFileID' = Head(toRcv).fileID /\ rSize' = Head(toRcv).size
            /\ rTotal' = Head(toRcv).reps
        BY TransitionsTaken, <1>2, <3>2, Zenon
           DEF stepReceiverReceiveHeader, Accepted, Arrived, Refused
      <4>2. rFileID' \in FileIDs /\ rSize' \in Nat /\ rTotal' \in Nat
        BY <4>1, ReadMessage, FieldsType, Zenon
      <4>3. \/ out' = <<>> /\ rTotal' = 0 /\ rState' = "Finished"
            \/ out' = <<>> /\ rTotal' # 0 /\ rState' = "SendChunkRequest"
            \/ rState' = "Error" /\ out' = out
        BY TransitionsTaken, <1>2, <4>1 DEF stepReceiverReceiveHeader
      <4> QED BY <4>2, <4>3, Zenon
    <3> QED BY <3>1, <3>2, Zenon
  <2>4. UNCHANGED <<rChunk, rPending, rLeaves, rRootOK, toSnd, alive>>
    BY <1>2, Zenon DEF stepReceiverReceiveHeader
  <2>5. /\ rFileID' \in FileIDs \cup {Nil} /\ rSize' \in Nat /\ rTotal' \in Nat
        /\ rState' \in {"Finished", "SendChunkRequest", "Error"}
    BY <2>3, Zenon
  <2>6. out' \in Seq(Byte)
    BY <2>3, EmptyIsSeq, Zenon
  <2>7. ReceiverTypeOK'
    BY ONLY ReceiverTypeOK, TransitionsTaken, <2>2, <2>4, <2>5, <2>6, Zenon
  <2>8. ReceiverShape'
    <3>1. rChunk = 0 /\ rLeaves = <<>>
      BY TransitionsTaken, <1>2, Zenon DEF stepReceiverReceiveHeader
    <3>2. \/ rState' = "Error"
          \/ /\ rFileID' # Nil /\ rTotal' \in Nat
             /\ \/ rTotal' = 0 /\ rState' = "Finished"
                \/ rTotal' # 0 /\ rState' = "SendChunkRequest"
      BY ONLY <2>3, NilAssumption, Zenon
    <3>3. rChunk' = 0 /\ Len(rLeaves') = 0
      BY ONLY <2>4, <3>1, Zenon
    <3> QED BY ONLY <3>2, <3>3 DEF ReceiverShape
  <2> QED BY <2>1, <2>7, <2>8, Zenon
<1>3. CASE stepReceiverSendChunkRequest
  <2>1. ChunkRequest(rChunk) \in ToSender
    BY Zenon DEF ChunkRequest, ToSender
  <2>2. StreamTypeOK'
    <3>1. /\ UNCHANGED <<toRcv, alive, faulty>>
          /\ toSnd' = toSnd \/ toSnd' = Sent(toSnd, ChunkRequest(rChunk))
      BY TransitionsTaken, <1>3, Zenon DEF stepReceiverSendChunkRequest
    <3> QED BY ONLY StreamTypeOK, <2>1, <3>1, WriteStream, Zenon
  <2>3. ReceiverTypeOK'
    BY ONLY ReceiverTypeOK, TransitionsTaken, <1>3 DEF stepReceiverSendChunkRequest
  <2>4. ReceiverShape'
    BY ONLY ReceiverTypeOK, ReceiverShape, TransitionsTaken, <1>3, Zenon
       DEF stepReceiverSendChunkRequest
  <2> QED BY <2>2, <2>3, <2>4, Zenon
<1>4. CASE stepReceiverWaitChunkResponse
  <2>1. StreamTypeOK'
    BY ONLY StreamTypeOK, <1>4, ReceiverReads, Zenon
  <2>2. \/ /\ rPending' \in ChunkRecord /\ rPending'.index = rChunk
           /\ rState' = "SendLotteryTicket"
        \/ rPending' = rPending /\ rState' = "Error"
    <3>1. rFileID \in FileIDs
      BY TransitionsTaken, <1>4, Zenon DEF stepReceiverWaitChunkResponse
    <3>2. \/ /\ toRcv # <<>> /\ Head(toRcv).kind = "ChunkResponse"
             /\ Head(toRcv).index = rChunk
             /\ rPending' = [fileID |-> rFileID, index |-> Head(toRcv).index,
                             ciphertext |-> Head(toRcv).ciphertext,
                             hresp |-> Head(toRcv).hresp, key |-> Nil]
             /\ rState' = "SendLotteryTicket"
          \/ rPending' = rPending /\ rState' = "Error"
      BY TransitionsTaken, <1>4
         DEF stepReceiverWaitChunkResponse, Accepted, Arrived, Refused
    <3>3. toRcv # <<>> => Head(toRcv) \in ToReceiver
      BY ReadMessage, Zenon
    <3>4. toRcv # <<>> /\ Head(toRcv).kind = "ChunkResponse"
            => /\ Head(toRcv).index \in Nat /\ Head(toRcv).ciphertext \in Ciphertext
               /\ Head(toRcv).hresp \in Commitment
      BY ONLY <3>3, FieldsType, Zenon
    <3> QED BY ONLY <3>1, <3>2, <3>4 DEF ChunkRecord
  <2>3. UNCHANGED <<rFixed, rChunk, rLeaves, rRootOK, rFileOpen, out>>
    BY <1>4, Zenon DEF stepReceiverWaitChunkResponse
  <2>4. ReceiverTypeOK'
    BY ONLY ReceiverTypeOK, TransitionsTaken, <2>2, <2>3, Zenon
  <2>5. ReceiverShape'
    BY ONLY ReceiverTypeOK, ReceiverShape, TransitionsTaken, <1>4, <2>2, <2>3,
       NoChunkAssumption
       DEF stepReceiverWaitChunkResponse
  <2> QED BY <2>1, <2>4, <2>5, Zenon
<1>5. CASE stepReceiverSendLotteryTicket
  <2>1. LotteryTicket(rChunk) \in ToSender
    BY Zenon DEF LotteryTicket, ToSender
  <2>2. StreamTypeOK'
    <3>1. /\ UNCHANGED <<toRcv, alive, faulty>>
          /\ toSnd' = toSnd \/ toSnd' = Sent(toSnd, LotteryTicket(rChunk))
      BY TransitionsTaken, <1>5, Zenon DEF stepReceiverSendLotteryTicket
    <3> QED BY ONLY StreamTypeOK, <2>1, <3>1, WriteStream, Zenon
  <2>3. ReceiverTypeOK'
    BY ONLY ReceiverTypeOK, TransitionsTaken, <1>5 DEF stepReceiverSendLotteryTicket
  <2>4. ReceiverShape'
    BY ONLY ReceiverTypeOK, ReceiverShape, TransitionsTaken, <1>5, Zenon
       DEF stepReceiverSendLotteryTicket
  <2> QED BY <2>2, <2>3, <2>4, Zenon
<1>6. CASE stepReceiverWaitKeyReveal
  <2>1. StreamTypeOK'
    BY ONLY StreamTypeOK, <1>6, ReceiverReads, Zenon
  <2>2. \/ /\ rPending' \in ChunkRecord /\ rPending'.index = rChunk
           /\ rPending'.key \in Keys /\ rState' = "VerifyChunk"
        \/ rPending' = rPending /\ rState' = "Error"
    <3>1. rPending \in ChunkRecord /\ rPending.index = rChunk
      BY TransitionsTaken, <1>6, Zenon DEF stepReceiverWaitKeyReveal
    <3>2. \/ /\ toRcv # <<>> /\ Head(toRcv).kind = "KeyReveal"
             /\ rPending' = [rPending EXCEPT !.key = Head(toRcv).key]
             /\ rState' = "VerifyChunk"
          \/ rPending' = rPending /\ rState' = "Error"
      BY TransitionsTaken, <1>6 DEF stepReceiverWaitKeyReveal, Accepted, Arrived, Refused
    <3>3. toRcv # <<>> /\ Head(toRcv).kind = "KeyReveal" => Head(toRcv).key \in Keys
      BY ReadMessage, FieldsType, Zenon
    <3> QED BY <3>1, <3>2, <3>3, Zenon DEF ChunkRecord
  <2>3. UNCHANGED <<rFixed, rChunk, rLeaves, rRootOK, rFileOpen, out>>
    BY <1>6, Zenon DEF stepReceiverWaitKeyReveal
  <2>4. ReceiverTypeOK'
    BY ONLY ReceiverTypeOK, TransitionsTaken, <2>2, <2>3, Zenon
  <2>5. ReceiverShape'
    BY ONLY ReceiverTypeOK, ReceiverShape, TransitionsTaken, <1>6, <2>2, <2>3,
       NilAssumption, NoChunkAssumption
       DEF stepReceiverWaitKeyReveal
  <2> QED BY <2>1, <2>4, <2>5, Zenon
<1>7. CASE stepReceiverVerifyChunk
  <2>1. rPending \in ChunkRecord /\ GenerateLeaf(rPending) \in Leaf
    BY TransitionsTaken, <1>7, LeafType, Zenon DEF stepReceiverVerifyChunk
  <2>2. DecryptAndCheck(rPending) \in Seq(Byte) \cup {Nil}
    BY <1>7, <2>1, Zenon
       DEF stepReceiverVerifyChunk, DecryptAndCheck, ChunkRecord, Ciphertext, Plaintext
  <2>3. StreamTypeOK'
    BY <1>7, Zenon DEF stepReceiverVerifyChunk
  <2>4. rLeaves' \in Seq(Leaf)
    <3>1. Append(rLeaves, GenerateLeaf(rPending)) \in Seq(Leaf)
      BY ONLY <2>1, rLeaves \in Seq(Leaf)
    <3> QED BY <1>7, <3>1, Zenon DEF stepReceiverVerifyChunk
  <2>5. rPending' \in {rPending, Nil}
    BY TransitionsTaken, <1>7, Zenon DEF stepReceiverVerifyChunk
  <2>6. out' \in Seq(Byte)
    <3>1. CASE DecryptAndCheck(rPending) = Nil
      BY TransitionsTaken, <1>7, <3>1, Zenon DEF stepReceiverVerifyChunk
    <3>2. CASE DecryptAndCheck(rPending) # Nil
      <4> DEFINE p == DecryptAndCheck(rPending)
      <4>1. p \in Seq(Byte)
        BY <2>2, <3>2, Zenon
      <4>2. /\ out \o p \in Seq(Byte)
            /\ \A n \in 0 .. Len(p) : out \o SubSeq(p, 1, n) \in Seq(Byte)
        BY <4>1
      <4>3. out' = out \o p \/ \E n \in 0 .. Len(p) : out' = out \o SubSeq(p, 1, n)
        BY TransitionsTaken, <1>7, <3>2, Zenon DEF stepReceiverVerifyChunk
      <4> QED BY <4>2, <4>3, Zenon
    <3> QED BY <3>1, <3>2, Zenon
  <2>7. rChunk' \in Nat /\ rState' \in {"SendChunkRequest", "VerifyMerkle", "Error"}
    <3>1. /\ rChunk' \in {rChunk, rChunk + 1}
          /\ rState' \in {"SendChunkRequest", "VerifyMerkle", "Error"}
      BY TransitionsTaken, <1>7 DEF stepReceiverVerifyChunk
    <3> QED BY ONLY <3>1, rChunk \in Nat
  <2>8. ReceiverTypeOK'
    BY ONLY ReceiverTypeOK, TransitionsTaken, <1>7, <2>4, <2>6, <2>7, <2>5, Zenon
       DEF stepReceiverVerifyChunk
  <2>9. ReceiverShape'
    <3>1. \/ rState' = "Error"
          \/ /\ rLeaves' = Append(rLeaves, GenerateLeaf(rPending))
             /\ \/ /\ IsLastChunk(rChunk, rTotal)
                   /\ rState' = "VerifyMerkle"
                \/ /\ ~IsLastChunk(rChunk, rTotal) /\ rChunk' = rChunk + 1
                   /\ rState' = "SendChunkRequest"
      BY TransitionsTaken, <1>7 DEF stepReceiverVerifyChunk
    <3>2. /\ rFileID # Nil /\ rChunk < rTotal /\ Len(rLeaves) = rChunk
          /\ rFileID' = rFileID /\ rTotal' = rTotal
      BY TransitionsTaken, <1>7, Zenon DEF stepReceiverVerifyChunk
    <3>3. Len(Append(rLeaves, GenerateLeaf(rPending))) = rChunk + 1
      BY ONLY <2>1, <3>2, rLeaves \in Seq(Leaf)
    <3> QED
      BY ONLY <3>1, <3>2, <3>3, rChunk \in Nat, rTotal \in Nat
         DEF ReceiverShape, IsLastChunk
  <2> QED BY <2>3, <2>8, <2>9, Zenon
<1>8. CASE stepReceiverReadRoot
  <2>1. StreamTypeOK'
    BY ONLY StreamTypeOK, <1>8, ReceiverReads, Zenon
  <2>2. ReceiverTypeOK'
    BY ONLY ReceiverTypeOK, TransitionsTaken, <1>8, Zenon DEF stepReceiverReadRoot
  <2>3. ReceiverShape'
    BY ONLY ReceiverTypeOK, ReceiverShape, TransitionsTaken, <1>8, Zenon DEF stepReceiverReadRoot
  <2> QED BY <2>1, <2>2, <2>3, Zenon
<1>9. CASE stepReceiverSendFinalAck
  <2>1. FinalAck \in ToSender
    BY Zenon DEF ToSender
  <2>2. StreamTypeOK'
    <3>1. /\ UNCHANGED <<toRcv, alive, faulty>>
          /\ toSnd' = toSnd \/ toSnd' = Sent(toSnd, FinalAck)
      BY TransitionsTaken, <1>9, Zenon DEF stepReceiverSendFinalAck
    <3> QED BY ONLY StreamTypeOK, <2>1, <3>1, WriteStream, Zenon
  <2>3. ReceiverTypeOK'
    BY ONLY ReceiverTypeOK, TransitionsTaken, <1>9, Zenon DEF stepReceiverSendFinalAck
  <2>4. ReceiverShape'
    BY ONLY ReceiverTypeOK, ReceiverShape, TransitionsTaken, <1>9, Zenon
       DEF stepReceiverSendFinalAck
  <2> QED BY <2>2, <2>3, <2>4, Zenon
<1> QED
  BY ONLY ReceiverStep, <1>1, <1>2, <1>3, <1>4, <1>5, <1>6, <1>7, <1>8, <1>9, Zenon
     DEF ReceiverStep

EndpointTypeOK ==
  /\ method \in {"GET", "POST"}
  /\ client \in {"dialed", "requested", "exited"}
  /\ handler \in {"reading", "SendFile", "RecieveFile", "dropped"}

\* TypeOK and the shapes of the sessions, part by part.
Shape ==
  /\ StreamTypeOK /\ EndpointTypeOK
  /\ SenderTypeOK /\ SenderShape
  /\ ReceiverTypeOK /\ ReceiverShape

\* Shape is TypeOK with the two shapes.
LEMMA ShapeParts == Shape <=> TypeOK /\ SenderShape /\ ReceiverShape
BY Zenon DEF Shape, TypeOK, StreamTypeOK, EndpointTypeOK

\* It holds before the request is made.
LEMMA ShapeInit == Init => Shape
<1> SUFFICES ASSUME Init PROVE Shape
  BY Zenon
<1>1. StreamTypeOK
  BY EmptyIsSeq, Zenon DEF Init, StreamInit, StreamTypeOK
<1>2. EndpointTypeOK
  BY Zenon DEF Init, EndpointTypeOK
<1>3. SenderTypeOK
  <2>1. sLeaves \in Seq(Leaf)
    BY EmptyIsSeq, Zenon DEF Init, SenderInit
  <2> QED BY <2>1, Zenon DEF Init, StreamInit, SenderInit, SenderTypeOK
<1>4. ReceiverTypeOK
  <2>1. rLeaves \in Seq(Leaf) /\ out \in Seq(Byte)
    BY EmptyIsSeq, Zenon DEF Init, ReceiverInit
  <2> QED BY <2>1, Zenon DEF Init, StreamInit, ReceiverInit, ReceiverTypeOK
<1>5. SenderShape
  BY Zenon DEF Init, StreamInit, SenderInit, SenderShape
<1>6. ReceiverShape
  BY Zenon DEF Init, StreamInit, ReceiverInit, ReceiverShape
<1> QED BY <1>1, <1>2, <1>3, <1>4, <1>5, <1>6, Zenon DEF Shape

\* The part of Shape about one end depends on that end's variables only.
LEMMA SenderFrame ==
  ASSUME SenderTypeOK, SenderShape, UNCHANGED senderVars
  PROVE  SenderTypeOK' /\ SenderShape'
BY Zenon DEF SenderTypeOK, SenderShape, senderVars

\* The same of the receiving end,
LEMMA ReceiverFrame ==
  ASSUME ReceiverTypeOK, ReceiverShape, UNCHANGED receiverVars
  PROVE  ReceiverTypeOK' /\ ReceiverShape'
BY Zenon DEF ReceiverTypeOK, ReceiverShape, receiverVars

\* of RequestFile and HandleStream,
LEMMA EndpointFrame ==
  ASSUME EndpointTypeOK, UNCHANGED endpointVars
  PROVE  EndpointTypeOK'
BY Zenon DEF EndpointTypeOK, endpointVars

\* and of the stream.
LEMMA StreamFrame ==
  ASSUME StreamTypeOK, UNCHANGED streamVars
  PROVE  StreamTypeOK'
BY Zenon DEF StreamTypeOK, streamVars

\* So does what is left of the stream when the connection goes down.
LEMMA CutType ==
  ASSUME Cut, faulty' \in BOOLEAN
  PROVE  StreamTypeOK'
BY EmptyIsSeq, Zenon DEF Cut, StreamTypeOK

\* Every step keeps it.
LEMMA ShapeStep == Shape /\ [Next]_vars => Shape'
<1> SUFFICES ASSUME Shape, [Next]_vars PROVE Shape'
  BY Zenon
<1> USE DEF Shape
<1>1. CASE RequestFile
  <2>1. \A typ \in {0, 1} : WhatToDo(typ) \in ToSender /\ WhatToDo(typ) \in ToReceiver
    BY Zenon DEF WhatToDo, ToSender, ToReceiver
  <2>2. TypeCode \in {0, 1}
    BY Zenon DEF TypeCode
  <2>3. StreamTypeOK'
    BY <1>1, <2>1, <2>2, SentType, Zenon DEF RequestFile, StreamTypeOK
  <2>4. EndpointTypeOK'
    BY <1>1, Zenon DEF RequestFile, EndpointTypeOK
  <2> QED BY <1>1, <2>3, <2>4, SenderFrame, ReceiverFrame, Zenon DEF RequestFile
<1>2. CASE HandleStream
  <2>1. StreamTypeOK'
    BY <1>2, ReadMessage, Zenon DEF HandleStream, StreamTypeOK, Arrived
  <2>2. EndpointTypeOK'
    BY <1>2, Zenon DEF HandleStream, EndpointTypeOK
  <2> QED BY <1>2, <2>1, <2>2, SenderFrame, ReceiverFrame, Zenon DEF HandleStream
<1>3. CASE StartSend
  <2>1. SenderTypeOK'
    BY <1>3, MetadataType, FilesAssumption, Zenon
       DEF StartSend, SendFile, SenderTypeOK, senderSteps
  <2>2. SenderShape'
    BY <1>3, Zenon DEF StartSend, SendFile, SenderShape
  <2> QED
    BY <1>3, <2>1, <2>2, StreamFrame, ReceiverFrame, EndpointFrame, Zenon DEF StartSend, SendFile
<1>4. CASE StartReceive
  <2>1. ReceiverTypeOK'
    BY <1>4, Zenon DEF StartReceive, RecieveFile, ReceiverTypeOK, receiverSteps, rFixed
  <2>2. ReceiverShape'
    BY <1>4, Zenon DEF StartReceive, RecieveFile, ReceiverShape, rFixed
  <2> QED
    BY <1>4, <2>1, <2>2, StreamFrame, SenderFrame, EndpointFrame, Zenon
       DEF StartReceive, RecieveFile
<1>5. CASE Sending
  BY <1>5, SenderStepType, ReceiverFrame, EndpointFrame, Zenon DEF Sending
<1>6. CASE Receiving
  BY <1>6, ReceiverStepType, SenderFrame, EndpointFrame, Zenon DEF Receiving
<1>7. CASE SenderGone
  <2>1. SenderTypeOK' /\ SenderShape'
    BY <1>7, Zenon DEF SenderGone, SenderExits, SenderTypeOK, SenderShape, sFixed, Ended
  <2>2. StreamTypeOK'
    BY <1>7, CutType, Zenon DEF SenderGone, SenderExits, Lose
  <2> QED BY <1>7, <2>1, <2>2, ReceiverFrame, EndpointFrame, Zenon DEF SenderGone, SenderExits
<1>8. CASE ReceiverGone
  <2>1. ReceiverTypeOK' /\ ReceiverShape'
    BY <1>8, Zenon
       DEF ReceiverGone, ReceiverExits, ReceiverTypeOK, ReceiverShape, rFixed, Ended
  <2>2. StreamTypeOK'
    BY <1>8, CutType, Zenon DEF ReceiverGone, ReceiverExits, Lose
  <2> QED BY <1>8, <2>1, <2>2, SenderFrame, EndpointFrame, Zenon DEF ReceiverGone, ReceiverExits
<1>9. CASE SourceChanges
  <2>1. SenderTypeOK' /\ SenderShape'
    BY <1>9, Zenon DEF SourceChanges, FileChanges, SenderTypeOK, SenderShape
  <2> QED
    BY <1>9, <2>1, StreamFrame, ReceiverFrame, EndpointFrame, Zenon DEF SourceChanges, FileChanges
<1>10. CASE ConnectionLost
  <2>1. StreamTypeOK'
    BY <1>10, CutType, Zenon DEF ConnectionLost, Lose
  <2> QED BY <1>10, <2>1, SenderFrame, ReceiverFrame, EndpointFrame, Zenon DEF ConnectionLost
<1>11. CASE ClientCloses
  <2>1. StreamTypeOK'
    BY <1>11, CutType, Zenon DEF ClientCloses, StreamTypeOK
  <2> QED BY <1>11, <2>1, SenderFrame, ReceiverFrame, EndpointFrame, Zenon DEF ClientCloses
<1>12. CASE UNCHANGED vars
  BY <1>12, StreamFrame, SenderFrame, ReceiverFrame, EndpointFrame, Zenon DEF vars
<1> QED
  BY ONLY [Next]_vars, <1>1, <1>2, <1>3, <1>4, <1>5, <1>6, <1>7, <1>8, <1>9, <1>10,
     <1>11, <1>12, Zenon
  DEF Next, Terminated

\* Type correctness of both sessions and of the stream: in particular Run
\* never finds itself in a state its step table has no entry for.
THEOREM TypeCorrect == Spec => []TypeOK
<1>1. Shape => TypeOK
  BY ShapeParts, Zenon
<1> QED BY ShapeInit, ShapeStep, <1>1, PTL DEF Spec

(***************************************************************************)
(* 3. A sender that finishes has been acknowledged.                        *)
(***************************************************************************)
\* What is in flight after a write.
LEMMA SentMessages ==
  ASSUME NEW S, NEW channel \in Seq(S), NEW msg \in S,
         NEW i \in 1 .. Len(Sent(channel, msg))
  PROVE  \/ Sent(channel, msg)[i] = msg
         \/ i \in 1 .. Len(channel) /\ Sent(channel, msg)[i] = channel[i]
<1>1. CASE alive
  BY <1>1 DEF Sent
<1>2. CASE ~alive
  BY <1>2, Zenon DEF Sent
<1> QED BY <1>1, <1>2, Zenon

AckInFlight == \E i \in 1 .. Len(toSnd) : toSnd[i].kind = "FinalAck"

\* AckOK in one formula.
LEMMA AckOKMeans ==
  AckOK <=> (AckInFlight \/ (sState = "Finished" /\ sTotal > 0) => rState = "Finished")
BY Zenon DEF AckOK, AckInFlight, AckedMeansFinished

\* Reading takes no ack that was not there; writing anything else adds none.
LEMMA AckAfterRead ==
  ASSUME toSnd \in Seq(ToSender), toSnd' = toSnd \/ (toSnd # <<>> /\ toSnd' = Tail(toSnd))
  PROVE  AckInFlight' => AckInFlight
<1>1. CASE toSnd' = toSnd
  BY <1>1, Zenon DEF AckInFlight
<1>2. CASE toSnd # <<>> /\ toSnd' = Tail(toSnd)
  <2> SUFFICES ASSUME NEW i \in 1 .. Len(Tail(toSnd)), Tail(toSnd)[i].kind = "FinalAck"
               PROVE  AckInFlight
    BY <1>2, Zenon DEF AckInFlight
  <2>1. i + 1 \in 1 .. Len(toSnd) /\ toSnd[i + 1] = Tail(toSnd)[i]
    BY <1>2
  <2> QED BY <2>1, Zenon DEF AckInFlight
<1> QED BY <1>1, <1>2, Zenon

\* The same of a message the receiver writes, unless it is the ack.
LEMMA AckAfterSend ==
  ASSUME toSnd \in Seq(ToSender), NEW msg \in ToSender, msg.kind # "FinalAck",
         toSnd' = toSnd \/ toSnd' = Sent(toSnd, msg)
  PROVE  AckInFlight' => AckInFlight
<1>1. CASE toSnd' = toSnd
  BY <1>1, Zenon DEF AckInFlight
<1>2. CASE toSnd' = Sent(toSnd, msg)
  <2> SUFFICES ASSUME NEW i \in 1 .. Len(Sent(toSnd, msg)),
                      Sent(toSnd, msg)[i].kind = "FinalAck"
               PROVE  AckInFlight
    BY <1>2, Zenon DEF AckInFlight
  <2> QED BY SentMessages DEF AckInFlight
<1> QED BY <1>1, <1>2, Zenon

\* A round of the sender's Run sends nothing to the sender, and finishes only
\* on an empty file or on reading the ack.
LEMMA SenderAck ==
  ASSUME Shape, SenderStep
  PROVE  /\ AckInFlight' => AckInFlight
         /\ sTotal' = sTotal
         /\ sState' = "Finished" => sTotal = 0 \/ AckInFlight
<1>0. toSnd \in Seq(ToSender)
  BY Zenon DEF Shape, StreamTypeOK
<1>a. toSnd' = toSnd => (AckInFlight' => AckInFlight)
  BY Zenon DEF AckInFlight
<1>b. CASE \/ stepSenderIdle
           \/ stepSenderSendHeader
           \/ stepSenderSendChunkResponse
           \/ stepSenderSendKeyReveal
           \/ stepSenderSendRoot
  <2>1. UNCHANGED <<toSnd, sTotal>>
    BY <1>b, Zenon
       DEF stepSenderIdle, stepSenderSendHeader, stepSenderSendChunkResponse,
           stepSenderSendKeyReveal, stepSenderSendRoot, sFixed
  <2>2. sState' = "Finished" => sTotal = 0
    BY ONLY <1>b, TransitionsTaken
       DEF stepSenderIdle, stepSenderSendHeader, stepSenderSendChunkResponse,
           stepSenderSendKeyReveal, stepSenderSendRoot
  <2> QED BY ONLY <1>a, <2>1, <2>2, Zenon
<1>c. CASE stepSenderWaitChunkRequest \/ stepSenderWaitLotteryTicket
  <2>1. /\ toSnd' = toSnd \/ (toSnd # <<>> /\ toSnd' = Tail(toSnd))
        /\ sTotal' = sTotal
    BY ONLY <1>c, Zenon
       DEF stepSenderWaitChunkRequest, stepSenderWaitLotteryTicket, Accepted, Arrived, sFixed
  <2>2. sState' # "Finished"
    BY ONLY <1>c, TransitionsTaken, Zenon
       DEF stepSenderWaitChunkRequest, stepSenderWaitLotteryTicket
  <2>3. AckInFlight' => AckInFlight
    BY ONLY <1>0, <2>1, AckAfterRead, Zenon
  <2> QED BY ONLY <2>1, <2>2, <2>3, Zenon
<1>d. CASE stepSenderReadFinalAck
  <2>1. /\ \/ toSnd' = toSnd /\ sState' = "Error"
           \/ toSnd # <<>> /\ toSnd' = Tail(toSnd) /\ Head(toSnd) = FinalAck
        /\ sTotal' = sTotal
    BY ONLY <1>d, Zenon DEF stepSenderReadFinalAck, Accepted, Arrived, sFixed
  <2>2. AckInFlight' => AckInFlight
    BY ONLY <1>0, <2>1, AckAfterRead, Zenon
  <2>3. ASSUME toSnd # <<>>, Head(toSnd) = FinalAck
        PROVE  AckInFlight
    <3>1. 1 \in 1 .. Len(toSnd) /\ toSnd[1] = FinalAck
      BY ONLY <1>0, <2>3, ReadMessage, Zenon
    <3> QED BY ONLY <3>1 DEF AckInFlight, FinalAck
  <2> QED BY ONLY <2>1, <2>2, <2>3, Zenon
<1> QED BY ONLY SenderStep, <1>b, <1>c, <1>d, Zenon DEF SenderStep

\* A round of the receiver's Run sends the ack only as it finishes.
LEMMA ReceiverAck ==
  ASSUME Shape, ReceiverStep
  PROVE  /\ rState \notin Ended
         /\ AckInFlight' => AckInFlight \/ rState' = "Finished"
<1>0. toSnd \in Seq(ToSender) /\ rChunk \in Nat
  BY Zenon DEF Shape, StreamTypeOK, ReceiverTypeOK
<1>1. rState \notin Ended
  BY ONLY ReceiverStep, Zenon
     DEF ReceiverStep, stepReceiverIdle, stepReceiverReceiveHeader,
         stepReceiverSendChunkRequest, stepReceiverWaitChunkResponse,
         stepReceiverSendLotteryTicket, stepReceiverWaitKeyReveal,
         stepReceiverVerifyChunk, stepReceiverReadRoot, stepReceiverSendFinalAck,
         Ended, Returned
<1>a. toSnd' = toSnd => (AckInFlight' => AckInFlight)
  BY Zenon DEF AckInFlight
<1>b. CASE \/ stepReceiverIdle
           \/ stepReceiverReceiveHeader
           \/ stepReceiverWaitChunkResponse
           \/ stepReceiverWaitKeyReveal
           \/ stepReceiverVerifyChunk
           \/ stepReceiverReadRoot
  <2>1. toSnd' = toSnd
    BY <1>b, Zenon
       DEF stepReceiverIdle, stepReceiverReceiveHeader, stepReceiverWaitChunkResponse,
           stepReceiverWaitKeyReveal, stepReceiverVerifyChunk, stepReceiverReadRoot
  <2> QED BY ONLY <1>1, <1>a, <2>1, Zenon
<1>c. CASE stepReceiverSendChunkRequest \/ stepReceiverSendLotteryTicket
  <2>1. PICK m \in {ChunkRequest(rChunk), LotteryTicket(rChunk)} :
          toSnd' = toSnd \/ toSnd' = Sent(toSnd, m)
    BY ONLY <1>c, Zenon DEF stepReceiverSendChunkRequest, stepReceiverSendLotteryTicket
  <2>2. m \in ToSender /\ m.kind # "FinalAck"
    BY ONLY <1>0, m \in {ChunkRequest(rChunk), LotteryTicket(rChunk)}
       DEF ChunkRequest, LotteryTicket, ToSender
  <2>3. AckInFlight' => AckInFlight
    BY ONLY <1>0, <2>1, <2>2, AckAfterSend, Zenon
  <2> QED BY ONLY <1>1, <2>3, Zenon
<1>d. CASE stepReceiverSendFinalAck
  <2>1. toSnd' = toSnd \/ rState' = "Finished"
    BY ONLY <1>d, TransitionsTaken, Zenon DEF stepReceiverSendFinalAck
  <2> QED BY ONLY <1>1, <1>a, <2>1, Zenon
<1> QED BY ONLY ReceiverStep, <1>b, <1>c, <1>d, Zenon DEF ReceiverStep

\* Every step keeps AckOK.
LEMMA AckStep == Shape /\ AckOK /\ [Next]_vars => AckOK'
<1> SUFFICES ASSUME Shape, AckOK, [Next]_vars PROVE AckOK'
  BY Zenon
<1>0. SUFFICES (AckInFlight \/ (sState = "Finished" /\ sTotal > 0) => rState = "Finished")'
  BY Zenon DEF AckOK, AckedMeansFinished, AckInFlight
<1>a. AckInFlight \/ (sState = "Finished" /\ sTotal > 0) => rState = "Finished"
  BY AckOKMeans, Zenon
<1>b. Cut => ~AckInFlight'
  BY ONLY DEF Cut, AckInFlight
<1>c. toSnd' = toSnd => (AckInFlight' => AckInFlight)
  BY ONLY Zenon DEF AckInFlight
<1>d. toSnd \in Seq(ToSender)
  BY Zenon DEF Shape, StreamTypeOK
<1>1. CASE RequestFile
  <2>1. \A typ \in {0, 1} : WhatToDo(typ) \in ToSender /\ WhatToDo(typ).kind # "FinalAck"
    BY Zenon DEF WhatToDo, ToSender
  <2>2. toSnd' = toSnd \/ toSnd' = Sent(toSnd, WhatToDo(TypeCode))
    BY <1>1, Zenon DEF RequestFile
  <2>3. AckInFlight' => AckInFlight
    BY ONLY <1>d, <2>1, <2>2, AckAfterSend, Zenon DEF TypeCode
  <2>4. UNCHANGED <<sState, sTotal, rState>>
    BY <1>1, Zenon DEF RequestFile, senderVars, receiverVars
  <2> QED BY ONLY <1>a, <2>3, <2>4, Zenon
<1>2. CASE HandleStream
  <2>1. toSnd' = toSnd \/ (toSnd # <<>> /\ toSnd' = Tail(toSnd))
    BY <1>2, Zenon DEF HandleStream, Arrived
  <2>2. AckInFlight' => AckInFlight
    BY ONLY <1>d, <2>1, AckAfterRead, Zenon
  <2>3. UNCHANGED <<sState, sTotal, rState>>
    BY <1>2, Zenon DEF HandleStream, senderVars, receiverVars
  <2> QED BY ONLY <1>a, <2>2, <2>3, Zenon
<1>3. CASE StartSend
  <2>1. UNCHANGED <<toSnd, rState>> /\ sState' # "Finished"
    BY ONLY <1>3, Zenon DEF StartSend, SendFile, streamVars, receiverVars
  <2> QED BY ONLY <1>a, <1>c, <2>1, Zenon
<1>4. CASE StartReceive
  <2>1. UNCHANGED <<toSnd, sState, sTotal>> /\ rState # "Finished"
    BY ONLY <1>4, Zenon DEF StartReceive, RecieveFile, streamVars, senderVars
  <2> QED BY ONLY <1>a, <1>c, <2>1, Zenon
<1>5. CASE Sending
  <2>1. rState' = rState /\ sState # "Finished"
    BY <1>5, Zenon
            DEF Sending, receiverVars, SenderStep, stepSenderIdle, stepSenderSendHeader,
                stepSenderWaitChunkRequest, stepSenderSendChunkResponse,
                stepSenderWaitLotteryTicket, stepSenderSendKeyReveal, stepSenderSendRoot,
                stepSenderReadFinalAck
  <2>2. SenderStep
    BY <1>5, Zenon DEF Sending
  <2>3. /\ AckInFlight' => AckInFlight
        /\ sTotal' = sTotal
        /\ sState' = "Finished" => sTotal = 0 \/ AckInFlight
    BY ONLY Shape, <2>2, SenderAck, Zenon
  <2>4. sTotal \in Nat
    BY Zenon DEF Shape, SenderTypeOK
  <2> QED BY ONLY <1>a, <2>1, <2>3, <2>4
<1>6. CASE Receiving
  <2>1. ReceiverStep /\ UNCHANGED <<sState, sTotal>>
    BY ONLY <1>6, Zenon DEF Receiving, senderVars
  <2>2. rState # "Finished" /\ (AckInFlight' => AckInFlight \/ rState' = "Finished")
    BY ONLY Shape, <2>1, ReceiverAck, Zenon DEF Ended, Returned
  <2> QED BY ONLY <1>a, <2>1, <2>2, Zenon
<1>7. CASE SenderGone
  <2>1. Cut /\ rState' = rState /\ sState' # "Finished"
    BY ONLY <1>7, Zenon DEF SenderGone, SenderExits, Lose, receiverVars, Ended, Returned
  <2> QED BY ONLY <1>a, <1>b, <2>1, Zenon
<1>8. CASE ReceiverGone
  <2>1. Cut /\ rState # "Finished" /\ UNCHANGED <<sState, sTotal>>
    BY ONLY <1>8, Zenon DEF ReceiverGone, ReceiverExits, Lose, senderVars, Ended, Returned
  <2> QED BY ONLY <1>a, <1>b, <2>1, Zenon
<1>9. CASE SourceChanges
  <2>1. UNCHANGED <<toSnd, sState, sTotal, rState>>
    BY ONLY <1>9, Zenon DEF SourceChanges, FileChanges, streamVars, receiverVars
  <2> QED BY ONLY <1>a, <1>c, <2>1, Zenon
<1>10. CASE ConnectionLost
  <2>1. Cut /\ UNCHANGED <<sState, sTotal, rState>>
    BY ONLY <1>10, Zenon DEF ConnectionLost, Lose, senderVars, receiverVars
  <2> QED BY ONLY <1>a, <1>b, <2>1, Zenon
<1>11. CASE ClientCloses
  <2>1. Cut /\ UNCHANGED <<sState, sTotal, rState>>
    BY ONLY <1>11, Zenon DEF ClientCloses, senderVars, receiverVars
  <2> QED BY ONLY <1>a, <1>b, <2>1, Zenon
<1>12. CASE UNCHANGED vars
  <2>1. UNCHANGED <<toSnd, sState, sTotal, rState>>
    BY ONLY <1>12, Zenon DEF vars, streamVars, senderVars, receiverVars
  <2> QED BY ONLY <1>a, <1>c, <2>1, Zenon
<1> QED
  BY ONLY [Next]_vars, <1>1, <1>2, <1>3, <1>4, <1>5, <1>6, <1>7, <1>8, <1>9, <1>10,
          <1>11, <1>12, Zenon
  DEF Next, Terminated

\* stepSenderVerifyMerkle returns Finished only after ReadFinalAck, and
\* stepReceiverVerifyMerkle sends the ack only after the roots compared equal.
THEOREM AckTheorem == Spec => []AckedMeansFinished
<1>1. Init => AckOK
  BY DEF Init, StreamInit, AckOK, AckedMeansFinished
<1>2. AckOK => AckedMeansFinished
  BY Zenon DEF AckOK
<1> QED BY ShapeInit, ShapeStep, AckStep, <1>1, <1>2, PTL DEF Spec

(***************************************************************************)
(* 4. What the receiver verifies and writes is what the sender read.       *)
(***************************************************************************)
(***************************************************************************)
(* Chunk arithmetic.                                                       *)
(***************************************************************************)
\* Reps chunks cover the file, and one more chunk is ChunkSize more bytes.
LEMMA RepsCovers ==
  ASSUME NEW file \in Seq(Byte)
  PROVE  Len(file) <= Reps(file) * ChunkSize
<1> DEFINE x == Len(file) + ChunkSize - 1
<1>1. x \in Nat /\ ChunkSize \in Nat /\ ChunkSize > 0
  BY SizesAssumption
<1>2. x < (x \div ChunkSize) * ChunkSize + ChunkSize /\ x \div ChunkSize \in Nat
  BY <1>1, Division, Zenon
<1> QED BY <1>1, <1>2 DEF Reps

\* The offset of the next chunk in ReadChunkPlaintext.
LEMMA NextOffset ==
  ASSUME NEW k \in Nat
  PROVE  /\ k * ChunkSize \in Nat
         /\ (k + 1) * ChunkSize = k * ChunkSize + ChunkSize
BY SizesAssumption

(***************************************************************************)
(* What the sender has committed to only grows.                            *)
(***************************************************************************)
\* The committed leaves are leaves.
LEMMA CommittedType == Shape => Committed \in Seq(Leaf)
<1> SUFFICES ASSUME Shape PROVE Committed \in Seq(Leaf)
  BY Zenon
<1>1. CASE sPending = Nil
  BY <1>1, Zenon DEF Shape, SenderTypeOK, Committed
<1>2. CASE sPending # Nil
  <2>1. GenerateLeaf(sPending) \in Leaf
    BY <1>2, LeafType, Zenon DEF Shape, SenderTypeOK
  <2> QED BY <1>2, <2>1 DEF Shape, SenderTypeOK, Committed
<1> QED BY <1>1, <1>2, Zenon

\* The chunk stepSenderSendChunkResponse reads and seals.
ChunkToSend(key) ==
  BuildAndEncryptChunk(sFileID, sChunk, ReadChunkPlaintext(srcFile, sChunk), key)

Grows ==
  /\ Len(Committed) <= Len(Committed')
  /\ \A i \in 1 .. Len(Committed) : Committed'[i] = Committed[i]

\* Of the rounds of the sender's Run only the one that sends a chunk commits
\* to something new; revealing its key moves the leaf from PendingChunk to
\* Leaves.
LEMMA SenderCommits ==
  ASSUME Shape, SenderStep
  PROVE  \/ Committed' = Committed
         \/ /\ sState = "SendChunkResponse" /\ Len(Committed) = sChunk
            /\ \E key \in Keys :
                 /\ toRcv' = Sent(toRcv, ChunkResponse(ChunkToSend(key)))
                 /\ Committed' = Append(Committed, GenerateLeaf(ChunkToSend(key)))
<1> USE DEF Shape, Committed, sFixed
<1>1. CASE stepSenderIdle
  BY <1>1, Zenon DEF stepSenderIdle
<1>2. CASE stepSenderSendHeader
  BY <1>2, Zenon DEF stepSenderSendHeader
<1>3. CASE stepSenderWaitChunkRequest
  BY <1>3, Zenon DEF stepSenderWaitChunkRequest
<1>4. CASE stepSenderSendChunkResponse
  <2>1. sPending = Nil /\ Len(sLeaves) = sChunk
    BY <1>4, Zenon DEF stepSenderSendChunkResponse, SenderShape
  <2>2. CASE UNCHANGED <<sPending, sLeaves>>
    BY <2>2, Zenon
  <2>3. ASSUME NEW key \in Keys, sPending' = ChunkToSend(key), sLeaves' = sLeaves,
               toRcv' = Sent(toRcv, ChunkResponse(ChunkToSend(key))),
               sState = "SendChunkResponse"
        PROVE  /\ sState = "SendChunkResponse" /\ Len(Committed) = sChunk
               /\ toRcv' = Sent(toRcv, ChunkResponse(ChunkToSend(key)))
               /\ Committed' = Append(Committed, GenerateLeaf(ChunkToSend(key)))
    <3>1. ChunkToSend(key) # Nil
      <4>1. sFileID \in FileIDs /\ sChunk \in Nat /\ srcFile \in Seq(Byte)
        BY FilesAssumption, Zenon DEF SenderTypeOK
      <4>2. ReadChunkPlaintext(srcFile, sChunk) \in Seq(Byte)
        BY ONLY <4>1, ReadType, Zenon
      <4> QED BY ONLY key \in Keys, <4>1, <4>2, ChunkType DEF ChunkToSend
    <3> QED BY <2>1, <2>3, <3>1, Zenon
  <2> QED BY <1>4, <2>2, <2>3, Zenon DEF stepSenderSendChunkResponse, ChunkToSend
<1>5. CASE stepSenderWaitLotteryTicket
  BY <1>5, Zenon DEF stepSenderWaitLotteryTicket
<1>6. CASE stepSenderSendKeyReveal
  BY <1>6, Zenon DEF stepSenderSendKeyReveal, SenderShape
<1>7. CASE stepSenderSendRoot
  BY <1>7, Zenon DEF stepSenderSendRoot
<1>8. CASE stepSenderReadFinalAck
  BY <1>8, Zenon DEF stepSenderReadFinalAck
<1> QED
  BY <1>1, <1>2, <1>3, <1>4, <1>5, <1>6, <1>7, <1>8, Zenon DEF SenderStep

\* A round of the sender's Run leaves the metadata and the file alone.
LEMMA SenderFixed == SenderStep => UNCHANGED sFixed
BY DEF SenderStep, stepSenderIdle, stepSenderSendHeader, stepSenderWaitChunkRequest,
       stepSenderSendChunkResponse, stepSenderWaitLotteryTicket, stepSenderSendKeyReveal,
       stepSenderSendRoot, stepSenderReadFinalAck

\* The leaf of the chunk being sent, and the message about it.
LEMMA NewLeaf ==
  ASSUME Shape, NEW key \in Keys
  PROVE  LET l == GenerateLeaf(ChunkToSend(key))
         IN  /\ l \in Leaf /\ l.fileID = sFileID /\ l.index = sChunk
             /\ l.hresp.key = key
             /\ l.hresp.plaintext = ReadChunkPlaintext(srcFile, sChunk)
             /\ l.ciphertext = Seal(key, ReadChunkPlaintext(srcFile, sChunk))
             /\ ChunkResponse(ChunkToSend(key)).kind = "ChunkResponse"
             /\ ChunkResponse(ChunkToSend(key)).index = sChunk
             /\ ChunkResponse(ChunkToSend(key)).ciphertext = l.ciphertext
             /\ ChunkResponse(ChunkToSend(key)).hresp = l.hresp
             /\ ChunkResponse(ChunkToSend(key)) \in ToReceiver
             /\ ChunkToSend(key) # Nil
<1>1. /\ ChunkToSend(key) \in ChunkRecord /\ ChunkToSend(key) # Nil
      /\ ChunkResponse(ChunkToSend(key)) \in ToReceiver
  <2>1. sFileID \in FileIDs /\ sChunk \in Nat /\ srcFile \in Seq(Byte)
    BY FilesAssumption, Zenon DEF Shape, SenderTypeOK
  <2>2. ReadChunkPlaintext(srcFile, sChunk) \in Seq(Byte)
    BY ONLY <2>1, ReadType, Zenon
  <2> QED BY ONLY key \in Keys, <2>1, <2>2, ChunkType DEF ChunkToSend
<1>2. GenerateLeaf(ChunkToSend(key)) \in Leaf
  BY <1>1, LeafType, Zenon
<1> QED
  BY <1>1, <1>2, Zenon DEF ChunkToSend, BuildAndEncryptChunk, GenerateLeaf, ChunkResponse,
                    ComputeResponseCommitment

\* After a round of the sender's Run the committed leaves are leaves still.
LEMMA CommittedStaysTyped ==
  ASSUME Shape, SenderStep
  PROVE  Committed' \in Seq(Leaf)
<1>1. Committed \in Seq(Leaf)
  BY CommittedType, Zenon
<1>2. CASE Committed' = Committed
  BY <1>1, <1>2, Zenon
<1>3. CASE Committed' # Committed
  <2>1. PICK key \in Keys :
          Committed' = Append(Committed, GenerateLeaf(ChunkToSend(key)))
    BY <1>3, SenderCommits, Zenon
  <2>2. PICK l \in Leaf : l = GenerateLeaf(ChunkToSend(key))
    BY NewLeaf, Zenon
  <2>3. Append(Committed, l) \in Seq(Leaf)
    BY ONLY <1>1, l \in Leaf
  <2> QED BY <2>1, <2>2, <2>3, Zenon
<1> QED BY <1>2, <1>3, Zenon

\* No round of the sender's Run takes a commitment back.
LEMMA SenderGrows ==
  ASSUME Shape, SenderStep
  PROVE  Grows
<1>1. CASE Committed' = Committed
  BY <1>1, CommittedType DEF Grows
<1>2. ASSUME NEW key \in Keys,
             Committed' = Append(Committed, GenerateLeaf(ChunkToSend(key)))
      PROVE  Grows
  <2>1. Committed \in Seq(Leaf)
    BY CommittedType, Zenon
  <2>2. PICK l \in Leaf : l = GenerateLeaf(ChunkToSend(key))
    BY NewLeaf, Zenon
  <2>3. /\ Len(Append(Committed, l)) = Len(Committed) + 1
        /\ \A i \in 1 .. Len(Committed) : Append(Committed, l)[i] = Committed[i]
        /\ Len(Committed) \in Nat
    <3>1. ASSUME NEW s \in Seq(Leaf), NEW e \in Leaf
          PROVE  /\ Len(Append(s, e)) = Len(s) + 1
                 /\ \A i \in 1 .. Len(s) : Append(s, e)[i] = s[i]
                 /\ Len(s) \in Nat
      BY ONLY s \in Seq(Leaf), e \in Leaf, AppendFacts
    <3> QED BY ONLY <2>1, l \in Leaf, <3>1, Zenon
  <2>4. Committed' = Append(Committed, l)
    BY <1>2, <2>2, Zenon
  <2>5. \A n \in Nat : n <= n + 1
    OBVIOUS
  <2> QED BY ONLY <2>3, <2>4, <2>5, Zenon DEF Grows
<1> QED BY <1>1, <1>2, SenderCommits, Zenon

(***************************************************************************)
(* The sender's half: what is committed, and the messages about it.        *)
(***************************************************************************)

\* The file and its id stay as they are, or the file is known to have changed.
SourceKept == sFileID' = sFileID /\ (touched' = TRUE \/ UNCHANGED <<srcFile, touched>>)

\* CommittedOK is about what is committed and the file only.
LEMMA CommittedKept ==
  ASSUME CommittedOK, Committed' = Committed, SourceKept
  PROVE  CommittedOK'
<1> SUFFICES ASSUME NEW i \in 1 .. Len(Committed)
             PROVE  LET l == Committed[i]
                    IN  /\ l.fileID = sFileID' /\ l.index = i - 1
                        /\ l.ciphertext = Seal(l.hresp.key, l.hresp.plaintext)
                        /\ ~touched' => l.hresp.plaintext = ReadChunkPlaintext(srcFile', i - 1)
  BY Zenon DEF CommittedOK
<1>1. sFileID' = sFileID /\ (touched' = TRUE \/ (srcFile' = srcFile /\ touched' = touched))
  BY DEF SourceKept
<1>2. CASE touched' = TRUE
  BY <1>1, <1>2, Zenon DEF CommittedOK
<1>3. CASE srcFile' = srcFile /\ touched' = touched
  BY <1>1, <1>3, Zenon DEF CommittedOK
<1> QED BY <1>1, <1>2, <1>3, Zenon

\* A round of the sender's Run commits to the next part of the file, or to
\* nothing.
LEMMA SenderCommittedOK ==
  ASSUME Shape, CommittedOK, SenderStep
  PROVE  CommittedOK'
<1>1. UNCHANGED <<srcFile, touched, sFileID>>
  BY SenderFixed, Zenon DEF sFixed
<1>2. CASE Committed' = Committed
  BY <1>1, <1>2, CommittedKept, Zenon DEF SourceKept
<1>3. ASSUME NEW key \in Keys,
             Committed' = Append(Committed, GenerateLeaf(ChunkToSend(key))),
             Len(Committed) = sChunk
      PROVE  CommittedOK'
  <2>1. /\ Committed \in Seq(Leaf) /\ GenerateLeaf(ChunkToSend(key)) \in Leaf
        /\ sChunk \in Nat
    BY CommittedType, NewLeaf DEF Shape, SenderTypeOK
  <2>2. /\ Len(Committed') = sChunk + 1
        /\ Committed'[sChunk + 1] = GenerateLeaf(ChunkToSend(key))
        /\ \A i \in 1 .. sChunk : Committed'[i] = Committed[i]
    BY <1>3, <2>1
  <2> SUFFICES ASSUME NEW i \in 1 .. sChunk + 1
               PROVE  LET l == Committed'[i]
                      IN  /\ l.fileID = sFileID /\ l.index = i - 1
                          /\ l.ciphertext = Seal(l.hresp.key, l.hresp.plaintext)
                          /\ ~touched => l.hresp.plaintext
                                           = ReadChunkPlaintext(srcFile, i - 1)
    BY <1>1, <2>2 DEF CommittedOK
  <2>3. CASE i = sChunk + 1
    <3>1. i - 1 = sChunk /\ Committed'[i] = GenerateLeaf(ChunkToSend(key))
      BY <2>1, <2>2, <2>3
    <3> QED BY <3>1, NewLeaf
  <2>4. CASE i # sChunk + 1
    <3>1. i \in 1 .. Len(Committed) /\ Committed'[i] = Committed[i]
      BY <1>3, <2>1, <2>2, <2>4
    <3> QED BY <3>1, Zenon DEF CommittedOK
  <2> QED BY <2>3, <2>4, Zenon
<1> QED BY <1>2, <1>3, SenderCommits, Zenon

\* A message keeps being about what is committed while that grows.
LEMMA AboutKept ==
  ASSUME NEW m \in ToReceiver, AboutCommitted(m), Committed \in Seq(Leaf), Grows, SourceKept
  PROVE  AboutCommitted(m)'
<1>1. m.kind = "ChunkResponse" \/ m.kind = "KeyReveal" => m.index \in Nat
  BY FieldsType, Zenon
<1>2. ASSUME m.kind = "ChunkResponse" \/ m.kind = "KeyReveal"
      PROVE  /\ m.index < Len(Committed')
             /\ Committed'[m.index + 1] = Committed[m.index + 1]
  BY <1>1, <1>2 DEF AboutCommitted, Grows
<1> QED BY <1>2 DEF AboutCommitted, SourceKept

\* So do the messages in flight, whether one is read, written or all are lost.
LEMMA MessagesKept ==
  ASSUME Shape, MessagesOK, Grows, SourceKept,
         \/ toRcv' = toRcv
         \/ toRcv # <<>> /\ toRcv' = Tail(toRcv)
         \/ toRcv' = <<>>
         \/ \E m \in ToReceiver : toRcv' = Sent(toRcv, m) /\ AboutCommitted(m)'
  PROVE  MessagesOK'
<1>1. toRcv \in Seq(ToReceiver) /\ Committed \in Seq(Leaf)
  BY CommittedType, Zenon DEF Shape, StreamTypeOK
<1>2. \A m \in ToReceiver : AboutCommitted(m) => AboutCommitted(m)'
  BY <1>1, AboutKept, Zenon
<1>3. \A i \in 1 .. Len(toRcv) : toRcv[i] \in ToReceiver /\ AboutCommitted(toRcv[i])
  BY <1>1 DEF MessagesOK
<1>4. SUFFICES ASSUME NEW i \in 1 .. Len(toRcv')
               PROVE  \E m \in ToReceiver : toRcv'[i] = m /\ AboutCommitted(m)'
  <2> SUFFICES ASSUME NEW i \in 1 .. Len(toRcv'), NEW m \in ToReceiver,
                      toRcv'[i] = m, AboutCommitted(m)'
               PROVE  AboutCommitted(toRcv[i])'
    BY Zenon DEF MessagesOK
  <2> QED BY ONLY toRcv'[i] = m, AboutCommitted(m)', Zenon DEF AboutCommitted
<1>5. ASSUME NEW j \in 1 .. Len(toRcv), toRcv'[i] = toRcv[j]
      PROVE  \E m \in ToReceiver : toRcv'[i] = m /\ AboutCommitted(m)'
  BY <1>2, <1>3, <1>5, Zenon
<1>6. CASE toRcv' = toRcv
  BY <1>5, <1>6, Zenon
<1>7. CASE toRcv # <<>> /\ toRcv' = Tail(toRcv)
  <2>1. i + 1 \in 1 .. Len(toRcv) /\ toRcv'[i] = toRcv[i + 1]
    BY <1>1, <1>7
  <2> QED BY <1>5, <2>1, Zenon
<1>8. CASE toRcv' = <<>>
  BY <1>8
<1>9. ASSUME NEW m \in ToReceiver, toRcv' = Sent(toRcv, m), AboutCommitted(m)'
      PROVE  \E n \in ToReceiver : toRcv'[i] = n /\ AboutCommitted(n)'
  <2>1. toRcv'[i] = m \/ (i \in 1 .. Len(toRcv) /\ toRcv'[i] = toRcv[i])
    BY <1>1, <1>9, SentMessages
  <2> QED BY <1>5, <1>9, <2>1, Zenon
<1> QED BY <1>6, <1>7, <1>8, <1>9, Zenon

\* What a round of the sender's Run writes is about what is then committed.
LEMMA SenderMessages ==
  ASSUME Shape, MeasuredOnce, SenderStep
  PROVE  \/ toRcv' = toRcv
         \/ \E m \in ToReceiver : toRcv' = Sent(toRcv, m) /\ AboutCommitted(m)'
<1>0. UNCHANGED <<srcFile, touched, sFileID>>
  BY SenderFixed, Zenon DEF sFixed
<1>1. CASE stepSenderIdle
  BY <1>1, Zenon DEF stepSenderIdle
<1>2. CASE stepSenderSendHeader
  <2>1. PICK m \in ToReceiver : m = Header(sTotal, sFileID, sSize)
    BY Zenon DEF Header, ToReceiver, Shape, SenderTypeOK
  <2>2. toRcv' = toRcv \/ toRcv' = Sent(toRcv, m)
    BY <1>2, <2>1, Zenon DEF stepSenderSendHeader
  <2>3. ~touched => sTotal = Reps(srcFile)
    BY <1>2, Zenon DEF MeasuredOnce, stepSenderSendHeader, senderSteps
  <2>4. AboutCommitted(m)'
    BY <1>0, <2>1, <2>3, Zenon DEF AboutCommitted, Header
  <2> QED BY <2>2, <2>4, Zenon
<1>3. CASE stepSenderWaitChunkRequest
  BY <1>3, Zenon DEF stepSenderWaitChunkRequest
<1>4. CASE stepSenderSendChunkResponse
  <2>1. \/ toRcv' = toRcv
        \/ \E key \in Keys :
             /\ toRcv' = Sent(toRcv, ChunkResponse(ChunkToSend(key)))
             /\ sPending' = ChunkToSend(key)
    BY <1>4, Zenon DEF stepSenderSendChunkResponse, ChunkToSend
  <2>2. sLeaves' = sLeaves /\ Len(sLeaves) = sChunk
    BY <1>4 DEF stepSenderSendChunkResponse, Shape, SenderShape
  <2>3. ASSUME NEW key \in Keys, sPending' = ChunkToSend(key)
        PROVE  \E m \in ToReceiver :
                 m = ChunkResponse(ChunkToSend(key)) /\ AboutCommitted(m)'
    <3>1. PICK m \in ToReceiver : m = ChunkResponse(ChunkToSend(key))
      BY NewLeaf
    <3>2. GenerateLeaf(ChunkToSend(key)) \in Leaf /\ ChunkToSend(key) # Nil
      BY NewLeaf
    <3>3. Committed' = Append(sLeaves, GenerateLeaf(ChunkToSend(key)))
      BY <2>2, <2>3, <3>2, Zenon DEF Committed
    <3>4. /\ Len(Committed') = sChunk + 1
          /\ Committed'[sChunk + 1] = GenerateLeaf(ChunkToSend(key))
          /\ sChunk \in Nat
      BY <2>2, <3>2, <3>3 DEF Shape, SenderTypeOK
    <3>5. /\ m.kind = "ChunkResponse" /\ m.index = sChunk
          /\ m.ciphertext = Committed'[sChunk + 1].ciphertext
          /\ m.hresp = Committed'[sChunk + 1].hresp
      BY <3>1, <3>4, NewLeaf
    <3>6. AboutCommitted(m)'
      <4>1. /\ m.index < Len(Committed')
            /\ m.ciphertext = Committed'[m.index + 1].ciphertext
            /\ m.hresp = Committed'[m.index + 1].hresp
        BY ONLY <3>4, <3>5
      <4> QED BY ONLY <3>5, <4>1 DEF AboutCommitted
    <3> QED BY <3>1, <3>6, Zenon
  <2> QED BY <2>1, <2>3, Zenon
<1>5. CASE stepSenderWaitLotteryTicket
  BY <1>5, Zenon DEF stepSenderWaitLotteryTicket
<1>6. CASE stepSenderSendKeyReveal
  <2>1. /\ sPending \in ChunkRecord /\ sPending # Nil /\ sPending.hresp.key = sPending.key
        /\ sPending.key \in Keys /\ Len(sLeaves) = sChunk /\ sChunk \in Nat
    BY <1>6 DEF stepSenderSendKeyReveal, Shape, SenderTypeOK, SenderShape, ChunkRecord
  <2>2. PICK m \in ToReceiver : m = KeyReveal(sChunk, sPending.key)
    BY <2>1, Zenon DEF KeyReveal, ToReceiver
  <2>3. \/ toRcv' = toRcv
        \/ toRcv' = Sent(toRcv, m) /\ Committed' = Append(sLeaves, GenerateLeaf(sPending))
    BY <1>6, <2>2, Zenon DEF stepSenderSendKeyReveal, Committed
  <2>4. ASSUME Committed' = Append(sLeaves, GenerateLeaf(sPending))
        PROVE  AboutCommitted(m)'
    <3>1. /\ Len(Committed') = sChunk + 1
          /\ Committed'[sChunk + 1] = GenerateLeaf(sPending)
      BY <2>1, <2>4, LeafType DEF Shape, SenderTypeOK
    <3>2. m.kind = "KeyReveal" /\ m.index = sChunk /\ m.key = sPending.key
      BY <2>2, Zenon DEF KeyReveal
    <3>3. GenerateLeaf(sPending).hresp = sPending.hresp
      BY Zenon DEF GenerateLeaf
    <3> QED BY <2>1, <3>1, <3>2, <3>3 DEF AboutCommitted
  <2> QED BY <2>3, <2>4, Zenon
<1>7. CASE stepSenderSendRoot
  <2>1. PICK m \in ToReceiver : m = RootOf(sLeaves)
    BY Zenon DEF RootOf, ToReceiver, Shape, SenderTypeOK
  <2>2. toRcv' = toRcv \/ toRcv' = Sent(toRcv, m)
    BY <1>7, <2>1, Zenon DEF stepSenderSendRoot
  <2>3. AboutCommitted(m)'
    BY <2>1, Zenon DEF AboutCommitted, RootOf
  <2> QED BY <2>2, <2>3, Zenon
<1>8. CASE stepSenderReadFinalAck
  BY <1>8, Zenon DEF stepSenderReadFinalAck
<1> QED
  BY <1>1, <1>2, <1>3, <1>4, <1>5, <1>6, <1>7, <1>8, Zenon DEF SenderStep

(***************************************************************************)
(* The receiver's half: what it keeps is about what is committed.          *)
(***************************************************************************)
ReceiverAgrees == HeaderOK /\ PendingOK /\ LeavesAgree

Output == OutputIsPrefix /\ OutputComplete

\* The receiver's half outlives whatever the sender or the environment does.
LEMMA AgreementKept ==
  ASSUME Shape, Committed' \in Seq(Leaf), ReceiverAgrees, Grows, SourceKept,
         UNCHANGED <<rFileID, rTotal, rChunk, rPending, rLeaves>>,
         rState' = rState \/ rState' \in {"Idle", "Exited"}
  PROVE  ReceiverAgrees'
<1>1. /\ Committed \in Seq(Leaf) /\ rLeaves \in Seq(Leaf) /\ rChunk \in Nat
  BY CommittedType, Zenon DEF Shape, ReceiverTypeOK
<1>2. HeaderOK'
  BY Zenon DEF ReceiverAgrees, HeaderOK, SourceKept
<1>3. PendingOK'
  <2>1. rChunk < Len(Committed) =>
          rChunk < Len(Committed') /\ rChunk + 1 \in 1 .. Len(Committed)
    BY <1>1 DEF Grows
  <2>2. rChunk < Len(Committed) => Committed'[rChunk + 1] = Committed[rChunk + 1]
    BY <2>1, Zenon DEF Grows
  <2>3. rState' \in {"SendLotteryTicket", "WaitingKeyReveal", "VerifyChunk"} => rState' = rState
    OBVIOUS
  <2>4. rChunk' = rChunk /\ rPending' = rPending
    OBVIOUS
  <2>5. GenerateLeaf(rPending)' = GenerateLeaf(rPending)
    BY <2>4, Zenon DEF GenerateLeaf
  <2> QED BY <2>1, <2>2, <2>3, <2>4, <2>5, Zenon DEF ReceiverAgrees, PendingOK
<1>4. LeavesAgree'
  <2>1. /\ Len(rLeaves) <= Len(Committed)
        /\ \A i \in 1 .. Len(rLeaves) : rLeaves[i] = Committed[i]
    BY Zenon DEF ReceiverAgrees, LeavesAgree, IsPrefixOf
  <2>2. /\ Len(rLeaves) <= Len(Committed')
        /\ \A i \in 1 .. Len(rLeaves) : rLeaves[i] = Committed'[i]
    BY <1>1, <2>1 DEF Grows
  <2> QED BY ONLY <2>2, rLeaves' = rLeaves, Zenon DEF LeavesAgree, IsPrefixOf
<1> QED BY <1>2, <1>3, <1>4, Zenon DEF ReceiverAgrees

\* The output file, likewise.
LEMMA OutputKept ==
  ASSUME Output, touched' = TRUE \/ UNCHANGED <<srcFile, touched>>,
         UNCHANGED <<rLeaves, out>>,
         \/ rState' = rState
         \/ rState' \in {"Error", "Exited"}
         \/ rState \notin {"Error", "Exited"}
  PROVE  Output'
BY Zenon DEF Output, OutputIsPrefix, OutputComplete, Verified

\* The fields of the chunk stepReceiverVerifyChunk opens: its key is the one
\* the sender sealed and committed it with, so it opens to the plaintext
\* committed to.
LEMMA PendingOpens ==
  ASSUME Shape, CommittedOK, PendingOK, rState = "VerifyChunk"
  PROVE  /\ rChunk < Len(Committed) /\ GenerateLeaf(rPending) = Committed[rChunk + 1]
         /\ DecryptAndCheck(rPending) = Committed[rChunk + 1].hresp.plaintext
         /\ DecryptAndCheck(rPending) \in Seq(Byte)
         /\ ~touched => DecryptAndCheck(rPending) = ReadChunkPlaintext(srcFile, rChunk)
<1> DEFINE l == Committed[rChunk + 1]
<1>1. /\ rChunk < Len(Committed) /\ GenerateLeaf(rPending) = l
      /\ rPending.key = l.hresp.key /\ rChunk \in Nat
  BY Zenon DEF PendingOK, Shape, ReceiverTypeOK
<1>2. rChunk + 1 \in 1 .. Len(Committed) /\ l \in Leaf
  BY <1>1, CommittedType
<1>3. /\ l.ciphertext = Seal(l.hresp.key, l.hresp.plaintext)
      /\ ~touched => l.hresp.plaintext = ReadChunkPlaintext(srcFile, rChunk)
  <2>1. (rChunk + 1) - 1 = rChunk
    BY ONLY <1>1
  <2> QED BY ONLY CommittedOK, <1>2, <2>1, Zenon DEF CommittedOK
<1> HIDE DEF l
<1>4. /\ l.hresp = [key |-> l.hresp.key, plaintext |-> l.hresp.plaintext]
      /\ l.hresp.key \in Keys /\ l.hresp.plaintext \in Seq(Byte)
  BY <1>2, Zenon DEF Leaf, Commitment, Plaintext
<1>5. rPending.ciphertext = l.ciphertext /\ rPending.hresp = l.hresp
  BY <1>1, Zenon DEF GenerateLeaf
<1>6. rPending.ciphertext[rPending.key] = l.hresp.plaintext
  BY <1>1, <1>3, <1>4, <1>5 DEF Seal
<1>7. l.hresp.plaintext # Nil
  BY <1>4, NilAssumption, Zenon
<1>8. DecryptAndCheck(rPending) = l.hresp.plaintext
  BY <1>1, <1>4, <1>5, <1>6, <1>7, Zenon DEF DecryptAndCheck, ComputeResponseCommitment
<1> QED BY <1>1, <1>3, <1>4, <1>8 DEF l

\* The step that verifies a chunk: its leaf extends the receiver's leaves, and
\* what is written of its plaintext extends the output.
LEMMA VerifyChunkContent ==
  ASSUME Shape, CommittedOK, ReceiverAgrees, Output,
         stepReceiverVerifyChunk, UNCHANGED senderVars
  PROVE  ReceiverAgrees' /\ Output'
<1> DEFINE p == DecryptAndCheck(rPending)
           l == GenerateLeaf(rPending)
<1>1. /\ rState = "VerifyChunk" /\ rChunk \in Nat /\ Len(rLeaves) = rChunk
      /\ rLeaves \in Seq(Leaf) /\ Committed \in Seq(Leaf) /\ out \in Seq(Byte)
      /\ srcFile \in Seq(Byte)
  BY CommittedType, FilesAssumption
     DEF stepReceiverVerifyChunk, Shape, ReceiverTypeOK, ReceiverShape, SenderTypeOK
<1>2. /\ rChunk < Len(Committed) /\ l = Committed[rChunk + 1] /\ l \in Leaf
      /\ p \in Seq(Byte) /\ p # Nil
      /\ ~touched => p = ReadChunkPlaintext(srcFile, rChunk)
  BY <1>1, CommittedType, PendingOpens, NilAssumption DEF ReceiverAgrees
<1>3. /\ rLeaves' = Append(rLeaves, l)
      /\ \/ out' = out \o p /\ rState' \in {"SendChunkRequest", "VerifyMerkle"}
         \/ rState' = "Error" /\ \E n \in 0 .. Len(p) : out' = out \o SubSeq(p, 1, n)
      /\ UNCHANGED <<rFileID, rTotal>>
  BY <1>1, <1>2, TransitionsTaken, Zenon DEF stepReceiverVerifyChunk, rFixed
<1>4. Committed' = Committed /\ UNCHANGED <<srcFile, touched, sFileID>>
  BY Zenon DEF Committed, senderVars
<1> HIDE DEF p, l
<1>5. HeaderOK'
  BY <1>3, <1>4, Zenon DEF ReceiverAgrees, HeaderOK
<1>6. PendingOK'
  BY <1>3, Zenon DEF PendingOK
<1>7. LeavesAgree'
  <2>0. rLeaves \in Seq(Leaf) /\ Committed \in Seq(Leaf)
    BY <1>1, Zenon
  <2>1. /\ Len(rLeaves) <= Len(Committed)
        /\ \A i \in 1 .. Len(rLeaves) : rLeaves[i] = Committed[i]
    BY Zenon DEF ReceiverAgrees, LeavesAgree, IsPrefixOf
  <2>2. /\ rLeaves' \in Seq(Leaf) /\ Len(rLeaves') = rChunk + 1
        /\ rLeaves'[rChunk + 1] = l
        /\ \A i \in 1 .. rChunk : rLeaves'[i] = rLeaves[i]
    BY <1>1, <1>2, <1>3
  <2>3. ASSUME NEW i \in 1 .. Len(rLeaves')
        PROVE  rLeaves'[i] = Committed[i]
    BY <1>1, <1>2, <2>1, <2>2
  <2>4. Len(rLeaves') <= Len(Committed) /\ rLeaves' \in Seq(Leaf)
    BY <1>1, <1>2, <2>0, <2>2
  <2> QED BY ONLY <1>4, <2>3, <2>4, Zenon DEF LeavesAgree, IsPrefixOf
<1>8. ASSUME ~touched
      PROVE  /\ IsPrefixOf(out', srcFile)
             /\ rState' # "Error"
                  => Len(out') = IF (rChunk + 1) * ChunkSize < Len(srcFile)
                                 THEN (rChunk + 1) * ChunkSize ELSE Len(srcFile)
  <2> DEFINE a == rChunk * ChunkSize
             b == a + ChunkSize
  <2>1. /\ a \in Nat /\ b \in Nat /\ a <= b /\ (rChunk + 1) * ChunkSize = b
    BY <1>1, NextOffset, SizesAssumption
  <2>2. NextPart(p, srcFile, a, b)
    <3>1. p = SubSeq(srcFile, a + 1, IF Len(srcFile) < b THEN Len(srcFile) ELSE b)
      BY ONLY <1>2, <1>8, Zenon DEF ReadChunkPlaintext
    <3>2. (IF Len(srcFile) < b THEN Len(srcFile) ELSE b) = Within(srcFile, b)
      <4>1. Len(srcFile) \in Nat /\ b \in Nat
        BY ONLY <1>1, <2>1
      <4> HIDE DEF b
      <4> QED BY ONLY <4>1 DEF Within
    <3> QED BY ONLY <3>1, <3>2, Zenon DEF NextPart
  <2>3. HoldsFirst(out, srcFile, a)
    BY <1>1, <1>8, Zenon DEF Output, OutputIsPrefix, OutputComplete, Verified, Within, IsPrefixOf,
                      HoldsFirst, Begins
  <2> HIDE DEF a, b
  <2>4. /\ HoldsFirst(out \o p, srcFile, b)
        /\ \A n \in 0 .. Len(p) : Begins(out \o SubSeq(p, 1, n), srcFile)
    BY ONLY <1>1, <2>1, <2>2, <2>3, ExtendPrefix, Zenon
  <2>5. Begins(out', srcFile) /\ (rState' # "Error" => HoldsFirst(out', srcFile, b))
    BY ONLY <1>3, <2>4, Zenon DEF HoldsFirst
  <2> QED BY ONLY <2>1, <2>5, Zenon DEF Begins, HoldsFirst, IsPrefixOf, Within
<1>9. Output'
  <2>1. Len(rLeaves') = rChunk + 1
    BY <1>1, <1>2, <1>3
  <2> QED BY <1>4, <1>8, <2>1, Zenon DEF Output, OutputIsPrefix, OutputComplete, Verified
<1> QED BY <1>5, <1>6, <1>7, <1>9, Zenon DEF ReceiverAgrees

\* Every other round of the receiver's Run leaves its leaves and its output
\* alone.
LEMMA ReceiverContent ==
  ASSUME Shape, CommittedOK, MessagesOK, ReceiverAgrees, Output,
         ReceiverStep, UNCHANGED senderVars
  PROVE  /\ ReceiverAgrees' /\ Output'
         /\ toRcv' = toRcv \/ (toRcv # <<>> /\ toRcv' = Tail(toRcv))
<1>0. /\ Committed' = Committed /\ UNCHANGED <<srcFile, touched, sFileID>>
      /\ Committed \in Seq(Leaf) /\ rLeaves \in Seq(Leaf) /\ rChunk \in Nat
      /\ toRcv \in Seq(ToReceiver)
  BY CommittedType, Zenon DEF Committed, senderVars, Shape, ReceiverTypeOK, StreamTypeOK
<1>a. ASSUME toRcv # <<>>
      PROVE  Head(toRcv) \in ToReceiver /\ AboutCommitted(Head(toRcv))
  BY <1>0, <1>a, ReadMessage, Zenon DEF MessagesOK
\* A step that keeps the pending chunk, and one that keeps leaves and output.
<1>b. ASSUME UNCHANGED <<rFileID, rTotal, rChunk, rPending, rLeaves>>,
             rState' \notin {"SendLotteryTicket", "WaitingKeyReveal", "VerifyChunk"}
      PROVE  ReceiverAgrees'
  BY ONLY ReceiverAgrees, <1>0, <1>b DEF ReceiverAgrees, HeaderOK, PendingOK, LeavesAgree
<1>c. ASSUME UNCHANGED <<rLeaves, out>>, rState \notin Ended
      PROVE  Output'
  BY <1>0, <1>c, OutputKept, Zenon DEF Ended, Returned
<1> USE TransitionsTaken DEF rFixed, Ended, Returned
<1>1. CASE stepReceiverIdle
  BY <1>1, <1>b, <1>c, Zenon DEF stepReceiverIdle
<1>2. CASE stepReceiverReceiveHeader
  <2>1. /\ rState = "ReceiveHeader" /\ UNCHANGED <<rLeaves, rChunk, rPending, out>>
        /\ rState' \in {"Finished", "SendChunkRequest", "Error"}
    BY <1>2 DEF stepReceiverReceiveHeader, Shape, ReceiverShape
  <2>2. \/ toRcv' = toRcv /\ UNCHANGED rFixed
        \/ /\ toRcv # <<>> /\ toRcv' = Tail(toRcv) /\ Head(toRcv).kind = "Header"
           /\ rFileID' = Head(toRcv).fileID /\ rTotal' = Head(toRcv).reps
    BY <1>2 DEF stepReceiverReceiveHeader, Accepted, Arrived, Refused
  <2>3. HeaderOK'
    BY ONLY ReceiverAgrees, <1>0, <1>a, <2>2, Zenon DEF ReceiverAgrees, HeaderOK, AboutCommitted,
                                                 rFixed
  <2>4. PendingOK' /\ LeavesAgree'
    BY <1>0, <2>1 DEF ReceiverAgrees, PendingOK, LeavesAgree
  <2> QED BY <1>c, <2>1, <2>2, <2>3, <2>4, Zenon DEF ReceiverAgrees
<1>3. CASE stepReceiverSendChunkRequest
  BY <1>3, <1>b, <1>c, Zenon DEF stepReceiverSendChunkRequest
<1>4. CASE stepReceiverWaitChunkResponse
  <2> DEFINE m == Head(toRcv)
             l == Committed[rChunk + 1]
  <2>1. /\ rState = "WaitingChunkResponse"
        /\ UNCHANGED <<rFileID, rTotal, rChunk, rLeaves, out>>
    BY <1>4 DEF stepReceiverWaitChunkResponse
  <2>2. \/ rState' = "Error" /\ UNCHANGED <<toRcv, rPending>>
        \/ /\ toRcv # <<>> /\ toRcv' = Tail(toRcv)
           /\ m.kind = "ChunkResponse" /\ m.index = rChunk
           /\ rPending' = [fileID |-> rFileID, index |-> m.index,
                           ciphertext |-> m.ciphertext, hresp |-> m.hresp, key |-> Nil]
           /\ rState' = "SendLotteryTicket"
    BY <1>4 DEF stepReceiverWaitChunkResponse, Accepted, Arrived, Refused
  <2>3. CASE rState' = "Error" /\ UNCHANGED <<toRcv, rPending>>
    BY <1>b, <1>c, <2>1, <2>3, Zenon
  <2>4. CASE rState' = "SendLotteryTicket"
    <3>1. /\ rChunk < Len(Committed)
          /\ m.ciphertext = l.ciphertext /\ m.hresp = l.hresp
      BY ONLY <1>0, <1>a, <2>2, <2>4, Zenon DEF AboutCommitted
    <3>2. l \in Leaf /\ l.fileID = sFileID /\ l.index = rChunk
      <4>1. rChunk + 1 \in 1 .. Len(Committed) /\ (rChunk + 1) - 1 = rChunk
        BY ONLY <1>0, <3>1
      <4>2. l \in Leaf
        BY ONLY <1>0, <4>1
      <4> QED BY ONLY CommittedOK, <4>1, <4>2, Zenon DEF CommittedOK
    <3>3. rFileID = sFileID
      BY <2>1, Zenon DEF Shape, ReceiverShape, ReceiverAgrees, HeaderOK
    <3>4. GenerateLeaf(rPending')
            = [fileID |-> sFileID, index |-> rChunk,
               ciphertext |-> l.ciphertext, hresp |-> l.hresp]
      <4>1. /\ rPending'.fileID = sFileID /\ rPending'.index = rChunk
            /\ rPending'.ciphertext = l.ciphertext /\ rPending'.hresp = l.hresp
        BY ONLY <2>2, <2>4, <3>1, <3>3
      <4> QED BY ONLY <4>1, Zenon DEF GenerateLeaf
    <3>5. l = [fileID |-> sFileID, index |-> rChunk,
               ciphertext |-> l.ciphertext, hresp |-> l.hresp]
      BY ONLY <3>2, Zenon DEF Leaf
    <3>6. PendingOK'
      BY ONLY <1>0, <2>1, <2>4, <3>1, <3>4, <3>5 DEF PendingOK
    <3>7. HeaderOK' /\ LeavesAgree'
      BY <1>0, <2>1, Zenon DEF ReceiverAgrees, HeaderOK, LeavesAgree
    <3> QED BY <1>c, <2>1, <2>2, <2>4, <3>6, <3>7, Zenon DEF ReceiverAgrees
  <2> QED BY <2>2, <2>3, <2>4, Zenon
<1>5. CASE stepReceiverSendLotteryTicket
  <2>1. ReceiverAgrees'
    BY ONLY ReceiverAgrees, <1>5, <1>0, TransitionsTaken
       DEF stepReceiverSendLotteryTicket, ReceiverAgrees, HeaderOK, PendingOK, LeavesAgree,
           rFixed
  <2> QED BY <1>5, <1>c, <2>1, Zenon DEF stepReceiverSendLotteryTicket
<1>6. CASE stepReceiverWaitKeyReveal
  <2> DEFINE m == Head(toRcv)
  <2>1. /\ rState = "WaitingKeyReveal"
        /\ UNCHANGED <<rFileID, rTotal, rChunk, rLeaves, out>>
    BY <1>6, Zenon DEF stepReceiverWaitKeyReveal
  <2>2. \/ rState' = "Error" /\ UNCHANGED <<toRcv, rPending>>
        \/ /\ toRcv # <<>> /\ toRcv' = Tail(toRcv)
           /\ m.kind = "KeyReveal" /\ m.index = rChunk
           /\ rPending' = [rPending EXCEPT !.key = m.key]
           /\ rState' = "VerifyChunk"
    BY <1>6, Zenon DEF stepReceiverWaitKeyReveal, Accepted, Arrived, Refused
  <2>3. CASE rState' = "Error" /\ UNCHANGED <<toRcv, rPending>>
    BY <1>b, <1>c, <2>1, <2>3, Zenon
  <2>4. CASE rState' = "VerifyChunk"
    <3>1. m.key = Committed[rChunk + 1].hresp.key
      BY <1>0, <1>a, <2>2, <2>4, Zenon DEF AboutCommitted
    <3>2. rPending \in ChunkRecord
      BY <2>1, Zenon DEF Shape, ReceiverTypeOK, ReceiverShape
    <3>3. rPending'.key = m.key /\ GenerateLeaf(rPending') = GenerateLeaf(rPending)
      BY <2>2, <2>4, <3>2, Zenon DEF GenerateLeaf, ChunkRecord
    <3>4. PendingOK'
      BY <1>0, <2>1, <2>4, <3>1, <3>3, Zenon DEF ReceiverAgrees, PendingOK
    <3>5. HeaderOK' /\ LeavesAgree'
      BY <1>0, <2>1, Zenon DEF ReceiverAgrees, HeaderOK, LeavesAgree
    <3> QED BY <1>c, <2>1, <2>2, <2>4, <3>4, <3>5, Zenon DEF ReceiverAgrees
  <2> QED BY <2>2, <2>3, <2>4, Zenon
<1>7. CASE stepReceiverVerifyChunk
  BY <1>7, VerifyChunkContent, Zenon DEF stepReceiverVerifyChunk
<1>8. CASE stepReceiverReadRoot
  <2>1. toRcv' = toRcv \/ (toRcv # <<>> /\ toRcv' = Tail(toRcv))
    BY <1>8, Zenon DEF stepReceiverReadRoot, Accepted, Arrived
  <2> QED BY <1>8, <1>b, <1>c, <2>1, Zenon DEF stepReceiverReadRoot
<1>9. CASE stepReceiverSendFinalAck
  BY <1>9, <1>b, <1>c, Zenon DEF stepReceiverSendFinalAck
<1> QED
  BY <1>1, <1>2, <1>3, <1>4, <1>5, <1>6, <1>7, <1>8, <1>9, Zenon DEF ReceiverStep

(***************************************************************************)
(* All of it, for every step of the system.                                *)
(***************************************************************************)
\* Content is the sender's half and the receiver's half.
LEMMA ContentParts ==
  Content <=> CommittedOK /\ MeasuredOnce /\ MessagesOK /\ ReceiverAgrees /\ Output
BY Zenon DEF Content, ReceiverAgrees, Output

\* Steps that neither commit to anything nor verify anything.
LEMMA QuietStep ==
  ASSUME Shape, Shape', Content, Committed' = Committed, SourceKept, MeasuredOnce',
         UNCHANGED <<rFileID, rTotal, rChunk, rPending, rLeaves, out>>,
         \/ rState' = rState
         \/ rState = "NoSession" /\ rState' = "Idle"
         \/ rState' = "Exited",
         \/ toRcv' = toRcv
         \/ toRcv # <<>> /\ toRcv' = Tail(toRcv)
         \/ toRcv' = <<>>
         \/ \E m \in ToReceiver : toRcv' = Sent(toRcv, m) /\ AboutCommitted(m)'
  PROVE  Content'
<1>1. Committed \in Seq(Leaf) /\ Committed' \in Seq(Leaf)
  BY CommittedType, Zenon
<1>2. Grows
  BY <1>1 DEF Grows
<1>3. CommittedOK'
  BY CommittedKept, ContentParts, Zenon
<1>4. MessagesOK'
  BY <1>2, MessagesKept, ContentParts, Zenon
<1>5. ReceiverAgrees'
  BY <1>1, <1>2, AgreementKept, ContentParts, Zenon
<1>6. Output'
  BY OutputKept, ContentParts, Zenon DEF SourceKept
<1> QED BY <1>3, <1>4, <1>5, <1>6, Zenon DEF Content, ReceiverAgrees, Output

\* Before the request nothing is committed, sent or written.
LEMMA ContentInit == Init => Content
<1> SUFFICES ASSUME Init PROVE Content
  BY Zenon
<1> USE DEF Init, StreamInit, SenderInit, ReceiverInit
<1>1. Committed = <<>>
  BY Zenon DEF Committed
<1>2. CommittedOK /\ MessagesOK
  BY <1>1 DEF CommittedOK, MessagesOK
<1>3. MeasuredOnce /\ HeaderOK /\ PendingOK
  BY Zenon DEF MeasuredOnce, senderSteps, HeaderOK, PendingOK
<1>4. srcFile \in Seq(Byte) /\ Len(<<>>) = 0 /\ Len(srcFile) \in Nat
  BY FilesAssumption
<1>5. LeavesAgree
  BY <1>1 DEF LeavesAgree, IsPrefixOf
<1>6. OutputIsPrefix
  BY <1>4 DEF OutputIsPrefix, IsPrefixOf
<1>7. OutputComplete
  BY <1>4, SizesAssumption DEF OutputComplete, Verified
<1> QED BY <1>2, <1>3, <1>5, <1>6, <1>7, Zenon DEF Content

\* Every step of the system keeps Content.
LEMMA ContentStep == Shape /\ Shape' /\ Content /\ [Next]_vars => Content'
<1> SUFFICES ASSUME Shape, Shape', Content, [Next]_vars PROVE Content'
  BY Zenon
<1>0. MeasuredOnce
  BY ContentParts, Zenon
<1>1. CASE RequestFile
  <2>0. TypeCode \in {0, 1}
    BY Zenon DEF TypeCode
  <2>1. PICK m \in ToReceiver : m = WhatToDo(TypeCode)
    BY <2>0, Zenon DEF WhatToDo, ToReceiver
  <2>2. AboutCommitted(m)'
    BY ONLY <2>1 DEF AboutCommitted, WhatToDo
  <2>3. toRcv' = toRcv \/ toRcv' = Sent(toRcv, m)
    BY <1>1, <2>1, Zenon DEF RequestFile
  <2>4. UNCHANGED <<senderVars, receiverVars>>
    BY <1>1, Zenon DEF RequestFile
  <2> QED
    BY <1>0, <2>2, <2>3, <2>4, QuietStep, Zenon
       DEF senderVars, receiverVars, Committed, SourceKept, MeasuredOnce
<1>2. CASE HandleStream
  <2>1. toRcv' = toRcv \/ (toRcv # <<>> /\ toRcv' = Tail(toRcv))
    BY <1>2, Zenon DEF HandleStream, Arrived
  <2>2. UNCHANGED <<senderVars, receiverVars>>
    BY <1>2, Zenon DEF HandleStream
  <2> QED
    BY <1>0, <2>1, <2>2, QuietStep, Zenon
       DEF senderVars, receiverVars, Committed, SourceKept, MeasuredOnce
<1>3. CASE StartSend
  <2>1. MeasuredOnce'
    BY <1>3, Zenon DEF StartSend, SendFile, MeasuredOnce
  <2> QED
    BY <1>3, <2>1, QuietStep, Zenon
       DEF StartSend, SendFile, streamVars, receiverVars, Committed, SourceKept
<1>4. CASE StartReceive
  BY <1>4, <1>0, QuietStep, Zenon
     DEF StartReceive, RecieveFile, streamVars, senderVars, rFixed, Committed,
         SourceKept, MeasuredOnce
<1>5. CASE Sending
  <2>1. SenderStep /\ UNCHANGED receiverVars /\ SourceKept /\ UNCHANGED sFixed
    BY <1>5, SenderFixed, Zenon DEF Sending, sFixed, SourceKept
  <2>2. CommittedOK'
    BY <2>1, SenderCommittedOK, ContentParts, Zenon
  <2>3. MeasuredOnce'
    <3>1. sState \in senderSteps
      BY <2>1, Zenon DEF SenderStep, stepSenderIdle, stepSenderSendHeader,
                  stepSenderWaitChunkRequest, stepSenderSendChunkResponse,
                  stepSenderWaitLotteryTicket, stepSenderSendKeyReveal,
                  stepSenderSendRoot, stepSenderReadFinalAck, senderSteps
    <3> QED BY <1>0, <2>1, <3>1, Zenon DEF MeasuredOnce, sFixed
  <2>4. Grows
    BY <2>1, SenderGrows, Zenon
  <2>5. MessagesOK'
    BY <1>0, <2>1, <2>4, SenderMessages, MessagesKept, ContentParts, Zenon
  <2>6. ReceiverAgrees'
    <3>1. Committed' \in Seq(Leaf)
      BY <2>1, CommittedStaysTyped, Zenon
    <3> QED BY <2>1, <2>4, <3>1, AgreementKept, ContentParts, Zenon DEF receiverVars
  <2>7. Output'
    BY <2>1, OutputKept, ContentParts, Zenon DEF receiverVars, SourceKept
  <2> QED BY <2>2, <2>3, <2>5, <2>6, <2>7, Zenon DEF Content, ReceiverAgrees, Output
<1>6. CASE Receiving
  <2>1. ReceiverStep /\ UNCHANGED senderVars
    BY <1>6, Zenon DEF Receiving
  <2>2. /\ ReceiverAgrees' /\ Output'
        /\ toRcv' = toRcv \/ (toRcv # <<>> /\ toRcv' = Tail(toRcv))
    BY <2>1, ReceiverContent, ContentParts, Zenon
  <2>3. Committed' = Committed /\ SourceKept /\ MeasuredOnce'
    BY <1>0, <2>1, Zenon DEF senderVars, Committed, SourceKept, MeasuredOnce
  <2>4. CommittedOK'
    BY <2>3, CommittedKept, ContentParts, Zenon
  <2>5. MessagesOK'
    <3>1. Grows
      BY <2>3, CommittedType DEF Grows
    <3> QED BY <2>2, <2>3, <3>1, MessagesKept, ContentParts, Zenon
  <2> QED BY <2>2, <2>3, <2>4, <2>5, Zenon DEF Content, ReceiverAgrees, Output
<1>7. CASE SenderGone
  <2>1. MeasuredOnce'
    BY <1>7, Zenon DEF SenderGone, SenderExits, MeasuredOnce, senderSteps
  <2> QED
    BY <1>7, <2>1, QuietStep, Zenon
       DEF SenderGone, SenderExits, Lose, Cut, sFixed, receiverVars, Committed, SourceKept
<1>8. CASE ReceiverGone
  BY <1>8, <1>0, QuietStep, Zenon
     DEF ReceiverGone, ReceiverExits, Lose, Cut, rFixed, senderVars, Committed,
         SourceKept, MeasuredOnce
<1>9. CASE SourceChanges
  <2>1. MeasuredOnce'
    BY <1>9, Zenon DEF SourceChanges, FileChanges, MeasuredOnce
  <2> QED
    BY <1>9, <2>1, QuietStep, Zenon
       DEF SourceChanges, FileChanges, streamVars, receiverVars, Committed, SourceKept
<1>10. CASE ConnectionLost
  BY <1>10, <1>0, QuietStep, Zenon
     DEF ConnectionLost, Lose, Cut, senderVars, receiverVars, Committed, SourceKept,
         MeasuredOnce
<1>11. CASE ClientCloses
  BY <1>11, <1>0, QuietStep, Zenon
     DEF ClientCloses, Cut, senderVars, receiverVars, Committed, SourceKept, MeasuredOnce
<1>12. CASE UNCHANGED vars
  BY <1>12, <1>0, QuietStep, Zenon
     DEF vars, streamVars, senderVars, receiverVars, Committed, SourceKept, MeasuredOnce
<1> QED
  BY <1>1, <1>2, <1>3, <1>4, <1>5, <1>6, <1>7, <1>8, <1>9, <1>10, <1>11, <1>12, Zenon
  DEF Next, Terminated

\* The whole inductive invariant behind the theorems below: both sessions and
\* every message in flight agree on the chunks the sender has let go of.
THEOREM ContentTheorem == Spec => []Content
BY ShapeInit, ShapeStep, ContentInit, ContentStep, PTL DEF Spec

\* The receiver's Leaves are at all times a prefix of the sender's, those of
\* the pending chunk included: stepReceiverVerifyChunk never adds a leaf the
\* sender has not committed to, skips none and repeats none.
THEOREM LeavesTheorem == Spec => []LeavesAgree
<1>1. Content => LeavesAgree
  BY Zenon DEF Content
<1> QED BY ContentTheorem, <1>1, PTL

\* The output file is at all times a prefix of the source, after a failed
\* write and after a crash of either process too.
THEOREM OutputTheorem == Spec => []OutputIsPrefix
<1>1. Content => OutputIsPrefix
  BY Zenon DEF Content
<1> QED BY ContentTheorem, <1>1, PTL

\* A receiver whose Run returned without error has the whole file, for every
\* file (also one larger than MetaData.FileSize can tell) and chunk size.
THEOREM ExactCopy == Spec => []FinishedCopyIsExact
<1>1. Shape /\ Content => FinishedCopyIsExact
  <2> SUFFICES ASSUME Shape, Content, rState = "Finished", ~touched PROVE out = srcFile
    BY Zenon DEF FinishedCopyIsExact
  <2>1. out \in Seq(Byte) /\ srcFile \in Seq(Byte)
    BY FilesAssumption, Zenon DEF Shape, SenderTypeOK, ReceiverTypeOK
  <2>2. Len(rLeaves) = Reps(srcFile)
    BY Zenon DEF Shape, ReceiverShape, Content, HeaderOK
  <2>3. Len(srcFile) <= Len(rLeaves) * ChunkSize
    BY <2>1, <2>2, RepsCovers, Zenon
  <2>4. Len(out) = Verified /\ IsPrefixOf(out, srcFile)
    BY Zenon DEF Content, OutputComplete, OutputIsPrefix
  <2>5. Len(out) = Len(srcFile)
    <3>1. Len(rLeaves) * ChunkSize \in Nat /\ Len(srcFile) \in Nat
      BY <2>1, <2>2, MetadataType, SizesAssumption
    <3> QED BY <2>3, <2>4, <3>1 DEF Verified
  <2>6. \A i \in 1 .. Len(out) : out[i] = srcFile[i]
    BY <2>4, Zenon DEF IsPrefixOf
  <2> QED BY <2>1, <2>5, <2>6, SameElements, Zenon
<1> QED BY ShapeInit, ShapeStep, ContentTheorem, <1>1, PTL DEF Spec

\* End to end: the sender of a file that is not empty and was left alone may
\* take its own Run's success for the receiver's complete copy.
THEOREM SenderFinishedMeansCopied ==
  Spec => [](sState = "Finished" /\ sTotal > 0 /\ ~touched => out = srcFile)
<1>1. AckedMeansFinished /\ FinishedCopyIsExact
        => (sState = "Finished" /\ sTotal > 0 /\ ~touched => out = srcFile)
  BY Zenon DEF AckedMeansFinished, FinishedCopyIsExact
<1> QED BY AckTheorem, ExactCopy, <1>1, PTL
=============================================================================
