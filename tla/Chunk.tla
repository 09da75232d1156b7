-------------------------------- MODULE Chunk --------------------------------
(***************************************************************************)
(* The data of a transfer: the file and how it is cut into chunks          *)
(* (Controllers.PrepareMetadata, Chunk.ReadChunkPlaintext), what is done   *)
(* to a chunk (Chunk.BuildAndEncryptChunk, Utils, Merkle.GenerateLeaf) and *)
(* the messages of the wire protocol (Chunk/chunk.go).                     *)
(***************************************************************************)
EXTENDS Naturals, Sequences

CONSTANTS
  Byte,       \* the values of a byte
  Files,      \* the contents a file on the sender's disk may have
  ChunkSize,  \* Protocol.ChunkSize
  SizeWrap,   \* 2^32: MetaData.FileSize is a uint32
  FileIDs,    \* the ids generateFileID may produce
  Keys,       \* the chunk keys GenerateRandomKey may draw
  Nil         \* Go's nil

ASSUME FilesAssumption == Files \subseteq Seq(Byte)
ASSUME SizesAssumption == ChunkSize \in Nat \ {0} /\ SizeWrap \in Nat \ {0}
ASSUME NilAssumption == Nil \notin Keys \cup FileIDs \cup Seq(Byte)

(***************************************************************************)
(* Metadata.                                                               *)
(***************************************************************************)
\* Seeded fault: a last chunk that is not full is not counted.
RepsFault_Floor(file) == Len(file) \div ChunkSize

Reps(file) == (Len(file) + ChunkSize - 1) \div ChunkSize

FileSize(file) == Len(file) % SizeWrap

\* Seeded fault: the offset is one byte short per chunk.
ReadChunkPlaintextFault_Offset(file, index) ==
  LET from == index * (ChunkSize - 1)
      end  == from + ChunkSize
  IN  SubSeq(file, from + 1, IF Len(file) < end THEN Len(file) ELSE end)

\* ReadAt at the chunk's offset: fewer than ChunkSize bytes, down to none,
\* when the file ends before the chunk does.
ReadChunkPlaintext(file, index) ==
  LET from == index * ChunkSize
      end  == from + ChunkSize
  IN  SubSeq(file, from + 1, IF Len(file) < end THEN Len(file) ELSE end)

(***************************************************************************)
(* Encryption.  A ciphertext (with its nonce, which always travels beside  *)
(* it) is modelled by what opening it gives under each key: a plaintext,   *)
(* or Nil where GCM's authentication fails.  EncryptChunk makes one that   *)
(* opens under its own key only.                                           *)
(***************************************************************************)
Plaintext == Seq(Byte)

Ciphertext == [Keys -> Plaintext \cup {Nil}]

Seal(key, plaintext) == [k \in Keys |-> IF k = key THEN plaintext ELSE Nil]

\* H_resp = Keccak(key, plaintext), the key being of fixed length.
Commitment == [key : Keys, plaintext : Plaintext]

ComputeResponseCommitment(key, plaintext) ==
  [key |-> key, plaintext |-> plaintext]

ChunkRecord ==
  [fileID : FileIDs, index : Nat, ciphertext : Ciphertext,
   hresp : Commitment, key : Keys \cup {Nil}]

ASSUME NoChunkAssumption == Nil \notin ChunkRecord

BuildAndEncryptChunk(fileID, index, plaintext, key) ==
  [fileID |-> fileID, index |-> index, ciphertext |-> Seal(key, plaintext),
   hresp |-> ComputeResponseCommitment(key, plaintext), key |-> key]

\* The plaintext, or Nil when GCM rejects the ciphertext under the revealed
\* key or the commitment does not match what was opened.
DecryptAndCheck(c) ==
  LET plaintext == c.ciphertext[c.key]
  IN  IF plaintext # Nil /\ c.hresp = ComputeResponseCommitment(c.key, plaintext)
      THEN plaintext ELSE Nil

\* Keccak of the four fields, whose widths are fixed but for the ciphertext's.
Leaf == [fileID : FileIDs, index : Nat, ciphertext : Ciphertext, hresp : Commitment]

GenerateLeaf(c) ==
  [fileID |-> c.fileID, index |-> c.index,
   ciphertext |-> c.ciphertext, hresp |-> c.hresp]

(***************************************************************************)
(* Messages.  kind is the sentinel byte; WhatToDo is the request header,   *)
(* which has none.  A root is represented by the leaves it is the root of. *)
(***************************************************************************)
WhatToDo(typ) == [kind |-> "WhatToDo", typ |-> typ]

Header(reps, fileID, size) ==
  [kind |-> "Header", reps |-> reps, fileID |-> fileID, size |-> size]

ChunkRequest(index) == [kind |-> "ChunkRequest", index |-> index]

ChunkResponse(c) ==
  [kind |-> "ChunkResponse", index |-> c.index,
   ciphertext |-> c.ciphertext, hresp |-> c.hresp]

LotteryTicket(index) == [kind |-> "LotteryTicket", index |-> index]

KeyReveal(index, key) == [kind |-> "KeyReveal", index |-> index, key |-> key]

RootOf(leaves) == [kind |-> "Root", leaves |-> leaves]

FinalAck == [kind |-> "FinalAck"]

ToSender ==
  [kind : {"WhatToDo"}, typ : {0, 1}]
    \cup [kind : {"ChunkRequest", "LotteryTicket"}, index : Nat]
    \cup {FinalAck}

ToReceiver ==
  [kind : {"WhatToDo"}, typ : {0, 1}]
    \cup [kind : {"Header"}, reps : Nat, fileID : FileIDs, size : Nat]
    \cup [kind : {"ChunkResponse"}, index : Nat,
          ciphertext : Ciphertext, hresp : Commitment]
    \cup [kind : {"KeyReveal"}, index : Nat, key : Keys]
    \cup [kind : {"Root"}, leaves : Seq(Leaf)]
=============================================================================
