-------------------------------- MODULE Wire --------------------------------
(***************************************************************************)
(* One direction of a session's stream in bytes: how Chunk/chunk.go, the   *)
(* client's RequestFile and the server's HandleStream lay a message out    *)
(* and read it back with io.ReadFull, while the bytes arrive in pieces and *)
(* the stream may end after any of them.  Transfer has whole messages in   *)
(* its place.                                                              *)
(*                                                                         *)
(* The writer follows a script of messages, one Write each, and the reader *)
(* a sequence of kinds it asks for.  In Transfer the two always agree;     *)
(* here they need not, as with a peer of another version.                  *)
(***************************************************************************)
EXTENDS Naturals, Sequences

CONSTANTS
  Base,     \* the values of a byte; 256
  Width,    \* bytes of a uint32; 4
  HashSize, NonceSize, KeySize,
  Scripts   \* the message sequences written

Byte == 0 .. Base - 1

msgKind == <<"Header", "ChunkRequest", "ChunkResponse", "LotteryTicket",
             "KeyReveal", "Root", "FinalAck">>

Kinds == {msgKind[b] : b \in DOMAIN msgKind} \cup {"WhatToDo"}

ASSUME WireAssumption ==
  /\ Width \in Nat \ {0} /\ Base \in Nat /\ Base > Len(msgKind)
  /\ HashSize \in Nat /\ NonceSize \in Nat /\ KeySize \in Nat

(***************************************************************************)
(* The layout of a message: its fields in the order they are written.      *)
(***************************************************************************)
Message(kind, fields) == [kind |-> kind, values |-> fields]

Layout(kind) ==
  CASE kind = "WhatToDo"      -> <<"int", "bytes">>
    [] kind = "Header"        -> <<"int", "hash", "bytes", "int">>
    [] kind = "ChunkRequest"  -> <<"int">>
    [] kind = "ChunkResponse" -> <<"int", "bytes", "nonce", "hash">>
    [] kind = "LotteryTicket" -> <<"int">>
    [] kind = "KeyReveal"     -> <<"int", "key">>
    [] kind = "Root"          -> <<"hash">>
    [] kind = "FinalAck"      -> <<>>

\* n shifted right by k bytes.
Shifted(n) ==
  LET shift[k \in 0 .. Width] == IF k = 0 THEN n ELSE shift[k - 1] \div Base
  IN  shift

\* Big endian.
PutUint32(n) == [i \in 1 .. Width |-> Shifted(n)[Width - i] % Base]

Uint32(buf) ==
  LET value[k \in 0 .. Len(buf)] == IF k = 0 THEN 0 ELSE value[k - 1] * Base + buf[k]
  IN  value[Len(buf)]

IsUint32(n) == n \in Nat /\ Shifted(n)[Width] = 0

EncodeField(type, value) ==
  CASE type = "int"   -> PutUint32(value)
    [] type = "bytes" -> PutUint32(Len(value)) \o value
    [] OTHER          -> value

\* WhatToDo has no sentinel.
Sentinel(kind) ==
  IF kind = "WhatToDo" THEN <<>> ELSE <<CHOOSE b \in DOMAIN msgKind : msgKind[b] = kind>>

\* A buffer as it grows, one part appended after the other.
Appended(first, parts) ==
  LET buf[k \in 0 .. Len(parts)] == IF k = 0 THEN first ELSE buf[k - 1] \o parts[k]
  IN  buf

EncodeFields(m) ==
  Appended(Sentinel(m.kind),
           [i \in DOMAIN m.values |-> EncodeField(Layout(m.kind)[i], m.values[i])])

Encode(m) == EncodeFields(m)[Len(m.values)]

\* The bytes of a field without a length before it.
Size(type) ==
  CASE type = "hash"  -> HashSize
    [] type = "nonce" -> NonceSize
    [] type = "key"   -> KeySize
    [] OTHER          -> Width

\* What the Go types let a message hold.
IsValue(type, value) ==
  CASE type = "int"   -> IsUint32(value)
    [] type = "bytes" -> value \in Seq(Byte) /\ IsUint32(Len(value))
    [] OTHER          -> value \in Seq(Byte) /\ Len(value) = Size(type)

IsMessage(m) ==
  /\ m.kind \in Kinds
  /\ m = Message(m.kind, [i \in DOMAIN Layout(m.kind) |-> m.values[i]])
  /\ \A i \in DOMAIN Layout(m.kind) : IsValue(Layout(m.kind)[i], m.values[i])

\* A script is messages, and only the client's first one says what to do.
ASSUME ScriptsAssumption ==
  \A s \in Scripts :
    /\ s # <<>> /\ s \in Seq({s[i] : i \in DOMAIN s})
    /\ \A i \in DOMAIN s : IsMessage(s[i]) /\ (s[i].kind = "WhatToDo" => i = 1)

VARIABLES
  script,     \* the messages to write
  asked,      \* the kinds the reader asks for
  written,    \* how many messages of the script were written
  wire,       \* bytes on their way
  inbox,      \* bytes that have arrived and were not read
  cut,        \* the writer's end is closed, or its process or connection gone
  failed,     \* a read has returned an error
  read,       \* the messages read
  values,     \* the fields read of the message being read
  reading,    \* what the next ReadFull is for: "sentinel", a field, or the
              \* "body" of a field whose length was read
  length      \* that length

vars == <<script, asked, written, wire, inbox, cut, failed, read, values, reading, length>>

First(kind) == IF kind = "WhatToDo" THEN "field" ELSE "sentinel"

Init ==
  /\ script \in Scripts
  /\ asked \in { [i \in DOMAIN s |-> s[i].kind] : s \in Scripts }
  /\ asked[1] = "WhatToDo" <=> script[1].kind = "WhatToDo"
  /\ written = 0 /\ wire = <<>> /\ inbox = <<>>
  /\ cut = FALSE /\ failed = FALSE
  /\ read = <<>> /\ values = <<>>
  /\ reading = First(asked[1]) /\ length = 0

(***************************************************************************)
(* The writer and the network.                                             *)
(***************************************************************************)
readerVars == <<inbox, failed, read, values, reading, length>>

Write ==
  /\ ~cut /\ written < Len(script)
  /\ written' = written + 1
  /\ wire' = wire \o Encode(script[written + 1])
  /\ UNCHANGED <<script, asked, cut, readerVars>>

\* The writer's last step returns and the stream is closed behind it.
Close ==
  /\ ~cut /\ written = Len(script)
  /\ cut' = TRUE
  /\ UNCHANGED <<script, asked, written, wire, readerVars>>

\* The connection or the writer is gone, with some of what was on its way.
Break ==
  /\ ~cut
  /\ cut' = TRUE
  /\ \E n \in 0 .. Len(wire) : wire' = SubSeq(wire, 1, n)
  /\ UNCHANGED <<script, asked, written, readerVars>>

Deliver ==
  /\ wire # <<>>
  /\ inbox' = Append(inbox, Head(wire)) /\ wire' = Tail(wire)
  /\ UNCHANGED <<script, asked, written, cut, failed, read, values, reading, length>>

(***************************************************************************)
(* The reader.                                                             *)
(***************************************************************************)
Kind == asked[Len(read) + 1]

Field == Layout(Kind)[Len(values) + 1]

\* How many bytes the next io.ReadFull is for.
Needed ==
  CASE reading = "sentinel" -> 1
    [] reading = "body"     -> length
    [] OTHER                -> Size(Field)

Reading == ~failed /\ Len(read) < Len(asked)

\* Seeded fault: Read in place of io.ReadFull; the buffer's rest stays zero.
TakeFault_Read(n) == n > 0 => inbox # <<>>

\* io.ReadFull returns with n bytes.
Take(n) == Len(inbox) >= n

\* The value of a field; its message is complete with the last one.
Got(value) ==
  /\ length' = 0
  /\ LET all == Append(values, value)
     IN  IF Len(all) = Len(Layout(Kind))
         THEN /\ read' = Append(read, Message(Kind, all))
              /\ values' = <<>>
              /\ reading' = "sentinel"
         ELSE /\ values' = all /\ reading' = "field"
              /\ UNCHANGED read

\* Seeded fault: the sentinel is skipped, not compared.
readSentinelFault_Skip(b) == TRUE

readSentinel(b) == <<b>> = Sentinel(Kind)

ReadFull ==
  /\ Reading /\ Take(Needed)
  /\ LET buf == [i \in 1 .. Needed |-> IF i <= Len(inbox) THEN inbox[i] ELSE 0]
     IN  \/ /\ reading = "sentinel" /\ ~readSentinel(buf[1])
            /\ failed' = TRUE
            /\ UNCHANGED <<read, values, reading, length>>
         \/ /\ reading = "sentinel" /\ readSentinel(buf[1])
            /\ IF Layout(Kind) = <<>>
               THEN read' = Append(read, Message(Kind, <<>>)) /\ UNCHANGED reading
               ELSE reading' = "field" /\ UNCHANGED read
            /\ UNCHANGED <<failed, values, length>>
         \/ /\ reading = "field" /\ Field = "bytes"
            /\ length' = Uint32(buf) /\ reading' = "body"
            /\ UNCHANGED <<failed, read, values>>
         \/ /\ reading = "body" \/ (reading = "field" /\ Field # "bytes")
            /\ Got(IF Field = "int" THEN Uint32(buf) ELSE buf)
            /\ UNCHANGED failed
  /\ inbox' = SubSeq(inbox, Needed + 1, Len(inbox))
  /\ UNCHANGED <<script, asked, written, wire, cut>>

\* Seeded fault: EOF is taken for "nothing yet".
ReadFailsFault_Retry ==
  /\ Reading /\ ~Take(Needed) /\ cut /\ wire = <<>>
  /\ UNCHANGED vars

\* EOF, or unexpected EOF after some of the bytes.
ReadFails ==
  /\ Reading /\ ~Take(Needed) /\ cut /\ wire = <<>>
  /\ failed' = TRUE
  /\ UNCHANGED <<script, asked, written, wire, inbox, cut, read, values, reading, length>>

Done == ~Reading /\ cut /\ UNCHANGED vars

Next == Write \/ Close \/ Break \/ Deliver \/ ReadFull \/ ReadFails \/ Done

Spec == Init /\ [][Next]_vars

\* The writer is a goroutine that runs, and so is the reader; a connection that
\* is up delivers.  Nothing makes a connection break.
FairSpec ==
  /\ Spec
  /\ WF_vars(Write) /\ WF_vars(Close) /\ WF_vars(Deliver)
  /\ WF_vars(ReadFull \/ ReadFails)

(***************************************************************************)
(* Properties.                                                             *)
(***************************************************************************)
\* However the bytes arrive, wherever the stream ends, and also if the reader
\* asks for the wrong kind: what was read is what was written, message by
\* message, none invented and nothing made of one that was cut off.
ReadAsWritten == Len(read) <= written /\ read = SubSeq(script, 1, Len(read))

InStep == Len(read) < Len(script) /\ Kind = script[Len(read) + 1].kind

\* The writers and the readers agree on every byte of the layout: a read of
\* the right kind fails only when its message has not arrived to its end.
FailsOnlyWhenCut ==
  failed /\ InStep =>
    LET m == Encode(script[Len(read) + 1])
    IN  \E from, to \in 0 .. Len(m) : to < Len(m) /\ inbox = SubSeq(m, from + 1, to)

\* No reader waits for ever: all it asked for was read, or it learns that the
\* stream has ended or is not what it asked for.
ReaderLearns == <>~Reading
=============================================================================
