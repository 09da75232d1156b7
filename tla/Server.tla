------------------------------- MODULE Server -------------------------------
(***************************************************************************)
(* The server process (Server/server.go) with several clients at a time:   *)
(* the start of main, one HandleStream goroutine per stream, the received/ *)
(* directory they share, and the ways the process ends.                    *)
(*                                                                         *)
(* A transfer moves chunk by chunk, as FileCopy allows; Transfer has its   *)
(* messages.  A file is a sequence of chunks: chunk k of client c's file   *)
(* is <<c, k>>.  A client and its handler share no step: each learns of    *)
(* the other by what it finds on their stream.                             *)
(***************************************************************************)
EXTENDS Naturals, Sequences

CONSTANTS
  Clients,
  Names,     \* of files, in received/
  MaxChunks, \* of a file
  Nil

Old == <<"old", 0>>   \* the chunk of a file that was there before

Hole == <<"hole", 0>> \* what a write beyond the end of a file leaves before it

Jobs == [method : {"GET"}, name : Names, chunks : {0}]
          \cup [method : {"POST"}, name : Names, chunks : 0 .. MaxChunks]
          \cup [method : {"other"}, name : Names, chunks : {0}]

ASSUME NilAssumption == Nil \notin Seq((Clients \X Nat) \cup {Old, Hole})

ASSUME BoundAssumption == MaxChunks \in Nat

VARIABLES
  main,     \* the server's main: what it has reached
  disk,     \* per name, the file's contents or Nil
  job,      \* per client, its command line
  client,   \* per client, its state
  stream,   \* per client, its stream as it finds it
  handler,  \* per client, the HandleStream of its stream
  pos,      \* per client, the offset of the handler's open file, in chunks
  mixed     \* history: clients whose file another session has also written
            \* since they created it, or had open when they did

fileVars == <<disk, job, pos, mixed>>
vars == <<main, client, stream, handler, fileVars>>

Source(c) == [k \in 1 .. job[c].chunks |-> <<c, k>>]

Up == {"listening", "announced", "serving"}

ClientEnded == {"done", "failed"}

HandlerEnded == {"none", "stored", "returned"}

\* The handler's file is open: it waits for a chunk, or has one to write.
Open == {"writing", "verifying"}

\* "asked": h.NewStream waits for the server's answer.  "finished": the server
\* has closed its end after the last message of the transfer; "closed": before.
Streams == {"none", "asked", "refused", "open", "finished", "closed", "lost"}

TypeOK ==
  /\ main \in Up \cup {"starting", "interrupted", "fatal"}
  /\ disk \in [Names -> Seq((Clients \X Nat) \cup {Old, Hole}) \cup {Nil}]
  /\ job \in [Clients -> Jobs]
  /\ client \in [Clients -> ClientEnded \cup {"idle", "connected", "opening", "streaming"}]
  /\ stream \in [Clients -> Streams]
  /\ handler \in [Clients -> HandlerEnded \cup Open \cup {"reading", "sending", "creating"}]
  /\ pos \in [Clients -> 0 .. MaxChunks]
  /\ mixed \in SUBSET Clients

Init ==
  /\ main = "starting"
  /\ disk \in [Names -> {Nil, <<Old>>}]
  /\ job \in [Clients -> Jobs]
  /\ client = [c \in Clients |-> "idle"]
  /\ stream = [c \in Clients |-> "none"]
  /\ handler = [c \in Clients |-> "none"]
  /\ pos = [c \in Clients |-> 0]
  /\ mixed = {}

(***************************************************************************)
(* main.                                                                   *)
(***************************************************************************)
\* Seeded fault: main does not wait for a signal.
MainFault_NoWait ==
  /\ \/ main = "starting" /\ main' = "listening"
     \/ main = "listening" /\ main' = "announced"
     \/ main = "announced" /\ main' = "serving"
     \/ main = "serving" /\ main' = "returned"
  /\ UNCHANGED <<client, stream, handler, fileVars>>

\* NewHost listens, the addresses are printed, the handler is registered.
Main ==
  /\ \/ main = "starting" /\ main' = "listening"
     \/ main = "listening" /\ main' = "announced"
     \/ main = "announced" /\ main' = "serving"
  /\ UNCHANGED <<client, stream, handler, fileVars>>

\* The process ends, with its handlers and connections; files stay as they are.
Down(reason) ==
  /\ main' = reason
  /\ handler' = [c \in Clients |-> IF handler[c] \in HandlerEnded
                                   THEN handler[c] ELSE "returned"]
  /\ stream' = [c \in Clients |-> IF stream[c] = "none" THEN "none" ELSE "lost"]

Interrupt ==
  /\ main \in Up
  /\ Down("interrupted")
  /\ UNCHANGED <<client, fileVars>>

(***************************************************************************)
(* A client.                                                               *)
(***************************************************************************)
\* h.Connect.  It may know the address from an earlier run of the server.
Dial(c) ==
  /\ client[c] = "idle" /\ main # "starting"
  /\ client' = [client EXCEPT ![c] = IF main \in Up THEN "connected" ELSE "failed"]
  /\ UNCHANGED <<main, stream, handler, fileVars>>

\* h.NewStream asks the server for a stream of the protocol ...
NewStream(c) ==
  /\ client[c] = "connected"
  /\ client' = [client EXCEPT ![c] = "opening"]
  /\ stream' = [stream EXCEPT ![c] = IF main \in Up THEN "asked" ELSE "lost"]
  /\ UNCHANGED <<main, handler, fileVars>>

\* ... whose host calls HandleStream in a goroutine of its own, or refuses as
\* long as no handler is registered ...
Answer(c) ==
  /\ main \in Up /\ stream[c] = "asked"
  /\ stream' = [stream EXCEPT ![c] = IF main = "serving" THEN "open" ELSE "refused"]
  /\ handler' = [handler EXCEPT ![c] = IF main = "serving" THEN "reading" ELSE "none"]
  /\ UNCHANGED <<main, client, fileVars>>

\* ... and returns.  RequestFile follows, or log.Fatal; a command that is
\* neither GET nor POST ends with the stream just opened.
Opened(c) ==
  /\ client[c] = "opening" /\ stream[c] # "asked"
  /\ client' = [client EXCEPT ![c] = IF stream[c] = "open" /\ job[c].method # "other"
                                     THEN "streaming" ELSE "failed"]
  /\ UNCHANGED <<main, stream, handler, fileVars>>

\* A POST of nothing ends with the header, a GET that was sent something with
\* the final ack: these are written before the server is done.
WritesLast(c) ==
  /\ stream[c] = "open"
  /\ \/ job[c].method = "POST" /\ job[c].chunks = 0
     \/ handler[c] = "sending"

\* SendFile or RecieveFile returns: all is done, or the stream has ended.
Returns(c) ==
  /\ client[c] = "streaming"
  /\ WritesLast(c) \/ stream[c] \in {"finished", "closed", "lost"}
  /\ client' = [client EXCEPT ![c] = IF stream[c] \in {"closed", "lost"} THEN "failed"
                                                                      ELSE "done"]
  /\ UNCHANGED <<main, stream, handler, fileVars>>

ClientStep(c) == NewStream(c) \/ Opened(c) \/ Returns(c)

\* By a fault, by a client that exits (a signal, an error of its file), or by
\* the h.Close() of one that is done.
ConnectionLost(c) ==
  /\ stream[c] \notin {"none", "lost"}
  /\ client[c] \notin ClientEnded \/ handler[c] \notin HandlerEnded
  /\ stream' = [stream EXCEPT ![c] = "lost"]
  /\ UNCHANGED <<main, client, handler, fileVars>>

(***************************************************************************)
(* HandleStream.                                                           *)
(***************************************************************************)
\* What a handler reads next arrives.
Arrives(c) == stream[c] = "open" /\ client[c] \in {"streaming", "done"}

\* Seeded fault: HandleStream closes its stream at its end and not on the way
\* out of an error.
ClosedFault_SuccessOnly(now, how) == IF now = "open" /\ how = "finished" THEN how ELSE now

\* The deferred s.Close().
Closed(now, how) == IF now = "lost" THEN now ELSE how

Ends(c, result, how) ==
  /\ handler' = [handler EXCEPT ![c] = result]
  /\ stream' = [stream EXCEPT ![c] = Closed(@, how)]

\* A read or write on the stream fails, or a file operation does, and
\* HandleStream returns.
HandlerFails(c) ==
  /\ handler[c] \notin HandlerEnded
  /\ \/ stream[c] = "lost" \/ client[c] = "failed"
     \/ handler[c] \in {"creating", "verifying", "sending"}
  /\ Ends(c, "returned", "closed")
  /\ UNCHANGED <<main, client, fileVars>>

\* SendFile: log.Fatal when the file cannot be opened.  Of an empty file only
\* the header is sent.
StartSend(c) ==
  /\ job[c].method = "GET"
  /\ handler[c] = "reading" /\ Arrives(c)
  /\ LET file == disk[job[c].name]
     IN  \/ file = Nil /\ Down("fatal")
         \/ file = <<>> /\ Ends(c, "returned", "finished") /\ UNCHANGED main
         \/ /\ file \notin {Nil, <<>>}
            /\ handler' = [handler EXCEPT ![c] = "sending"]
            /\ UNCHANGED <<main, stream>>
  /\ UNCHANGED <<client, fileVars>>

\* The client's final ack is read.
Sent(c) ==
  /\ handler[c] = "sending" /\ client[c] = "done" /\ Arrives(c)
  /\ Ends(c, "returned", "finished")
  /\ UNCHANGED <<main, client, fileVars>>

\* RecieveFile: the header has arrived.
StartReceive(c) ==
  /\ job[c].method = "POST"
  /\ handler[c] = "reading" /\ Arrives(c)
  /\ handler' = [handler EXCEPT ![c] = "creating"]
  /\ UNCHANGED <<main, client, stream, fileVars>>

\* The sessions other than c's that have the file of that name open.
Others(c) ==
  {d \in Clients \ {c} : job[d].name = job[c].name /\ handler[d] \in Open}

\* Sessions that had stored the file of that name.
StoredUnder(name) ==
  {d \in Clients : job[d].name = name /\ handler[d] = "stored"}

\* stepReceiverReceiveHeader: os.Create truncates a file that is there, under
\* another session's handle too.  A file without chunks is then finished, if
\* it can be closed.
Create(c) ==
  /\ handler[c] = "creating"
  /\ IF job[c].chunks = 0
     THEN Ends(c, "stored", "finished") \/ Ends(c, "returned", "closed")
     ELSE handler' = [handler EXCEPT ![c] = "writing"] /\ UNCHANGED stream
  /\ disk' = [disk EXCEPT ![job[c].name] = <<>>]
  /\ pos' = [pos EXCEPT ![c] = 0]
  /\ mixed' = (mixed \cup Others(c) \cup StoredUnder(job[c].name)
                 \cup (IF Others(c) # {} THEN {c} ELSE {}))
  /\ UNCHANGED <<main, job, client>>

\* The request for the next chunk is answered, and its key revealed.  What
\* follows no longer needs the client.
ReadChunk(c) ==
  /\ handler[c] = "writing" /\ pos[c] < job[c].chunks /\ Arrives(c)
  /\ handler' = [handler EXCEPT ![c] = "verifying"]
  /\ UNCHANGED <<main, client, stream, fileVars>>

\* Seeded faults: the file is opened for appending; the offset is not kept
\* by session but starts again at every chunk.
WriteAtFault_Append(file, k, chunk) == Append(file, chunk)

WriteAtFault_Start(file, k, chunk) ==
  IF file = <<>> THEN <<chunk>> ELSE [file EXCEPT ![1] = chunk]

\* A Write at an offset: what is there is overwritten, a gap is filled.
WriteAt(file, k, chunk) ==
  [i \in 1 .. (IF Len(file) < k THEN k ELSE Len(file)) |->
     IF i = k THEN chunk ELSE IF i <= Len(file) THEN file[i] ELSE Hole]

\* stepReceiverVerifyChunk.  A Write that fails may have written.
WriteChunk(c) ==
  LET k == pos[c] + 1
  IN  /\ handler[c] = "verifying" /\ k <= job[c].chunks
      /\ \/ handler' = [handler EXCEPT ![c] = "writing"] /\ UNCHANGED stream
         \/ Ends(c, "returned", "closed")
      /\ disk' = [disk EXCEPT ![job[c].name] = WriteAt(@, k, <<c, k>>)]
      /\ pos' = [pos EXCEPT ![c] = k]
      /\ mixed' = (mixed \cup StoredUnder(job[c].name) \cup Others(c))
      /\ UNCHANGED <<main, job, client>>

\* stepReceiverVerifyMerkle: the roots agree and the final ack is written,
\* which the client may still not get.
Store(c) ==
  /\ handler[c] = "writing" /\ pos[c] = job[c].chunks /\ Arrives(c)
  /\ Ends(c, "stored", "finished")
  /\ UNCHANGED <<main, client, fileVars>>

HandleStream(c) ==
  \/ StartSend(c) \/ Sent(c) \/ HandlerFails(c)
  \/ StartReceive(c) \/ Create(c) \/ ReadChunk(c) \/ WriteChunk(c) \/ Store(c)

\* Nothing is left to do.
Quiet ==
  /\ main \in {"serving", "interrupted", "fatal"}
  /\ \A c \in Clients : client[c] \in ClientEnded /\ handler[c] \in HandlerEnded
  /\ UNCHANGED vars

Next ==
  \/ Main \/ Interrupt \/ Quiet
  \/ \E c \in Clients : \/ Dial(c) \/ ClientStep(c) \/ Answer(c) \/ HandleStream(c)
                        \/ ConnectionLost(c)

Spec == Init /\ [][Next]_vars

\* main, the server's host, the clients and every HandleStream goroutine run
\* when they can.  Nothing is assumed of faults, signals and new clients.
FairSpec ==
  /\ Spec
  /\ WF_vars(Main)
  /\ \A c \in Clients :
       WF_vars(ClientStep(c)) /\ WF_vars(Answer(c)) /\ WF_vars(HandleStream(c))

(***************************************************************************)
(* Properties.                                                             *)
(***************************************************************************)
\* stepReceiverVerifyMerkle compares what was received, not what is on disk:
\* the file a finished POST leaves under received/ is the client's file as
\* long as no other session has created or written that name meanwhile,
\* whatever the sessions on other names do.
StoredIntact ==
  \A c \in Clients :
    handler[c] = "stored" /\ c \notin mixed => disk[job[c].name] = Source(c)

\* Two POSTs of one name at the same time mix their files, but every session
\* writes at its own offset (os.Create without O_APPEND): a chunk is never
\* shifted, so what is stored at a place came from that place of some file.
ChunksKeepTheirPlace ==
  \A n \in Names : disk[n] # Nil =>
    \A k \in DOMAIN disk[n] :
      disk[n][k] \in {Old, Hole} \/ disk[n][k] \in Clients \X {k}

\* No read or write of a client has a deadline, yet one that got through to
\* the server is not left hanging: not in the time before the handler is
\* registered, not by a handler that returns on an error, and not by another
\* client's session that ends the server.  It always finds its stream ended.
ClientsEnd == \A c \in Clients : client[c] = "connected" ~> client[c] \in ClientEnded

\* "Block until interrupted (Ctrl+C)" (server.go:118): nothing a client asks
\* for ends the server.
ServesUntilInterrupted == main # "fatal"
=============================================================================
