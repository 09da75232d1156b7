-------------------------- MODULE IntegrityProofs --------------------------
(***************************************************************************)
(* Proofs that a file arrives and is kept as it was sent.                  *)
(*                                                                         *)
(* About Server, for any number of clients at a time, any names and files  *)
(* of any length:                                                          *)
(*                                                                         *)
(*   1. what the sessions of a server leave in received/.                  *)
(*                                                                         *)
(* About BuildTree and Root_of_tree, for leaf lists of any length over any *)
(* leaves:                                                                 *)
(*                                                                         *)
(*   2. induction and iteration over the naturals;                         *)
(*   3. sequences;                                                         *)
(*   4. the layers of a tree;                                              *)
(*   5. the root binds the leaves;                                         *)
(*   6. the root is that of the filled-up list.                            *)
(***************************************************************************)
EXTENDS Server, MCMerkle, WellFoundedInduction, TLAPS

(***************************************************************************)
(* 1. The files in received/.                                              *)
(***************************************************************************)
Chunks == (Clients \X Nat) \cup {Old, Hole}

\* What a session has written so far.
Written(c) == [k \in 1 .. pos[c] |-> <<c, k>>]

\* A file that is open, or was stored, in a session nobody has interfered with
\* holds what the session has written, and all of it when it was stored.
Held(c) ==
  c \notin mixed /\ handler[c] \in Open \cup {"stored"} =>
    /\ disk[job[c].name] = Written(c)
    /\ handler[c] = "stored" => pos[c] = job[c].chunks

\* A file that is being written is there: nothing removes files.
Present(c) == handler[c] \in Open => disk[job[c].name] # Nil

Inv == TypeOK /\ ChunksKeepTheirPlace /\ \A c \in Clients : Held(c) /\ Present(c)

(***************************************************************************)
(* Files.                                                                  *)
(***************************************************************************)
\* A command line.
LEMMA JobTypes ==
  ASSUME TypeOK, NEW c \in Clients
  PROVE  /\ job[c].name \in Names /\ job[c].chunks \in 0 .. MaxChunks
         /\ job[c].chunks \in Nat /\ pos[c] \in 0 .. MaxChunks /\ pos[c] \in Nat
<1>1. job[c] \in Jobs /\ pos[c] \in 0 .. MaxChunks
  BY DEF TypeOK
<1>2. job[c].name \in Names /\ job[c].chunks \in {0} \cup 0 .. MaxChunks
  BY <1>1 DEF Jobs
<1> QED BY <1>1, <1>2, BoundAssumption

\* A Write at an offset, element by element.
LEMMA WriteAtFacts ==
  ASSUME NEW file \in Seq(Chunks), NEW c \in Clients, NEW k \in Nat \ {0}
  PROVE  LET new == WriteAt(file, k, <<c, k>>)
         IN  /\ new \in Seq(Chunks)
             /\ DOMAIN new = 1 .. (IF Len(file) < k THEN k ELSE Len(file))
             /\ \A i \in DOMAIN new :
                  new[i] = IF i = k THEN <<c, k>>
                           ELSE IF i \in DOMAIN file THEN file[i] ELSE Hole
<1> DEFINE n == IF Len(file) < k THEN k ELSE Len(file)
           new == WriteAt(file, k, <<c, k>>)
<1>1. n \in Nat /\ Len(file) \in Nat /\ DOMAIN file = 1 .. Len(file)
  OBVIOUS
<1>2. new = [i \in 1 .. n |-> IF i = k THEN <<c, k>>
                              ELSE IF i <= Len(file) THEN file[i] ELSE Hole]
  BY DEF WriteAt
<1>3. <<c, k>> \in Chunks /\ Hole \in Chunks
  BY DEF Chunks
<1> HIDE DEF n, new, Chunks
<1>4. \A i \in 1 .. n : new[i] = IF i = k THEN <<c, k>>
                                 ELSE IF i \in DOMAIN file THEN file[i] ELSE Hole
  BY <1>1, <1>2
<1>5. \A i \in 1 .. n : new[i] \in Chunks
  BY <1>1, <1>3, <1>4
<1>6. new \in [1 .. n -> Chunks]
  <2>1. \A i \in 1 .. n : (IF i = k THEN <<c, k>>
                           ELSE IF i <= Len(file) THEN file[i] ELSE Hole) \in Chunks
    BY ONLY <1>2, <1>5, Zenon
  <2> QED BY ONLY <1>2, <2>1, Zenon
<1>7. new \in Seq(Chunks)
  BY <1>1, <1>6
<1> QED BY <1>2, <1>4, <1>7, Zenon DEF n, new

\* The next chunk after those written so far.
LEMMA WriteNext ==
  ASSUME NEW c \in Clients, NEW n \in Nat
  PROVE  WriteAt([k \in 1 .. n |-> <<c, k>>], n + 1, <<c, n + 1>>)
           = [k \in 1 .. n + 1 |-> <<c, k>>]
<1> DEFINE file == [k \in 1 .. n |-> <<c, k>>]
<1>1. file \in Seq(Clients \X Nat) /\ Len(file) = n
  OBVIOUS
<1>2. (IF Len(file) < n + 1 THEN n + 1 ELSE Len(file)) = n + 1
  BY <1>1
<1>3. \A i \in 1 .. n + 1 :
        (IF i = n + 1 THEN <<c, n + 1>> ELSE IF i <= Len(file) THEN file[i] ELSE Hole)
          = <<c, i>>
  BY <1>1
<1> HIDE DEF file
<1> QED BY <1>2, <1>3 DEF WriteAt, file

(***************************************************************************)
(* The invariant.                                                          *)
(***************************************************************************)
LEMMA InitInv == Init => Inv
<1> SUFFICES ASSUME Init
             PROVE  Inv
  OBVIOUS
<1>1. \A n \in Names : disk[n] = Nil \/ disk[n] = <<Old>>
  BY DEF Init
<1>2. <<Old>> \in Seq(Chunks) /\ <<Old>>[1] = Old /\ DOMAIN <<Old>> = {1}
  BY DEF Chunks
<1>3. disk \in [Names -> Seq(Chunks) \cup {Nil}]
  BY <1>2, Zenon DEF Init
<1>4. pos \in [Clients -> 0 .. MaxChunks]
  BY BoundAssumption DEF Init
<1>5. TypeOK
  BY <1>3, <1>4, Zenon DEF Init, TypeOK, HandlerEnded, ClientEnded, Up, Streams, Chunks
<1>6. ChunksKeepTheirPlace
  BY <1>1, <1>2, Zenon DEF ChunksKeepTheirPlace
<1>7. \A c \in Clients : handler[c] = "none" /\ "none" \notin Open \cup {"stored"}
  BY DEF Init, Open
<1>8. \A c \in Clients : Held(c) /\ Present(c)
  BY <1>7, Zenon DEF Held, Present
<1> QED BY <1>5, <1>6, <1>8 DEF Inv

\* What an action that neither creates nor writes a file does to it.
LeavesFiles == UNCHANGED <<disk, job, pos, mixed>>

\* Down, seen from one handler.
LEMMA DownHandler ==
  ASSUME TypeOK, NEW reason, Down(reason), NEW c \in Clients
  PROVE  handler'[c] \in {handler[c], "returned"}
BY Zenon DEF TypeOK, Down

\* The actions that create or write a file, or keep it.
LEMMA FileActions ==
  ASSUME Next
  PROVE  \/ LeavesFiles
         \/ \E c \in Clients : Create(c) \/ WriteChunk(c)
BY Zenon DEF Next, LeavesFiles, fileVars, vars, Main, Interrupt, Quiet, Dial, ClientStep,
             NewStream, Opened, Returns, Answer, ConnectionLost, HandleStream,
             StartSend, Sent, HandlerFails, StartReceive, ReadChunk, Store

\* A step that neither creates nor writes a file leaves a handler as it is,
\* has it go on with a chunk, stores what it has written, or takes it away from
\* its file.
LEMMA HandlerStep ==
  ASSUME TypeOK, Next, NEW d \in Clients,
         \A c \in Clients : ~ Create(c) /\ ~ WriteChunk(c)
  PROVE  \/ handler'[d] = handler[d]
         \/ handler[d] = "writing" /\ handler'[d] = "verifying"
         \/ handler[d] = "writing" /\ handler'[d] = "stored" /\ pos[d] = job[d].chunks
         \/ handler'[d] \notin {"writing", "verifying", "stored"}
<1>1. CASE Main \/ Quiet
  BY <1>1 DEF Main, Quiet, vars
<1>2. CASE Interrupt
  BY <1>2, DownHandler DEF Interrupt
<1>3. ASSUME NEW c \in Clients, Dial(c) \/ ClientStep(c) \/ ConnectionLost(c)
      PROVE  handler'[d] = handler[d]
  BY <1>3 DEF Dial, ClientStep, NewStream, Opened, Returns, ConnectionLost
<1>4. ASSUME NEW c \in Clients,
             Answer(c) \/ StartReceive(c) \/ Sent(c) \/ HandlerFails(c)
      PROVE  handler'[d] = handler[d] \/ handler'[d] \notin {"writing", "verifying", "stored"}
  <2>1. \E s \in {"reading", "none", "creating", "returned"} :
          handler' = [handler EXCEPT ![c] = s]
    BY <1>4 DEF Answer, StartReceive, Sent, HandlerFails, Ends
  <2> QED BY <2>1 DEF TypeOK
<1>5. ASSUME NEW c \in Clients, StartSend(c)
      PROVE  handler'[d] = handler[d] \/ handler'[d] \notin {"writing", "verifying", "stored"}
  <2>1. CASE Down("fatal")
    BY <2>1, DownHandler
  <2>2. CASE \E s \in {"sending", "returned"} : handler' = [handler EXCEPT ![c] = s]
    BY <2>2 DEF TypeOK
  <2> QED BY <1>5, <2>1, <2>2 DEF StartSend, Ends
<1>6. ASSUME NEW c \in Clients, Store(c)
      PROVE  \/ handler'[d] = handler[d]
             \/ handler[d] = "writing" /\ handler'[d] = "stored" /\ pos[d] = job[d].chunks
  BY <1>6 DEF Store, Ends, TypeOK
<1>7. ASSUME NEW c \in Clients, ReadChunk(c)
      PROVE  \/ handler'[d] = handler[d]
             \/ handler[d] = "writing" /\ handler'[d] = "verifying"
  BY <1>7 DEF ReadChunk, TypeOK
<1> QED BY <1>1, <1>2, <1>3, <1>4, <1>5, <1>6, <1>7 DEF Next, HandleStream

\* The states a session's client, stream and handler go through.
LEMMA SessionTypes ==
  ASSUME TypeOK, Next
  PROVE  /\ main' \in Up \cup {"starting", "interrupted", "fatal"}
         /\ client' \in [Clients -> ClientEnded
                                      \cup {"idle", "connected", "opening", "streaming"}]
         /\ stream' \in [Clients -> Streams]
         /\ handler' \in [Clients -> HandlerEnded \cup Open
                                       \cup {"reading", "sending", "creating"}]
         /\ job' \in [Clients -> Jobs]
<1> DEFINE M == Up \cup {"starting", "interrupted", "fatal"}
           C == ClientEnded \cup {"idle", "connected", "opening", "streaming"}
           H == HandlerEnded \cup Open \cup {"reading", "sending", "creating"}
           Types == /\ main' \in M /\ client' \in [Clients -> C]
                    /\ stream' \in [Clients -> Streams] /\ handler' \in [Clients -> H]
<1>1. /\ main \in M /\ client \in [Clients -> C]
      /\ stream \in [Clients -> Streams] /\ handler \in [Clients -> H]
  BY DEF TypeOK
<1>2. /\ {"listening", "announced", "serving", "interrupted", "fatal"} \subseteq M
      /\ {"failed", "connected", "opening", "streaming", "done"} \subseteq C
      /\ {"reading", "none", "returned", "sending", "creating", "writing", "verifying",
          "stored"} \subseteq H
      /\ {"none", "asked", "refused", "open", "finished", "closed", "lost"} \subseteq Streams
  BY DEF Up, ClientEnded, HandlerEnded, Open, Streams
<1> HIDE DEF M, C, H
<1>3. ASSUME NEW reason \in {"interrupted", "fatal"}, Down(reason), client' = client
      PROVE  Types
  BY <1>1, <1>2, <1>3 DEF Down
<1>4. ASSUME Main \/ Interrupt \/ Quiet
      PROVE  Types
  BY <1>1, <1>2, <1>3, <1>4 DEF Main, Interrupt, Quiet, vars
<1>5. ASSUME NEW c \in Clients, Dial(c) \/ ClientStep(c)
      PROVE  Types
  BY <1>1, <1>2, <1>5 DEF Dial, ClientStep, NewStream, Opened, Returns
<1>6. ASSUME NEW c \in Clients, Answer(c) \/ ConnectionLost(c)
      PROVE  Types
  BY <1>1, <1>2, <1>6 DEF Answer, ConnectionLost
<1>7. ASSUME NEW c \in Clients, NEW result \in {"returned", "stored"},
             NEW how \in {"finished", "closed"}, Ends(c, result, how),
             main' = main, client' = client
      PROVE  Types
  <2>1. stream' = [stream EXCEPT ![c] = Closed(stream[c], how)]
    BY <1>7 DEF Ends
  <2>2. Closed(stream[c], how) \in Streams
    BY <1>1, <1>2 DEF Closed
  <2>3. stream' \in [Clients -> Streams]
    BY <1>1, <2>1, <2>2
  <2>4. handler' \in [Clients -> H]
    BY <1>1, <1>2, <1>7 DEF Ends
  <2> QED BY <1>1, <1>7, <2>3, <2>4
<1>8. ASSUME NEW c \in Clients, HandleStream(c)
      PROVE  Types
  <2>1. ASSUME NEW s \in {"sending", "creating", "writing", "verifying"},
               handler' = [handler EXCEPT ![c] = s], UNCHANGED <<main, client, stream>>
        PROVE  Types
    BY <1>1, <1>2, <2>1
  <2> HIDE DEF Types
  <2>2. CASE StartSend(c)
    BY <1>3, <1>7, <2>1, <2>2, Zenon DEF StartSend
  <2>3. CASE StartReceive(c) \/ ReadChunk(c)
    BY <2>1, <2>3, Zenon DEF StartReceive, ReadChunk
  <2>4. CASE Create(c) \/ WriteChunk(c)
    BY <1>7, <2>1, <2>4, Zenon DEF Create, WriteChunk
  <2>5. CASE Store(c) \/ Sent(c) \/ HandlerFails(c)
    BY <1>7, <2>5, Zenon DEF Store, Sent, HandlerFails
  <2> QED BY <1>8, <2>2, <2>3, <2>4, <2>5, Zenon DEF HandleStream
<1>9. Types
  <2> HIDE DEF Types
  <2> QED BY <1>4, <1>5, <1>6, <1>8, Zenon DEF Next
<1>10. job' = job
  <2>1. ASSUME NEW c \in Clients, Create(c) \/ WriteChunk(c)
        PROVE  job' = job
    BY <2>1 DEF Create, WriteChunk
  <2> QED BY FileActions, <2>1 DEF LeavesFiles
<1> QED BY <1>9, <1>10 DEF M, C, H, TypeOK

\* One file replaced by another of its kind.
LEMMA ReplaceFile ==
  ASSUME TypeOK, ChunksKeepTheirPlace, NEW name \in Names, NEW new \in Seq(Chunks),
         \A k \in DOMAIN new : new[k] \in {Old, Hole} \/ new[k] \in Clients \X {k},
         disk' = [disk EXCEPT ![name] = new]
  PROVE  /\ disk' \in [Names -> Seq(Chunks) \cup {Nil}]
         /\ ChunksKeepTheirPlace'
         /\ disk'[name] = new /\ new # Nil
         /\ \A n \in Names : n # name => disk'[n] = disk[n]
<1>1. disk \in [Names -> Seq(Chunks) \cup {Nil}]
  BY DEF TypeOK, Chunks
<1>2. disk' \in [Names -> Seq(Chunks) \cup {Nil}]
  BY <1>1
<1>3. disk'[name] = new /\ \A n \in Names : n # name => disk'[n] = disk[n]
  BY <1>1
<1>4. new # Nil
  BY NilAssumption DEF Chunks
<1>5. ChunksKeepTheirPlace'
  <2> SUFFICES ASSUME NEW n \in Names, disk'[n] # Nil, NEW k \in DOMAIN disk'[n]
               PROVE  disk'[n][k] \in {Old, Hole} \/ disk'[n][k] \in Clients \X {k}
    BY Zenon DEF ChunksKeepTheirPlace
  <2>1. CASE n = name
    <3>1. disk'[n] = new
      BY <1>3, <2>1, Zenon
    <3>2. k \in DOMAIN new
      BY <3>1, Zenon
    <3> QED BY <3>1, <3>2, Zenon
  <2>2. CASE n # name
    <3>1. disk'[n] = disk[n]
      BY <1>3, <2>2, Zenon
    <3>2. disk[n] # Nil /\ k \in DOMAIN disk[n]
      BY <3>1, Zenon
    <3> QED BY <3>1, <3>2, Zenon DEF ChunksKeepTheirPlace
  <2> QED BY <2>1, <2>2
<1> QED BY <1>2, <1>3, <1>4, <1>5

\* os.Create.
LEMMA CreateStep ==
  ASSUME Inv, NEW c \in Clients, Create(c)
  PROVE  /\ disk' \in [Names -> Seq(Chunks) \cup {Nil}]
         /\ pos' \in [Clients -> 0 .. MaxChunks]
         /\ mixed' \in SUBSET Clients
         /\ ChunksKeepTheirPlace'
         /\ \A d \in Clients : Held(d)' /\ Present(d)'
<1>1. TypeOK /\ ChunksKeepTheirPlace /\ \A d \in Clients : Held(d) /\ Present(d)
  BY DEF Inv
<1> DEFINE name == job[c].name
<1>2. \A d \in Clients : job[d].name \in Names
  BY <1>1, JobTypes, Zenon
<1>3. <<>> \in Seq(Chunks) /\ DOMAIN <<>> = {}
  OBVIOUS
<1>4. disk' = [disk EXCEPT ![name] = <<>>] /\ job' = job
  BY DEF Create
<1>5. /\ disk' \in [Names -> Seq(Chunks) \cup {Nil}]
      /\ ChunksKeepTheirPlace'
      /\ disk'[name] = <<>> /\ <<>> # Nil
      /\ \A n \in Names : n # name => disk'[n] = disk[n]
  BY <1>1, <1>2, <1>3, <1>4, ReplaceFile, Zenon
<1>6. pos' = [pos EXCEPT ![c] = 0] /\ pos \in [Clients -> 0 .. MaxChunks]
  BY <1>1 DEF Create, TypeOK
<1>7. /\ pos' \in [Clients -> 0 .. MaxChunks] /\ pos'[c] = 0
      /\ \A d \in Clients : d # c => pos'[d] = pos[d]
  BY <1>6, BoundAssumption
<1>8. /\ \/ handler'[c] \in {"writing", "returned"}
         \/ handler'[c] = "stored" /\ job[c].chunks = 0
      /\ \A d \in Clients : d # c => handler'[d] = handler[d]
  BY <1>1 DEF Create, Ends, TypeOK
<1>9. mixed' \in SUBSET Clients /\ mixed \subseteq mixed'
  BY <1>1 DEF Create, TypeOK, Others, StoredUnder
<1>10. ASSUME NEW d \in Clients, d # c, job[d].name = name,
              handler[d] \in Open \cup {"stored"}
       PROVE  d \in mixed'
  BY <1>10 DEF Create, Others, StoredUnder
<1>11. ASSUME NEW d \in Clients
       PROVE  Held(d)' /\ Present(d)'
  <2>1. CASE d = c
    <3>1. Written(c)' = <<>>
      BY <1>7 DEF Written
    <3> QED BY <1>4, <1>5, <1>7, <1>8, <2>1, <3>1 DEF Held, Present, Open
  <2>2. CASE d # c /\ job[d].name = name
    BY <1>4, <1>5, <1>8, <1>10, <2>2, Zenon DEF Held, Present
  <2>3. CASE d # c /\ job[d].name # name
    <3>1. disk'[job'[d].name] = disk[job[d].name] /\ Written(d)' = Written(d)
      BY <1>2, <1>4, <1>5, <1>7, <2>3 DEF Written
    <3>2. handler'[d] = handler[d] /\ pos'[d] = pos[d] /\ job'[d] = job[d]
      BY <1>4, <1>7, <1>8, <2>3
    <3>3. Held(d) /\ Present(d) /\ (d \in mixed => d \in mixed')
      BY <1>1, <1>9
    <3> QED BY <3>1, <3>2, <3>3, Zenon DEF Held, Present
  <2> QED BY <2>1, <2>2, <2>3
<1> QED BY <1>5, <1>7, <1>9, <1>11

\* A verified chunk is written.
LEMMA WriteStep ==
  ASSUME Inv, NEW c \in Clients, WriteChunk(c)
  PROVE  /\ disk' \in [Names -> Seq(Chunks) \cup {Nil}]
         /\ pos' \in [Clients -> 0 .. MaxChunks]
         /\ mixed' \in SUBSET Clients
         /\ ChunksKeepTheirPlace'
         /\ \A d \in Clients : Held(d)' /\ Present(d)'
<1>1. TypeOK /\ ChunksKeepTheirPlace /\ \A d \in Clients : Held(d) /\ Present(d)
  BY DEF Inv
<1> DEFINE name == job[c].name
           k == pos[c] + 1
           file == disk[name]
           new == WriteAt(file, k, <<c, k>>)
<1>2. \A d \in Clients : job[d].name \in Names
  BY <1>1, JobTypes, Zenon
<1>3. k \in 0 .. MaxChunks /\ k \in Nat \ {0} /\ pos[c] \in Nat
  BY <1>1, JobTypes, BoundAssumption DEF WriteChunk
<1>4. /\ disk' = [disk EXCEPT ![name] = new] /\ job' = job
      /\ pos' = [pos EXCEPT ![c] = k] /\ handler[c] \in Open
  <2>1. disk' = [disk EXCEPT ![name] = WriteAt(@, k, <<c, k>>)]
    BY DEF WriteChunk
  <2>2. /\ job' = job /\ pos' = [pos EXCEPT ![c] = k] /\ handler[c] \in Open
    BY DEF WriteChunk, Open
  <2> QED BY <2>1, <2>2, Zenon
<1>5. file \in Seq(Chunks)
  BY <1>1, <1>2, <1>4 DEF TypeOK, Present, Chunks
<1>6. /\ new \in Seq(Chunks)
      /\ \A i \in DOMAIN new :
           new[i] = IF i = k THEN <<c, k>> ELSE IF i \in DOMAIN file THEN file[i] ELSE Hole
  <2> HIDE DEF k, file
  <2> QED BY <1>3, <1>5, WriteAtFacts
<1>7. \A i \in DOMAIN file : file[i] \in {Old, Hole} \/ file[i] \in Clients \X {i}
  BY <1>1, <1>2, <1>4, Zenon DEF ChunksKeepTheirPlace, Present
<1>8. \A i \in DOMAIN new : new[i] \in {Old, Hole} \/ new[i] \in Clients \X {i}
  <2> HIDE DEF k, file, new
  <2> QED BY <1>6, <1>7
<1> HIDE DEF new, file, k
<1>9. /\ disk' \in [Names -> Seq(Chunks) \cup {Nil}]
      /\ ChunksKeepTheirPlace'
      /\ disk'[name] = new /\ new # Nil
      /\ \A n \in Names : n # name => disk'[n] = disk[n]
  <2>1. name \in Names /\ new \in Seq(Chunks) /\ disk' = [disk EXCEPT ![name] = new]
    BY <1>2, <1>4, <1>6, Zenon
  <2> HIDE DEF name
  <2> QED BY ONLY <1>1, <1>8, <2>1, ReplaceFile, Zenon
<1>10. /\ pos' \in [Clients -> 0 .. MaxChunks] /\ pos'[c] = k
       /\ \A d \in Clients : d # c => pos'[d] = pos[d]
  BY <1>1, <1>3, <1>4 DEF TypeOK
<1>11. /\ handler'[c] \in {"writing", "returned"}
       /\ \A d \in Clients : d # c => handler'[d] = handler[d]
  BY <1>1 DEF WriteChunk, Ends, TypeOK
<1>12. mixed' \in SUBSET Clients /\ mixed \subseteq mixed'
  BY <1>1 DEF WriteChunk, TypeOK, Others, StoredUnder
<1>13. ASSUME NEW d \in Clients, d # c, job[d].name = name,
              handler[d] \in Open \cup {"stored"}
       PROVE  d \in mixed'
  BY <1>13 DEF WriteChunk, Others, StoredUnder
<1>14. c \notin mixed' => new = Written(c)'
  <2>1. SUFFICES ASSUME c \notin mixed'
                 PROVE  new = Written(c)'
    OBVIOUS
  <2>2. file = [j \in 1 .. pos[c] |-> <<c, j>>]
    BY <1>1, <1>4, <1>12, <2>1 DEF Held, Written, file
  <2>3. new = [j \in 1 .. pos[c] + 1 |-> <<c, j>>]
    BY <1>3, <2>2, WriteNext, Zenon DEF new, k
  <2> QED BY <1>10, <2>3 DEF Written, k
<1>15. ASSUME NEW d \in Clients
       PROVE  Held(d)' /\ Present(d)'
  <2>1. CASE d = c
    BY <1>4, <1>9, <1>11, <1>14, <2>1 DEF Held, Present, Open
  <2>2. CASE d # c /\ job[d].name = name
    BY <1>4, <1>9, <1>11, <1>13, <2>2, Zenon DEF Held, Present
  <2>3. CASE d # c /\ job[d].name # name
    <3>1. disk'[job'[d].name] = disk[job[d].name] /\ Written(d)' = Written(d)
      BY <1>2, <1>4, <1>9, <1>10, <2>3 DEF Written
    <3>2. handler'[d] = handler[d] /\ pos'[d] = pos[d] /\ job'[d] = job[d]
      BY <1>4, <1>10, <1>11, <2>3
    <3>3. Held(d) /\ Present(d) /\ (d \in mixed => d \in mixed')
      BY <1>1, <1>12
    <3> QED BY <3>1, <3>2, <3>3, Zenon DEF Held, Present
  <2> QED BY <2>1, <2>2, <2>3
<1> QED BY <1>9, <1>10, <1>12, <1>15

\* Every step keeps the invariant.
LEMMA NextInv == Inv /\ [Next]_vars => Inv'
<1> SUFFICES ASSUME Inv, [Next]_vars
             PROVE  Inv'
  OBVIOUS
<1>1. TypeOK /\ ChunksKeepTheirPlace /\ \A d \in Clients : Held(d) /\ Present(d)
  BY DEF Inv
<1>2. CASE UNCHANGED vars
  BY <1>1, <1>2, Zenon DEF Inv, TypeOK, ChunksKeepTheirPlace, Held, Present, Written,
                         vars, fileVars
<1>3. CASE Next
  <2>1. ASSUME LeavesFiles, \A c \in Clients : ~ Create(c) /\ ~ WriteChunk(c)
        PROVE  /\ disk' \in [Names -> Seq(Chunks) \cup {Nil}]
               /\ pos' \in [Clients -> 0 .. MaxChunks]
               /\ mixed' \in SUBSET Clients
               /\ ChunksKeepTheirPlace'
               /\ \A d \in Clients : Held(d)' /\ Present(d)'
    <3>1. disk' = disk /\ job' = job /\ pos' = pos /\ mixed' = mixed
      BY <2>1 DEF LeavesFiles
    <3>2. ASSUME NEW d \in Clients
          PROVE  Held(d)' /\ Present(d)'
      <4>1. Written(d)' = Written(d)
        BY <3>1 DEF Written
      <4>2. \/ handler'[d] = handler[d]
            \/ handler[d] = "writing" /\ handler'[d] = "verifying"
            \/ handler[d] = "writing" /\ handler'[d] = "stored" /\ pos[d] = job[d].chunks
            \/ handler'[d] \notin {"writing", "verifying", "stored"}
        BY <1>1, <1>3, <2>1, HandlerStep
      <4> QED BY <1>1, <3>1, <4>1, <4>2 DEF Held, Present, Open
    <3>3. ChunksKeepTheirPlace'
      BY <1>1, <3>1 DEF ChunksKeepTheirPlace
    <3> QED BY <1>1, <3>1, <3>2, <3>3 DEF TypeOK, Chunks
  <2>2. /\ disk' \in [Names -> Seq(Chunks) \cup {Nil}]
        /\ pos' \in [Clients -> 0 .. MaxChunks]
        /\ mixed' \in SUBSET Clients
        /\ ChunksKeepTheirPlace'
        /\ \A d \in Clients : Held(d)' /\ Present(d)'
    BY <1>3, <2>1, FileActions, CreateStep, WriteStep, Zenon
  <2>3. TypeOK'
    BY <1>1, <1>3, <2>2, SessionTypes DEF TypeOK, Chunks
  <2> QED BY <2>2, <2>3 DEF Inv
<1> QED BY <1>2, <1>3

\* The inductive invariant holds throughout, with any number of clients that
\* come, go and share names, and whenever the server ends.
THEOREM InvTheorem == Spec => []Inv
<1> QED BY InitInv, NextInv, PTL DEF Spec

\* The variables of the server, its clients and their handlers stay in their
\* types: main only ever waits, or ends by a signal or by log.Fatal.
THEOREM TypeTheorem == Spec => []TypeOK
<1>1. Inv => TypeOK
  BY DEF Inv
<1> QED BY <1>1, InvTheorem, PTL

\* The file a finished POST leaves in received/ is the client's, chunk for
\* chunk, unless another session has created or written that name meanwhile.
THEOREM StoredIntactTheorem == Spec => []StoredIntact
<1>1. Inv => StoredIntact
  <2> SUFFICES ASSUME Inv, NEW c \in Clients, handler[c] = "stored", c \notin mixed
               PROVE  disk[job[c].name] = Source(c)
    BY DEF StoredIntact
  <2>1. disk[job[c].name] = Written(c) /\ pos[c] = job[c].chunks
    BY DEF Inv, Held
  <2> QED BY <2>1 DEF Written, Source
<1> QED BY <1>1, InvTheorem, PTL

\* However the sessions on one name interleave, a chunk is stored at the place
\* it has in some client's file.
THEOREM ChunksKeepTheirPlaceTheorem == Spec => []ChunksKeepTheirPlace
<1>1. Inv => ChunksKeepTheirPlace
  BY DEF Inv
<1> QED BY <1>1, InvTheorem, PTL

(***************************************************************************)
(* 2. Induction, in terms of sets: a property of every layer is the set of *)
(*    the layers that have it.                                             *)
(***************************************************************************)
\* A set of naturals has a least element.
LEMMA Least ==
  ASSUME NEW T \in SUBSET Nat, T # {}
  PROVE  \E n \in T : \A m \in T : n <= m
<1>1. \E x \in T : \A y \in T : ~ (<<y, x>> \in OpToRel(<, Nat))
  BY NatLessThanWellFounded, WFMin, Zenon
<1>2. ASSUME NEW x \in Nat, NEW y \in Nat, y < x
      PROVE  <<y, x>> \in OpToRel(<, Nat)
  <2>1. <<y, x>> \in Nat \X Nat /\ <<y, x>>[1] = y /\ <<y, x>>[2] = x
    OBVIOUS
  <2> QED BY <1>2, <2>1, Zenon DEF OpToRel
<1>3. PICK x \in T : \A y \in T : ~ (<<y, x>> \in OpToRel(<, Nat))
  BY <1>1
<1>4. \A y \in T : ~ (y < x)
  BY <1>2, <1>3, Zenon
<1> QED BY <1>4

\* A set with 0 and every successor of its elements has all naturals.
LEMMA InductionSet ==
  ASSUME NEW T \in SUBSET Nat, 0 \in T, \A n \in T : n + 1 \in T
  PROVE  T = Nat
<1>1. ASSUME Nat \ T # {}
      PROVE  FALSE
  <2>1. PICK n \in Nat \ T : \A m \in Nat \ T : n <= m
    BY <1>1, Least, Zenon
  <2>2. n # 0 /\ n - 1 \in Nat
    OBVIOUS
  <2>3. n - 1 \in T
    BY <2>1, <2>2
  <2> QED BY <2>2, <2>3
<1> QED BY <1>1, Zenon

\* The first n + 1 values of the iteration of a step.
Iterates(S, init, step, n) ==
  {g \in [0 .. n -> S] : g[0] = init /\ \A k \in 0 .. n : k < n => g[k + 1] = step[g[k]]}

\* There are such values, for every n.
LEMMA IteratesExist ==
  ASSUME NEW S, NEW init \in S, NEW step \in [S -> S], NEW n \in Nat
  PROVE  Iterates(S, init, step, n) # {}
<1> DEFINE T == {m \in Nat : Iterates(S, init, step, m) # {}}
<1>1. 0 \in T
  <2> DEFINE g == [k \in 0 .. 0 |-> init]
  <2>1. g \in Iterates(S, init, step, 0)
    BY DEF Iterates
  <2> QED BY <2>1
<1>2. ASSUME NEW m \in T
      PROVE  m + 1 \in T
  <2>1. PICK g \in Iterates(S, init, step, m) : TRUE
    BY <1>2
  <2>2. /\ g \in [0 .. m -> S] /\ g[0] = init
        /\ \A k \in 0 .. m : k < m => g[k + 1] = step[g[k]]
    BY <2>1 DEF Iterates
  <2> DEFINE h == [k \in 0 .. m + 1 |-> IF k = m + 1 THEN step[g[m]] ELSE g[k]]
  <2>3. g[m] \in S /\ step[g[m]] \in S
    BY <2>2
  <2>4. \A k \in 0 .. m + 1 : k # m + 1 => k \in 0 .. m
    OBVIOUS
  <2>5. h \in [0 .. m + 1 -> S]
    BY <2>2, <2>3, <2>4
  <2>6. h[0] = init
    BY <2>2
  <2>7. ASSUME NEW k \in 0 .. m + 1, k < m + 1
        PROVE  h[k + 1] = step[h[k]]
    <3>1. h[k] = g[k] /\ k \in 0 .. m
      BY <2>7
    <3>2. CASE k = m
      BY <3>1, <3>2
    <3>3. CASE k # m
      <4>1. k < m /\ k + 1 # m + 1 /\ k + 1 \in 0 .. m + 1
        BY <2>7, <3>3
      <4>2. h[k + 1] = g[k + 1]
        BY <4>1
      <4> QED BY <2>2, <3>1, <4>1, <4>2
    <3> QED BY <3>2, <3>3
  <2> HIDE DEF h
  <2>8. h \in Iterates(S, init, step, m + 1)
    BY <2>5, <2>6, <2>7 DEF Iterates
  <2> QED BY <2>8
<1>3. T = Nat
  <2> HIDE DEF T
  <2>1. T \in SUBSET Nat
    BY DEF T
  <2> QED BY <1>1, <1>2, <2>1, InductionSet
<1> QED BY <1>3

\* Two of them agree as far as both go.
LEMMA IteratesAgree ==
  ASSUME NEW S, NEW init \in S, NEW step \in [S -> S], NEW m \in Nat, NEW n \in Nat,
         NEW g \in Iterates(S, init, step, m), NEW h \in Iterates(S, init, step, n),
         NEW k \in Nat, k <= m, k <= n
  PROVE  g[k] = h[k]
<1> DEFINE T == {i \in Nat : i <= m /\ i <= n => g[i] = h[i]}
<1>1. /\ g[0] = init /\ h[0] = init
      /\ \A i \in 0 .. m : i < m => g[i + 1] = step[g[i]]
      /\ \A i \in 0 .. n : i < n => h[i + 1] = step[h[i]]
  BY DEF Iterates
<1>2. 0 \in T
  BY <1>1
<1>3. ASSUME NEW i \in T
      PROVE  i + 1 \in T
  <2>1. ASSUME i + 1 <= m, i + 1 <= n
        PROVE  g[i + 1] = h[i + 1]
    <3>1. i \in 0 .. m /\ i < m /\ i \in 0 .. n /\ i < n /\ g[i] = h[i]
      BY <1>3, <2>1
    <3> QED BY <1>1, <3>1
  <2> QED BY <2>1
<1>4. T = Nat
  <2> HIDE DEF T
  <2>1. T \in SUBSET Nat
    BY DEF T
  <2> QED BY <1>2, <1>3, <2>1, InductionSet
<1> QED BY <1>4

\* The steps of a set into itself, and what comes of one taken again and again.
Steps(S) == [S -> S]

Iterations(S, init, step) ==
  {f \in [Nat -> S] : f[0] = init /\ \A n \in Nat : f[n + 1] = step[f[n]]}

\* A step of a set into itself can be iterated for ever.
LEMMA Iteration ==
  ASSUME NEW S, NEW init \in S, NEW step \in Steps(S)
  PROVE  Iterations(S, init, step) # {}
<1> USE DEF Steps
<1> DEFINE G(n) == CHOOSE g \in Iterates(S, init, step, n) : TRUE
           f == [n \in Nat |-> G(n)[n]]
<1>1. ASSUME NEW n \in Nat
      PROVE  G(n) \in Iterates(S, init, step, n)
  BY IteratesExist, Zenon
<1>2. ASSUME NEW n \in Nat
      PROVE  /\ G(n) \in [0 .. n -> S] /\ G(n)[0] = init
             /\ \A k \in 0 .. n : k < n => G(n)[k + 1] = step[G(n)[k]]
  BY <1>1, Zenon DEF Iterates
<1> HIDE DEF G
<1>3. f \in [Nat -> S]
  <2>1. ASSUME NEW n \in Nat
        PROVE  G(n)[n] \in S
    BY <1>2
  <2> QED BY <2>1
<1>4. f[0] = init
  BY <1>2
<1>5. ASSUME NEW n \in Nat
      PROVE  f[n + 1] = step[f[n]]
  <2>1. n \in 0 .. n + 1 /\ n < n + 1 /\ n + 1 \in Nat /\ n <= n
    OBVIOUS
  <2>2. G(n + 1)[n + 1] = step[G(n + 1)[n]]
    BY <1>2, <2>1
  <2>3. G(n + 1)[n] = G(n)[n]
    <3>1. G(n) \in Iterates(S, init, step, n) /\ G(n + 1) \in Iterates(S, init, step, n + 1)
      BY <1>1
    <3>2. n <= n + 1
      OBVIOUS
    <3> QED BY <2>1, <3>1, <3>2, IteratesAgree
  <2> QED BY <2>1, <2>2, <2>3
<1> HIDE DEF f
<1>6. f \in Iterations(S, init, step)
  BY <1>3, <1>4, <1>5 DEF Iterations
<1> QED BY <1>6

(***************************************************************************)
(* 3. Sequences.                                                           *)
(***************************************************************************)
\* Element by element, a concatenation is the one and then the other.
LEMMA ConcatFacts ==
  ASSUME NEW S, NEW s \in Seq(S), NEW t \in Seq(S)
  PROVE  /\ s \o t \in Seq(S) /\ Len(s \o t) = Len(s) + Len(t)
         /\ \A i \in 1 .. Len(s) : (s \o t)[i] = s[i]
         /\ \A i \in 1 .. Len(t) : (s \o t)[Len(s) + i] = t[i]
         /\ Len(s) \in Nat /\ Len(t) \in Nat
OBVIOUS

\* Sequences with the same elements are the same.
LEMMA SameElements ==
  ASSUME NEW S, NEW s \in Seq(S), NEW t \in Seq(S), Len(s) = Len(t),
         \A i \in 1 .. Len(s) : s[i] = t[i]
  PROVE  s = t
OBVIOUS

\* A concatenation can be taken apart when it is known where.
LEMMA ConcatSplit ==
  ASSUME NEW S, NEW s1 \in Seq(S), NEW t1 \in Seq(S), NEW s2 \in Seq(S), NEW t2 \in Seq(S),
         Len(s1) = Len(s2), Len(t1) = Len(t2), s1 \o t1 = s2 \o t2
  PROVE  s1 = s2 /\ t1 = t2
<1>1. s1 \in Seq(S) /\ t1 \in Seq(S) /\ s2 \in Seq(S) /\ t2 \in Seq(S)
  OBVIOUS
<1>2. /\ \A i \in 1 .. Len(s1) : (s1 \o t1)[i] = s1[i]
      /\ \A i \in 1 .. Len(t1) : (s1 \o t1)[Len(s1) + i] = t1[i]
  BY ONLY <1>1
<1>3. /\ \A i \in 1 .. Len(s2) : (s2 \o t2)[i] = s2[i]
      /\ \A i \in 1 .. Len(t2) : (s2 \o t2)[Len(s2) + i] = t2[i]
  BY ONLY <1>1
<1>4. \A i \in 1 .. Len(s1) : s1[i] = s2[i]
  BY <1>2, <1>3, Zenon
<1>5. ASSUME NEW i \in 1 .. Len(t1)
      PROVE  t1[i] = t2[i]
  <2>1. t1[i] = (s1 \o t1)[Len(s1) + i]
    BY <1>2, Zenon
  <2>2. t2[i] = (s2 \o t2)[Len(s2) + i]
    BY <1>3, Zenon
  <2> QED BY <2>1, <2>2, Zenon
<1> QED BY <1>4, <1>5, SameElements

(***************************************************************************)
(* 4. Layers.                                                              *)
(***************************************************************************)
\* The partner of node 2i - 1: node 2i, or itself at the end.
Partner(current, i) == IF 2 * i <= Len(current) THEN 2 * i ELSE 2 * i - 1

\* The places of the pairs, in a layer of n nodes.
LEMMA Pairs ==
  ASSUME NEW n \in Nat
  PROVE  /\ (n + 1) \div 2 \in Nat
         /\ \A i \in 1 .. (n + 1) \div 2 : 2 * i - 1 \in 1 .. n
         /\ \A i \in 1 .. n : /\ (i + 1) \div 2 \in 1 .. (n + 1) \div 2
                              /\ \/ i = 2 * ((i + 1) \div 2) - 1
                                 \/ i = 2 * ((i + 1) \div 2)
         /\ n >= 1 => (n + 1) \div 2 >= 1
         /\ n > 1 => (n + 1) \div 2 < n
         /\ n = 2 * ((n + 1) \div 2) \/ n = 2 * ((n + 1) \div 2) - 1
OBVIOUS

\* One round of BuildTree, node by node.
LEMMA NextLayerFacts ==
  ASSUME NEW S, NEW current \in Seq(Seq(S))
  PROVE  /\ NextLayer(current) \in Seq(Seq(S))
         /\ Len(NextLayer(current)) = (Len(current) + 1) \div 2
         /\ \A i \in 1 .. (Len(current) + 1) \div 2 :
              /\ 2 * i - 1 \in 1 .. Len(current)
              /\ Partner(current, i) \in 1 .. Len(current)
              /\ NextLayer(current)[i] = current[2 * i - 1] \o current[Partner(current, i)]
<1> DEFINE n == Len(current)
           m == (n + 1) \div 2
           next == NextLayer(current)
<1>1. n \in Nat /\ m \in Nat /\ \A i \in 1 .. m : 2 * i - 1 \in 1 .. n
  <2>1. n \in Nat
    OBVIOUS
  <2> HIDE DEF n
  <2> QED BY <2>1, Pairs
<1>2. \A i \in 1 .. n : current[i] \in Seq(S)
  OBVIOUS
<1>3. next = [i \in 1 .. m |-> LET left  == current[2 * i - 1]
                                   right == IF 2 * i <= n THEN current[2 * i] ELSE left
                               IN  left \o right]
  BY Zenon DEF NextLayer, KeccakPair
<1> HIDE DEF next, m, n
<1>4. \A i \in 1 .. m : Partner(current, i) \in 1 .. n
  BY <1>1 DEF Partner, n
<1>5. ASSUME NEW i \in 1 .. m
      PROVE  next[i] = current[2 * i - 1] \o current[Partner(current, i)]
  BY <1>3, Zenon DEF Partner, n
<1>6. ASSUME NEW i \in 1 .. m
      PROVE  next[i] \in Seq(S)
  <2>1. current[2 * i - 1] \in Seq(S) /\ current[Partner(current, i)] \in Seq(S)
    BY <1>1, <1>2, <1>4
  <2>2. current[2 * i - 1] \o current[Partner(current, i)] \in Seq(S)
    BY ONLY <2>1, ConcatFacts, Zenon
  <2> QED BY <1>5, <2>2, Zenon
<1>7. next \in [1 .. m -> Seq(S)]
  BY <1>3, <1>6, Zenon
<1>8. next \in Seq(Seq(S)) /\ Len(next) = m
  BY <1>1, <1>7
<1> QED BY <1>1, <1>4, <1>5, <1>8, Zenon DEF next, m, n

\* What the loop of BuildTree computes, round by round.
LEMMA LayersFacts ==
  ASSUME NEW S, NEW leaves \in Seq(S)
  PROVE  /\ Layers(leaves) \in [Nat -> Seq(Seq(S))]
         /\ Layers(leaves)[0] = [i \in DOMAIN leaves |-> <<leaves[i]>>]
         /\ \A k \in Nat : Layers(leaves)[k + 1] = NextLayer(Layers(leaves)[k])
<1> DEFINE init == [i \in DOMAIN leaves |-> <<leaves[i]>>]
           T == Seq(Seq(S))
           step == [s \in T |-> NextLayer(s)]
           Rec(f) == [k \in Nat |-> IF k = 0 THEN init ELSE NextLayer(f[k - 1])]
<1>1. init \in T
  <2>1. DOMAIN leaves = 1 .. Len(leaves) /\ Len(leaves) \in Nat
    OBVIOUS
  <2>2. \A i \in 1 .. Len(leaves) : <<leaves[i]>> \in Seq(S)
    OBVIOUS
  <2>3. init \in [1 .. Len(leaves) -> Seq(S)]
    BY <2>1, <2>2, Zenon
  <2> HIDE DEF init
  <2> QED BY <2>1, <2>3
<1>2. step \in Steps(T)
  <2>1. \A s \in T : NextLayer(s) \in T
    BY NextLayerFacts, Zenon
  <2> QED BY <2>1 DEF Steps
<1>3. \A s \in T : step[s] = NextLayer(s)
  OBVIOUS
<1> HIDE DEF init, T, step
<1>4. PICK f \in [Nat -> T] : f[0] = init /\ \A n \in Nat : f[n + 1] = step[f[n]]
  <2>1. Iterations(T, init, step) # {}
    BY ONLY <1>1, <1>2, Iteration
  <2> QED BY <2>1, Zenon DEF Iterations
<1>5. \A k \in Nat : f[k] = IF k = 0 THEN init ELSE NextLayer(f[k - 1])
  <2> SUFFICES ASSUME NEW k \in Nat, k # 0
               PROVE  f[k] = NextLayer(f[k - 1])
    BY <1>4
  <2>1. k - 1 \in Nat /\ (k - 1) + 1 = k
    OBVIOUS
  <2>2. f[(k - 1) + 1] = step[f[k - 1]] /\ f[k - 1] \in T
    BY <1>4, <2>1, Zenon
  <2> QED BY <1>3, <2>1, <2>2
<1>6. f = Rec(f)
  BY <1>4, <1>5
<1>7. Layers(leaves) = CHOOSE g : g = Rec(g)
  BY DEF Layers, init
<1> DEFINE layer == Layers(leaves)
<1>8. layer = Rec(layer)
  <2> HIDE DEF Rec
  <2> QED BY <1>6, <1>7, Zenon
<1> HIDE DEF layer
<1>9. layer[0] = init /\ \A k \in Nat : layer[k + 1] = NextLayer(layer[k])
  <2>1. \A k \in Nat : layer[k] = IF k = 0 THEN init ELSE NextLayer(layer[k - 1])
    BY <1>8, Zenon
  <2>2. ASSUME NEW k \in Nat
        PROVE  layer[k + 1] = NextLayer(layer[k])
    <3>1. k + 1 \in Nat /\ k + 1 # 0 /\ (k + 1) - 1 = k
      OBVIOUS
    <3> QED BY <2>1, <3>1
  <2> QED BY <2>1, <2>2, Zenon
<1>10. layer \in [Nat -> T]
  <2> DEFINE U == {k \in Nat : layer[k] \in T}
  <2>1. 0 \in U
    BY <1>1, <1>9, Zenon
  <2>2. ASSUME NEW k \in U
        PROVE  k + 1 \in U
    <3>1. NextLayer(layer[k]) \in T
      BY NextLayerFacts, Zenon DEF T
    <3>2. k + 1 \in Nat /\ layer[k + 1] = NextLayer(layer[k])
      BY <1>9
    <3> QED BY <3>1, <3>2, Zenon
  <2>3. U = Nat
    <3> HIDE DEF U
    <3>1. U \in SUBSET Nat
      BY DEF U
    <3> QED BY <2>1, <2>2, <3>1, InductionSet
  <2>4. \A k \in Nat : layer[k] \in T
    BY <2>3
  <2>5. layer = [k \in Nat |-> layer[k]]
    BY <1>8, Zenon
  <2> HIDE DEF Rec
  <2> QED BY <2>4, <2>5
<1> QED BY <1>9, <1>10 DEF layer, T, init

\* The leaves, as a layer.
LEMMA FirstLayer ==
  ASSUME NEW S, NEW leaves \in Seq(S)
  PROVE  /\ Len(Layers(leaves)[0]) = Len(leaves) /\ Len(leaves) \in Nat
         /\ \A i \in 1 .. Len(leaves) : Layers(leaves)[0][i] = <<leaves[i]>>
<1>1. Layers(leaves)[0] = [i \in DOMAIN leaves |-> <<leaves[i]>>]
  BY LayersFacts
<1>2. DOMAIN leaves = 1 .. Len(leaves) /\ Len(leaves) \in Nat
  OBVIOUS
<1>3. Layers(leaves)[0] = [i \in 1 .. Len(leaves) |-> <<leaves[i]>>]
  BY <1>1, <1>2, Zenon
<1> QED BY <1>2, <1>3

\* How long a layer is after the one before.
LEMMA LayerLength ==
  ASSUME NEW S, NEW leaves \in Seq(S), NEW k \in Nat
  PROVE  /\ Len(Layers(leaves)[k]) \in Nat
         /\ Len(Layers(leaves)[k + 1]) = (Len(Layers(leaves)[k]) + 1) \div 2
<1>1. /\ Layers(leaves)[k] \in Seq(Seq(S))
      /\ Layers(leaves)[k + 1] = NextLayer(Layers(leaves)[k])
  BY LayersFacts, Zenon
<1> DEFINE current == Layers(leaves)[k]
<1> HIDE DEF current
<1>2. current \in Seq(Seq(S)) /\ Layers(leaves)[k + 1] = NextLayer(current)
  BY <1>1 DEF current
<1>3. Len(NextLayer(current)) = (Len(current) + 1) \div 2 /\ Len(current) \in Nat
  <2>1. current \in Seq(Seq(S))
    BY <1>2
  <2>2. Len(NextLayer(current)) = (Len(current) + 1) \div 2
    BY ONLY <2>1, NextLayerFacts, Zenon
  <2>3. Len(current) \in Nat
    BY ONLY <2>1
  <2> QED BY <2>2, <2>3
<1> QED BY <1>2, <1>3 DEF current

\* Layers get shorter until there is one of one node.
LEMMA LayersShrink ==
  ASSUME NEW S, NEW leaves \in Seq(S), leaves # <<>>, NEW k \in Nat
  PROVE  /\ Len(Layers(leaves)[k]) \in Nat \ {0}
         /\ Len(Layers(leaves)[k]) = 1 \/ Len(Layers(leaves)[k]) + k <= Len(leaves)
<1> DEFINE L(i) == Len(Layers(leaves)[i])
           T == {i \in Nat : L(i) \in Nat \ {0} /\ (L(i) = 1 \/ L(i) + i <= Len(leaves))}
<1>1. Len(leaves) \in Nat \ {0} /\ L(0) = Len(leaves)
  <2>1. Len(leaves) \in Nat \ {0}
    OBVIOUS
  <2>2. Len(Layers(leaves)[0]) = Len(leaves)
    BY FirstLayer
  <2> QED BY <2>1, <2>2, Zenon
<1>2. 0 \in T
  BY <1>1
<1>3. ASSUME NEW i \in T
      PROVE  i + 1 \in T
  <2>1. i \in Nat /\ L(i) \in Nat \ {0} /\ (L(i) = 1 \/ L(i) + i <= Len(leaves))
    OBVIOUS
  <2>2. L(i + 1) = (L(i) + 1) \div 2
    BY <2>1, LayerLength, Zenon
  <2> HIDE DEF L
  <2>3. /\ (L(i) + 1) \div 2 \in Nat /\ (L(i) + 1) \div 2 >= 1
        /\ L(i) > 1 => (L(i) + 1) \div 2 < L(i)
        /\ L(i) = 1 => (L(i) + 1) \div 2 = 1
    BY <2>1
  <2>4. /\ L(i + 1) \in Nat \ {0}
        /\ L(i + 1) = 1 \/ L(i + 1) + (i + 1) <= Len(leaves)
    BY <1>1, <2>1, <2>2, <2>3
  <2> QED BY <2>1, <2>4
<1>4. T = Nat
  <2> HIDE DEF T
  <2>1. T \in SUBSET Nat
    BY DEF T
  <2> QED BY <1>2, <1>3, <2>1, InductionSet
<1> QED BY <1>4

\* The layer BuildTree ends with.
IsHeight(leaves, h) ==
  /\ h \in 0 .. Len(leaves)
  /\ Len(Layers(leaves)[h]) = 1
  /\ \A k \in 0 .. h - 1 : Len(Layers(leaves)[k]) > 1

\* BuildTree's loop ends, and Root_of_tree is the node of its last layer.
LEMMA RootFacts ==
  ASSUME NEW S, NEW leaves \in Seq(S), leaves # <<>>
  PROVE  \E h \in Nat : IsHeight(leaves, h) /\ MerkleRoot(leaves) = Layers(leaves)[h][1]
<1> DEFINE n == Len(leaves)
           L(i) == Len(Layers(leaves)[i])
           T == {i \in Nat : L(i) = 1}
<1>1. n \in Nat
  OBVIOUS
<1>2. \A i \in Nat : L(i) \in Nat \ {0} /\ (L(i) = 1 \/ L(i) + i <= n)
  BY LayersShrink
<1> HIDE DEF L, n
<1>3. n \in T
  BY <1>1, <1>2
<1>4. PICK m \in T : \A i \in T : m <= i
  BY <1>3, Least, Zenon
<1>5. IsHeight(leaves, m)
  <2>1. m \in 0 .. n /\ L(m) = 1
    BY <1>1, <1>3, <1>4
  <2>2. ASSUME NEW k \in 0 .. m - 1
        PROVE  L(k) > 1
    <3>1. k \in Nat /\ k < m /\ m \in Nat
      BY <1>4
    <3>2. L(k) # 1 /\ L(k) \in Nat \ {0}
      BY <1>2, <1>4, <3>1
    <3> QED BY <3>2
  <2> QED BY <2>1, <2>2 DEF IsHeight, L, n
<1> DEFINE height == CHOOSE h \in 0 .. Len(leaves) :
                       /\ Len(Layers(leaves)[h]) = 1
                       /\ \A k \in 0 .. h - 1 : Len(Layers(leaves)[k]) > 1
<1>6. height \in 0 .. Len(leaves) /\ IsHeight(leaves, height)
  BY <1>5, Zenon DEF IsHeight
<1>7. BuildTree(leaves) = [k \in 1 .. height + 1 |-> Layers(leaves)[k - 1]]
  BY Zenon DEF BuildTree
<1> HIDE DEF height
<1>8. height \in Nat
  BY <1>1, <1>6
<1>9. BuildTree(leaves) # <<>> /\ Len(BuildTree(leaves)) = height + 1
  <2>1. \A k \in 1 .. height + 1 : Layers(leaves)[k - 1] \in Seq(Seq(S))
    <3>1. \A k \in 1 .. height + 1 : k - 1 \in Nat
      BY <1>8
    <3> QED BY <3>1, LayersFacts, Zenon
  <2> DEFINE X == Seq(Seq(S))
  <2> HIDE DEF X
  <2>2. BuildTree(leaves) \in [1 .. height + 1 -> X]
    BY <1>7, <2>1, Zenon DEF X
  <2>3. height + 1 \in Nat /\ height + 1 # 0
    BY <1>8
  <2>4. BuildTree(leaves) \in Seq(X) /\ Len(BuildTree(leaves)) = height + 1
    BY ONLY <2>2, <2>3
  <2> QED BY ONLY <2>3, <2>4
<1>10. BuildTree(leaves)[height + 1] = Layers(leaves)[height]
  BY <1>7, <1>8
<1>11. MerkleRoot(leaves) = Layers(leaves)[height][1]
  <2>1. MerkleRoot(leaves) = BuildTree(leaves)[Len(BuildTree(leaves))][1]
    BY <1>9, Zenon DEF MerkleRoot, Root_of_tree
  <2> QED BY <1>9, <1>10, <2>1, Zenon
<1> QED BY <1>6, <1>8, <1>11

(***************************************************************************)
(* 5. The root binds the leaves.                                           *)
(***************************************************************************)
\* Two layers with as many nodes, each over as many leaves.
Alike(s, t) == Len(s) = Len(t) /\ \A i \in 1 .. Len(s) : Len(s[i]) = Len(t[i])

\* Trees over equally many leaves have the same shape.
LEMMA SameShape ==
  ASSUME NEW S, NEW a \in Seq(S), NEW b \in Seq(S), Len(a) = Len(b), NEW k \in Nat
  PROVE  Alike(Layers(a)[k], Layers(b)[k])
<1> DEFINE T == {j \in Nat : Alike(Layers(a)[j], Layers(b)[j])}
<1>1. 0 \in T
  <2>1. /\ Len(Layers(a)[0]) = Len(a) /\ Len(Layers(b)[0]) = Len(b)
        /\ \A i \in 1 .. Len(a) : Layers(a)[0][i] = <<a[i]>>
        /\ \A i \in 1 .. Len(b) : Layers(b)[0][i] = <<b[i]>>
    BY FirstLayer
  <2>2. \A i \in 1 .. Len(a) : Len(<<a[i]>>) = 1 /\ Len(<<b[i]>>) = 1
    OBVIOUS
  <2>3. Len(Layers(a)[0]) = Len(Layers(b)[0])
    BY <2>1, Zenon
  <2>4. ASSUME NEW i \in 1 .. Len(Layers(a)[0])
        PROVE  Len(Layers(a)[0][i]) = Len(Layers(b)[0][i])
    <3>1. i \in 1 .. Len(a) /\ i \in 1 .. Len(b)
      BY <2>1, Zenon
    <3>2. Layers(a)[0][i] = <<a[i]>> /\ Layers(b)[0][i] = <<b[i]>>
      BY <2>1, <3>1, Zenon
    <3>3. Len(<<a[i]>>) = 1 /\ Len(<<b[i]>>) = 1
      BY <2>2, <3>1, Zenon
    <3> QED BY <3>2, <3>3, Zenon
  <2> QED BY <2>3, <2>4, Zenon DEF Alike
<1>2. ASSUME NEW j \in T
      PROVE  j + 1 \in T
  <2> DEFINE s == Layers(a)[j]
             t == Layers(b)[j]
  <2>1. j \in Nat /\ Len(s) = Len(t) /\ \A i \in 1 .. Len(s) : Len(s[i]) = Len(t[i])
    BY Zenon DEF Alike
  <2>2. /\ s \in Seq(Seq(S)) /\ Layers(a)[j + 1] = NextLayer(s)
        /\ t \in Seq(Seq(S)) /\ Layers(b)[j + 1] = NextLayer(t)
    BY <2>1, LayersFacts, Zenon
  <2> HIDE DEF s, t
  <2> DEFINE m == (Len(s) + 1) \div 2
  <2>3. /\ Len(NextLayer(s)) = m /\ Len(NextLayer(t)) = m
        /\ \A i \in 1 .. m :
             /\ 2 * i - 1 \in 1 .. Len(s) /\ Partner(s, i) \in 1 .. Len(s)
             /\ NextLayer(s)[i] = s[2 * i - 1] \o s[Partner(s, i)]
             /\ NextLayer(t)[i] = t[2 * i - 1] \o t[Partner(s, i)]
    <3>1. \A i \in 1 .. m : Partner(s, i) = Partner(t, i)
      BY <2>1 DEF Partner
    <3>2. /\ Len(NextLayer(s)) = m
          /\ \A i \in 1 .. m :
               /\ 2 * i - 1 \in 1 .. Len(s) /\ Partner(s, i) \in 1 .. Len(s)
               /\ NextLayer(s)[i] = s[2 * i - 1] \o s[Partner(s, i)]
      BY ONLY <2>2, NextLayerFacts, Zenon
    <3>3. /\ Len(NextLayer(t)) = (Len(t) + 1) \div 2
          /\ \A i \in 1 .. (Len(t) + 1) \div 2 :
               NextLayer(t)[i] = t[2 * i - 1] \o t[Partner(t, i)]
      BY ONLY <2>2, NextLayerFacts, Zenon
    <3> QED BY <2>1, <3>1, <3>2, <3>3, Zenon
  <2>4. ASSUME NEW i \in 1 .. m
        PROVE  Len(NextLayer(s)[i]) = Len(NextLayer(t)[i])
    <3> DEFINE p == 2 * i - 1
               q == Partner(s, i)
    <3>1. p \in 1 .. Len(s) /\ q \in 1 .. Len(s)
      BY <2>3, Zenon
    <3> HIDE DEF p, q, m
    <3>2. s[p] \in Seq(S) /\ s[q] \in Seq(S) /\ t[p] \in Seq(S) /\ t[q] \in Seq(S)
      <4>1. /\ s \in Seq(Seq(S)) /\ t \in Seq(Seq(S)) /\ Len(s) = Len(t)
            /\ p \in 1 .. Len(s) /\ q \in 1 .. Len(s)
        BY <2>1, <2>2, <3>1, Zenon
      <4>2. \A x \in Seq(Seq(S)) : \A r \in 1 .. Len(x) : x[r] \in Seq(S)
        OBVIOUS
      <4> QED BY ONLY <4>1, <4>2, Zenon
    <3>3. Len(s[p] \o s[q]) = Len(s[p]) + Len(s[q]) /\ Len(t[p] \o t[q]) = Len(t[p]) + Len(t[q])
      BY ONLY <3>2, ConcatFacts
    <3>4. Len(s[p]) = Len(t[p]) /\ Len(s[q]) = Len(t[q])
      BY <2>1, <3>1
    <3>5. NextLayer(s)[i] = s[p] \o s[q] /\ NextLayer(t)[i] = t[p] \o t[q]
      BY <2>3, Zenon DEF p, q
    <3> QED BY <3>3, <3>4, <3>5, Zenon
  <2> HIDE DEF m
  <2>5. j + 1 \in Nat
    BY <2>1
  <2>6. Alike(NextLayer(s), NextLayer(t))
    BY <2>3, <2>4, Zenon DEF Alike
  <2> QED BY <2>2, <2>5, <2>6, Zenon
<1>3. T = Nat
  <2> HIDE DEF T
  <2>1. T \in SUBSET Nat
    BY DEF T
  <2> QED BY <1>1, <1>2, <2>1, InductionSet
<1> QED BY <1>3, Zenon

\* Over equally many leaves, a layer determines the one below it.
LEMMA LayerBinds ==
  ASSUME NEW S, NEW a \in Seq(S), NEW b \in Seq(S), Len(a) = Len(b), NEW k \in Nat,
         Layers(a)[k + 1] = Layers(b)[k + 1]
  PROVE  Layers(a)[k] = Layers(b)[k]
<1> DEFINE s == Layers(a)[k]
           t == Layers(b)[k]
           n == Len(s)
<1>1. Len(s) = Len(t) /\ \A i \in 1 .. Len(s) : Len(s[i]) = Len(t[i])
  <2>1. Alike(s, t)
    BY SameShape, Zenon
  <2> QED BY ONLY <2>1, Zenon DEF Alike
<1>2. /\ s \in Seq(Seq(S)) /\ Layers(a)[k + 1] = NextLayer(s)
      /\ t \in Seq(Seq(S)) /\ Layers(b)[k + 1] = NextLayer(t)
  BY LayersFacts, Zenon
<1> HIDE DEF s, t
<1>3. s \in Seq(Seq(S)) /\ t \in Seq(Seq(S)) /\ NextLayer(s) = NextLayer(t)
  BY <1>2, Zenon
<1>4. n \in Nat /\ \A i \in 1 .. n : s[i] \in Seq(S) /\ t[i] \in Seq(S)
  BY <1>1, <1>3
<1>5. \A i \in 1 .. (n + 1) \div 2 :
        /\ 2 * i - 1 \in 1 .. n /\ Partner(s, i) \in 1 .. n
        /\ NextLayer(s)[i] = s[2 * i - 1] \o s[Partner(s, i)]
  BY ONLY <1>3, NextLayerFacts, Zenon
<1>6. \A i \in 1 .. (Len(t) + 1) \div 2 :
        NextLayer(t)[i] = t[2 * i - 1] \o t[Partner(t, i)]
  BY ONLY <1>3, NextLayerFacts, Zenon
<1>7. ASSUME NEW j \in 1 .. (n + 1) \div 2
      PROVE  s[2 * j - 1] = t[2 * j - 1] /\ s[Partner(s, j)] = t[Partner(s, j)]
  <2> DEFINE p == 2 * j - 1
             q == Partner(s, j)
  <2>1. q = Partner(t, j)
    BY <1>1 DEF Partner
  <2>2. p \in 1 .. n /\ q \in 1 .. n /\ NextLayer(s)[j] = s[p] \o s[q]
    BY <1>5, Zenon
  <2>3. NextLayer(t)[j] = t[p] \o t[q]
    BY <1>1, <1>6, <2>1, Zenon
  <2> HIDE DEF p, q
  <2>4. s[p] \o s[q] = t[p] \o t[q]
    BY <1>3, <2>2, <2>3, Zenon
  <2>5. /\ s[p] \in Seq(S) /\ s[q] \in Seq(S) /\ t[p] \in Seq(S) /\ t[q] \in Seq(S)
        /\ Len(s[p]) = Len(t[p]) /\ Len(s[q]) = Len(t[q])
    BY <1>1, <1>4, <2>2, Zenon
  <2>6. s[p] = t[p] /\ s[q] = t[q]
    BY ONLY <2>4, <2>5, ConcatSplit, Zenon
  <2> QED BY <2>6 DEF p, q
<1>8. ASSUME NEW i \in 1 .. n
      PROVE  s[i] = t[i]
  <2> DEFINE j == (i + 1) \div 2
  <2> HIDE DEF n
  <2>1. j \in 1 .. (n + 1) \div 2 /\ (i = 2 * j - 1 \/ i = 2 * j)
    BY <1>4, Pairs, Zenon
  <2> HIDE DEF j
  <2>2. i = 2 * j => Partner(s, j) = i
    BY <1>4 DEF Partner, n
  <2> QED BY <1>7, <2>1, <2>2
<1>9. s = t
  BY ONLY <1>1, <1>3, <1>8, SameElements
<1> QED BY <1>9 DEF s, t

\* Over equally many leaves, a layer determines the leaves.
LEMMA LayersBind ==
  ASSUME NEW S, NEW a \in Seq(S), NEW b \in Seq(S), Len(a) = Len(b), NEW k \in Nat,
         Layers(a)[k] = Layers(b)[k]
  PROVE  a = b
<1> DEFINE T == {j \in Nat : Layers(a)[j] = Layers(b)[j] => Layers(a)[0] = Layers(b)[0]}
<1>1. 0 \in T
  OBVIOUS
<1>2. ASSUME NEW j \in T
      PROVE  j + 1 \in T
  <2>1. Layers(a)[j + 1] = Layers(b)[j + 1] => Layers(a)[j] = Layers(b)[j]
    BY LayerBinds
  <2> QED BY <2>1
<1>3. T = Nat
  <2> HIDE DEF T
  <2>1. T \in SUBSET Nat
    BY DEF T
  <2> QED BY <1>1, <1>2, <2>1, InductionSet, Zenon
<1>4. Layers(a)[0] = Layers(b)[0]
  BY <1>3
<1>5. /\ \A i \in 1 .. Len(a) : Layers(a)[0][i] = <<a[i]>>
      /\ \A i \in 1 .. Len(b) : Layers(b)[0][i] = <<b[i]>>
  BY FirstLayer
<1>6. ASSUME NEW i \in 1 .. Len(a)
      PROVE  a[i] = b[i]
  <2>1. <<a[i]>> = <<b[i]>>
    BY <1>4, <1>5, Zenon
  <2> QED BY <2>1
<1> QED BY <1>6, SameElements

\* Lists of the same length with the same root are the same.
LEMMA RootBinds ==
  ASSUME NEW S, NEW a \in Seq(S), NEW b \in Seq(S), Len(a) = Len(b),
         MerkleRoot(a) = MerkleRoot(b)
  PROVE  a = b
<1>1. CASE a = <<>>
  BY <1>1
<1>2. CASE a # <<>>
  <2>1. b # <<>>
    BY <1>2
  <2>2. PICK g \in Nat : IsHeight(a, g) /\ MerkleRoot(a) = Layers(a)[g][1]
    BY <1>2, RootFacts
  <2>3. PICK h \in Nat : IsHeight(b, h) /\ MerkleRoot(b) = Layers(b)[h][1]
    BY <2>1, RootFacts
  <2> DEFINE L(k) == Len(Layers(a)[k])
  <2>4. \A k \in Nat : Len(Layers(b)[k]) = L(k)
    BY SameShape, Zenon DEF Alike
  <2>5. g = h
    <3>1. L(g) = 1 /\ \A k \in 0 .. g - 1 : L(k) > 1
      BY <2>2 DEF IsHeight
    <3>2. L(h) = 1 /\ \A k \in 0 .. h - 1 : L(k) > 1
      <4>1. \A k \in 0 .. h - 1 : k \in Nat
        OBVIOUS
      <4> QED BY <2>3, <2>4, <4>1, Zenon DEF IsHeight
    <3> HIDE DEF L
    <3>3. ~ (g < h)
      <4>1. ASSUME g < h PROVE g \in 0 .. h - 1
        BY <4>1
      <4>2. ~ (1 > 1)
        OBVIOUS
      <4> QED BY <3>1, <3>2, <4>1, <4>2, Zenon
    <3>4. ~ (h < g)
      <4>1. ASSUME h < g PROVE h \in 0 .. g - 1
        BY <4>1
      <4>2. ~ (1 > 1)
        OBVIOUS
      <4> QED BY <3>1, <3>2, <4>1, <4>2, Zenon
    <3> QED BY <3>3, <3>4
  <2> DEFINE s == Layers(a)[h]
             t == Layers(b)[h]
  <2>6. s \in Seq(Seq(S)) /\ t \in Seq(Seq(S))
    BY LayersFacts, Zenon
  <2>7. Len(s) = 1 /\ Len(t) = 1 /\ s[1] = t[1]
    BY <2>2, <2>3, <2>5, Zenon DEF IsHeight
  <2> HIDE DEF s, t
  <2>8. s = t
    <3>1. \A i \in 1 .. Len(s) : s[i] = t[i]
      BY <2>7
    <3> QED BY ONLY <2>6, <2>7, <3>1, SameElements
  <2> QED BY <2>8, LayersBind DEF s, t
<1> QED BY <1>1, <1>2

\* Both ends add a leaf when a chunk is confirmed.
LeavesInv ==
  /\ sent \in Seq(LeafValues) /\ received \in Seq(LeafValues)
  /\ Len(sent) = Len(received)

\* Both lists grow together.
LEMMA ListsGrow == LeavesSpec => []LeavesInv
<1>1. LeavesInit => LeavesInv
  BY DEF LeavesInit, LeavesInv
<1>2. LeavesInv /\ [LeavesNext]_leavesVars => LeavesInv'
  <2> SUFFICES ASSUME LeavesInv, [LeavesNext]_leavesVars
               PROVE  LeavesInv'
    OBVIOUS
  <2>1. CASE Confirm
    <3>1. PICK l \in LeafValues, k \in LeafValues :
            sent' = Append(sent, l) /\ received' = Append(received, k)
      BY <2>1 DEF Confirm
    <3> QED BY <3>1 DEF LeavesInv
  <2>2. CASE UNCHANGED leavesVars
    BY <2>2 DEF LeavesInv, leavesVars
  <2> QED BY <2>1, <2>2 DEF LeavesNext, Full
<1> QED BY <1>1, <1>2, PTL DEF LeavesSpec

\* Equal roots mean equal leaves, for any number of confirmed chunks:
\* stepReceiverVerifyMerkle accepts no chunk that differs, goes missing or is
\* out of order.
THEOREM RootBindsLeavesTheorem == LeavesSpec => []RootBindsLeaves
<1>1. LeavesInv => RootBindsLeaves
  <2> SUFFICES ASSUME LeavesInv, MerkleRoot(sent) = MerkleRoot(received)
               PROVE  sent = received
    BY DEF RootBindsLeaves
  <2>1. /\ sent \in Seq(LeafValues) /\ received \in Seq(LeafValues)
        /\ Len(sent) = Len(received) /\ MerkleRoot(sent) = MerkleRoot(received)
    BY DEF LeavesInv
  <2> QED BY ONLY <2>1, RootBinds
<1> QED BY <1>1, ListsGrow, PTL

(***************************************************************************)
(* 6. The root is that of the filled-up list.                              *)
(***************************************************************************)
\* Filled-up lists and the length of their blocks.
Filling(S) == [list : Seq(S), block : Nat \ {0}]

\* One round of Fill.
FillStep(f) ==
  LET blocks == Len(f.list) \div f.block
  IN  [list  |-> IF blocks > 1 /\ blocks % 2 = 1
                 THEN f.list \o SubSeq(f.list, Len(f.list) - f.block + 1, Len(f.list))
                 ELSE f.list,
       block |-> 2 * f.block]

\* The last block of a list, element by element.
LEMMA LastBlock ==
  ASSUME NEW S, NEW s \in Seq(S), NEW b \in Nat \ {0}, b <= Len(s)
  PROVE  LET last == SubSeq(s, Len(s) - b + 1, Len(s))
         IN  /\ last \in Seq(S) /\ Len(last) = b
             /\ \A i \in 1 .. b : last[i] = s[Len(s) - b + i]
OBVIOUS

\* Division that leaves no remainder.
LEMMA DivideExactly ==
  ASSUME NEW n \in Nat, NEW b \in Nat \ {0}
  PROVE  (n * b) \div b = n /\ n * b \in Nat
OBVIOUS

LEMMA BlocksType ==
  ASSUME NEW m \in Nat, NEW b \in Nat \ {0}
  PROVE  m \div b \in Nat /\ (m \div b >= 1 => b <= m) /\ (m < b => m \div b = 0)
OBVIOUS

LEMMA FillStepType ==
  ASSUME NEW S, NEW f \in Filling(S)
  PROVE  FillStep(f) \in Filling(S)
<1>1. f.list \in Seq(S) /\ f.block \in Nat \ {0} /\ 2 * f.block \in Nat \ {0}
  BY DEF Filling
<1> DEFINE s == f.list
           b == f.block
           blocks == Len(s) \div b
           new == IF blocks > 1 /\ blocks % 2 = 1
                  THEN s \o SubSeq(s, Len(s) - b + 1, Len(s)) ELSE s
<1>2. FillStep(f) = [list |-> new, block |-> 2 * b]
  BY Zenon DEF FillStep
<1>3. s \in Seq(S) /\ b \in Nat \ {0} /\ Len(s) \in Nat
  BY <1>1
<1> HIDE DEF s, b
<1>4. blocks > 1 => b <= Len(s)
  <2>1. blocks \in Nat /\ (blocks >= 1 => b <= Len(s))
    BY <1>3, BlocksType
  <2> HIDE DEF blocks
  <2> QED BY <2>1
<1> HIDE DEF blocks
<1>5. new \in Seq(S)
  <2>1. CASE blocks > 1 /\ blocks % 2 = 1
    <3>1. SubSeq(s, Len(s) - b + 1, Len(s)) \in Seq(S)
      BY <1>3, <1>4, <2>1, LastBlock
    <3>2. s \o SubSeq(s, Len(s) - b + 1, Len(s)) \in Seq(S)
      BY ONLY <1>3, <3>1, ConcatFacts
    <3> QED BY <2>1, <3>2
  <2>2. CASE ~ (blocks > 1 /\ blocks % 2 = 1)
    BY <1>3, <2>2
  <2> QED BY <2>1, <2>2
<1> HIDE DEF new
<1> QED BY <1>1, <1>2, <1>5 DEF Filling, b

\* What Fill computes, round by round.
LEMMA FillFacts ==
  ASSUME NEW S, NEW leaves \in Seq(S)
  PROVE  /\ \A k \in Nat : Fill(leaves)[k] \in Filling(S)
         /\ Fill(leaves)[0] = [list |-> leaves, block |-> 1]
         /\ \A k \in Nat : Fill(leaves)[k + 1] = FillStep(Fill(leaves)[k])
<1> DEFINE init == [list |-> leaves, block |-> 1]
           T == Filling(S)
           step == [s \in T |-> FillStep(s)]
           Rec(f) == [k \in Nat |-> IF k = 0 THEN init ELSE FillStep(f[k - 1])]
<1>1. init \in T
  BY DEF Filling
<1>2. step \in Steps(T)
  <2>1. \A s \in T : FillStep(s) \in T
    BY FillStepType
  <2> HIDE DEF T
  <2> QED BY <2>1 DEF Steps
<1>3. \A s \in T : step[s] = FillStep(s)
  OBVIOUS
<1> HIDE DEF init, T, step
<1>4. PICK f \in [Nat -> T] : f[0] = init /\ \A n \in Nat : f[n + 1] = step[f[n]]
  <2>1. Iterations(T, init, step) # {}
    BY ONLY <1>1, <1>2, Iteration
  <2> QED BY <2>1 DEF Iterations
<1>5. \A k \in Nat : f[k] = IF k = 0 THEN init ELSE FillStep(f[k - 1])
  <2> SUFFICES ASSUME NEW k \in Nat, k # 0
               PROVE  f[k] = FillStep(f[k - 1])
    BY <1>4
  <2>1. k - 1 \in Nat /\ (k - 1) + 1 = k
    OBVIOUS
  <2>2. f[(k - 1) + 1] = step[f[k - 1]] /\ f[k - 1] \in T
    BY <1>4, <2>1, Zenon
  <2> QED BY <1>3, <2>1, <2>2
<1>6. f = Rec(f)
  BY <1>4, <1>5
<1>7. Fill(leaves) = CHOOSE g : g = Rec(g)
  BY DEF Fill, FillStep, init
<1> DEFINE fill == Fill(leaves)
<1>8. fill = Rec(fill)
  <2> HIDE DEF Rec
  <2> QED BY <1>6, <1>7, Zenon
<1> HIDE DEF fill
<1>9. fill[0] = init /\ \A k \in Nat : fill[k + 1] = FillStep(fill[k])
  <2>1. \A k \in Nat : fill[k] = IF k = 0 THEN init ELSE FillStep(fill[k - 1])
    BY <1>8, Zenon
  <2>2. ASSUME NEW k \in Nat
        PROVE  fill[k + 1] = FillStep(fill[k])
    <3>1. k + 1 \in Nat /\ k + 1 # 0 /\ (k + 1) - 1 = k
      OBVIOUS
    <3> QED BY <2>1, <3>1
  <2> QED BY <2>1, <2>2, Zenon
<1>10. \A k \in Nat : fill[k] \in T
  <2> DEFINE U == {k \in Nat : fill[k] \in T}
  <2>1. 0 \in U
    BY <1>1, <1>9, Zenon
  <2>2. ASSUME NEW k \in U
        PROVE  k + 1 \in U
    <3>1. FillStep(fill[k]) \in T
      BY FillStepType DEF T
    <3>2. k + 1 \in Nat /\ fill[k + 1] = FillStep(fill[k])
      BY <1>9
    <3> QED BY <3>1, <3>2, Zenon
  <2>3. U = Nat
    <3> HIDE DEF U
    <3>1. U \in SUBSET Nat
      BY DEF U
    <3> QED BY <2>1, <2>2, <3>1, InductionSet
  <2> QED BY <2>3
<1> QED BY <1>9, <1>10 DEF fill, T, init

\* Half of a number, rounded up.
LEMMA Halves ==
  ASSUME NEW n \in Nat \ {0}
  PROVE  /\ (n + 1) \div 2 \in Nat \ {0}
         /\ n % 2 = 1 => n = 2 * ((n + 1) \div 2) - 1
         /\ n % 2 # 1 => n = 2 * ((n + 1) \div 2)
OBVIOUS

\* Where the blocks of a list are.
LEMMA BlockPlaces ==
  ASSUME NEW n \in Nat, NEW b \in Nat \ {0}, NEW p \in 1 .. n, NEW j \in 1 .. b
  PROVE  /\ (p - 1) * b + j \in 1 .. n * b
         /\ p * b = (p - 1) * b + b
<1>1. (p - 1) * b \in Nat /\ p * b = (p - 1) * b + b
  <2>1. p - 1 \in Nat
    OBVIOUS
  <2> QED BY <2>1
<1>2. n * b = p * b + (n - p) * b /\ (n - p) * b \in Nat
  <2>1. n - p \in Nat
    OBVIOUS
  <2> QED BY <2>1
<1>3. p * b \in Nat /\ n * b \in Nat
  OBVIOUS
<1> DEFINE x == (p - 1) * b
           y == p * b
           z == n * b
           w == (n - p) * b
<1>4. x \in Nat /\ y = x + b /\ z = y + w /\ w \in Nat
  BY <1>1, <1>2
<1> HIDE DEF x, y, z, w
<1>5. x + j \in 1 .. z
  BY <1>4
<1> QED BY <1>1, <1>5 DEF x, z

\* A pair of blocks is a block of twice the length.
LEMMA PairPlaces ==
  ASSUME NEW i \in Nat \ {0}, NEW b \in Nat \ {0}
  PROVE  /\ ((2 * i - 1) - 1) * b = (i - 1) * (2 * b)
         /\ (2 * i - 1) * b = (i - 1) * (2 * b) + b
         /\ (2 * i) * b = i * (2 * b)
         /\ (2 * i - 1) * b + b = i * (2 * b)
         /\ (i - 1) * (2 * b) \in Nat
OBVIOUS

\* The nodes of a layer, one after the other, are the list.
Covers(current, f) ==
  /\ Len(f.list) = Len(current) * f.block
  /\ \A i \in 1 .. Len(current) :
       /\ Len(current[i]) = f.block
       /\ \A j \in 1 .. f.block : current[i][j] = f.list[(i - 1) * f.block + j]

\* The list after one round of Fill: the old one, and its last block again when
\* the number of blocks is odd.
LEMMA FillStepFacts ==
  ASSUME NEW S, NEW current \in Seq(Seq(S)), NEW f \in Filling(S), Covers(current, f),
         Len(current) > 1
  PROVE  LET n == Len(current)
             s == f.list
             b == f.block
             new == FillStep(f).list
         IN  /\ FillStep(f).block = 2 * b
             /\ Len(new) = ((n + 1) \div 2) * (2 * b)
             /\ \A k \in 1 .. n * b : new[k] = s[k]
             /\ n % 2 = 1 => \A j \in 1 .. b : new[n * b + j] = s[(n - 1) * b + j]
<1> DEFINE n == Len(current)
           s == f.list
           b == f.block
           new == FillStep(f).list
           last == SubSeq(s, Len(s) - b + 1, Len(s))
           m == (n + 1) \div 2
<1>1. s \in Seq(S) /\ b \in Nat \ {0} /\ n \in Nat /\ n > 1 /\ Len(s) = n * b
  BY DEF Filling, Covers
<1>2. Len(s) \div b = n
  <2> HIDE DEF s, b, n
  <2> QED BY <1>1, DivideExactly
<1>3. /\ new = IF n > 1 /\ n % 2 = 1 THEN s \o last ELSE s
      /\ FillStep(f).block = 2 * b
  <2>1. /\ new = IF Len(s) \div b > 1 /\ (Len(s) \div b) % 2 = 1 THEN s \o last ELSE s
        /\ FillStep(f).block = 2 * b
    BY DEF FillStep
  <2> HIDE DEF new, s, b, n, last
  <2> QED BY <1>2, <2>1, Zenon
<1> HIDE DEF new, s, b, n, last
<1>4. n * b \in Nat /\ b <= n * b /\ (n - 1) * b = n * b - b
  <2>1. n * b = (n - 1) * b + b /\ (n - 1) * b \in Nat
    <3>1. n - 1 \in Nat
      BY <1>1
    <3> QED BY <1>1, <3>1
  <2> DEFINE x == (n - 1) * b
             y == n * b
  <2> HIDE DEF x, y
  <2>2. y = x + b /\ x \in Nat
    BY <2>1 DEF x, y
  <2>3. y \in Nat /\ b <= y /\ x = y - b
    BY <1>1, <2>2
  <2> QED BY <2>3 DEF x, y
<1>5. m \in Nat /\ m > 0 /\ (n % 2 = 1 => n = 2 * m - 1) /\ (n % 2 # 1 => n = 2 * m)
  <2>1. n \in Nat \ {0}
    BY <1>1
  <2>2. m \in Nat \ {0} /\ (n % 2 = 1 => n = 2 * m - 1) /\ (n % 2 # 1 => n = 2 * m)
    BY ONLY <2>1, Halves
  <2> HIDE DEF m
  <2> QED BY <2>2
<1> HIDE DEF m
<1>6. CASE n % 2 = 1
  <2>1. new = s \o last
    BY <1>1, <1>3, <1>6
  <2>2. last \in Seq(S) /\ Len(last) = b /\ \A j \in 1 .. b : last[j] = s[Len(s) - b + j]
    <3>1. s \in Seq(S) /\ b \in Nat \ {0} /\ b <= Len(s)
      BY <1>1, <1>4
    <3> QED BY ONLY <3>1, LastBlock DEF last
  <2>3. /\ Len(new) = Len(s) + b
        /\ \A k \in 1 .. Len(s) : new[k] = s[k]
        /\ \A j \in 1 .. b : new[Len(s) + j] = last[j]
    <3>1. s \in Seq(S) /\ last \in Seq(S)
      BY <1>1, <2>2
    <3>2. /\ Len(s \o last) = Len(s) + Len(last)
          /\ \A k \in 1 .. Len(s) : (s \o last)[k] = s[k]
          /\ \A j \in 1 .. Len(last) : (s \o last)[Len(s) + j] = last[j]
      BY ONLY <3>1, ConcatFacts
    <3> QED BY <2>1, <2>2, <3>2, Zenon
  <2>4. Len(new) = m * (2 * b)
    <3>1. (2 * m - 1) * b + b = m * (2 * b)
      BY <1>1, <1>5, PairPlaces
    <3>2. n = 2 * m - 1
      BY <1>5, <1>6
    <3> QED BY <1>1, <2>3, <3>1, <3>2, Zenon
  <2>5. \A j \in 1 .. b : new[n * b + j] = s[(n - 1) * b + j]
    <3>1. ASSUME NEW j \in 1 .. b
          PROVE  new[n * b + j] = s[(n - 1) * b + j]
      <4>1. new[Len(s) + j] = last[j] /\ last[j] = s[Len(s) - b + j]
        BY <2>2, <2>3, Zenon
      <4> QED BY <1>1, <1>4, <4>1, Zenon
    <3> QED BY <3>1, Zenon
  <2>6. \A k \in 1 .. n * b : new[k] = s[k]
    BY <1>1, <2>3, Zenon
  <2> QED BY <1>3, <2>4, <2>5, <2>6, Zenon DEF new, s, b, n, m
<1>7. CASE n % 2 # 1
  <2>1. new = s
    BY <1>3, <1>7
  <2>2. Len(new) = m * (2 * b)
    <3>1. (2 * m) * b = m * (2 * b)
      BY <1>1, <1>5, PairPlaces
    <3>2. n = 2 * m
      BY <1>5, <1>7
    <3> QED BY <1>1, <2>1, <3>1, <3>2, Zenon
  <2> QED BY <1>3, <1>7, <2>1, <2>2, Zenon DEF new, s, b, n, m
<1> QED BY <1>6, <1>7

\* A round of BuildTree's loop and a round of Fill keep step.
LEMMA CoversStep ==
  ASSUME NEW S, NEW current \in Seq(Seq(S)), NEW f \in Filling(S), Covers(current, f),
         Len(current) > 1
  PROVE  Covers(NextLayer(current), FillStep(f))
<1> DEFINE n == Len(current)
           s == f.list
           b == f.block
           m == (n + 1) \div 2
           next == NextLayer(current)
           new == FillStep(f).list
           c == 2 * b
<1>1. /\ s \in Seq(S) /\ b \in Nat \ {0} /\ n \in Nat /\ Len(s) = n * b
      /\ \A i \in 1 .. n : /\ Len(current[i]) = b
                           /\ \A j \in 1 .. b : current[i][j] = s[(i - 1) * b + j]
  BY DEF Filling, Covers
<1>2. /\ FillStep(f).block = c /\ Len(new) = m * c
      /\ \A k \in 1 .. n * b : new[k] = s[k]
      /\ n % 2 = 1 => \A j \in 1 .. b : new[n * b + j] = s[(n - 1) * b + j]
  BY FillStepFacts
<1>3. /\ Len(next) = m
      /\ \A i \in 1 .. m :
           /\ 2 * i - 1 \in 1 .. n /\ Partner(current, i) \in 1 .. n
           /\ next[i] = current[2 * i - 1] \o current[Partner(current, i)]
  BY ONLY current \in Seq(Seq(S)), NextLayerFacts, Zenon
<1>4. \A i \in 1 .. n : current[i] \in Seq(S)
  OBVIOUS
<1>5. m \in Nat
  BY <1>1, Pairs
<1> HIDE DEF n, s, b, m, next, new, c
<1>6. ASSUME NEW i \in 1 .. m
      PROVE  /\ Len(next[i]) = c
             /\ \A j \in 1 .. c : next[i][j] = new[(i - 1) * c + j]
  <2> DEFINE p == 2 * i - 1
             q == Partner(current, i)
  <2>1. p \in 1 .. n /\ q \in 1 .. n /\ next[i] = current[p] \o current[q]
    BY <1>3, Zenon
  <2>2. i \in Nat \ {0}
    BY <1>5
  <2>3. (p - 1) * b = (i - 1) * c /\ p * b = (i - 1) * c + b /\ (i - 1) * c \in Nat
    BY <1>1, <2>2, PairPlaces DEF c
  <2>4. q = 2 * i \/ (q = p /\ p = n /\ n % 2 = 1)
    <3>1. q = IF 2 * i <= n THEN 2 * i ELSE p
      BY DEF Partner, n
    <3>2. i \in Nat /\ n \in Nat /\ 2 * i - 1 <= n
      BY <1>1, <2>1, <2>2
    <3>3. \/ 2 * i <= n
          \/ (2 * i - 1 = n /\ n % 2 = 1)
      BY ONLY <3>2
    <3>4. ~ (2 * i <= n) => q = p
      BY <3>1, Zenon
    <3>5. 2 * i <= n => q = 2 * i
      BY <3>1, Zenon
    <3> QED BY <3>3, <3>4, <3>5, Zenon
  <2> HIDE DEF p, q
  <2>5. current[p] \in Seq(S) /\ current[q] \in Seq(S)
        /\ Len(current[p]) = b /\ Len(current[q]) = b
    BY <1>1, <1>4, <2>1
  <2>6. /\ Len(current[p] \o current[q]) = Len(current[p]) + Len(current[q])
        /\ \A j \in 1 .. Len(current[p]) : (current[p] \o current[q])[j] = current[p][j]
        /\ \A j \in 1 .. Len(current[q]) :
             (current[p] \o current[q])[Len(current[p]) + j] = current[q][j]
    <3> DEFINE a == current[p]
               d == current[q]
    <3>1. a \in Seq(S) /\ d \in Seq(S)
      BY <2>5
    <3> HIDE DEF a, d
    <3>2. /\ Len(a \o d) = Len(a) + Len(d)
          /\ \A j \in 1 .. Len(a) : (a \o d)[j] = a[j]
          /\ \A j \in 1 .. Len(d) : (a \o d)[Len(a) + j] = d[j]
      BY ONLY <3>1, ConcatFacts
    <3> QED BY <3>2, Zenon DEF a, d
  <2>7. /\ Len(next[i]) = b + b
        /\ \A j \in 1 .. b : next[i][j] = current[p][j] /\ next[i][b + j] = current[q][j]
    BY <2>1, <2>5, <2>6, Zenon
  <2>8. ASSUME NEW j \in 1 .. b
        PROVE  next[i][j] = new[(i - 1) * c + j]
    <3>1. current[p][j] = s[(p - 1) * b + j]
      BY <1>1, <2>1, Zenon
    <3>2. (p - 1) * b + j \in 1 .. n * b
      BY <1>1, <2>1, BlockPlaces, Zenon
    <3>3. new[(p - 1) * b + j] = s[(p - 1) * b + j]
      BY <1>2, <3>2, Zenon
    <3> QED BY <2>3, <2>7, <3>1, <3>3, Zenon
  <2>9. ASSUME NEW j \in 1 .. b
        PROVE  next[i][b + j] = new[(i - 1) * c + (b + j)]
    <3>1. next[i][b + j] = s[(q - 1) * b + j]
      <4>1. current[q][j] = s[(q - 1) * b + j]
        BY <1>1, <2>1, Zenon
      <4> QED BY <2>7, <4>1, Zenon
    <3>2. (i - 1) * c + (b + j) = p * b + j
      <4> DEFINE x == (i - 1) * c
                 y == p * b
      <4>1. y = x + b /\ x \in Nat
        BY <2>3
      <4> HIDE DEF x, y
      <4>2. x + (b + j) = y + j
        BY <1>1, <4>1
      <4> QED BY <4>2 DEF x, y
    <3>3. CASE q = 2 * i
      <4>1. q - 1 = p
        BY <2>2, <3>3 DEF p
      <4>2. (q - 1) * b + j \in 1 .. n * b
        BY <1>1, <2>1, BlockPlaces, Zenon
      <4>3. new[(q - 1) * b + j] = s[(q - 1) * b + j]
        BY <1>2, <4>2, Zenon
      <4> QED BY <3>1, <3>2, <4>1, <4>3, Zenon
    <3>4. CASE q = p /\ p = n /\ n % 2 = 1
      <4>1. new[n * b + j] = s[(n - 1) * b + j]
        BY <1>2, <3>4, Zenon
      <4> QED BY <3>1, <3>2, <3>4, <4>1, Zenon
    <3> QED BY <2>4, <3>3, <3>4
  <2>10. ASSUME NEW j \in 1 .. c
         PROVE  next[i][j] = new[(i - 1) * c + j]
    <3>1. j \in 1 .. b \/ (j - b \in 1 .. b /\ b + (j - b) = j)
      BY <1>1, <2>10 DEF c
    <3>2. CASE j \in 1 .. b
      BY <2>8, <3>2
    <3>3. CASE j - b \in 1 .. b /\ b + (j - b) = j
      <4>1. next[i][b + (j - b)] = new[(i - 1) * c + (b + (j - b))]
        BY <2>9, <3>3, Zenon
      <4> QED BY <3>3, <4>1, Zenon
    <3> QED BY <3>1, <3>2, <3>3
  <2>11. b + b = c
    BY <1>1 DEF c
  <2> QED BY <2>7, <2>10, <2>11, Zenon
<1>7. Len(new) = Len(next) * c
  BY <1>2, <1>3, Zenon
<1> QED BY <1>2, <1>3, <1>6, <1>7, Zenon DEF Covers, next, new

\* As long as BuildTree's loop runs, its layers are those of the filled-up list.
LEMMA CoversAll ==
  ASSUME NEW S, NEW leaves \in Seq(S), NEW h \in Nat,
         \A k \in 0 .. h - 1 : Len(Layers(leaves)[k]) > 1
  PROVE  Covers(Layers(leaves)[h], Fill(leaves)[h])
<1> DEFINE T == {k \in Nat : k <= h => Covers(Layers(leaves)[k], Fill(leaves)[k])}
<1>1. 0 \in T
  <2> DEFINE first == Layers(leaves)[0]
             f == Fill(leaves)[0]
  <2>1. /\ Len(first) = Len(leaves) /\ Len(leaves) \in Nat
        /\ \A i \in 1 .. Len(leaves) : first[i] = <<leaves[i]>>
    BY FirstLayer
  <2>2. f.list = leaves /\ f.block = 1
    <3>1. f = [list |-> leaves, block |-> 1]
      BY FillFacts, Zenon
    <3> HIDE DEF f
    <3> QED BY ONLY <3>1
  <2> HIDE DEF first, f
  <2>3. ASSUME NEW i \in 1 .. Len(leaves), NEW j \in 1 .. 1
        PROVE  Len(<<leaves[i]>>) = 1 /\ <<leaves[i]>>[j] = leaves[(i - 1) * 1 + j]
    <3>1. j = 1 /\ (i - 1) * 1 + j = i
      BY <2>1
    <3> QED BY <3>1
  <2>4. 1 \in 1 .. 1 /\ Len(leaves) = Len(leaves) * 1
    BY <2>1
  <2>5. ASSUME NEW i \in 1 .. Len(leaves)
        PROVE  /\ Len(first[i]) = 1
               /\ \A j \in 1 .. 1 : first[i][j] = leaves[(i - 1) * 1 + j]
    <3>1. first[i] = <<leaves[i]>>
      BY <2>1, Zenon
    <3> QED BY <2>3, <2>4, <3>1, Zenon
  <2>6. Covers(first, f)
    <3>1. Len(f.list) = Len(first) * f.block
      BY <2>1, <2>2, <2>4
    <3>2. ASSUME NEW i \in 1 .. Len(first)
          PROVE  /\ Len(first[i]) = f.block
                 /\ \A j \in 1 .. f.block : first[i][j] = f.list[(i - 1) * f.block + j]
      <4>1. i \in 1 .. Len(leaves)
        BY <2>1
      <4>2. /\ Len(first[i]) = 1
            /\ \A j \in 1 .. 1 : first[i][j] = leaves[(i - 1) * 1 + j]
        BY <2>5, <4>1, Zenon
      <4> QED BY ONLY <2>2, <4>2, Zenon
    <3> QED BY <3>1, <3>2, Zenon DEF Covers
  <2> QED BY <2>6 DEF first, f
<1>2. ASSUME NEW k \in T
      PROVE  k + 1 \in T
  <2>1. ASSUME k + 1 <= h
        PROVE  Covers(Layers(leaves)[k + 1], Fill(leaves)[k + 1])
    <3>1. k \in 0 .. h - 1 /\ k <= h
      BY <1>2, <2>1
    <3>2. Covers(Layers(leaves)[k], Fill(leaves)[k]) /\ Len(Layers(leaves)[k]) > 1
      BY <3>1
    <3>3. Layers(leaves)[k] \in Seq(Seq(S)) /\ Fill(leaves)[k] \in Filling(S)
      BY LayersFacts, FillFacts, Zenon
    <3>4. /\ Layers(leaves)[k + 1] = NextLayer(Layers(leaves)[k])
          /\ Fill(leaves)[k + 1] = FillStep(Fill(leaves)[k])
      BY LayersFacts, FillFacts, Zenon
    <3>5. Covers(NextLayer(Layers(leaves)[k]), FillStep(Fill(leaves)[k]))
      BY ONLY <3>2, <3>3, CoversStep
    <3> QED BY <3>4, <3>5
  <2> QED BY <2>1
<1>3. T = Nat
  <2> HIDE DEF T
  <2>1. T \in SUBSET Nat
    BY DEF T
  <2> QED BY <1>1, <1>2, <2>1, InductionSet
<1> QED BY <1>3

\* A list of one block is left as it is.
LEMMA FillStays ==
  ASSUME NEW S, NEW f \in Filling(S), Len(f.list) <= f.block
  PROVE  FillStep(f).list = f.list /\ FillStep(f).block = 2 * f.block
<1> DEFINE n == Len(f.list)
           b == f.block
<1>1. n \in Nat /\ b \in Nat \ {0} /\ n <= b
  BY DEF Filling
<1>2. ~ (n \div b > 1)
  <2> HIDE DEF n, b
  <2>1. CASE n < b
    <3>1. n \div b = 0
      BY <1>1, <2>1, BlocksType
    <3> QED BY <3>1
  <2>2. CASE n = b
    <3>1. 1 * b = b /\ (1 * b) \div b = 1
      BY <1>1, DivideExactly
    <3> QED BY <2>2, <3>1
  <2> QED BY <1>1, <2>1, <2>2
<1> HIDE DEF n, b
<1> QED BY <1>2 DEF FillStep, n, b

\* BuildTree pairs a node without a partner with itself: its root is that of
\* the perfect tree over the leaves, filled up from the right.
LEMMA RootIsFilledUp ==
  ASSUME NEW S, NEW leaves \in Seq(S)
  PROVE  MerkleRoot(leaves) = FilledUp(leaves)
<1>1. CASE leaves = <<>>
  <2>1. Len(leaves) = 0
    BY <1>1
  <2>2. Fill(leaves)[0] = [list |-> leaves, block |-> 1]
    BY FillFacts, Zenon
  <2>3. FilledUp(leaves) = leaves
    BY <2>1, <2>2 DEF FilledUp
  <2>4. BuildTree(leaves) = <<>>
    BY <1>1, Zenon DEF BuildTree
  <2> QED BY <1>1, <2>3, <2>4, Zenon DEF MerkleRoot, Root_of_tree
<1>2. CASE leaves # <<>>
  <2>1. PICK h \in Nat : IsHeight(leaves, h) /\ MerkleRoot(leaves) = Layers(leaves)[h][1]
    BY <1>2, RootFacts
  <2>2. /\ Len(Layers(leaves)[h]) = 1 /\ h <= Len(leaves) /\ Len(leaves) \in Nat
        /\ \A k \in 0 .. h - 1 : Len(Layers(leaves)[k]) > 1
    BY <2>1 DEF IsHeight
  <2> DEFINE root == Layers(leaves)[h][1]
             g == Fill(leaves)[h]
  <2>3. /\ Len(g.list) = 1 * g.block /\ Len(root) = g.block
        /\ \A j \in 1 .. g.block : root[j] = g.list[(1 - 1) * g.block + j]
    <3>1. Covers(Layers(leaves)[h], g)
      BY <2>2, CoversAll
    <3>2. 1 \in 1 .. 1
      OBVIOUS
    <3> QED BY <2>2, <3>1, <3>2, Zenon DEF Covers
  <2>4. root \in Seq(S)
    <3>1. Layers(leaves)[h] \in Seq(Seq(S))
      BY LayersFacts, Zenon
    <3> QED BY <2>2, <3>1
  <2>5. g \in Filling(S)
    BY FillFacts, Zenon
  <2> HIDE DEF root, g
  <2>6. g.list \in Seq(S) /\ g.block \in Nat \ {0} /\ Len(g.list) = g.block
    BY <2>3, <2>5 DEF Filling
  <2>7. root = g.list
    <3>1. \A j \in 1 .. g.block : (1 - 1) * g.block + j = j
      BY <2>6
    <3>2. \A j \in 1 .. Len(root) : root[j] = g.list[j]
      <4> SUFFICES ASSUME NEW j \in 1 .. g.block
                   PROVE  root[j] = g.list[j]
        BY <2>3, Zenon
      <4>1. root[j] = g.list[(1 - 1) * g.block + j]
        BY <2>3, Zenon
      <4> QED BY <3>1, <4>1, Zenon
    <3>3. Len(root) = Len(g.list)
      BY <2>3, <2>6
    <3> QED BY ONLY <2>4, <2>6, <3>2, <3>3, SameElements
  <2> DEFINE T == {k \in Nat : /\ Fill(leaves)[h + k].list = g.list
                               /\ g.block <= Fill(leaves)[h + k].block}
  <2>8. 0 \in T
    <3>1. h + 0 = h
      OBVIOUS
    <3> QED BY <2>6, <3>1 DEF g
  <2>9. ASSUME NEW k \in T
        PROVE  k + 1 \in T
    <3> DEFINE f == Fill(leaves)[h + k]
    <3>1. k \in Nat /\ f.list = g.list /\ g.block <= f.block
      OBVIOUS
    <3>2. h + k \in Nat /\ h + (k + 1) = (h + k) + 1
      BY <3>1
    <3>3. f \in Filling(S) /\ Fill(leaves)[h + (k + 1)] = FillStep(f)
      BY <3>2, FillFacts, Zenon
    <3> HIDE DEF f
    <3>4. Len(f.list) <= f.block
      BY <2>6, <3>1
    <3>5. FillStep(f).list = f.list /\ FillStep(f).block = 2 * f.block
      BY ONLY <3>3, <3>4, FillStays
    <3>6. f.block \in Nat
      BY <3>3 DEF Filling
    <3>7. g.block <= 2 * f.block
      BY <2>6, <3>1, <3>6
    <3>8. k + 1 \in Nat
      BY <3>1
    <3> QED BY <3>1, <3>3, <3>5, <3>7, <3>8, Zenon
  <2>10. T = Nat
    <3> HIDE DEF T
    <3>1. T \in SUBSET Nat
      BY DEF T
    <3> QED BY <2>8, <2>9, <3>1, InductionSet
  <2>11. Len(leaves) - h \in Nat /\ h + (Len(leaves) - h) = Len(leaves)
    BY <2>2
  <2>12. Fill(leaves)[Len(leaves)].list = g.list
    <3>1. Len(leaves) - h \in T
      BY <2>10, <2>11, Zenon
    <3>2. Fill(leaves)[h + (Len(leaves) - h)].list = g.list
      BY <3>1, Zenon
    <3> QED BY <2>11, <3>2, Zenon
  <2> QED BY <2>1, <2>7, <2>12, Zenon DEF FilledUp, root
<1> QED BY <1>1, <1>2

\* Whatever was confirmed, the root a session computes is the reference's.
THEOREM RootOfFilledUpTheorem == LeavesSpec => []RootOfFilledUp
<1>1. LeavesInv => RootOfFilledUp
  <2> SUFFICES ASSUME LeavesInv
               PROVE  MerkleRoot(sent) = FilledUp(sent)
    BY DEF RootOfFilledUp
  <2>1. sent \in Seq(LeafValues)
    BY DEF LeavesInv
  <2> QED BY ONLY <2>1, RootIsFilledUp
<1> QED BY <1>1, ListsGrow, PTL
=============================================================================
