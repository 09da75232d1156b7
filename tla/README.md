# A TLA+ model of the file transfer

The repository moves one file between two libp2p hosts. A client dials a
server, directly or through a relay, opens a stream and asks for a GET or a
POST. The end that has the file then runs the sender's state machine and the
other the receiver's: a header, and for every chunk a request, the encrypted
chunk with a commitment, a receipt ("lottery ticket") and the key; at the end
both compare the Merkle roots of what they sent and verified.

Around it are the server that runs many such sessions, the identity it is
dialled by, the relays it keeps a slot on, the goroutines that watch a relayed
connection become direct, and the client's way to its stream.

This directory models these parts, checks them with TLC on small instances and
proves the safety properties that matter most with TLAPS for all instances.

## The parts of the system

| part | source | modules | status |
|---|---|---|---|
| transfer state machine | `Protocol/state.go`, `session.go`, `fsm.go` | `Protocol` | modelled |
| sender steps | `Controllers/controllers.go` 16-185 | `Sender` | modelled |
| receiver steps | `Controllers/controllers.go` 189-326 | `Receiver` | modelled |
| chunks, messages | `Chunk/chunk.go`, `Protocol/protocol.go` | `Chunk` (whole messages), `Wire` (bytes) | modelled |
| encryption, hashing | `Utils/utils.go` | `Chunk` | idealised |
| Merkle tree | `Merkle/merkle.go` | `Merkle`, `MCMerkle` (the reference) | modelled |
| stream | libp2p, `Protocol/stream.go` | `Stream` | external |
| one session | `Client/client.go`, `Server/server.go` | `Transfer` | modelled |
| what a session promises | - | `FileCopy`, `TransferCopy` | abstract specification |
| client up to its stream | `Client/client.go` 88-145 | `Client` | modelled |
| server with many clients | `Server/server.go` | `Server` | modelled |
| identity | `P2P/host.go` 34-65, `relay/main.go` 31-76 | `Identity` | modelled |
| relays of a host | `P2P/host.go` 173-192, 287-312 | `Reservation` | modelled |
| hole-punch watcher | `P2P/host.go` 194-274, `Server/server.go` 23-36 | `HolePunch` | modelled |
| relay service | libp2p, `relay/main.go` 85-111 | `Reservation` | external |
| identify log | `P2P/host.go` 331-348 | - | logging only |

How they interact: `Client` ends where `Transfer` begins, with an open stream;
`Server` runs many of `Transfer`'s `HandleStream`, each abstracted to what
`FileCopy` shows of it; `Wire` stands behind each message of `Stream`;
`Reservation` and `Identity` keep alive the address `Client` dials. The modules
are kept apart where the code shares no state between the parts.

`PROJECT.json` lists the same parts, the lines each definition stands for and
the hazards of the code with the property that watches each of them.

## How the modules correspond to the code

`Transfer` composes the others; one behaviour is one stream.

* **Protocol** has the keys of the two step tables, the transition table as a
  set of pairs, and `Transition(current, next)`: the state after a round of
  `Run`, which is `Error` when the table lacks the edge (`Session.Fail`).
  `NoSession` stands for the time before `SendFile` or `RecieveFile` has made
  the session and `Exited` for a process that has ended.
* **Chunk** has the pure helpers and the messages. Files are sequences of
  bytes and are really cut, sealed, opened and put together again. A
  ciphertext is the function from keys to what opening it yields; a commitment
  and a leaf are the tuple of what was hashed, so hashes are taken to be
  collision free. `FileSize` is reduced modulo `SizeWrap`, the code's 2^32.
  `Reps` is not: it is a `uint32` too, but wraps only from 2^47 bytes on.
* **Merkle** builds the tree layer by layer, with the odd node paired with
  itself. The message `RootOf(leaves)` names the leaves; the receiver compares
  `MerkleRoot` of both lists.
* **Stream** is libp2p's stream as the code uses it: ordered and reliable in
  each direction until the connection is lost. A read returns the next message
  or, when the connection is lost, or all is read and the peer has closed, it
  fails. A write may fail, or seem to succeed, once the peer has closed or the
  connection is lost. The deferred `s.Close()` follows `Run`, so an end is
  closed exactly when its session has ended.
* **Sender** and **Receiver** have one variable per field of `Session` that
  the steps use and one action per step: the whole step with the transition
  `Run` then makes, each error return a disjunct. The last step of each end
  does two stream operations and is two actions
  (`stepSenderSendRoot`/`stepSenderReadFinalAck`,
  `stepReceiverReadRoot`/`stepReceiverSendFinalAck`). `out` is the content of
  the file under `received/`; a failed `Write` may leave any part of a chunk.
* **Transfer** adds `RequestFile`, `HandleStream`, and the environment: the
  connection is lost, a process exits (`log.Fatal`, a signal), a disk or the
  random source fails, another program rewrites the source file. Each of these
  but the last sets the history variable `faulty`. `ClientCloses` is not a
  fault: the client's `main` returns after `Run` and its deferred `h.Close()`
  may cut off what was written last (QUIC closes with unacknowledged data).

* **FileCopy** has only the two files and what each end reports: the copy
  grows with the next bytes of the source, the receiver reports success for a
  complete copy, the sender when the receiver has (or when there was nothing to
  send). **TransferCopy** maps `Transfer`'s variables to it.
* **Lockstep** says which pairs of states the two ends can be in and what is in
  flight in each.
* **Wire** writes a message with one `Write` and reads it with one
  `io.ReadFull` per sentinel, field, length and body, while bytes are delivered
  one at a time and the stream ends at any byte. `Layout` lists the fields of
  each message in the order of the `Send*` and `Read*` functions. The reader
  may ask for another kind than was written, so `readSentinel` has to refuse.
* **Server**: `Main` goes through listening, printing and registering the
  handler; `Interrupt` and the `log.Fatal` of `SendFile` end every session. A
  client and its handler meet only on their `stream`: the host answers or
  refuses it (`Answer`), the handler's deferred `s.Close()` ends it (`Closed`,
  `finished` after the last message and `closed` before), a fault, the client's
  `h.Close()` or the end of the server loses it, and the client notices in a
  step of its own (`Opened`, `Returns`). So an ack may be lost after the file is
  stored, and a handler may create and write files for a client that is gone. A
  file is a sequence of chunks that remember whose they are; each handler has
  its own offset. `mixed` is the history of which sessions shared a name.
* **Client**: `NewHost`'s relays one after the other, the dial, the sleep and
  `NewStream`, each taking some of the time `left` of the context. A relay
  answers, refuses, is unreachable (libp2p's dial limit), accepts the connection
  and says no more (`hung`), or takes the request and does not reply (`silent`).
  `circuit.Reserve` uses its context only to open the stream and reads the reply
  under libp2p's own limit of a minute, `ReserveLimit`: the context ends the
  wait for a hung relay and not the wait for a silent one.
* **Identity**: one process is one call of `LoadOrCreateIdentity`, or of the
  relay's `loadIdentity`, and what follows; `os.WriteFile` is two steps,
  truncate and write, with a crash possible between them. `lost` is the history
  of what excuses a change of identity.
* **Reservation**: per entry of `RELAY_ADDRS` `NewHost`'s first reservation and
  then the loop of `keepReservationAlive`, with the sleep, the 15 s of the
  request and the 10 s after a failure as timers. Several entries may name one
  relay, and then share its slot. A relay that serves answers within the
  request's time; what it answered before it stopped may be lost or arrive. Two
  assumptions are in this. A relay that serves answers a renewal within the 15 s
  of its context (`NeverLapsesWhileServed` rests on it). A renewal that gets no
  answer ends with its context; as `circuit.Reserve` reads the reply under a
  limit of its own, a relay that falls silent after the stream was opened holds
  a renewal up to a minute, and the bound of `StaleIsBounded` is then longer by
  the difference. The first reservation has no limit but libp2p's own,
  `FirstTimeout`.
* **HolePunch**: each watcher has a ticker, a deadline and a context that count
  down; when several are ready `select` takes any of them. On the server every
  connection that comes up starts another one.

In `Client`, `Reservation` and `HolePunch` time is discrete and advances only
when no timer is due: a sleep or a deadline ends when it should, and the code
between two of them takes no time. The units (1 s, 5 s and 100 ms) divide every
period in the code.

Definitions marked "Seeded fault" are variants of the definition after them
with a plausible bug. No specification uses them; each makes one property fail
when put in place of the original, which shows that the property is sensitive
to the code it is about.

## What TLC checks

**`MCTransfer_safety.cfg`** (193,000 distinct states): GET and POST, every
file of 0 to 5 bytes in chunks of 2 (none, full and partial last chunks, up to
three of them), `SizeWrap` 4 so that the larger sizes wrap, two keys (an old
and a new key can be told apart; they are symmetric), every fault at every
point. Bytes are numbered by position, so a misplaced or repeated chunk shows.
Three chunks give a first, a middle and a last one.

| invariant | what it says |
|---|---|
| `TypeOK` | types; `Run` never meets a state without a step |
| `LeavesAgree` | the receiver's leaves are a prefix of the chunks the sender let go of |
| `OutputIsPrefix` | the output file is a prefix of the (untouched) source at all times, after failures too |
| `FinishedCopyIsExact` | a receiver that finishes has the whole file |
| `AckedMeansFinished` | a sender that finishes a non-empty file knows the receiver has finished |
| `ErrorOnlyAfterFault` | without a fault neither end fails, save the server's when the client's `h.Close()` cuts off the final ack of a GET or the header of an empty POST |
| `KeyHiddenUntilTicket` | no key is on the wire before the receiver's ticket |
| `InFlightBounded` | at most two messages towards the receiver, one towards the sender |
| `InLockstep` | for each state of the receiver, the states the sender can be in and what is in flight |
| `HandleLeftOpenOnlyOnError` | the output file stays open after `Run` only on an error before the Merkle check |
| `ImplementsCopy` | (a property, not an invariant) every step is a step of `FileCopy` or changes nothing that shows there |

`ErrorOnlyAfterFault` also holds when the source file changes: neither end
notices, because `ReadChunkPlaintext` accepts a short or empty chunk and both
Merkle trees are built over what was sent.

**`MCTransfer_liveness.cfg`** (16,600 states; files of 0 to 3 bytes, one key):
`SessionsEnd`, both ends always return although no stream operation has a
deadline; `CompletesWithoutFault`, without a fault the client finishes and so
does the receiver, again save for the header of an empty POST. Fairness is weak
fairness of each end's own steps: a goroutine that can run does run. Nothing is
assumed of faults. What the argument does rest on is `Refused`: that libp2p
reports a lost connection to a blocked read.

**`MCMerkle.cfg`** (350,000 states): the two ends confirm up to nine chunks
with any of two leaf values each. `RootOfFilledUp`: the root is that of the
perfect tree over the leaf list filled up to a power of two. `RootBindsLeaves`:
lists of one length with the same root are equal. Nine leaves make layers of 9,
5, 3 and 2 nodes: odd ones at three levels in a row.

**`MCWire.cfg`** (185,000 states): all eight messages in the orders of GET and
POST, with 8-valued bytes and two-byte integers, so that lengths need both
bytes and contents look like sentinels. `ReadAsWritten`: what was read is a
prefix of what was written, message by message, however the bytes arrive and
whatever kind the reader asks for. `FailsOnlyWhenCut`: a read of the right kind
fails only if its message did not arrive to its end. `ReaderLearns`: no reader
waits for ever; the writer, the reader and a connection that is up are weakly
fair.

**`MCServer.cfg`** (405,000 states): two clients, two names, files of 0 to 2
chunks, names taken before or not. `StoredIntact`: a stored file is the
client's unless another session wrote the same name in the meantime;
`ChunksKeepTheirPlace`: even then each chunk is at its own place in some file.
Interference over a name is between two sessions at a time, so two clients show
it. `ClientsEnd`: a client that is connected ends, under weak fairness of
`main`, of the server's host, of the clients and of every handler goroutine. The
client has no deadline, so it ends because its stream does: refused before the
handler is registered, closed by a handler that fails, lost with the server that
another client's GET has ended. It rests, as `SessionsEnd` does, on libp2p
reporting a lost connection.

**`MCReservation.cfg`** (154,000 states): two entries for one relay, 15 s for
the first request and a grant of 40 s, the shortest the module's assumption
allows; libp2p's relays grant an hour, which the theorems cover.
`NeverLapsesWhileServed`: a slot does not lapse while its relay serves without
a break. `StaleIsBounded`: after an outage or a restart the time without a slot
is bounded. `RecoversAfterOutage`: if the relay serves for good from some time
on and restarts no more, the host has a slot for good. Fairness: time passes,
goroutines run and a request ends, with or without an answer.

**`MCHolePunch.cfg`** (7,800 states): the client's one watcher with the periods
of the code, and up to two at a time on the server, with a deadline of 1.5 s in
place of 15 s, both several ticks long and multiples of the ticker's period.
`UpgradeSeenInTime`: no direct connection is overlooked for longer than one
tick. `SilentOnlyWhenRaced`: a watcher that announced a hole punch leaves its
end unreported only when its context or its deadline won a race. `TypeOK`
includes the order of the log (`LogOK`): a result is a watcher's last line, and
"EndHolePunch" or the timeout is logged only after "StartHolePunch".
`WatchersReturn`: every watcher returns whatever the connections do (time
passes and goroutines run).

**`MCClient.cfg`** (15,000 states): two relays, the code's 30 s and 3 s, 15 s
for a dial, 60 s for the reply to a reservation and 2 s for an answer.
`StartIsBounded`: `main` decides within 33 s, or within 90 s when a relay keeps
silent, however many do. `TypeOK` includes that every relay has been tried when
`main` dials.
`OneDeadRelayTolerated`: one unreachable relay, or any that refuse, do not cost
a client whose server answers its stream. `MainDecides`: it always gets to its
stream or to `log.Fatal`.

**`MCIdentity.cfg`** (900 states): two processes, four keys, symmetric.
`IdentityKept`: across stops and crashes at every point, and with the key in
the environment across a wiped disk too, a process comes up with the identity
handed out last. `HandedOutIsStored`: an identity is stored before it is used.
`TornOnlyWhenCut`: only an end inside `os.WriteFile` leaves a torn file.

The deadlock check is on in every run: a model stops only in a step that says
that nothing is left to do.

### Where the code and its documentation disagree

Each of these runs checks one property that states a comment or a message of
the program, and TLC finds a behaviour against it.

| run | what the text says | what the code does |
|---|---|---|
| `MCServer_fatal.cfg` | "Block until interrupted (Ctrl+C)" (`server.go:118`) | a GET of a file that cannot be opened reaches `log.Fatal` (`controllers.go:71`) and ends the server with all its sessions |
| `MCReservation_skipped.cfg` | "Give one of the addresses above ... to the client" (`server.go:104`) | the address of a relay that was skipped at the start is printed, and never kept or retried |
| `MCClient_relays.cfg` | a pool that "backs off from whichever candidates don't respond" (`host.go:108-110`) | two unreachable relays, or one that hangs or keeps silent, use up the client's 30 s before it dials |

Others are written into the properties that pass, as the exceptions they need:

* `StaleIsBounded`: after a restart of the relay the renewal loop sleeps on
  until 30 s before the old expiry, and until then "the relay has quietly
  forgotten about it" (`host.go:287-292`).
* `SilentOnlyWhenRaced`: the watcher "gives up (logging that hole punching
  didn't complete)" (`host.go:229`), but the client's context ends at the same
  10 s and `select` may take it; a direct connection found only at the deadline
  is not logged either.
* `IdentityKept`: `lost` includes a key file that exists and cannot be read at
  a start, and two processes that start together. `LoadOrCreateIdentity` makes
  a new key on any error of `os.ReadFile`, not only "if none exists yet"
  (`host.go:34-35`), and writes it over the old one.
* `StoredIntact`: `mixed` is what two sessions on one name do to each other,
  while both report success.

## What is proved

The transfer, for all files, bytes, chunk sizes, widths, ids and keys, from the
assumptions in `Chunk` (files are sequences of bytes, the sizes are positive,
`Nil` is not a value) alone:

* `TransferProofs`: `TypeCorrect` (`Spec => []TypeOK`); `AckTheorem`
  (`AckedMeansFinished`); `LeavesTheorem`, `OutputTheorem`, `ExactCopy`
  (`LeavesAgree`, `OutputIsPrefix`, `FinishedCopyIsExact`); and
  `SenderFinishedMeansCopied`: a sender that finishes an untouched non-empty
  file knows that the copy is complete. It begins with lemmas on sequences and
  division, which say nothing of the program.
* `LockstepProofs`: `LockstepTheorem` (`InLockstep`) and from it `KeyHidden`,
  `InFlight`, `NoSpuriousError` and `HandleClosed` (`KeyHiddenUntilTicket`,
  `InFlightBounded`, `ErrorOnlyAfterFault`, `HandleLeftOpenOnlyOnError`); and
  `CopyTheorem` (`Spec => ImplementsCopy`).

None of these properties is inductive. `TransferInvariants` has the
strengthening, in layers:

1. `SenderShape`, `ReceiverShape`: what each state promises about the fields
   of its own session (for example that a chunk is pending, with its key, in
   `SendKeyReveal`). With `TypeOK` they are inductive by themselves (`Shape`).
2. `AckOK`: a final ack in flight means that the receiver has finished.
3. `Content`: everything the sender has let go of (`Committed`: its leaves and
   the pending one) is sealed under the key and for the plaintext it commits
   to, which is that chunk's part of an untouched file (`CommittedOK`); every
   message towards the receiver is about it (`MessagesOK`); so are the header
   the receiver has and its pending chunk (`HeaderOK`, `PendingOK`). Hence a
   chunk that is verified opens to the committed plaintext, extends the leaves
   by the next committed leaf and the output by the next part of the file
   (`LeavesAgree`, `OutputIsPrefix`, `OutputComplete`).

`Committed` only grows (`SenderGrows`), which is why the receiver's half
survives the sender's steps. `ExactCopy` then needs that `Reps` chunks cover
the file (`RepsCovers`). The proof never uses the comparison of the roots: with
an honest sender the index checks, GCM and the commitment already decide it.

`LockstepProofs` adds `Joint`, which is `Endpoints` (a session runs only where
`main` or `HandleStream` started it) and `InLockstep`, inductive relative to
the layers above. Most of the properties about both ends are then read off:
with every pair of states goes the exact content of both directions, so the
message a step reads is the one it expects and no check on it can fail. That a
key is hidden, that little is in flight and that errors need a fault are cases
of this table. `HandleClosed` needs only which states have the file open.

`CopyTheorem` maps each action of `Transfer` to a step of `FileCopy` or to a
stutter. The guards of `Receive` and `Send` are `ExactCopy` and
`AckedMeansFinished`, that of `Grow` is `OutputIsPrefix`.

`IdentityProofs`, for any sets of processes and keys, from the assumption that
the two markers are not keys: `TypeTheorem`, `TornTheorem`, `StoredTheorem` and
`KeptTheorem`. The inductive invariant `Inv` has, besides the types, `EnvOK` (a key in the
environment is the identity handed out last, and nobody is on the way to
creating another) and `DiskOK` (unless lost, the file holds the last identity,
and a process that is about to create one is alone in it and none was handed
out before).

`ReservationProofs`, for any list of relays with repetitions, any first timeout
and any grant longer than the 5 s wait and the two requests around it:
`TypeCorrect`, `NeverLapses` and `StaleTheorem`. The properties speak of the
relay's slot, the code of the host's clocks, so the invariant `Inv` relates
them. `OnTime` bounds each entry's timers; `Due` bounds the time until an
entry's next request has been answered; `InTime` says that this comes before
the slot's end as long as the relay has served without a break, and that the
time without a slot so far and `Due` together stay within `MaxStale`.

`IntegrityProofs`, first part, for any set of clients, any names and any number
of chunks in a file: `TypeTheorem`, `StoredIntactTheorem` and `ChunksKeepTheirPlaceTheorem`.
`StoredIntact` speaks only of a finished session, so `Inv` says what a file
holds on the way there: `Held` (in a session nobody has interfered with, the
chunks written so far and nothing else; all of them once it is stored) and
`Present` (a file that a session has open exists). Neither mentions the client
or the stream, so what becomes of them makes no difference to the files. A write at an offset keeps
`ChunksKeepTheirPlace`: the new chunk is at its place, what was there stays where
it was, and a gap is filled with holes (`WriteAtFacts`).

`HolePunchProofs`, for any number of watchers and any period and timeouts that
the module's assumption allows: `TypeTheorem`, `UpgradeSeenInTimeTheorem` and
the action property, `SilentOnlyWhenRacedTheorem`. The invariant is `Fresh`: the
time a direct connection has been overlooked and the time to the next tick add
up to at most one period. The order of the log is inductive with the types.

`ClientProofs`, for any number of relays and any periods: `TypeTheorem`,
`StartIsBoundedTheorem` and `OneDeadRelayToleratedTheorem`. The assumption is that
a host that answers does so within libp2p's limit on a reservation. `Bounded` says
that the time elapsed and the time left of the context make up the budget as long
as any is left, and that the window and a reservation, which do not end with the
context, add at most their own length: each starts with time left, and after it
nothing else does. For the third,
`OnTime` bounds the time elapsed at every step by what the relays tried so far
may have cost (`Spent`). It does not hold for every list of relays: with enough
of them even prompt answers use up the 30 s. The theorem has the condition as
its hypothesis, `Fits`: all relays answering, or all but one that takes the
whole dial limit, leave time for the dial, the window and the stream. With the
code's 30 s and 3 s and the run's 15 s and 2 s it holds for two relays (26 s).

`IntegrityProofs`, second part, for leaves of any kind and lists of any length
(the two parts of the module are independent of each other):
`RootBindsLeavesTheorem` and `RootOfFilledUpTheorem`. Both are inductions over
the layers of the tree. An induction principle with an operator as its parameter
cannot be used with the provers at hand; the induction here is over sets of
numbers (`InductionSet`, from the well-foundedness of `<`), and a definition by
recursion is unfolded with a lemma on iterating a step that is an element of a
set (`Iteration`). The first theorem goes from the root down: in two trees of the
same shape (`SameShape`) nodes at one place have equally long contents, so equal
nodes have equal children (`LayerBinds`). The second goes up: `Covers` says that
the i-th node of a layer holds the i-th block of the list filled up so far, and a
round of `BuildTree` and a round of the reference keep it (`CoversStep`). The
tree is no higher than the list is long (`LayersShrink`), and once the list is
one block the reference leaves it alone (`FillStays`).

`WireProofs`, for scripts of any length, byte slices of any length, any width of
an integer and any base with room for the sentinels: `ReadAsWrittenTheorem` and
`FailsOnlyWhenCutTheorem`. `ScriptsAssumption` says of the scripts what the code
guarantees: integers and lengths fit a `uint32`, hashes, nonces and keys have
their fixed sizes, and a `WhatToDo`, which has no sentinel, is only ever the
first message. Writer and reader need not agree on the kinds.

Neither property is inductive: both speak of whole messages, the steps move
single bytes and fields. `WireInv` therefore gives the reader a place in the
script's stream (`Place`: after the messages read, the sentinel, the fields read
and, in a slice, its length) and says that the bytes that have arrived and those
on their way continue the stream from there, up to the end of what was written
or, once the stream is cut, to some point before it (`InvPlace`); that the fields
read so far are those of the message (`InvField`); and that a reader which failed
in step with the writer is inside a message whose end is gone (`InvFailed`). The
writer appends to the end (`AheadWritten`), a break takes from the end
(`AheadLost`), a delivery moves the border between the two parts (`AheadMoved`).
The reader's step is the one with substance: the bytes at its place are those of
the next part of the message (`FieldAhead`, `SentinelAhead`) and what it makes of
them is the value that was written (`WantedFacts`).

Under it are facts about the data. `PutUint32Facts` is the big-endian round trip:
reading from the left undoes one shift per byte, so no powers of `Base` are
needed. `AppendedPlaces` says where each part of a growing buffer ends up in the
whole; it is used twice, for the fields of a message (`MessageFacts`) and for the
messages of a script (`StreamFacts`). A sentinel tells the kind (`SentinelFacts`),
which is why a reader that asks for another kind stops and does not misread. The
recursive functions are unfolded as in `IntegrityProofs`, with a step that
depends on the index (`Recursion`).

Only model-checked: the liveness properties (`SessionsEnd`,
`CompletesWithoutFault`, `ReaderLearns`, `ClientsEnd`, `RecoversAfterOutage`,
`WatchersReturn`, `MainDecides`). Fairness and `ENABLED` are out of the prover's
reach. Every invariant and every action property that a passing run checks has
its theorem.

## What is not modelled

* A peer that does not follow the protocol: both ends run this code, so in
  `Transfer` the branches that reject a message are modelled but never taken.
  `Wire` has the branch that rejects a message of another kind.
* In `Transfer` the name of the file and the content an earlier transfer left
  under it; `Server` has both, with chunks in the place of messages.
* Parsing of arguments, addresses and environment (`splitNonEmpty`,
  `StaticRelayAddrs`, `CircuitAddr`): a bad one ends the process at its start.
  `RELAY_PRIVKEY_B64` is taken to hold a key that was printed.
* The relay service and libp2p itself, hole punching included: external, by
  what the code relies on. `relay/main.go` only configures it.
* `LogIdentifyEvents` only prints.
* Session's mutex (one goroutine uses a session), other logging, and the code
  that is commented out (about a third of the lines under `Controllers`,
  `Chunk` and `Utils`).
