------------------------------- MODULE Client -------------------------------
(***************************************************************************)
(* The client's main (Client/client.go) up to the stream it transfers on:  *)
(* NewHost with its static relays, the dial, the window for hole punching  *)
(* and NewStream, under one context with a time limit.  The context does   *)
(* not end the window, nor a reservation once it has been asked for:       *)
(* circuit.Reserve opens its stream under it and reads the reply under a   *)
(* limit of its own.  How the other hosts answer is up to the environment. *)
(***************************************************************************)
EXTENDS Naturals, FiniteSets

CONSTANTS
  NRelays,      \* entries of RELAY_ADDRS
  Budget,       \* context.WithTimeout(..., 30*time.Second)
  Window,       \* time.Sleep(3 * time.Second)
  DialLimit,    \* libp2p's own limit on a dial
  ReserveLimit, \* libp2p's own limit on the reply to a reservation
  Answer        \* within what time a host that answers does so

ASSUME PeriodsAssumption ==
  /\ NRelays \in Nat /\ Budget \in Nat /\ Window \in Nat
  /\ DialLimit \in Nat /\ ReserveLimit \in Nat /\ Answer \in 0 .. ReserveLimit

VARIABLES
  relay,    \* per entry: "answers", "refuses" the slot, is "unreachable",
            \* "hung" (accepts the connection and says no more) or "silent"
            \* (takes the request and does not reply)
  server,   \* "answers" or is "unreachable"
  pc,       \* what main is doing
  entry,    \* the relay NewHost is at
  left,     \* what is left of the context's time
  took,     \* how long the call in progress, or the sleep, has taken
  elapsed   \* history: the time since the context was made

vars == <<relay, server, pc, entry, left, took, elapsed>>

Entries == 1 .. NRelays

Relays == {"answers", "refuses", "unreachable", "hung", "silent"}

InNewHost == {"connect", "reserve"}

AfterNewHost == {"dial", "window", "stream", "open"}

\* main has been through all its relays when it dials.
TypeOK ==
  /\ relay \in [Entries -> Relays]
  /\ server \in {"answers", "unreachable"}
  /\ pc \in InNewHost \cup AfterNewHost \cup {"failed"}
  /\ entry \in 1 .. NRelays + 1
  /\ pc \in InNewHost => entry <= NRelays
  /\ pc \in AfterNewHost => entry = NRelays + 1
  /\ left \in 0 .. Budget /\ took \in Nat /\ elapsed \in Nat

Init ==
  /\ relay \in [Entries -> Relays]
  /\ server \in {"answers", "unreachable"}
  /\ pc = IF NRelays = 0 THEN "dial" ELSE "connect"
  /\ entry = 1 /\ left = Budget /\ took = 0
  /\ elapsed = 0

Goto(next) == pc' = next /\ took' = 0

\* NewHost's loop goes on with the next relay, or ends and main dials.
NextRelay ==
  /\ Goto(IF entry < NRelays THEN "connect" ELSE "dial")
  /\ entry' = entry + 1

(***************************************************************************)
(* A call returns an error when its context is done.                       *)
(***************************************************************************)
\* Seeded fault: NewHost returns the error of a relay it cannot connect to.
ConnectRelayFault_Return ==
  /\ pc = "connect"
  /\ IF left > 0 /\ relay[entry] # "unreachable"
     THEN Goto("reserve") /\ UNCHANGED entry
     ELSE Goto("failed") /\ UNCHANGED entry
  /\ UNCHANGED <<relay, server, left, elapsed>>

\* An error skips the relay.
ConnectRelay ==
  /\ pc = "connect"
  /\ IF left > 0 /\ relay[entry] # "unreachable"
     THEN Goto("reserve") /\ UNCHANGED entry
     ELSE NextRelay
  /\ UNCHANGED <<relay, server, left, elapsed>>

\* Reserve returns.
Replied ==
  CASE relay[entry] = "hung"   -> left = 0
    [] relay[entry] = "silent" -> took = ReserveLimit
    [] OTHER                   -> TRUE

\* Seeded fault: a refused reservation is asked for again, without a pause.
ReserveFault_Retry ==
  /\ pc = "reserve" /\ Replied
  /\ IF left > 0 /\ relay[entry] = "refuses"
     THEN Goto("connect") /\ UNCHANGED entry
     ELSE NextRelay
  /\ UNCHANGED <<relay, server, left, elapsed>>

\* Seeded fault: break where a relay has granted its slot.
ReserveFault_Break ==
  /\ pc = "reserve" /\ Replied
  /\ IF relay[entry] = "answers" THEN Goto("dial") /\ UNCHANGED entry ELSE NextRelay
  /\ UNCHANGED <<relay, server, left, elapsed>>

\* Granted, refused or timed out, the loop goes on.  (The goroutine a granted
\* reservation starts is module Reservation's.)
Reserve ==
  /\ pc = "reserve" /\ Replied
  /\ NextRelay
  /\ UNCHANGED <<relay, server, left, elapsed>>

\* log.Fatal on an error.
Dial ==
  /\ pc = "dial"
  /\ Goto(IF left > 0 /\ server = "answers" THEN "window" ELSE "failed")
  /\ UNCHANGED <<relay, server, entry, left, elapsed>>

EndWindow ==
  /\ pc = "window" /\ took = Window
  /\ Goto("stream")
  /\ UNCHANGED <<relay, server, entry, left, elapsed>>

NewStream ==
  /\ pc = "stream"
  /\ Goto(IF left > 0 /\ server = "answers" THEN "open" ELSE "failed")
  /\ UNCHANGED <<relay, server, entry, left, elapsed>>

\* The longest the call in progress may still take, by itself.
Limit ==
  CASE pc = "connect" -> IF relay[entry] = "unreachable" THEN DialLimit ELSE Answer
    [] pc = "reserve" -> (CASE relay[entry] = "hung"   -> Budget
                            [] relay[entry] = "silent" -> ReserveLimit
                            [] OTHER                   -> Answer)
    [] pc = "dial"    -> IF server = "unreachable" THEN DialLimit ELSE Answer
    [] pc = "stream"  -> Answer
    [] pc = "window"  -> Window
    [] OTHER          -> 0

\* The call in progress ends with the context.
InContext ==
  pc \in {"connect", "dial", "stream"} \/ (pc = "reserve" /\ relay[entry] = "hung")

\* Seeded fault: only Reserve takes the context.
TimePassesFault_NoContext ==
  /\ took < Limit
  /\ pc = "reserve" /\ InContext => left > 0
  /\ took' = took + 1 /\ elapsed' = elapsed + 1
  /\ left' = IF left > 0 /\ pc = "reserve" THEN left - 1 ELSE left
  /\ UNCHANGED <<relay, server, pc, entry>>

TimePasses ==
  /\ took < Limit
  /\ InContext => left > 0
  /\ took' = took + 1 /\ elapsed' = elapsed + 1
  /\ left' = IF left = 0 THEN 0 ELSE left - 1
  /\ UNCHANGED <<relay, server, pc, entry>>

Main == ConnectRelay \/ Reserve \/ Dial \/ EndWindow \/ NewStream

\* The stream is open and main goes on with the transfer, or it has exited.
Done == pc \in {"open", "failed"} /\ UNCHANGED vars

Next == Main \/ TimePasses \/ Done

Spec == Init /\ [][Next]_vars

FairSpec == Spec /\ WF_vars(Main \/ TimePasses)

(***************************************************************************)
(* Properties.                                                             *)
(***************************************************************************)
Longer(a, b) == IF a < b THEN b ELSE a

\* How long what the context does not end may go on after it.
Overrun == Longer(Window, IF \E i \in Entries : relay[i] = "silent"
                          THEN ReserveLimit ELSE Answer)

\* The context bounds everything before the transfer, relays included, but for
\* the window, which sleeps on, and one reservation it does not cut short:
\* main decides within its time and the longer of these.  Not even relays that
\* all keep silent add up.
StartIsBounded == pc \notin {"open", "failed"} => elapsed <= Budget + Overrun

Dead == {i \in Entries : relay[i] \in {"unreachable", "hung", "silent"}}

\* The relays share the context with the dial and the stream.  One that
\* refuses, or one that cannot be reached, still leaves enough of it: a client
\* whose server answers gets its stream.
OneDeadRelayTolerated ==
  pc = "failed" /\ server = "answers"
    => Cardinality(Dead) > 1 \/ \E i \in Entries : relay[i] \in {"hung", "silent"}

\* main always gets to its stream or to log.Fatal.
MainDecides == <>(pc \in {"open", "failed"})

\* "a pool it ... backs off from whichever candidates don't respond"
\* (host.go:109-110): relays that do not respond cost the client nothing but
\* their reservations.
DeadRelaysHarmless == pc = "failed" => server = "unreachable"
=============================================================================
