---------------------------- MODULE Reservation ----------------------------
(***************************************************************************)
(* A host's slots on its static relays (P2P/host.go): the loop of NewHost  *)
(* that connects and reserves, the keepReservationAlive goroutine it       *)
(* starts for every reservation, and the addresses the server's main then  *)
(* prints.  The relay (relay/main.go runs libp2p's service) is external.   *)
(*                                                                         *)
(* Time is discrete, in units of 5 s, of which all the periods in the code *)
(* are multiples.  Every period is kept as the time that is left of it.    *)
(***************************************************************************)
EXTENDS Integers, Sequences

CONSTANTS
  StaticRelays,  \* the relay of each entry of RELAY_ADDRS; may repeat one
  TTL,           \* for how long a relay grants a slot
  FirstTimeout   \* libp2p's own limit on the Reserve of NewHost

Lead == 6        \* 30*time.Second before the expiry
MinWait == 1     \* 5*time.Second
Timeout == 3     \* the 15*time.Second of a renewal's context
Backoff == 2     \* 10*time.Second after a failed renewal
Pause == 3       \* the server's 15*time.Second before it prints

\* Far below the hour that libp2p's relays grant.
ASSUME PeriodsAssumption ==
  /\ FirstTimeout \in Nat /\ TTL \in Nat
  /\ TTL > MinWait + Timeout + FirstTimeout
  /\ TTL > MinWait + Timeout + Timeout

ASSUME RelaysAssumption == StaticRelays \in Seq(STRING)

Entries == 1 .. Len(StaticRelays)

Relays == {StaticRelays[i] : i \in Entries}

VARIABLES
  entry,     \* the entry NewHost's loop is at; one past the last when it is done
  pause,     \* what is left of main's sleep after NewHost
  announced, \* main has printed the addresses
  loop,      \* per entry, where its reservation is
  timer,     \* per entry, what is left of its sleep or of its Reserve's time
  held,      \* per entry, what is left until rsvp.Expiration
  answer,    \* per entry, the time granted by an answer under way; 0: none
  serving,   \* per relay: reachable, and with a slot for us
  slot,      \* per relay: what is left of the slot it keeps for us; 0: none
  good,      \* history, per relay: served us without a break since its last grant
  stale      \* history, per relay: for how long it has served, keeping no slot

hostVars == <<entry, pause, announced>>
loopVars == <<loop, timer, held, answer>>
relayVars == <<serving, slot, good, stale>>
vars == <<hostVars, loopVars, relayVars>>

\* Where an entry's reservation is: not yet tried, in NewHost's Reserve, given
\* up by NewHost, or in keepReservationAlive.
Alive == {"sleeping", "reserving", "backoff"}

KeptAlive(i) == loop[i] \notin {"none", "first", "skipped"}

Kept(r) == \E i \in Entries : StaticRelays[i] = r /\ KeptAlive(i)

TypeOK ==
  /\ entry \in 1 .. Len(StaticRelays) + 1
  /\ pause \in 0 .. Pause /\ announced \in BOOLEAN
  /\ loop \in [Entries -> Alive \cup {"none", "first", "skipped"}]
  /\ timer \in [Entries -> Nat]
  /\ held \in [Entries -> 0 .. TTL] /\ answer \in [Entries -> 0 .. TTL]
  /\ serving \in [Relays -> BOOLEAN] /\ slot \in [Relays -> 0 .. TTL]
  /\ good \in [Relays -> BOOLEAN] /\ stale \in [Relays -> Nat]

Init ==
  /\ entry = 1 /\ pause = Pause /\ announced = FALSE
  /\ loop = [i \in Entries |-> "none"] /\ timer = [i \in Entries |-> 0]
  /\ held = [i \in Entries |-> 0] /\ answer = [i \in Entries |-> 0]
  /\ serving \in [Relays -> BOOLEAN] /\ slot = [r \in Relays |-> 0]
  /\ good = [r \in Relays |-> FALSE] /\ stale = [r \in Relays |-> 0]

(***************************************************************************)
(* NewHost.                                                                *)
(***************************************************************************)
\* h.Connect; a relay that cannot be reached is skipped (continue).
Connect(i) ==
  /\ entry = i /\ loop[i] = "none"
  /\ \/ /\ serving[StaticRelays[i]]
        /\ loop' = [loop EXCEPT ![i] = "first"]
        /\ timer' = [timer EXCEPT ![i] = FirstTimeout]
        /\ UNCHANGED entry
     \/ /\ ~serving[StaticRelays[i]]
        /\ loop' = [loop EXCEPT ![i] = "skipped"]
        /\ entry' = i + 1
        /\ UNCHANGED timer
  /\ UNCHANGED <<pause, announced, held, answer, relayVars>>

\* Seeded faults: the 30 s are not subtracted from the time that is left, or
\* are added to it.
RenewAfterFault_NoLead(left) == IF left < MinWait THEN MinWait ELSE left

RenewAfterFault_LateLead(left) == left + Lead

\* For how long keepReservationAlive sleeps with that much time left.
RenewAfter(left) == IF left - Lead < MinWait THEN MinWait ELSE left - Lead

\* circuit.Reserve has returned a reservation to NewHost: go keepReservationAlive.
FirstReserved(i) ==
  /\ loop[i] = "first" /\ answer[i] > 0
  /\ loop' = [loop EXCEPT ![i] = "sleeping"]
  /\ held' = [held EXCEPT ![i] = answer[i]]
  /\ timer' = [timer EXCEPT ![i] = RenewAfter(answer[i])]
  /\ answer' = [answer EXCEPT ![i] = 0]
  /\ entry' = i + 1
  /\ UNCHANGED <<pause, announced, relayVars>>

\* It has failed: the relay refused, or its answer is late or lost.
FirstFailed(i) ==
  /\ loop[i] = "first" /\ ~serving[StaticRelays[i]]
  /\ loop' = [loop EXCEPT ![i] = "skipped"]
  /\ answer' = [answer EXCEPT ![i] = 0]
  /\ entry' = i + 1
  /\ UNCHANGED <<pause, announced, timer, held, relayVars>>

\* The server's main, 15 s after NewHost has returned: an address through
\* every static relay is printed.
Announce ==
  /\ entry > Len(StaticRelays) /\ pause = 0 /\ ~announced
  /\ announced' = TRUE
  /\ UNCHANGED <<entry, pause, loopVars, relayVars>>

(***************************************************************************)
(* keepReservationAlive.                                                   *)
(***************************************************************************)
StartRenewal(i) ==
  /\ loop[i] = "sleeping" /\ timer[i] = 0
  /\ loop' = [loop EXCEPT ![i] = "reserving"]
  /\ timer' = [timer EXCEPT ![i] = Timeout]
  /\ UNCHANGED <<hostVars, held, answer, relayVars>>

Renewed(i) ==
  /\ loop[i] = "reserving" /\ answer[i] > 0
  /\ loop' = [loop EXCEPT ![i] = "sleeping"]
  /\ held' = [held EXCEPT ![i] = answer[i]]
  /\ timer' = [timer EXCEPT ![i] = RenewAfter(answer[i])]
  /\ answer' = [answer EXCEPT ![i] = 0]
  /\ UNCHANGED <<hostVars, relayVars>>

\* Seeded fault: the goroutine returns when a renewal fails.
RenewalFailedFault_Return(i) ==
  /\ loop[i] = "reserving" /\ ~serving[StaticRelays[i]]
  /\ loop' = [loop EXCEPT ![i] = "returned"]
  /\ answer' = [answer EXCEPT ![i] = 0]
  /\ UNCHANGED <<hostVars, timer, held, relayVars>>

RenewalFailed(i) ==
  /\ loop[i] = "reserving" /\ ~serving[StaticRelays[i]]
  /\ loop' = [loop EXCEPT ![i] = "backoff"]
  /\ timer' = [timer EXCEPT ![i] = Backoff]
  /\ answer' = [answer EXCEPT ![i] = 0]
  /\ UNCHANGED <<hostVars, held, relayVars>>

\* continue: the next wait is computed from the old reservation.
Retry(i) ==
  /\ loop[i] = "backoff" /\ timer[i] = 0
  /\ loop' = [loop EXCEPT ![i] = "sleeping"]
  /\ timer' = [timer EXCEPT ![i] = RenewAfter(held[i])]
  /\ UNCHANGED <<hostVars, held, answer, relayVars>>

(***************************************************************************)
(* The relays.  A relay that serves answers a Reserve in time.             *)
(***************************************************************************)
Granted(i) ==
  LET r == StaticRelays[i]
  IN  /\ loop[i] \in {"first", "reserving"} /\ answer[i] = 0
      /\ serving[r]
      /\ slot' = [slot EXCEPT ![r] = TTL]
      /\ answer' = [answer EXCEPT ![i] = TTL]
      /\ good' = [good EXCEPT ![r] = TRUE]
      /\ stale' = [stale EXCEPT ![r] = 0]
      /\ UNCHANGED <<hostVars, loop, timer, held, serving>>

\* It can no longer be reached, or has no slot for us any more; ...
StopsServing(r) ==
  /\ serving[r]
  /\ serving' = [serving EXCEPT ![r] = FALSE]
  /\ good' = [good EXCEPT ![r] = FALSE]
  /\ stale' = [stale EXCEPT ![r] = 0]
  /\ UNCHANGED <<hostVars, loopVars, slot>>

\* ... or can again.
Serves(r) ==
  /\ ~serving[r]
  /\ serving' = [serving EXCEPT ![r] = TRUE]
  /\ UNCHANGED <<hostVars, loopVars, slot, good, stale>>

\* A restart: "none of which survives" (relay/main.go:6).  What it answered
\* before may still arrive.
Forgets(r) ==
  /\ slot[r] > 0
  /\ slot' = [slot EXCEPT ![r] = 0]
  /\ good' = [good EXCEPT ![r] = FALSE]
  /\ UNCHANGED <<hostVars, loopVars, serving, stale>>

(***************************************************************************)
(* Time passes, but no sleep and no Reserve overruns its period.           *)
(***************************************************************************)
Less(left) == IF left = 0 THEN 0 ELSE left - 1

Busy(i) == loop[i] \in Alive \cup {"first"}

Tick ==
  /\ \A i \in Entries : Busy(i) => timer[i] > 0
  /\ entry > Len(StaticRelays) => pause > 0 \/ announced
  /\ timer' = [i \in Entries |-> Less(timer[i])]
  /\ held' = [i \in Entries |-> Less(held[i])]
  /\ answer' = [i \in Entries |-> Less(answer[i])]
  /\ slot' = [r \in Relays |-> Less(slot[r])]
  /\ stale' = [r \in Relays |-> IF Kept(r) /\ serving[r] /\ slot[r] = 0
                                THEN stale[r] + 1 ELSE stale[r]]
  /\ pause' = IF entry > Len(StaticRelays) THEN Less(pause) ELSE pause
  /\ UNCHANGED <<entry, announced, loop, serving, good>>

HostStep(i) ==
  \/ Connect(i) \/ FirstReserved(i) \/ FirstFailed(i)
  \/ StartRenewal(i) \/ Renewed(i) \/ RenewalFailed(i) \/ Retry(i)

Next ==
  \/ \E i \in Entries : HostStep(i) \/ Granted(i)
  \/ \E r \in Relays : StopsServing(r) \/ Serves(r) \/ Forgets(r)
  \/ Announce
  \/ Tick

Spec == Init /\ [][Next]_vars

\* Time passes, the goroutines run, and a Reserve ends, with an answer or not.
FairSpec ==
  /\ Spec
  /\ WF_vars(Tick) /\ WF_vars(Announce)
  /\ \A i \in Entries : WF_vars(HostStep(i) \/ Granted(i))

(***************************************************************************)
(* Properties.                                                             *)
(***************************************************************************)
\* keepReservationAlive "re-reserves a relay slot shortly before it expires":
\* as long as the relay has served without a break since it last granted a
\* slot, that slot does not lapse, however slowly each renewal is answered and
\* whichever of several entries for the same relay renews it.
NeverLapsesWhileServed ==
  \A r \in Relays : Kept(r) /\ good[r] => slot[r] > 0

MaxOf(x, y) == IF x < y THEN y ELSE x

\* The longest time between two requests of one goroutine, and its answer.
MaxStale ==
  MaxOf(TTL - Lead, MinWait + MaxOf(FirstTimeout, MaxOf(Timeout, Backoff))) + Timeout

\* keepReservationAlive is there so that no reservation goes stale because "the
\* relay has quietly forgotten about it" (host.go:289-291).  It cannot see a
\* restart of the relay, but after one, or after an outage, the host is without
\* a slot for a bounded time only: until the renewal that was due anyway, or
\* the retry.
StaleIsBounded == \A r \in Relays : stale[r] <= MaxStale

\* An entry whose first reservation worked is recovered after every outage: if
\* its relay serves for good and does not restart again, it has a slot for good.
RecoversAfterOutage ==
  \A i \in Entries :
    LET r == StaticRelays[i]
    IN  <>[]serving[r] /\ <>[][~Forgets(r)]_vars
          => <>[](KeptAlive(i) => slot[r] > 0)

\* The server prints every static relay's address and "Give one of the
\* addresses above ... to the client" (server.go:104): there is a goroutine
\* that keeps, or will regain, the slot behind each of them.
AnnouncedIsKeptAlive == announced => \A i \in Entries : KeptAlive(i)

(***************************************************************************)
(* Why the slot does not lapse, entry by entry: a bound on the time until  *)
(* its next request to the relay has been answered.                        *)
(***************************************************************************)
\* l, t and a are the loop, the timer and the answer of an entry.
Due(l, t, a) ==
  IF a > 0 THEN MaxOf(a - Lead, t + MinWait) + Timeout
  ELSE IF l = "sleeping" THEN t + Timeout
  ELSE IF l = "backoff" THEN t + MinWait + Timeout
  ELSE t

Limit(l) == IF l = "first" THEN FirstTimeout ELSE Timeout

\* The goroutine's own clocks: h is what is left of its reservation.
OnTime(l, t, h, a) ==
  /\ l = "first" => t <= FirstTimeout
  /\ l = "sleeping" => t <= MaxOf(TTL - Lead, MinWait) /\ h <= t + Lead
  /\ l = "reserving" => t <= Timeout /\ h <= Lead
  /\ l = "backoff" => t <= Backoff /\ h <= Lead
  /\ a > 0 => l \in {"first", "reserving"} /\ a >= TTL - (Limit(l) - t)

\* They and the relay's: sv, sl, g and st are its serving, slot, good and stale.
InTime(l, t, a, sv, sl, g, st) ==
  /\ sv /\ (a > 0 \/ l \in Alive) => st + Due(l, t, a) <= MaxStale
  /\ g /\ a > 0 => a <= sl
  /\ g /\ a = 0 /\ l \in Alive => Due(l, t, a) < sl

EntryOK(i) ==
  LET r == StaticRelays[i]
  IN  /\ OnTime(loop[i], timer[i], held[i], answer[i])
      /\ InTime(loop[i], timer[i], answer[i], serving[r], slot[r], good[r], stale[r])

RelayOK(r) ==
  /\ good[r] => serving[r]
  /\ stale[r] > 0 => serving[r] /\ Kept(r)

Inv == TypeOK /\ (\A i \in Entries : EntryOK(i)) /\ (\A r \in Relays : RelayOK(r))
=============================================================================
