------------------------- MODULE ReservationProofs -------------------------
(***************************************************************************)
(* Proofs about Reservation, for every list of relays and every time that  *)
(* a relay may grant.                                                      *)
(***************************************************************************)
EXTENDS Reservation, TLAPS

Loops == Alive \cup {"none", "first", "skipped"}

(***************************************************************************)
(* The clocks of one entry and its relay, by value.                        *)
(***************************************************************************)
\* What an entry's values are.
EntryTyped(l, t, h, a, sl, st) ==
  /\ l \in Loops /\ t \in Nat /\ st \in Nat
  /\ h \in 0 .. TTL /\ a \in 0 .. TTL /\ sl \in 0 .. TTL

\* The end of a Reserve with an answer, in NewHost or in keepReservationAlive:
\* the sleep that follows ends in time for another whole renewal.
LEMMA AnsweredInTime ==
  ASSUME NEW l, NEW t, NEW h, NEW a, NEW sl, NEW st, NEW sv, NEW g,
         EntryTyped(l, t, h, a, sl, st), OnTime(l, t, h, a),
         InTime(l, t, a, sv, sl, g, st), a > 0
  PROVE  /\ RenewAfter(a) \in Nat
         /\ OnTime("sleeping", RenewAfter(a), a, 0)
         /\ InTime("sleeping", RenewAfter(a), 0, sv, sl, g, st)
BY PeriodsAssumption
   DEF EntryTyped, OnTime, InTime, Due, Limit, MaxOf, RenewAfter, MaxStale,
       Lead, MinWait, Timeout, Backoff, Alive, Loops

\* The end of the sleep.
LEMMA StartsInTime ==
  ASSUME NEW h, NEW a, NEW sl, NEW st, NEW sv, NEW g,
         EntryTyped("sleeping", 0, h, a, sl, st), OnTime("sleeping", 0, h, a),
         InTime("sleeping", 0, a, sv, sl, g, st)
  PROVE  /\ OnTime("reserving", Timeout, h, a)
         /\ InTime("reserving", Timeout, a, sv, sl, g, st)
BY PeriodsAssumption
   DEF EntryTyped, OnTime, InTime, Due, Limit, MaxOf, MaxStale,
       Lead, MinWait, Timeout, Backoff, Alive, Loops

\* A failed renewal: the relay is not serving.
LEMMA FailsInTime ==
  ASSUME NEW t, NEW h, NEW a, NEW sl, NEW st,
         EntryTyped("reserving", t, h, a, sl, st), OnTime("reserving", t, h, a)
  PROVE  /\ OnTime("backoff", Backoff, h, 0)
         /\ InTime("backoff", Backoff, 0, FALSE, sl, FALSE, st)
BY DEF EntryTyped, OnTime, InTime, Due, Lead, MinWait, Timeout, Backoff, Alive

\* The end of the backoff.
LEMMA RetriesInTime ==
  ASSUME NEW h, NEW a, NEW sl, NEW st, NEW sv, NEW g,
         EntryTyped("backoff", 0, h, a, sl, st), OnTime("backoff", 0, h, a),
         InTime("backoff", 0, a, sv, sl, g, st)
  PROVE  /\ RenewAfter(h) \in Nat
         /\ OnTime("sleeping", RenewAfter(h), h, a)
         /\ InTime("sleeping", RenewAfter(h), a, sv, sl, g, st)
BY PeriodsAssumption
   DEF EntryTyped, OnTime, InTime, Due, Limit, MaxOf, RenewAfter, MaxStale,
       Lead, MinWait, Timeout, Backoff, Alive, Loops

\* A grant, to this entry (its answer a is then TTL) or to another one of the
\* same relay.
LEMMA GrantedInTime ==
  ASSUME NEW l, NEW t, NEW h, NEW a, NEW sl, NEW st,
         EntryTyped(l, t, h, a, sl, st), OnTime(l, t, h, a)
  PROVE  /\ InTime(l, t, a, TRUE, TTL, TRUE, 0)
         /\ l \in {"first", "reserving"}
              => OnTime(l, t, h, TTL) /\ InTime(l, t, TTL, TRUE, TTL, TRUE, 0)
BY PeriodsAssumption
   DEF EntryTyped, OnTime, InTime, Due, Limit, MaxOf, MaxStale,
       Lead, MinWait, Timeout, Backoff, Alive, Loops

\* A relay that begins to serve, or that forgets its slots.
LEMMA ServedInTime ==
  ASSUME NEW l, NEW t, NEW h, NEW a, NEW sl, NEW st, NEW sv, NEW g,
         EntryTyped(l, t, h, a, sl, st), OnTime(l, t, h, a),
         InTime(l, t, a, sv, sl, g, st)
  PROVE  /\ InTime(l, t, a, TRUE, sl, FALSE, 0)
         /\ InTime(l, t, a, FALSE, sl, FALSE, 0)
         /\ InTime(l, t, a, sv, 0, FALSE, st)
BY PeriodsAssumption
   DEF EntryTyped, OnTime, InTime, Due, Limit, MaxOf, MaxStale,
       Lead, MinWait, Timeout, Backoff, Alive, Loops

\* A unit of time: every clock of a busy entry has some left.
LEMMA TickInTime ==
  ASSUME NEW l, NEW t, NEW h, NEW a, NEW sl, NEW st, NEW sv, NEW g, NEW st2,
         EntryTyped(l, t, h, a, sl, st), OnTime(l, t, h, a),
         InTime(l, t, a, sv, sl, g, st),
         l \in Alive \cup {"first"} => t > 0,
         st2 = st \/ st2 = st + 1
  PROVE  /\ OnTime(l, Less(t), Less(h), Less(a))
         /\ InTime(l, Less(t), Less(a), sv, Less(sl), g, st2)
BY PeriodsAssumption
   DEF EntryTyped, OnTime, InTime, Due, Limit, MaxOf, MaxStale, Less,
       Lead, MinWait, Timeout, Backoff, Alive, Loops

(***************************************************************************)
(* The state.                                                              *)
(***************************************************************************)
\* The values of an entry are typed, and its relay is one of the relays.
LEMMA EntryTypes ==
  ASSUME TypeOK, NEW i \in Entries
  PROVE  LET r == StaticRelays[i]
         IN  /\ r \in Relays
             /\ EntryTyped(loop[i], timer[i], held[i], answer[i], slot[r], stale[r])
BY Zenon DEF TypeOK, EntryTyped, Loops, Relays

\* An entry whose clocks and relay are left alone stays as it is.
LEMMA EntryKept ==
  ASSUME NEW i \in Entries, EntryOK(i),
         loop'[i] = loop[i], timer'[i] = timer[i], held'[i] = held[i],
         answer'[i] = answer[i],
         LET r == StaticRelays[i]
         IN  /\ serving'[r] = serving[r] /\ slot'[r] = slot[r]
             /\ good'[r] = good[r] /\ stale'[r] = stale[r]
  PROVE  EntryOK(i)'
BY Zenon DEF EntryOK

\* So does a relay.
LEMMA RelayKept ==
  ASSUME NEW r \in Relays, RelayOK(r), Kept(r) => Kept(r)',
         serving'[r] = serving[r], good'[r] = good[r] \/ ~good'[r],
         stale'[r] = stale[r]
  PROVE  RelayOK(r)'
BY Zenon DEF RelayOK

\* A goroutine that runs does not end.
LEMMA StaysKept ==
  ASSUME NEW r \in Relays, \A i \in Entries : KeptAlive(i) => KeptAlive(i)'
  PROVE  Kept(r) => Kept(r)'
BY Zenon DEF Kept

\* A step of an entry changes no relay.
LEMMA TypesOf ==
  ASSUME TypeOK, UNCHANGED <<serving, slot, good, stale>>,
         entry' \in 1 .. Len(StaticRelays) + 1, UNCHANGED <<pause, announced>>,
         loop' \in [Entries -> Loops], timer' \in [Entries -> Nat],
         held' \in [Entries -> 0 .. TTL], answer' \in [Entries -> 0 .. TTL]
  PROVE  TypeOK'
BY Zenon DEF TypeOK, Loops

\* Before NewHost.
LEMMA InvInit == Init => Inv
<1> SUFFICES ASSUME Init PROVE Inv
  BY Zenon
<1>1. TypeOK
  <2>1. entry \in 1 .. Len(StaticRelays) + 1 /\ pause \in 0 .. Pause
    BY RelaysAssumption DEF Init, Pause
  <2>2. 0 \in Nat /\ 0 \in 0 .. TTL
    BY PeriodsAssumption
  <2> QED BY <2>1, <2>2, Zenon DEF Init, TypeOK
<1>2. ASSUME NEW i \in Entries PROVE EntryOK(i)
  BY <1>1, EntryTypes DEF Init, EntryOK, OnTime, InTime, Alive
<1>3. ASSUME NEW r \in Relays PROVE RelayOK(r)
  BY DEF Init, RelayOK
<1> QED BY <1>1, <1>2, <1>3, Zenon DEF Inv

\* The steps of an entry, in terms of its own values.
LEMMA HostValues ==
  ASSUME Inv, NEW i \in Entries, HostStep(i)
  PROVE  /\ UNCHANGED relayVars
         /\ \A j \in Entries \ {i} :
              /\ loop'[j] = loop[j] /\ timer'[j] = timer[j]
              /\ held'[j] = held[j] /\ answer'[j] = answer[j]
         /\ KeptAlive(i) => KeptAlive(i)'
         /\ EntryOK(i)'
         /\ TypeOK'
<1> DEFINE r == StaticRelays[i]
<1>1. /\ TypeOK /\ r \in Relays /\ EntryOK(i) /\ RelayOK(r)
      /\ EntryTyped(loop[i], timer[i], held[i], answer[i], slot[r], stale[r])
  BY EntryTypes, Zenon DEF Inv
<1>2. /\ OnTime(loop[i], timer[i], held[i], answer[i])
      /\ InTime(loop[i], timer[i], answer[i], serving[r], slot[r], good[r], stale[r])
  BY <1>1, Zenon DEF EntryOK
<1>3. UNCHANGED relayVars
  BY Zenon DEF HostStep, Connect, FirstReserved, FirstFailed, StartRenewal, Renewed,
         RenewalFailed, Retry
<1>4. UNCHANGED <<serving, slot, good, stale>>
  BY <1>3, Zenon DEF relayVars
<1>5. \A j \in Entries \ {i} :
        /\ loop'[j] = loop[j] /\ timer'[j] = timer[j]
        /\ held'[j] = held[j] /\ answer'[j] = answer[j]
  BY <1>1 DEF TypeOK, HostStep, Connect, FirstReserved, FirstFailed, StartRenewal, Renewed,
              RenewalFailed, Retry
<1>6. /\ entry \in 1 .. Len(StaticRelays) + 1 /\ i + 1 \in 1 .. Len(StaticRelays) + 1
      /\ 0 \in 0 .. TTL
  BY <1>1, RelaysAssumption, PeriodsAssumption DEF TypeOK, Entries
<1> HIDE DEF r
<1>7. CASE Connect(i)
  <2>1. /\ loop[i] = "none" /\ loop'[i] \in {"first", "skipped"}
        /\ loop'[i] = "first" => timer'[i] = FirstTimeout
        /\ held'[i] = held[i] /\ answer'[i] = answer[i]
    BY <1>1, <1>7, Zenon DEF Connect, TypeOK
  <2>2. answer[i] = 0
    BY <1>1, <1>2, <2>1 DEF OnTime, EntryTyped
  <2>3. /\ OnTime(loop'[i], timer'[i], held'[i], answer'[i])
        /\ InTime(loop'[i], timer'[i], answer'[i], serving[r], slot[r], good[r], stale[r])
    <3>1. CASE loop'[i] = "first"
      BY <2>1, <2>2, <3>1, PeriodsAssumption DEF OnTime, InTime, Alive
    <3>2. CASE loop'[i] = "skipped"
      BY <2>1, <2>2, <3>2 DEF OnTime, InTime, Alive
    <3> QED BY <2>1, <3>1, <3>2, Zenon
  <2>4. TypeOK'
    <3>1. entry' \in 1 .. Len(StaticRelays) + 1 /\ UNCHANGED <<pause, announced>>
      BY <1>6, <1>7, Zenon DEF Connect
    <3>2. loop' \in [Entries -> Loops]
      BY <1>1, <1>7 DEF Connect, TypeOK, Loops, Alive
    <3>3. timer' \in [Entries -> Nat]
      BY <1>1, <1>7, PeriodsAssumption, Zenon DEF Connect, TypeOK
    <3>4. held' \in [Entries -> 0 .. TTL] /\ answer' \in [Entries -> 0 .. TTL]
      BY <1>1, <1>7, Zenon DEF Connect, TypeOK
    <3> QED BY <1>1, <1>4, <3>1, <3>2, <3>3, <3>4, TypesOf, Zenon
  <2> QED BY <1>3, <1>4, <1>5, <2>1, <2>3, <2>4, Zenon DEF EntryOK, KeptAlive, r
<1>8. CASE FirstReserved(i) \/ Renewed(i)
  <2>1. /\ loop'[i] = "sleeping" /\ timer'[i] = RenewAfter(answer[i])
        /\ held'[i] = answer[i] /\ answer'[i] = 0 /\ answer[i] > 0
    BY <1>1, <1>8, Zenon DEF FirstReserved, Renewed, TypeOK
  <2>2. /\ RenewAfter(answer[i]) \in Nat
        /\ OnTime(loop'[i], timer'[i], held'[i], answer'[i])
        /\ InTime(loop'[i], timer'[i], answer'[i], serving[r], slot[r], good[r], stale[r])
    BY <1>1, <1>2, <2>1, AnsweredInTime
  <2>3. TypeOK'
    <3>1. /\ entry' \in 1 .. Len(StaticRelays) + 1 /\ UNCHANGED <<pause, announced>>
          /\ loop' = [loop EXCEPT ![i] = "sleeping"]
          /\ held' = [held EXCEPT ![i] = answer[i]]
          /\ timer' = [timer EXCEPT ![i] = RenewAfter(answer[i])]
          /\ answer' = [answer EXCEPT ![i] = 0]
      BY <1>6, <1>8, Zenon DEF FirstReserved, Renewed, hostVars
    <3>2. loop' \in [Entries -> Loops]
      BY <1>1, <3>1, Zenon DEF TypeOK, Loops, Alive
    <3>3. timer' \in [Entries -> Nat]
      BY <1>1, <2>2, <3>1, Zenon DEF TypeOK
    <3>4. held' \in [Entries -> 0 .. TTL] /\ answer' \in [Entries -> 0 .. TTL]
      BY <1>1, <1>6, <3>1, Zenon DEF TypeOK
    <3> QED BY <1>1, <1>4, <3>1, <3>2, <3>3, <3>4, TypesOf, Zenon
  <2> QED BY <1>3, <1>4, <1>5, <2>1, <2>2, <2>3, Zenon DEF EntryOK, KeptAlive, r
<1>9. CASE FirstFailed(i)
  <2>1. loop[i] = "first" /\ loop'[i] = "skipped" /\ answer'[i] = 0
    BY <1>1, <1>9, Zenon DEF FirstFailed, TypeOK
  <2>2. /\ OnTime(loop'[i], timer'[i], held'[i], answer'[i])
        /\ InTime(loop'[i], timer'[i], answer'[i], serving[r], slot[r], good[r], stale[r])
    BY <2>1 DEF OnTime, InTime, Alive
  <2>3. TypeOK'
    <3>1. entry' \in 1 .. Len(StaticRelays) + 1 /\ UNCHANGED <<pause, announced>>
      BY <1>6, <1>9, Zenon DEF FirstFailed
    <3>2. loop' \in [Entries -> Loops]
      BY <1>1, <1>9, Zenon DEF FirstFailed, TypeOK, Loops, Alive
    <3>3. timer' \in [Entries -> Nat]
      BY <1>1, <1>9, Zenon DEF FirstFailed, TypeOK
    <3>4. held' \in [Entries -> 0 .. TTL] /\ answer' \in [Entries -> 0 .. TTL]
      BY <1>1, <1>9, <1>6, Zenon DEF FirstFailed, TypeOK
    <3> QED BY <1>1, <1>4, <3>1, <3>2, <3>3, <3>4, TypesOf, Zenon
  <2> QED BY <1>3, <1>4, <1>5, <2>1, <2>2, <2>3, Zenon DEF EntryOK, KeptAlive, r
<1>10. CASE StartRenewal(i)
  <2>1. /\ loop[i] = "sleeping" /\ timer[i] = 0
        /\ loop'[i] = "reserving" /\ timer'[i] = Timeout
        /\ held'[i] = held[i] /\ answer'[i] = answer[i]
    BY <1>1, <1>10, Zenon DEF StartRenewal, TypeOK
  <2>2. /\ OnTime(loop'[i], timer'[i], held'[i], answer'[i])
        /\ InTime(loop'[i], timer'[i], answer'[i], serving[r], slot[r], good[r], stale[r])
    BY <1>1, <1>2, <2>1, StartsInTime, Zenon
  <2>3. TypeOK'
    <3>1. entry' \in 1 .. Len(StaticRelays) + 1 /\ UNCHANGED <<pause, announced>>
      BY <1>6, <1>10, Zenon DEF StartRenewal, hostVars
    <3>2. loop' \in [Entries -> Loops]
      BY <1>1, <1>10, Zenon DEF StartRenewal, TypeOK, Loops, Alive
    <3>3. timer' \in [Entries -> Nat]
      BY <1>1, <1>10, Zenon DEF StartRenewal, Timeout, TypeOK
    <3>4. held' \in [Entries -> 0 .. TTL] /\ answer' \in [Entries -> 0 .. TTL]
      BY <1>1, <1>10, Zenon DEF StartRenewal, TypeOK
    <3> QED BY <1>1, <1>4, <3>1, <3>2, <3>3, <3>4, TypesOf, Zenon
  <2> QED BY <1>3, <1>4, <1>5, <2>1, <2>2, <2>3, Zenon DEF EntryOK, KeptAlive, r
<1>11. CASE RenewalFailed(i)
  <2>1. /\ loop[i] = "reserving" /\ loop'[i] = "backoff" /\ timer'[i] = Backoff
        /\ held'[i] = held[i] /\ answer'[i] = 0
    BY <1>1, <1>11, Zenon DEF RenewalFailed, TypeOK
  <2>2. serving[r] = FALSE /\ good[r] = FALSE
    BY <1>1, <1>11, Zenon DEF RenewalFailed, TypeOK, RelayOK, r
  <2>3. /\ OnTime(loop'[i], timer'[i], held'[i], answer'[i])
        /\ InTime(loop'[i], timer'[i], answer'[i], serving[r], slot[r], good[r], stale[r])
    BY <1>1, <1>2, <2>1, <2>2, FailsInTime, Zenon
  <2>4. TypeOK'
    <3>1. entry' \in 1 .. Len(StaticRelays) + 1 /\ UNCHANGED <<pause, announced>>
      BY <1>6, <1>11, Zenon DEF RenewalFailed, hostVars
    <3>2. loop' \in [Entries -> Loops]
      BY <1>1, <1>11, Zenon DEF RenewalFailed, TypeOK, Loops, Alive
    <3>3. timer' \in [Entries -> Nat]
      BY <1>1, <1>11, Zenon DEF RenewalFailed, Backoff, TypeOK
    <3>4. held' \in [Entries -> 0 .. TTL] /\ answer' \in [Entries -> 0 .. TTL]
      BY <1>1, <1>11, <1>6, Zenon DEF RenewalFailed, TypeOK
    <3> QED BY <1>1, <1>4, <3>1, <3>2, <3>3, <3>4, TypesOf, Zenon
  <2> QED BY <1>3, <1>4, <1>5, <2>1, <2>3, <2>4, Zenon DEF EntryOK, KeptAlive, r
<1>12. CASE Retry(i)
  <2>1. /\ loop[i] = "backoff" /\ timer[i] = 0
        /\ loop'[i] = "sleeping" /\ timer'[i] = RenewAfter(held[i])
        /\ held'[i] = held[i] /\ answer'[i] = answer[i]
    BY <1>1, <1>12, Zenon DEF Retry, TypeOK
  <2>2. /\ RenewAfter(held[i]) \in Nat
        /\ OnTime(loop'[i], timer'[i], held'[i], answer'[i])
        /\ InTime(loop'[i], timer'[i], answer'[i], serving[r], slot[r], good[r], stale[r])
    BY <1>1, <1>2, <2>1, RetriesInTime
  <2>3. TypeOK'
    <3>1. entry' \in 1 .. Len(StaticRelays) + 1 /\ UNCHANGED <<pause, announced>>
      BY <1>6, <1>12, Zenon DEF Retry, hostVars
    <3>2. loop' \in [Entries -> Loops]
      BY <1>1, <1>12, Zenon DEF Retry, TypeOK, Loops, Alive
    <3>3. timer' \in [Entries -> Nat]
      BY <1>1, <1>12, <2>2, Zenon DEF Retry, TypeOK
    <3>4. held' \in [Entries -> 0 .. TTL] /\ answer' \in [Entries -> 0 .. TTL]
      BY <1>1, <1>12, Zenon DEF Retry, TypeOK
    <3> QED BY <1>1, <1>4, <3>1, <3>2, <3>3, <3>4, TypesOf, Zenon
  <2> QED BY <1>3, <1>4, <1>5, <2>1, <2>2, <2>3, Zenon DEF EntryOK, KeptAlive, r
<1> QED BY <1>7, <1>8, <1>9, <1>10, <1>11, <1>12, Zenon DEF HostStep

\* The steps of an entry keep the invariant.
LEMMA HostInv ==
  ASSUME Inv, NEW i \in Entries, HostStep(i)
  PROVE  Inv'
<1>1. /\ UNCHANGED <<serving, slot, good, stale>> /\ EntryOK(i)' /\ TypeOK'
      /\ \A j \in Entries \ {i} :
           /\ loop'[j] = loop[j] /\ timer'[j] = timer[j]
           /\ held'[j] = held[j] /\ answer'[j] = answer[j]
      /\ KeptAlive(i) => KeptAlive(i)'
  BY HostValues, Zenon DEF relayVars
<1>2. ASSUME NEW j \in Entries PROVE EntryOK(j)'
  BY <1>1, EntryKept, Zenon DEF Inv
<1>3. ASSUME NEW j \in Entries PROVE KeptAlive(j) => KeptAlive(j)'
  BY <1>1, Zenon DEF KeptAlive
<1>4. ASSUME NEW r \in Relays PROVE RelayOK(r)'
  BY <1>1, <1>3, StaysKept, RelayKept, Zenon DEF Inv
<1> QED BY <1>1, <1>2, <1>4, Zenon DEF Inv

\* So does a grant, ...
LEMMA GrantedInv ==
  ASSUME Inv, NEW i \in Entries, Granted(i)
  PROVE  Inv'
<1> DEFINE r == StaticRelays[i]
<1>0. TypeOK /\ r \in Relays
  BY EntryTypes, Zenon DEF Inv
<1>1. /\ loop[i] \in {"first", "reserving"} /\ serving[r] = TRUE
      /\ slot' = [slot EXCEPT ![r] = TTL] /\ answer' = [answer EXCEPT ![i] = TTL]
      /\ good' = [good EXCEPT ![r] = TRUE] /\ stale' = [stale EXCEPT ![r] = 0]
      /\ UNCHANGED <<entry, pause, announced, loop, timer, held, serving>>
  BY <1>0, Zenon DEF Granted, hostVars, TypeOK
<1> HIDE DEF r
<1>2. TypeOK'
  <2>1. TTL \in 0 .. TTL /\ 0 \in Nat
    BY PeriodsAssumption
  <2>2. slot' \in [Relays -> 0 .. TTL] /\ answer' \in [Entries -> 0 .. TTL]
    BY <1>0, <1>1, <2>1, Zenon DEF TypeOK
  <2>3. good' \in [Relays -> BOOLEAN] /\ stale' \in [Relays -> Nat]
    BY <1>0, <1>1, <2>1, Zenon DEF TypeOK
  <2> QED BY <1>0, <1>1, <2>2, <2>3, Zenon DEF TypeOK
<1>3. ASSUME NEW j \in Entries PROVE EntryOK(j)'
  <2> DEFINE q == StaticRelays[j]
  <2>0. /\ q \in Relays /\ EntryTyped(loop[j], timer[j], held[j], answer[j], slot[q], stale[q])
        /\ OnTime(loop[j], timer[j], held[j], answer[j])
    BY <1>0, EntryTypes, Zenon DEF Inv, EntryOK
  <2>1. CASE q # r
    <3>1. j # i
      BY <2>1, Zenon DEF r
    <3>2. /\ loop'[j] = loop[j] /\ timer'[j] = timer[j] /\ held'[j] = held[j]
          /\ answer'[j] = answer[j] /\ serving'[q] = serving[q]
      BY <1>0, <1>1, <3>1, Zenon DEF TypeOK
    <3>3. slot'[q] = slot[q] /\ good'[q] = good[q] /\ stale'[q] = stale[q]
      BY <1>0, <1>1, <2>0, <2>1, Zenon DEF TypeOK
    <3>4. EntryOK(j)
      BY Zenon DEF Inv
    <3> QED BY <3>2, <3>3, <3>4, EntryKept, Zenon
  <2>2. CASE q = r
    <3>1. serving'[q] = TRUE /\ slot'[q] = TTL /\ good'[q] = TRUE /\ stale'[q] = 0
      BY <1>0, <1>1, <2>2, Zenon DEF TypeOK
    <3>2. loop'[j] = loop[j] /\ timer'[j] = timer[j] /\ held'[j] = held[j]
      BY <1>1, Zenon
    <3>3. /\ InTime(loop[j], timer[j], answer[j], TRUE, TTL, TRUE, 0)
          /\ loop[j] \in {"first", "reserving"}
               => /\ OnTime(loop[j], timer[j], held[j], TTL)
                  /\ InTime(loop[j], timer[j], TTL, TRUE, TTL, TRUE, 0)
      BY <2>0, GrantedInTime, Zenon
    <3>4. CASE j # i
      <4>1. answer'[j] = answer[j]
        BY <1>0, <1>1, <3>4, Zenon DEF TypeOK
      <4> QED BY ONLY <2>0, <3>1, <3>2, <3>3, <4>1, Zenon DEF EntryOK, q
    <3>5. CASE j = i
      <4>1. answer'[j] = TTL
        BY <1>0, <1>1, <3>5, Zenon DEF TypeOK
      <4>2. loop[j] \in {"first", "reserving"}
        BY <1>1, <3>5, Zenon
      <4> QED BY ONLY <3>1, <3>2, <3>3, <4>1, <4>2, Zenon DEF EntryOK, q
    <3> QED BY <3>4, <3>5, Zenon
  <2> QED BY <2>1, <2>2, Zenon
<1>4. ASSUME NEW q \in Relays PROVE RelayOK(q)'
  <2>1. Kept(q)' <=> Kept(q)
    BY <1>1, Zenon DEF Kept, KeptAlive
  <2> QED BY <1>0, <1>1, <2>1 DEF Inv, RelayOK, TypeOK
<1> QED BY <1>2, <1>3, <1>4, Zenon DEF Inv

\* ... what happens to a relay, ...
LEMMA RelayInv ==
  ASSUME Inv, NEW r \in Relays, StopsServing(r) \/ Serves(r) \/ Forgets(r)
  PROVE  Inv'
<1>0. TypeOK /\ RelayOK(r)
  BY Zenon DEF Inv
<1>1. /\ UNCHANGED <<entry, pause, announced, loop, timer, held, answer>>
      /\ \A q \in Relays \ {r} : /\ serving'[q] = serving[q] /\ slot'[q] = slot[q]
                                 /\ good'[q] = good[q] /\ stale'[q] = stale[q]
      /\ good'[r] = FALSE
      /\ \/ serving'[r] = FALSE /\ slot'[r] = slot[r] /\ stale'[r] = 0
         \/ serving'[r] = TRUE /\ slot'[r] = slot[r] /\ stale'[r] = 0
         \/ serving'[r] = serving[r] /\ slot'[r] = 0 /\ stale'[r] = stale[r]
  BY <1>0 DEF StopsServing, Serves, Forgets, TypeOK, RelayOK, hostVars, loopVars
<1>2. TypeOK'
  <2>1. 0 \in 0 .. TTL
    BY PeriodsAssumption
  <2>2. CASE StopsServing(r)
    BY <1>0, <2>2, Zenon DEF TypeOK, StopsServing, hostVars, loopVars
  <2>3. CASE Serves(r)
    BY <1>0, <2>3, Zenon DEF TypeOK, Serves, hostVars, loopVars
  <2>4. CASE Forgets(r)
    BY <1>0, <2>1, <2>4, Zenon DEF TypeOK, Forgets, hostVars, loopVars
  <2> QED BY <2>2, <2>3, <2>4, Zenon
<1>3. ASSUME NEW j \in Entries PROVE EntryOK(j)'
  <2> DEFINE q == StaticRelays[j]
  <2>0. /\ q \in Relays /\ EntryTyped(loop[j], timer[j], held[j], answer[j], slot[q], stale[q])
        /\ OnTime(loop[j], timer[j], held[j], answer[j])
        /\ InTime(loop[j], timer[j], answer[j], serving[q], slot[q], good[q], stale[q])
    BY <1>0, EntryTypes, Zenon DEF Inv, EntryOK
  <2>1. CASE q # r
    BY <1>1, <2>0, <2>1, EntryKept, Zenon DEF Inv
  <2>2. CASE q = r
    <3>1. /\ InTime(loop[j], timer[j], answer[j], TRUE, slot[q], FALSE, 0)
          /\ InTime(loop[j], timer[j], answer[j], FALSE, slot[q], FALSE, 0)
          /\ InTime(loop[j], timer[j], answer[j], serving[q], 0, FALSE, stale[q])
      BY <2>0, ServedInTime, Zenon
    <3>2. InTime(loop[j], timer[j], answer[j], serving'[q], slot'[q], good'[q], stale'[q])
      BY <1>1, <2>2, <3>1, Zenon
    <3>3. /\ loop'[j] = loop[j] /\ timer'[j] = timer[j] /\ held'[j] = held[j]
          /\ answer'[j] = answer[j]
      BY <1>1, Zenon
    <3> QED BY <2>0, <3>2, <3>3, Zenon DEF EntryOK
  <2> QED BY <2>1, <2>2, Zenon
<1>4. ASSUME NEW q \in Relays PROVE RelayOK(q)'
  <2>1. Kept(q)' <=> Kept(q)
    BY <1>1, Zenon DEF Kept, KeptAlive
  <2>2. RelayOK(q)
    BY Zenon DEF Inv
  <2>3. CASE q # r
    BY <1>1, <2>1, <2>2, <2>3, Zenon DEF RelayOK
  <2>4. CASE q = r
    <3>1. stale'[q] > 0 => serving'[q] /\ Kept(q)
      BY <1>1, <2>2, <2>4 DEF RelayOK
    <3> QED BY <1>1, <2>1, <2>4, <3>1, Zenon DEF RelayOK
  <2> QED BY <2>3, <2>4, Zenon
<1> QED BY <1>2, <1>3, <1>4, Zenon DEF Inv

\* ... and time.
LEMMA TickInv ==
  ASSUME Inv, Tick
  PROVE  Inv'
<1>0. TypeOK
  BY Zenon DEF Inv
<1>1. /\ UNCHANGED <<entry, announced, loop, serving, good>>
      /\ \A i \in Entries : /\ Busy(i) => timer[i] > 0
                            /\ timer'[i] = Less(timer[i]) /\ held'[i] = Less(held[i])
                            /\ answer'[i] = Less(answer[i])
      /\ \A r \in Relays : /\ slot'[r] = Less(slot[r])
                           /\ stale'[r] = IF Kept(r) /\ serving[r] /\ slot[r] = 0
                                          THEN stale[r] + 1 ELSE stale[r]
  BY Zenon DEF Tick
<1>2. TypeOK'
  <2>0. /\ \A n \in Nat : Less(n) \in Nat
        /\ \A n \in 0 .. TTL : Less(n) \in 0 .. TTL
    BY PeriodsAssumption DEF Less
  <2>1. /\ timer' \in [Entries -> Nat] /\ held' \in [Entries -> 0 .. TTL]
        /\ answer' \in [Entries -> 0 .. TTL] /\ slot' \in [Relays -> 0 .. TTL]
    <3>1. timer' \in [Entries -> Nat]
      BY <1>0, <2>0, Zenon DEF Tick, TypeOK
    <3>2. held' \in [Entries -> 0 .. TTL]
      BY <1>0, <2>0, Zenon DEF Tick, TypeOK
    <3>3. answer' \in [Entries -> 0 .. TTL]
      BY <1>0, <2>0, Zenon DEF Tick, TypeOK
    <3>4. slot' \in [Relays -> 0 .. TTL]
      BY <1>0, <2>0, Zenon DEF Tick, TypeOK
    <3> QED BY <3>1, <3>2, <3>3, <3>4, Zenon
  <2>2. stale' \in [Relays -> Nat]
    BY <1>0 DEF Tick, TypeOK
  <2>3. pause' \in 0 .. Pause
    BY <1>0 DEF Tick, TypeOK, Less, Pause
  <2> QED BY <1>0, <1>1, <2>1, <2>2, <2>3, Zenon DEF TypeOK
<1>3. ASSUME NEW j \in Entries PROVE EntryOK(j)'
  <2> DEFINE q == StaticRelays[j]
  <2>0. /\ q \in Relays /\ EntryTyped(loop[j], timer[j], held[j], answer[j], slot[q], stale[q])
        /\ OnTime(loop[j], timer[j], held[j], answer[j])
        /\ InTime(loop[j], timer[j], answer[j], serving[q], slot[q], good[q], stale[q])
    BY <1>0, EntryTypes, Zenon DEF Inv, EntryOK
  <2>1. loop[j] \in Alive \cup {"first"} => timer[j] > 0
    BY <1>1, Zenon DEF Busy
  <2>2. stale'[q] = stale[q] \/ stale'[q] = stale[q] + 1
    BY <1>1, <2>0, Zenon
  <2>3. /\ OnTime(loop[j], Less(timer[j]), Less(held[j]), Less(answer[j]))
        /\ InTime(loop[j], Less(timer[j]), Less(answer[j]), serving[q], Less(slot[q]),
                  good[q], stale'[q])
    BY <2>0, <2>1, <2>2, TickInTime, Zenon
  <2>4. /\ loop'[j] = loop[j] /\ timer'[j] = Less(timer[j])
        /\ held'[j] = Less(held[j]) /\ answer'[j] = Less(answer[j])
    BY <1>1, Zenon
  <2>5. serving'[q] = serving[q] /\ slot'[q] = Less(slot[q]) /\ good'[q] = good[q]
    BY <1>1, <2>0, Zenon
  <2> QED BY ONLY <2>3, <2>4, <2>5, Zenon DEF EntryOK, q
<1>4. ASSUME NEW q \in Relays PROVE RelayOK(q)'
  <2>1. Kept(q)' <=> Kept(q)
    BY <1>1, Zenon DEF Kept, KeptAlive
  <2>2. RelayOK(q) /\ stale[q] \in Nat
    BY <1>0, Zenon DEF Inv, TypeOK
  <2> QED BY <1>1, <2>1, <2>2, Zenon DEF RelayOK
<1> QED BY <1>2, <1>3, <1>4, Zenon DEF Inv

\* The inductive invariant: every entry's next request comes in time.
THEOREM InvTheorem == Spec => []Inv
<1>1. Inv /\ [Next]_vars => Inv'
  <2> SUFFICES ASSUME Inv, [Next]_vars PROVE Inv'
    BY Zenon
  <2>1. CASE Announce \/ UNCHANGED vars
    <3>1. /\ UNCHANGED <<entry, pause, loop, timer, held, answer, serving, slot, good, stale>>
          /\ announced' \in {TRUE, announced}
      BY <2>1, Zenon DEF Announce, vars, hostVars, loopVars, relayVars
    <3>2. TypeOK'
      BY <3>1, Zenon DEF Inv, TypeOK
    <3>3. \A i \in Entries : EntryOK(i)'
      BY <3>1, EntryKept, Zenon DEF Inv
    <3>4. \A r \in Relays : RelayOK(r)'
      BY <3>1, Zenon DEF Inv, RelayOK, Kept, KeptAlive
    <3> QED BY <3>2, <3>3, <3>4, Zenon DEF Inv
  <2> QED BY <2>1, HostInv, GrantedInv, RelayInv, TickInv, Zenon DEF Next
<1> QED BY InvInit, <1>1, PTL DEF Spec

\* The types.
THEOREM TypeCorrect == Spec => []TypeOK
<1>1. Inv => TypeOK
  BY Zenon DEF Inv
<1> QED BY InvTheorem, <1>1, PTL

\* A slot on a relay that goes on serving never lapses, for every grant time
\* above the assumed minimum, every number of relays and every repetition of one.
THEOREM NeverLapses == Spec => []NeverLapsesWhileServed
<1>1. Inv => NeverLapsesWhileServed
  <2> SUFFICES ASSUME Inv, NEW r \in Relays, Kept(r), good[r] PROVE slot[r] > 0
    BY Zenon DEF NeverLapsesWhileServed
  <2>1. PICK i \in Entries : StaticRelays[i] = r /\ KeptAlive(i)
    BY Zenon DEF Kept
  <2>2. /\ EntryTyped(loop[i], timer[i], held[i], answer[i], slot[r], stale[r])
        /\ InTime(loop[i], timer[i], answer[i], serving[r], slot[r], good[r], stale[r])
    BY <2>1, EntryTypes, Zenon DEF Inv, EntryOK
  <2>3. loop[i] \in Alive
    BY <2>1, <2>2, Zenon DEF KeptAlive, EntryTyped, Loops
  <2>4. Due(loop[i], timer[i], answer[i]) >= 0
    BY <2>2, PeriodsAssumption DEF EntryTyped, Due, MaxOf, Lead, MinWait, Timeout
  <2>5. Due(loop[i], timer[i], answer[i]) \in Int
    BY <2>2, PeriodsAssumption DEF EntryTyped, Due, MaxOf, Lead, MinWait, Timeout
  <2> QED BY <2>2, <2>3, <2>4, <2>5 DEF InTime, EntryTyped
<1> QED BY InvTheorem, <1>1, PTL

\* Nor is the host without a slot for longer than MaxStale while the relay serves.
THEOREM StaleTheorem == Spec => []StaleIsBounded
<1>1. Inv => StaleIsBounded
  <2> SUFFICES ASSUME Inv, NEW r \in Relays PROVE stale[r] <= MaxStale
    BY Zenon DEF StaleIsBounded
  <2>0. stale[r] \in Nat /\ MaxStale \in Nat
    BY PeriodsAssumption DEF Inv, TypeOK, MaxStale, MaxOf, Lead, MinWait, Timeout, Backoff
  <2>1. CASE stale[r] = 0
    BY <2>0, <2>1
  <2>2. CASE stale[r] > 0
    <3>1. serving[r] /\ Kept(r)
      BY <2>2, Zenon DEF Inv, RelayOK
    <3>2. PICK i \in Entries : StaticRelays[i] = r /\ KeptAlive(i)
      BY <3>1, Zenon DEF Kept
    <3>3. /\ EntryTyped(loop[i], timer[i], held[i], answer[i], slot[r], stale[r])
          /\ InTime(loop[i], timer[i], answer[i], serving[r], slot[r], good[r], stale[r])
      BY <3>2, EntryTypes, Zenon DEF Inv, EntryOK
    <3>4. loop[i] \in Alive
      BY <3>2, <3>3, Zenon DEF KeptAlive, EntryTyped, Loops
    <3>5. Due(loop[i], timer[i], answer[i]) \in Int /\ Due(loop[i], timer[i], answer[i]) >= 0
      BY <3>3, PeriodsAssumption DEF EntryTyped, Due, MaxOf, Lead, MinWait, Timeout
    <3>6. stale[r] + Due(loop[i], timer[i], answer[i]) <= MaxStale
      BY <3>1, <3>3, <3>4, Zenon DEF InTime
    <3> QED BY <2>0, <3>5, <3>6
  <2> QED BY <2>0, <2>1, <2>2
<1> QED BY InvTheorem, <1>1, PTL
=============================================================================
