-------------------------- MODULE HolePunchProofs --------------------------
(***************************************************************************)
(* Proofs about HolePunch, for any number of watchers and any period and   *)
(* timeouts.                                                               *)
(***************************************************************************)
EXTENDS HolePunch, TLAPS

\* The time a direct connection has gone unseen and the time until the next
\* tick make up at most one period; nothing is unseen while there is none.
Fresh(w) ==
  /\ unseen[w] + toTick[w] <= Period
  /\ "Direct" \notin conns => unseen[w] = 0

Inv == TypeOK /\ \A w \in Watchers : pc[w] = "watching" => Fresh(w)

(***************************************************************************)
(* Types.                                                                  *)
(***************************************************************************)
LEMMA TimeoutTypes ==
  Timeout \in Nat /\ CtxTimeout \in Nat
BY PeriodsAssumption DEF Timeout, CtxTimeout

\* connKindToPeer looks for a direct connection first.
LEMMA KindFacts ==
  ASSUME NEW c \in SUBSET {"Relayed", "Direct"}
  PROVE  connKindToPeer(c) = "Direct" <=> "Direct" \in c
BY DEF connKindToPeer

\* A timer that runs down stays in its range.
LEMMA LessFacts ==
  ASSUME NEW max \in Nat, NEW f \in [Watchers -> 0 .. max]
  PROVE  /\ Less(f) \in [Watchers -> 0 .. max]
         /\ \A w \in Watchers : pc[w] = "watching" /\ f[w] > 0 => Less(f)[w] = f[w] - 1
<1>1. \A w \in Watchers : f[w] \in 0 .. max
  OBVIOUS
<1>2. \A w \in Watchers :
        (IF pc[w] = "watching" /\ f[w] > 0 THEN f[w] - 1 ELSE f[w]) \in 0 .. max
  <2>1. \A n \in 0 .. max : n > 0 => n - 1 \in 0 .. max
    OBVIOUS
  <2> QED BY <1>1, <2>1, Zenon
<1>3. Less(f) = [w \in Watchers |-> IF pc[w] = "watching" /\ f[w] > 0 THEN f[w] - 1 ELSE f[w]]
  BY Zenon DEF Less
<1> HIDE DEF Less
<1>4. Less(f) \in [Watchers -> 0 .. max]
  BY <1>2, <1>3, Zenon
<1> QED BY <1>3, <1>4

\* A watcher's timers when it starts.
LEMMA StartTypes ==
  ASSUME TypeOK, NEW w \in Watchers, Start(w), side' = side
  PROVE  /\ pc' \in [Watchers -> {"unused", "watching", "returned"}]
         /\ announcedRelayed' \in [Watchers -> BOOLEAN]
         /\ outcome' \in [Watchers -> Outcomes]
         /\ toTick' \in [Watchers -> 0 .. Period]
         /\ toDeadline' \in [Watchers -> 0 .. Timeout]
         /\ toDone' \in [Watchers -> 0 .. CtxTimeout]
         /\ unseen' \in [Watchers -> Nat]
<1>1. Period \in 0 .. Period /\ Timeout \in 0 .. Timeout /\ CtxTimeout \in 0 .. CtxTimeout
  BY TimeoutTypes, PeriodsAssumption
<1>2. "watching" \in {"unused", "watching", "returned"} /\ "none" \in Outcomes
  BY DEF Outcomes
<1>3. /\ pc' \in [Watchers -> {"unused", "watching", "returned"}]
      /\ announcedRelayed' \in [Watchers -> BOOLEAN]
      /\ outcome' \in [Watchers -> Outcomes]
  BY <1>2 DEF TypeOK, Start
<1>4. /\ toTick' \in [Watchers -> 0 .. Period]
      /\ toDeadline' \in [Watchers -> 0 .. Timeout]
      /\ toDone' \in [Watchers -> 0 .. CtxTimeout]
  <2> DEFINE P == 0 .. Period
             T == 0 .. Timeout
             C == 0 .. CtxTimeout
  <2>1. /\ toTick \in [Watchers -> P] /\ toDeadline \in [Watchers -> T]
        /\ toDone \in [Watchers -> C] /\ Period \in P /\ Timeout \in T /\ CtxTimeout \in C
    BY <1>1 DEF TypeOK
  <2> HIDE DEF P, T, C
  <2>2. /\ toTick' \in [Watchers -> P] /\ toDeadline' \in [Watchers -> T]
        /\ toDone' \in [Watchers -> C]
    BY <2>1 DEF Start
  <2> QED BY <2>2 DEF P, T, C
<1>5. unseen' \in [Watchers -> Nat]
  BY DEF TypeOK, Start
<1> QED BY <1>3, <1>4, <1>5

\* A watcher whose log does not change.
LEMMA SameLog ==
  ASSUME TypeOK, NEW w \in Watchers, outcome'[w] = outcome[w],
         announcedRelayed'[w] = announcedRelayed[w], pc'[w] \in {pc[w], "returned"}
  PROVE  LogOK(w)'
BY Zenon DEF TypeOK, LogOK

LEMMA InitInv == Init => Inv
<1> SUFFICES ASSUME Init
             PROVE  Inv
  OBVIOUS
<1>1. /\ Period \in 0 .. Period /\ Timeout \in 0 .. Timeout
      /\ CtxTimeout \in 0 .. CtxTimeout /\ 0 \in Nat
  BY TimeoutTypes, PeriodsAssumption
<1>2. side \in {"client", "server"} /\ conns \in SUBSET {"Relayed", "Direct"}
  BY Zenon DEF Init
<1>3. /\ toTick \in [Watchers -> 0 .. Period]
      /\ toDeadline \in [Watchers -> 0 .. Timeout]
      /\ toDone \in [Watchers -> 0 .. CtxTimeout]
      /\ unseen \in [Watchers -> Nat]
  BY <1>1, Zenon DEF Init
<1>4. pc \in [Watchers -> {"unused", "watching", "returned"}]
  BY Zenon DEF Init
<1>5. announcedRelayed \in [Watchers -> BOOLEAN] /\ outcome \in [Watchers -> Outcomes]
  BY Zenon DEF Init, Outcomes
<1>6. \A w \in Watchers : Fresh(w)
  <2>1. \A w \in Watchers : unseen[w] = 0 /\ toTick[w] = Period
    BY Zenon DEF Init
  <2>2. 0 + Period <= Period
    BY PeriodsAssumption
  <2> QED BY <2>1, <2>2, Zenon DEF Fresh
<1>7. \A w \in Watchers : LogOK(w)
  <2>1. \A w \in Watchers : outcome[w] = "none"
    BY Zenon DEF Init
  <2> QED BY <2>1 DEF LogOK
<1> QED BY <1>2, <1>3, <1>4, <1>5, <1>6, <1>7 DEF Inv, TypeOK

(***************************************************************************)
(* Steps.                                                                  *)
(***************************************************************************)
\* What the select of one watcher adds to the log of any.
LEMMA SelectLog ==
  ASSUME TypeOK, NEW w \in Watchers, Select(w), NEW v \in Watchers
  PROVE  LogOK(v)'
<1>1. /\ pc \in [Watchers -> {"unused", "watching", "returned"}]
      /\ announcedRelayed \in [Watchers -> BOOLEAN] /\ outcome \in [Watchers -> Outcomes]
      /\ LogOK(v)
  BY DEF TypeOK
<1>2. pc[w] = "watching"
  BY DEF Select, CtxDone, Deadline, Tick
<1>3. CASE v # w
  <2>1. /\ \E p : pc' \in {pc, [pc EXCEPT ![w] = p]}
        /\ \E a : announcedRelayed' \in {announcedRelayed, [announcedRelayed EXCEPT ![w] = a]}
        /\ \E o : outcome' \in {outcome, [outcome EXCEPT ![w] = o]}
    BY Zenon DEF Select, CtxDone, Deadline, Tick, Return
  <2>2. /\ pc'[v] = pc[v] /\ announcedRelayed'[v] = announcedRelayed[v]
        /\ outcome'[v] = outcome[v]
    BY <1>1, <1>3, <2>1
  <2> QED BY <2>2, SameLog
<1>4. CASE v = w
  <2>1. CASE CtxDone(w)
    BY <1>1, <1>4, <2>1, SameLog DEF CtxDone, Return
  <2>2. CASE Deadline(w)
    <3>1. pc'[w] = "returned" /\ announcedRelayed'[w] = announcedRelayed[w]
      BY <1>1, <2>2 DEF Deadline, Return
    <3>2. \/ outcome'[w] = outcome[w]
          \/ outcome'[w] = "timed out" /\ announcedRelayed[w]
      BY <1>1, <2>2 DEF Deadline
    <3> QED BY <1>1, <1>4, <3>1, <3>2 DEF LogOK
  <2>3. CASE Tick(w)
    <3>1. CASE connKindToPeer(conns) = "Direct"
      <4>1. pc'[w] = "returned" /\ announcedRelayed'[w] = announcedRelayed[w]
        BY <1>1, <2>3, <3>1, Zenon DEF Tick, Return
      <4>2. outcome'[w] = IF announcedRelayed[w] THEN "EndHolePunch" ELSE "direct"
        BY <1>1, <2>3, <3>1 DEF Tick
      <4> QED BY <1>4, <4>1, <4>2 DEF LogOK
    <3>2. CASE connKindToPeer(conns) # "Direct"
      <4>1. outcome' = outcome
        BY <2>3, <3>2 DEF Tick
      <4> QED BY <1>1, <1>2, <1>4, <4>1 DEF LogOK
    <3> QED BY <3>1, <3>2
  <2> QED BY <2>1, <2>2, <2>3 DEF Select
<1> QED BY <1>3, <1>4

\* The select of one watcher.
LEMMA SelectInv ==
  ASSUME Inv, NEW w \in Watchers, Select(w)
  PROVE  Inv'
<1>1. TypeOK /\ \A v \in Watchers : pc[v] = "watching" => Fresh(v)
  BY DEF Inv
<1>2. side' = side /\ conns' = conns /\ unseen' = unseen
  BY Zenon DEF Select, CtxDone, Deadline, Tick
<1>3. toDeadline' = toDeadline /\ toDone' = toDone
  BY Zenon DEF Select, CtxDone, Deadline, Tick, timerVars
<1>4. Timeout' = Timeout /\ CtxTimeout' = CtxTimeout
  BY <1>2 DEF Timeout, CtxTimeout
<1>5. pc' \in {pc, [pc EXCEPT ![w] = "returned"]}
  BY Zenon DEF Select, CtxDone, Deadline, Tick, Return
<1>6. /\ pc' \in [Watchers -> {"unused", "watching", "returned"}]
      /\ \A v \in Watchers : pc'[v] = "watching" => pc[v] = "watching"
  BY <1>1, <1>5 DEF TypeOK
<1>7. announcedRelayed' \in [Watchers -> BOOLEAN]
  BY <1>1, Zenon DEF TypeOK, Select, CtxDone, Deadline, Tick
<1>8. outcome' \in [Watchers -> Outcomes]
  <2>1. \E o \in Outcomes : outcome' \in {outcome, [outcome EXCEPT ![w] = o]}
    BY Zenon DEF Select, CtxDone, Deadline, Tick, Outcomes
  <2> QED BY <1>1, <2>1 DEF TypeOK
<1>9. toTick' = toTick \/ Tick(w)
  BY Zenon DEF Select, CtxDone, Deadline, timerVars
<1>10. toTick' \in [Watchers -> 0 .. Period]
  <2>1. toTick' \in {toTick, [toTick EXCEPT ![w] = Period]}
    BY <1>9 DEF Tick
  <2> DEFINE P == 0 .. Period
  <2>2. toTick \in [Watchers -> P] /\ Period \in P
    BY <1>1, PeriodsAssumption DEF TypeOK
  <2> HIDE DEF P
  <2>3. toTick' \in [Watchers -> P]
    BY <2>1, <2>2
  <2> QED BY <2>3 DEF P
<1>11. TypeOK'
  <2>1. ASSUME NEW v \in Watchers
        PROVE  LogOK(v)'
    BY <1>1, <2>1, SelectLog
  <2> QED BY <1>1, <1>2, <1>3, <1>4, <1>6, <1>7, <1>8, <1>10, <2>1 DEF TypeOK
<1>12. ASSUME NEW v \in Watchers, pc'[v] = "watching"
       PROVE  Fresh(v)'
  <2>1. Fresh(v)
    BY <1>1, <1>6, <1>12
  <2>2. CASE toTick'[v] = toTick[v]
    BY <1>2, <2>1, <2>2 DEF Fresh
  <2>3. CASE toTick'[v] # toTick[v]
    <3>1. Tick(w)
      BY <1>9, <2>3
    <3>2. v = w /\ toTick'[v] = Period
      BY <1>1, <2>3, <3>1 DEF Tick, TypeOK
    <3>3. "Direct" \notin conns
      <4>1. CASE connKindToPeer(conns) = "Direct"
        <5>1. pc' = [pc EXCEPT ![w] = "returned"]
          BY <3>1, <4>1 DEF Tick, Return
        <5> QED BY <1>1, <1>12, <3>2, <5>1 DEF TypeOK
      <4> QED BY <1>1, <4>1, KindFacts DEF TypeOK
    <3>4. unseen[v] = 0
      BY <2>1, <3>3 DEF Fresh
    <3> QED BY <1>2, <3>2, <3>4, PeriodsAssumption DEF Fresh
  <2> QED BY <2>2, <2>3
<1> QED BY <1>11, <1>12 DEF Inv

\* A connection comes up, and on the server a watcher with it.
LEMMA ConnectedInv ==
  ASSUME Inv, NEW kind \in {"Relayed", "Direct"}, Connected(kind)
  PROVE  Inv'
<1>1. TypeOK /\ \A v \in Watchers : pc[v] = "watching" => Fresh(v)
  BY DEF Inv
<1>2. side' = side /\ conns' = conns \cup {kind}
  BY DEF Connected
<1>3. Timeout' = Timeout /\ CtxTimeout' = CtxTimeout
  BY <1>2 DEF Timeout, CtxTimeout
<1>4. conns' \in SUBSET {"Relayed", "Direct"}
  BY <1>1, <1>2 DEF TypeOK
<1>5. ASSUME NEW v \in Watchers, unseen'[v] = unseen[v], toTick'[v] = toTick[v], Fresh(v)
      PROVE  Fresh(v)'
  BY <1>2, <1>5 DEF Fresh
<1>6. CASE UNCHANGED <<watcherVars, timerVars, unseen>>
  <2>1. /\ pc' = pc /\ announcedRelayed' = announcedRelayed /\ outcome' = outcome
        /\ toTick' = toTick /\ toDeadline' = toDeadline /\ toDone' = toDone
        /\ unseen' = unseen
    BY <1>6 DEF watcherVars, timerVars
  <2>2. TypeOK'
    BY <1>1, <1>2, <1>3, <1>4, <2>1 DEF TypeOK, LogOK
  <2> QED BY <1>1, <1>5, <2>1, <2>2 DEF Inv
<1>7. ASSUME NEW w \in Watchers, Start(w)
      PROVE  Inv'
  <2>1. TypeOK'
    <3>1. ASSUME NEW v \in Watchers
          PROVE  LogOK(v)'
      <4>1. CASE v = w
        <5>1. outcome'[v] = "none"
          BY <1>1, <1>7, <4>1 DEF Start, TypeOK
        <5> QED BY <5>1 DEF LogOK
      <4>2. CASE v # w
        <5>1. /\ pc'[v] = pc[v] /\ announcedRelayed'[v] = announcedRelayed[v]
              /\ outcome'[v] = outcome[v]
          BY <1>1, <1>7, <4>2 DEF Start, TypeOK
        <5> QED BY <1>1, <5>1, SameLog
      <4> QED BY <4>1, <4>2
    <3> QED BY <1>1, <1>2, <1>3, <1>4, <1>7, <3>1, StartTypes DEF TypeOK
  <2>2. ASSUME NEW v \in Watchers, pc'[v] = "watching"
        PROVE  Fresh(v)'
    <3>1. CASE v = w
      <4>1. unseen'[v] = 0 /\ toTick'[v] = Period
        BY <1>1, <1>7, <3>1 DEF Start, TypeOK
      <4> QED BY <4>1, PeriodsAssumption DEF Fresh
    <3>2. CASE v # w
      <4>1. unseen'[v] = unseen[v] /\ toTick'[v] = toTick[v] /\ pc'[v] = pc[v]
        BY <1>1, <1>7, <3>2 DEF Start, TypeOK
      <4> QED BY <1>1, <1>5, <2>2, <4>1
    <3> QED BY <3>1, <3>2
  <2> QED BY <2>1, <2>2 DEF Inv
<1> QED BY <1>6, <1>7 DEF Connected

LEMMA DisconnectedInv ==
  ASSUME Inv, NEW kind \in {"Relayed", "Direct"}, Disconnected(kind)
  PROVE  Inv'
<1>1. TypeOK /\ \A v \in Watchers : pc[v] = "watching" => Fresh(v)
  BY DEF Inv
<1>2. /\ side' = side /\ conns' = conns \ {kind}
      /\ pc' = pc /\ announcedRelayed' = announcedRelayed /\ outcome' = outcome
      /\ toTick' = toTick /\ toDeadline' = toDeadline /\ toDone' = toDone
      /\ unseen' = IF kind = "Direct" THEN [w \in Watchers |-> 0] ELSE unseen
  BY DEF Disconnected, watcherVars, timerVars
<1>3. Timeout' = Timeout /\ CtxTimeout' = CtxTimeout
  BY <1>2 DEF Timeout, CtxTimeout
<1>4. conns' \in SUBSET {"Relayed", "Direct"} /\ unseen' \in [Watchers -> Nat]
  BY <1>1, <1>2 DEF TypeOK
<1>5. TypeOK'
  BY <1>1, <1>2, <1>3, <1>4 DEF TypeOK, LogOK
<1>6. ASSUME NEW v \in Watchers, pc'[v] = "watching"
      PROVE  Fresh(v)'
  <2>1. Fresh(v) /\ toTick[v] \in 0 .. Period /\ toTick'[v] = toTick[v]
    BY <1>1, <1>2, <1>6 DEF TypeOK
  <2>2. CASE kind = "Direct"
    <3>1. unseen'[v] = 0
      BY <1>2, <2>2
    <3> QED BY <2>1, <3>1, PeriodsAssumption DEF Fresh
  <2>3. CASE kind # "Direct"
    <3>1. unseen'[v] = unseen[v] /\ ("Direct" \in conns' <=> "Direct" \in conns)
      BY <1>2, <2>3
    <3> QED BY <2>1, <3>1 DEF Fresh
  <2> QED BY <2>2, <2>3
<1> QED BY <1>5, <1>6 DEF Inv

LEMMA TimePassesInv ==
  ASSUME Inv, TimePasses
  PROVE  Inv'
<1>1. TypeOK /\ \A v \in Watchers : pc[v] = "watching" => Fresh(v)
  BY DEF Inv
<1>2. /\ side' = side /\ conns' = conns
      /\ pc' = pc /\ announcedRelayed' = announcedRelayed /\ outcome' = outcome
      /\ toTick' = Less(toTick) /\ toDeadline' = Less(toDeadline)
      /\ toDone' = Less(toDone)
  BY DEF TimePasses, watcherVars
<1>3. Timeout' = Timeout /\ CtxTimeout' = CtxTimeout
  BY <1>2 DEF Timeout, CtxTimeout
<1>4. /\ toTick \in [Watchers -> 0 .. Period] /\ toDeadline \in [Watchers -> 0 .. Timeout]
      /\ toDone \in [Watchers -> 0 .. CtxTimeout] /\ unseen \in [Watchers -> Nat]
  BY <1>1 DEF TypeOK
<1>5. /\ toTick' \in [Watchers -> 0 .. Period]
      /\ \A v \in Watchers : pc[v] = "watching" /\ toTick[v] > 0
                               => toTick'[v] = toTick[v] - 1
  BY <1>2, <1>4, LessFacts, PeriodsAssumption
<1>6. toDeadline' \in [Watchers -> 0 .. Timeout] /\ toDone' \in [Watchers -> 0 .. CtxTimeout]
  BY <1>2, <1>4, LessFacts, TimeoutTypes
<1>7. /\ unseen' \in [Watchers -> Nat]
      /\ \A v \in Watchers : pc[v] = "watching" =>
           unseen'[v] = IF "Direct" \in conns THEN unseen[v] + 1 ELSE unseen[v]
  BY <1>4 DEF TimePasses
<1>8. TypeOK'
  BY <1>1, <1>2, <1>3, <1>5, <1>6, <1>7 DEF TypeOK, LogOK
<1>9. ASSUME NEW v \in Watchers, pc'[v] = "watching"
      PROVE  Fresh(v)'
  <2>1. Fresh(v) /\ pc[v] = "watching" /\ toTick[v] > 0
    BY <1>1, <1>2, <1>9 DEF TimePasses, Waiting
  <2>2. toTick'[v] = toTick[v] - 1 /\ toTick[v] \in Nat /\ unseen[v] \in Nat
    BY <1>4, <1>5, <2>1
  <2> QED BY <1>2, <1>7, <2>1, <2>2, PeriodsAssumption DEF Fresh
<1> QED BY <1>8, <1>9 DEF Inv

LEMMA NextInv == Inv /\ [Next]_vars => Inv'
<1> SUFFICES ASSUME Inv, [Next]_vars
             PROVE  Inv'
  OBVIOUS
<1>1. CASE UNCHANGED vars
  BY <1>1, Zenon DEF Inv, TypeOK, LogOK, Fresh, Timeout, CtxTimeout, vars, watcherVars, timerVars
<1>2. CASE Next
  BY <1>2, SelectInv, ConnectedInv, DisconnectedInv, TimePassesInv, Zenon DEF Next
<1> QED BY <1>1, <1>2

(***************************************************************************)
(* Theorems.                                                               *)
(***************************************************************************)
\* The inductive invariant holds throughout, whatever the connections do.
THEOREM InvTheorem == Spec => []Inv
<1> QED BY InitInv, NextInv, PTL DEF Spec

\* The watchers' timers never leave their ranges, in either process, and the
\* lines a watcher logs are in order, however its timers fire.
THEOREM TypeTheorem == Spec => []TypeOK
<1>1. Inv => TypeOK
  BY DEF Inv
<1> QED BY <1>1, InvTheorem, PTL

\* A watcher that is still watching has not overlooked a direct connection for
\* longer than one period of its ticker, however connections come and go.
THEOREM UpgradeSeenInTimeTheorem == Spec => []UpgradeSeenInTime
<1>1. Inv => UpgradeSeenInTime
  <2> SUFFICES ASSUME Inv, NEW w \in Watchers, pc[w] = "watching"
               PROVE  unseen[w] <= Period
    BY DEF UpgradeSeenInTime
  <2>1. unseen[w] + toTick[w] <= Period /\ unseen[w] \in Nat /\ toTick[w] \in Nat
    BY DEF Inv, TypeOK, Fresh
  <2> QED BY <2>1, PeriodsAssumption
<1> QED BY <1>1, InvTheorem, PTL

\* A watcher that has logged StartHolePunch says how it ended, unless its
\* context ended first or a direct connection came up since its last tick.
THEOREM SilentOnlyWhenRacedTheorem == Spec => SilentOnlyWhenRaced
<1> DEFINE Raced(w) == \/ CtxTimeout > 0 /\ toDone[w] = 0
                       \/ "Direct" \in conns /\ unseen[w] <= Period
           Silent(w) == /\ pc[w] = "watching" /\ pc'[w] = "returned"
                        /\ announcedRelayed[w] /\ outcome'[w] = "none"
<1>1. ASSUME Inv, Next, NEW w \in Watchers, Silent(w)
      PROVE  Raced(w)
  <2>1. TypeOK /\ Fresh(w)
    BY <1>1 DEF Inv
  <2>2. PICK v \in Watchers : Select(v)
    <3>1. ASSUME NEW kind \in {"Relayed", "Direct"}, Connected(kind)
          PROVE  FALSE
      BY <1>1, <2>1, <3>1 DEF Connected, Start, watcherVars, TypeOK
    <3>2. ~ TimePasses /\ \A kind \in {"Relayed", "Direct"} : ~ Disconnected(kind)
      BY <1>1 DEF TimePasses, Disconnected, watcherVars
    <3> QED BY <1>1, <3>1, <3>2, Zenon DEF Next
  <2>3. v = w
    <3>1. pc' \in {pc, [pc EXCEPT ![v] = "returned"]}
      BY <2>2, Zenon DEF Select, CtxDone, Deadline, Tick, Return
    <3> QED BY <1>1, <2>1, <3>1 DEF TypeOK
  <2>4. CASE CtxDone(w)
    BY <2>4 DEF CtxDone
  <2>5. CASE Deadline(w)
    <3>1. connKindToPeer(conns) = "Direct"
      <4>1. CASE connKindToPeer(conns) # "Direct"
        <5>1. outcome' = [outcome EXCEPT ![w] = "timed out"]
          BY <1>1, <2>5, <4>1, Zenon DEF Deadline
        <5> QED BY <1>1, <2>1, <5>1, Zenon DEF TypeOK
      <4> QED BY <4>1
    <3>2. "Direct" \in conns
      BY <2>1, <3>1, KindFacts DEF TypeOK
    <3>3. unseen[w] + toTick[w] <= Period /\ unseen[w] \in Nat /\ toTick[w] \in Nat
      BY <2>1 DEF Fresh, TypeOK
    <3> QED BY <3>2, <3>3, PeriodsAssumption
  <2>6. CASE Tick(w)
    <3>1. connKindToPeer(conns) = "Direct"
      BY <1>1, <2>6 DEF Tick
    <3>2. outcome' = [outcome EXCEPT ![w] = IF announcedRelayed[w] THEN "EndHolePunch"
                                                                  ELSE "direct"]
      BY <2>6, <3>1 DEF Tick
    <3> QED BY <1>1, <2>1, <3>2 DEF TypeOK
  <2> QED BY <2>2, <2>3, <2>4, <2>5, <2>6, Zenon DEF Select
<1>2. Inv /\ [Next]_vars
        => [\A w \in Watchers :
              /\ pc[w] = "watching" /\ pc'[w] = "returned"
              /\ announcedRelayed[w] /\ outcome'[w] = "none"
              => \/ CtxTimeout > 0 /\ toDone[w] = 0
                 \/ "Direct" \in conns /\ unseen[w] <= Period]_vars
  BY <1>1, Zenon
<1> QED BY <1>2, InvTheorem, PTL DEF Spec, SilentOnlyWhenRaced
=============================================================================
