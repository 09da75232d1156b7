---------------------------- MODULE ClientProofs ----------------------------
(***************************************************************************)
(* Proofs about Client, for any number of relays and any times.            *)
(***************************************************************************)
EXTENDS Client, FiniteSetTheorems, TLAPS

\* The context and the clock agree until the context ends; what it does not
\* end adds at most its own length; nothing is left over that has not gone by.
Bounded ==
  /\ took <= Limit
  /\ Budget <= elapsed + left
  /\ left > 0 => elapsed + left <= Budget
  /\ pc = "window" => elapsed + left <= Budget + took
  /\ pc = "reserve" /\ relay[entry] # "hung" => elapsed + left <= Budget + took
  /\ elapsed + left <= Budget + Overrun

(***************************************************************************)
(* How long a client takes that meets at most one relay it cannot reach,   *)
(* and none that hangs or keeps silent.                                    *)
(***************************************************************************)
\* n relays that answer: the connection and the reservation of each.
Asked(n) == (2 * Answer) * n

\* The first n relays.
Spent(n) == IF \E i \in 1 .. n : relay[i] = "unreachable"
            THEN Asked(n - 1) + DialLimit ELSE Asked(n)

\* The budget has room for the relays, one of them out of reach or none, and
\* for the dial, the window and the stream.  The times in the code and answers
\* within two seconds leave room for two relays.
Fits ==
  /\ Asked(NRelays) + Answer + Window + Answer < Budget
  /\ NRelays > 0 => Asked(NRelays - 1) + DialLimit + Answer + Window + Answer < Budget

Tolerable ==
  /\ server = "answers" /\ \A i \in Entries : relay[i] \notin {"hung", "silent"}
  /\ Cardinality(Dead) <= 1

OnTime ==
  /\ pc # "failed"
  /\ pc = "connect" => elapsed <= Spent(entry - 1) + took
  /\ pc = "reserve" => /\ relay[entry] # "unreachable"
                       /\ elapsed <= Spent(entry - 1) + Answer + took
  /\ pc = "dial" => elapsed <= Spent(NRelays) + took
  /\ pc = "window" => elapsed <= Spent(NRelays) + Answer + took
  /\ pc = "stream" => elapsed <= Spent(NRelays) + Answer + Window + took

Inv == TypeOK /\ Bounded

TimedInv == Inv /\ (Tolerable => OnTime)

(***************************************************************************)
(* The context.                                                            *)
(***************************************************************************)
\* The longest a call may take, call by call.
LEMMA LimitFacts ==
  /\ pc = "connect" =>
       Limit = IF relay[entry] = "unreachable" THEN DialLimit ELSE Answer
  /\ pc = "reserve" /\ relay[entry] = "hung" => Limit = Budget
  /\ pc = "reserve" /\ relay[entry] = "silent" => Limit = ReserveLimit
  /\ pc = "reserve" /\ relay[entry] \notin {"hung", "silent"} => Limit = Answer
  /\ pc = "dial" => Limit = IF server = "unreachable" THEN DialLimit ELSE Answer
  /\ pc = "stream" => Limit = Answer
  /\ pc = "window" => Limit = Window
  /\ pc \in {"open", "failed"} => Limit = 0
BY Zenon DEF Limit

LEMMA LimitType == TypeOK => Limit \in Nat
<1> SUFFICES ASSUME TypeOK
             PROVE  Limit \in Nat
  BY Zenon
<1>1. pc \in {"connect", "reserve", "dial", "stream", "window", "open", "failed"}
  BY Zenon DEF TypeOK, InNewHost, AfterNewHost
<1> QED BY <1>1, LimitFacts, PeriodsAssumption

\* What may go on after the context has ended goes on no longer than Overrun.
LEMMA OverrunFacts ==
  ASSUME TypeOK
  PROVE  /\ Overrun \in Nat /\ Window <= Overrun
         /\ pc = "reserve" /\ relay[entry] # "hung" => Limit <= Overrun
<1> DEFINE other == IF \E i \in Entries : relay[i] = "silent" THEN ReserveLimit ELSE Answer
<1>1. Overrun = IF Window < other THEN other ELSE Window
  BY Zenon DEF Overrun, Longer
<1>2. other \in Nat /\ Answer <= other
  BY PeriodsAssumption
<1>3. ASSUME pc = "reserve", relay[entry] # "hung"
      PROVE  Limit <= other
  <2>1. entry \in Entries
    BY <1>3, PeriodsAssumption DEF TypeOK, InNewHost, Entries
  <2>2. CASE relay[entry] = "silent"
    <3>1. other = ReserveLimit /\ Limit = ReserveLimit
      BY <1>3, <2>1, <2>2, LimitFacts, Zenon
    <3> QED BY <3>1, PeriodsAssumption
  <2>3. CASE relay[entry] # "silent"
    BY <1>2, <1>3, <2>3, LimitFacts
  <2> QED BY <2>2, <2>3
<1>4. Limit \in Nat
  BY LimitType, Zenon
<1> HIDE DEF other
<1> QED BY <1>1, <1>2, <1>3, <1>4, PeriodsAssumption

LEMMA InitInv == Init => Inv
<1> SUFFICES ASSUME Init
             PROVE  Inv
  BY Zenon
<1>1. pc \in {"dial", "connect"} /\ (NRelays = 0 => pc = "dial")
  BY Zenon DEF Init
<1>2. TypeOK
  BY <1>1, PeriodsAssumption DEF Init, TypeOK, InNewHost, AfterNewHost
<1>3. Limit \in Nat /\ elapsed = 0 /\ left = Budget /\ took = 0 /\ entry = 1
  BY <1>2, LimitType, Zenon DEF Init
<1>4. Overrun \in Nat
  BY <1>2, OverrunFacts, Zenon
<1> QED BY <1>1, <1>2, <1>3, <1>4, PeriodsAssumption DEF Inv, Bounded

\* What a step of main does to the clock and the context: nothing.
LEMMA MainSteps ==
  ASSUME Inv, Main
  PROVE  /\ UNCHANGED <<relay, server, left, elapsed>> /\ took' = 0
         /\ \/ pc = "connect" /\ pc' = "reserve" /\ entry' = entry
               /\ relay[entry] # "unreachable" /\ left > 0
            \/ /\ pc \in {"connect", "reserve"} /\ entry' = entry + 1
               /\ pc' = IF entry < NRelays THEN "connect" ELSE "dial"
            \/ pc = "dial" /\ pc' = "window" /\ entry' = entry /\ left > 0
            \/ pc = "dial" /\ pc' = "failed" /\ entry' = entry
            \/ pc = "window" /\ pc' = "stream" /\ entry' = entry /\ took = Window
            \/ pc = "stream" /\ pc' \in {"open", "failed"} /\ entry' = entry
BY Zenon DEF Main, ConnectRelay, Reserve, Dial, EndWindow, NewStream, Goto, NextRelay

LEMMA MainInv ==
  ASSUME Inv, Main
  PROVE  Inv'
<1>1. TypeOK /\ Bounded
  BY Zenon DEF Inv
<1>2. relay' = relay /\ server' = server /\ left' = left /\ elapsed' = elapsed /\ took' = 0
  BY MainSteps, Zenon
<1>3. entry \in Nat /\ 1 <= entry /\ entry <= NRelays + 1
  BY <1>1, PeriodsAssumption DEF TypeOK
<1>4. /\ entry' \in 1 .. NRelays + 1
      /\ pc' \in {"connect", "reserve", "dial", "stream", "window", "open", "failed"}
      /\ pc' \in {"connect", "reserve"} => entry' <= NRelays
      /\ pc' \in {"dial", "window", "stream", "open"} => entry' = NRelays + 1
  <2>1. /\ pc \in {"connect", "reserve"} => entry <= NRelays
        /\ pc \in {"dial", "window", "stream", "open"} => entry = NRelays + 1
    BY <1>1, Zenon DEF TypeOK, InNewHost, AfterNewHost
  <2> QED BY <1>3, <2>1, MainSteps, PeriodsAssumption
<1>5. TypeOK'
  <2>1. /\ pc' \in InNewHost \cup AfterNewHost \cup {"failed"}
        /\ pc' \in InNewHost => entry' <= NRelays
        /\ pc' \in AfterNewHost => entry' = NRelays + 1
    BY <1>4, Zenon DEF InNewHost, AfterNewHost
  <2>2. took' \in Nat
    BY <1>2, Zenon
  <2> QED BY <1>1, <1>2, <1>4, <2>1, <2>2, Zenon DEF TypeOK
<1>6. took' <= Limit'
  <2>1. (TypeOK => Limit \in Nat)'
    BY LimitType, PTL
  <2> QED BY <1>2, <1>5, <2>1
<1>7. elapsed \in Nat /\ left \in Nat
  BY <1>1, PeriodsAssumption DEF TypeOK
<1>8. pc' \in {"window", "reserve"} => left > 0
  BY MainSteps, Zenon
<1>9. /\ Budget <= elapsed' + left'
      /\ left' > 0 => elapsed' + left' <= Budget
      /\ pc' \in {"window", "reserve"} => elapsed' + left' <= Budget + took'
      /\ elapsed' + left' <= Budget + Overrun
  BY <1>1, <1>2, <1>7, <1>8, PeriodsAssumption DEF Bounded
<1>10. Overrun' = Overrun
  BY <1>2, Zenon DEF Overrun
<1> QED BY <1>5, <1>6, <1>9, <1>10, Zenon DEF Inv, Bounded

LEMMA TimeInv ==
  ASSUME Inv, TimePasses
  PROVE  Inv'
<1>1. TypeOK /\ Bounded
  BY Zenon DEF Inv
<1>2. /\ relay' = relay /\ server' = server /\ pc' = pc /\ entry' = entry
      /\ took' = took + 1 /\ elapsed' = elapsed + 1 /\ took < Limit
      /\ left' = IF left = 0 THEN 0 ELSE left - 1
      /\ InContext => left > 0
  BY Zenon DEF TimePasses
<1>3. left \in 0 .. Budget /\ left \in Nat /\ took \in Nat /\ elapsed \in Nat /\ Limit \in Nat
  BY <1>1, LimitType, PeriodsAssumption DEF TypeOK
<1>4. TypeOK'
  <2>1. left' \in 0 .. Budget /\ took' \in Nat /\ elapsed' \in Nat
    BY <1>2, <1>3, PeriodsAssumption
  <2> QED BY <1>1, <1>2, <2>1, Zenon DEF TypeOK
<1>5. took' <= Limit'
  <2>1. Limit' = Limit
    BY <1>2, Zenon DEF Limit
  <2> QED BY <1>2, <1>3, <2>1
<1>6. Overrun \in Nat /\ Overrun' = Overrun
  BY <1>1, <1>2, OverrunFacts, Zenon DEF Overrun
<1>7. Budget <= elapsed' + left' /\ (left' > 0 => elapsed' + left' <= Budget)
  BY <1>1, <1>2, <1>3, PeriodsAssumption DEF Bounded
<1>8. /\ pc = "window" => elapsed' + left' <= Budget + took'
      /\ pc = "reserve" /\ relay[entry] # "hung" => elapsed' + left' <= Budget + took'
  BY <1>1, <1>2, <1>3, PeriodsAssumption DEF Bounded
<1>9. elapsed' + left' <= Budget + Overrun
  <2>1. CASE InContext
    BY <1>1, <1>2, <1>3, <1>6, <2>1, PeriodsAssumption DEF Bounded
  <2>2. CASE pc = "window" \/ (pc = "reserve" /\ relay[entry] # "hung")
    <3>1. took + 1 <= Limit /\ Limit <= Overrun
      BY <1>1, <1>2, <1>3, <2>2, OverrunFacts, LimitFacts
    <3> QED BY <1>2, <1>3, <1>6, <1>8, <2>2, <3>1, PeriodsAssumption
  <2>3. CASE pc \in {"open", "failed"}
    BY <1>2, <1>3, <2>3, LimitFacts
  <2> QED BY <1>1, <2>1, <2>2, <2>3, Zenon DEF TypeOK, InContext, InNewHost, AfterNewHost
<1> QED BY <1>2, <1>4, <1>5, <1>6, <1>7, <1>8, <1>9, Zenon DEF Inv, Bounded

LEMMA NextInv == Inv /\ [Next]_vars => Inv'
<1> SUFFICES ASSUME Inv, [Next]_vars
             PROVE  Inv'
  BY Zenon
<1>1. CASE UNCHANGED vars
  BY <1>1, Zenon DEF Inv, TypeOK, Bounded, Limit, Overrun, vars
<1> QED BY <1>1, MainInv, TimeInv, Zenon DEF Next, Done

\* The inductive invariant holds throughout, however the other hosts answer.
THEOREM InvTheorem == Spec => []Inv
<1> QED BY InitInv, NextInv, PTL DEF Spec

\* main tries every relay of its list and none beyond it before it dials, and
\* its context never has more than its limit left.
THEOREM TypeTheorem == Spec => []TypeOK
<1>1. Inv => TypeOK
  BY Zenon DEF Inv
<1> QED BY <1>1, InvTheorem, PTL

\* main decides within the context's time and the longer of what the context
\* does not end, the window or one reservation.
THEOREM StartIsBoundedTheorem == Spec => []StartIsBounded
<1>1. Inv => StartIsBounded
  <2> SUFFICES ASSUME Inv
               PROVE  elapsed <= Budget + Overrun
    BY Zenon DEF StartIsBounded
  <2>1. elapsed \in Nat /\ left \in Nat /\ elapsed + left <= Budget + Overrun
    BY PeriodsAssumption DEF Inv, TypeOK, Bounded
  <2>2. Overrun \in Nat
    BY OverrunFacts, Zenon DEF Inv
  <2> QED BY <2>1, <2>2, PeriodsAssumption
<1> QED BY <1>1, InvTheorem, PTL

(***************************************************************************)
(* Relays out of reach.                                                    *)
(***************************************************************************)
\* One relay more.
LEMMA AskedFacts ==
  ASSUME NEW n \in Nat
  PROVE  Asked(n) \in Nat /\ Asked(n + 1) = Asked(n) + Answer + Answer
<1> DEFINE a == 2 * Answer
<1>1. a \in Nat /\ a = Answer + Answer
  BY PeriodsAssumption
<1>2. Asked(n) = a * n /\ Asked(n + 1) = a * (n + 1)
  BY Zenon DEF Asked
<1> HIDE DEF a
<1>3. a * n \in Nat /\ a * (n + 1) = a * n + a
  BY <1>1
<1> QED BY <1>1, <1>2, <1>3, PeriodsAssumption

\* Not two relays are dead.
LEMMA OneDead ==
  ASSUME Cardinality(Dead) <= 1, NEW i \in Dead, NEW j \in Dead
  PROVE  i = j
<1> SUFFICES ASSUME i # j
             PROVE  FALSE
  BY Zenon
<1>1. IsFiniteSet(Dead)
  <2>1. IsFiniteSet(1 .. NRelays)
    BY FS_Interval, PeriodsAssumption
  <2>2. Dead \subseteq 1 .. NRelays
    BY Zenon DEF Dead, Entries
  <2> QED BY <2>1, <2>2, FS_Subset, Zenon
<1>2. IsFiniteSet({j}) /\ Cardinality({j}) = 1
  BY FS_Singleton, Zenon
<1>3. Cardinality({j} \cup {i}) = 2
  BY <1>2, FS_AddElement
<1>4. Cardinality({j} \cup {i}) <= Cardinality(Dead)
  <2>1. {j} \cup {i} \subseteq Dead
    BY Zenon
  <2> QED BY <1>1, <2>1, FS_Subset, Zenon
<1>5. Cardinality(Dead) \in Nat
  BY <1>1, FS_CardinalityType, Zenon
<1> QED BY <1>3, <1>4, <1>5

\* What the next relay adds to the time the first n have taken.
LEMMA SpentFacts ==
  ASSUME TypeOK, Tolerable, NEW n \in Nat, n < NRelays
  PROVE  /\ Spent(n) \in Nat /\ Spent(n + 1) \in Nat
         /\ relay[n + 1] # "unreachable" => Spent(n + 1) = Spent(n) + Answer + Answer
         /\ relay[n + 1] = "unreachable" => Spent(n + 1) = Spent(n) + DialLimit
<1> DEFINE Some(m) == \E i \in 1 .. m : relay[i] = "unreachable"
<1>1. /\ Spent(n) = IF Some(n) THEN Asked(n - 1) + DialLimit ELSE Asked(n)
      /\ Spent(n + 1) = IF Some(n + 1) THEN Asked(n) + DialLimit ELSE Asked(n + 1)
  <2>1. (n + 1) - 1 = n
    OBVIOUS
  <2> QED BY <2>1, Zenon DEF Spent
<1>2. Some(n + 1) <=> Some(n) \/ relay[n + 1] = "unreachable"
  <2>1. 1 .. n + 1 = 1 .. n \cup {n + 1}
    OBVIOUS
  <2> QED BY <2>1, Zenon
<1>3. relay[n + 1] = "unreachable" => ~ Some(n)
  <2> SUFFICES ASSUME relay[n + 1] = "unreachable", NEW i \in 1 .. n,
                      relay[i] = "unreachable"
               PROVE  FALSE
    BY Zenon
  <2>1. i \in Dead /\ n + 1 \in Dead
    BY PeriodsAssumption DEF Dead, Entries
  <2>2. i = n + 1
    BY <2>1, OneDead, Zenon DEF Tolerable
  <2> QED BY <2>2
<1>4. Some(n) => n - 1 \in Nat /\ (n - 1) + 1 = n
  OBVIOUS
<1>5. /\ Asked(n) \in Nat /\ Asked(n + 1) \in Nat
      /\ Asked(n + 1) = Asked(n) + Answer + Answer
      /\ Some(n) => Asked(n - 1) \in Nat /\ Asked(n) = Asked(n - 1) + Answer + Answer
  <2>1. Asked(n) \in Nat /\ Asked(n + 1) = Asked(n) + Answer + Answer
    BY AskedFacts, Zenon
  <2>2. Some(n) => Asked(n - 1) \in Nat /\ Asked((n - 1) + 1) = Asked(n - 1) + Answer + Answer
    BY <1>4, AskedFacts, Zenon
  <2>3. Asked(n + 1) \in Nat
    BY <2>1, PeriodsAssumption
  <2> QED BY <1>4, <2>1, <2>2, <2>3, Zenon
<1> HIDE DEF Some
<1> QED BY <1>1, <1>2, <1>3, <1>5, PeriodsAssumption

\* All relays together leave room for the rest.
LEMMA SpentFits ==
  ASSUME Fits
  PROVE  /\ Spent(NRelays) \in Nat
         /\ Spent(NRelays) + Answer + Window + Answer < Budget
<1>1. Asked(NRelays) \in Nat /\ (NRelays > 0 => Asked(NRelays - 1) \in Nat)
  <2>1. NRelays \in Nat /\ (NRelays > 0 => NRelays - 1 \in Nat)
    BY PeriodsAssumption
  <2> QED BY <2>1, AskedFacts, Zenon
<1>2. CASE \E i \in 1 .. NRelays : relay[i] = "unreachable"
  <2>1. NRelays > 0
    BY <1>2, PeriodsAssumption
  <2>2. Spent(NRelays) = Asked(NRelays - 1) + DialLimit
    BY <1>2, Zenon DEF Spent
  <2> HIDE DEF Asked
  <2> QED BY <1>1, <2>1, <2>2, PeriodsAssumption DEF Fits
<1>3. CASE ~ \E i \in 1 .. NRelays : relay[i] = "unreachable"
  <2>1. Spent(NRelays) = Asked(NRelays)
    BY <1>3, Zenon DEF Spent
  <2> QED BY <1>1, <2>1, PeriodsAssumption, Zenon DEF Fits
<1> QED BY <1>2, <1>3, Zenon

\* The first relay, or the dial of a client without relays, starts on time.
LEMMA InitOnTime == Init => TimedInv
<1> SUFFICES ASSUME Init
             PROVE  OnTime
  BY InitInv, Zenon DEF TimedInv
<1>1. Spent(0) = 0
  <2>1. Spent(0) = Asked(0)
    BY DEF Spent
  <2> QED BY <2>1, PeriodsAssumption DEF Asked
<1>2. pc = "connect" \/ (pc = "dial" /\ NRelays = 0)
  BY Zenon DEF Init
<1>3. elapsed = 0 /\ took = 0 /\ entry - 1 = 0
  BY DEF Init
<1>4. CASE pc = "connect"
  <2>1. elapsed <= Spent(entry - 1) + took
    BY <1>1, <1>3
  <2> QED BY <1>4, <2>1, Zenon DEF OnTime
<1>5. CASE pc = "dial" /\ NRelays = 0
  <2>1. elapsed <= Spent(NRelays) + took
    BY <1>1, <1>3, <1>5
  <2> QED BY <1>5, <2>1, Zenon DEF OnTime
<1> QED BY <1>2, <1>4, <1>5, Zenon

\* A relay is done with, one way or the other.
LEMMA RelayOnTime ==
  ASSUME Inv, Tolerable, OnTime, pc \in {"connect", "reserve"}
  PROVE  /\ entry \in Nat /\ entry - 1 \in Nat /\ entry <= NRelays
         /\ Spent(entry - 1) \in Nat /\ Spent(entry) \in Nat
         /\ elapsed <= Spent(entry)
         /\ pc = "connect" /\ relay[entry] # "unreachable"
              => elapsed <= Spent(entry - 1) + Answer
<1>1. TypeOK /\ Bounded
  BY Zenon DEF Inv
<1>2. entry \in Nat /\ entry - 1 \in Nat /\ entry <= NRelays /\ (entry - 1) + 1 = entry
  BY <1>1, PeriodsAssumption DEF TypeOK, InNewHost
<1>3. /\ Spent(entry - 1) \in Nat /\ Spent(entry) \in Nat
      /\ relay[entry] # "unreachable" => Spent(entry) = Spent(entry - 1) + Answer + Answer
      /\ relay[entry] = "unreachable" => Spent(entry) = Spent(entry - 1) + DialLimit
  <2> DEFINE n == entry - 1
  <2>1. n \in Nat /\ n < NRelays /\ n + 1 = entry
    BY <1>2, PeriodsAssumption
  <2> HIDE DEF n
  <2>2. /\ Spent(n) \in Nat /\ Spent(n + 1) \in Nat
        /\ relay[n + 1] # "unreachable" => Spent(n + 1) = Spent(n) + Answer + Answer
        /\ relay[n + 1] = "unreachable" => Spent(n + 1) = Spent(n) + DialLimit
    BY <1>1, <2>1, SpentFacts, Zenon
  <2> QED BY <2>1, <2>2, Zenon DEF n
<1>4. elapsed \in Nat /\ took \in Nat /\ took <= Limit
  BY <1>1, Zenon DEF TypeOK, Bounded
<1>5. relay[entry] \notin {"hung", "silent"}
  BY <1>2, PeriodsAssumption DEF Tolerable, Entries
<1> HIDE DEF Spent
<1>6. CASE pc = "connect"
  <2>1. elapsed <= Spent(entry - 1) + took
    BY <1>6, Zenon DEF OnTime
  <2>2. took <= IF relay[entry] = "unreachable" THEN DialLimit ELSE Answer
    BY <1>4, <1>6, LimitFacts, Zenon
  <2> QED BY <1>2, <1>3, <1>4, <2>1, <2>2, PeriodsAssumption
<1>7. CASE pc = "reserve"
  <2>1. elapsed <= Spent(entry - 1) + Answer + took /\ relay[entry] # "unreachable"
    BY <1>7, Zenon DEF OnTime
  <2>2. took <= Answer
    BY <1>4, <1>5, <1>7, LimitFacts, Zenon
  <2> QED BY <1>2, <1>3, <1>4, <1>7, <2>1, <2>2, PeriodsAssumption
<1> QED BY <1>6, <1>7, Zenon

\* The calls after the relays come back with time left.
LEMMA LateOnTime ==
  ASSUME Fits, Inv, Tolerable, OnTime, pc \in {"dial", "window", "stream"}
  PROVE  /\ Spent(NRelays) \in Nat /\ left > 0
         /\ pc = "dial" => elapsed <= Spent(NRelays) + Answer
<1>1. TypeOK /\ Bounded
  BY Zenon DEF Inv
<1>2. elapsed \in Nat /\ took \in Nat /\ left \in Nat /\ took <= Limit
  BY <1>1, PeriodsAssumption DEF TypeOK, Bounded
<1>3. Budget <= elapsed + left
  BY <1>1, Zenon DEF Bounded
<1>4. /\ Spent(NRelays) \in Nat
      /\ Spent(NRelays) + Answer + Window + Answer < Budget
  BY SpentFits, Zenon
<1> HIDE DEF Spent
<1>5. CASE pc = "dial"
  <2>1. elapsed <= Spent(NRelays) + took
    BY <1>5, Zenon DEF OnTime
  <2>2. took <= Answer
    BY <1>2, <1>5, LimitFacts, Zenon DEF Tolerable
  <2> QED BY <1>2, <1>3, <1>4, <2>1, <2>2, PeriodsAssumption
<1>6. CASE pc = "window"
  <2>1. elapsed <= Spent(NRelays) + Answer + took
    BY <1>6, Zenon DEF OnTime
  <2>2. took <= Window
    BY <1>2, <1>6, LimitFacts, Zenon
  <2> QED BY <1>2, <1>3, <1>4, <1>6, <2>1, <2>2, PeriodsAssumption
<1>7. CASE pc = "stream"
  <2>1. elapsed <= Spent(NRelays) + Answer + Window + took
    BY <1>7, Zenon DEF OnTime
  <2>2. took <= Answer
    BY <1>2, <1>7, LimitFacts, Zenon
  <2> QED BY <1>2, <1>3, <1>4, <1>7, <2>1, <2>2, PeriodsAssumption
<1> QED BY <1>5, <1>6, <1>7, Zenon

LEMMA MainOnTime ==
  ASSUME Fits, Inv, Tolerable, OnTime, Main
  PROVE  OnTime'
<1>1. TypeOK /\ Bounded
  BY Zenon DEF Inv
<1>2. relay' = relay /\ server' = server /\ left' = left /\ elapsed' = elapsed /\ took' = 0
  BY MainSteps, Zenon
<1>3. Spent(NRelays)' = Spent(NRelays) /\ elapsed \in Nat
  BY <1>1, <1>2, Zenon DEF Spent, TypeOK
<1>4. CASE pc = "connect" /\ pc' = "reserve" /\ entry' = entry /\ relay[entry] # "unreachable"
  <2>1. Spent(entry - 1)' = Spent(entry - 1)
    BY <1>2, <1>4, Zenon DEF Spent
  <2>2. Spent(entry - 1) \in Nat /\ elapsed <= Spent(entry - 1) + Answer
    BY <1>4, RelayOnTime, Zenon
  <2>3. elapsed' <= Spent(entry - 1)' + Answer + took'
    BY <1>2, <1>3, <2>1, <2>2, PeriodsAssumption
  <2> QED BY <1>2, <1>4, <2>3, Zenon DEF OnTime
<1>5. CASE /\ pc \in {"connect", "reserve"} /\ entry' = entry + 1
           /\ pc' = IF entry < NRelays THEN "connect" ELSE "dial"
  <2>1. /\ entry \in Nat /\ entry <= NRelays /\ Spent(entry) \in Nat
        /\ elapsed <= Spent(entry)
    BY <1>5, RelayOnTime, Zenon
  <2>2. Spent(entry - 1)' = Spent(entry)
    <3>1. entry' - 1 = entry
      BY <1>5, <2>1
    <3>2. entry' - 1 - 1 = entry - 1
      BY <1>5, <2>1
    <3> QED BY <1>2, <3>1, <3>2, Zenon DEF Spent
  <2>3. CASE entry < NRelays
    <3>1. elapsed' <= Spent(entry - 1)' + took'
      BY <1>2, <1>3, <2>1, <2>2
    <3> QED BY <1>5, <2>3, <3>1, Zenon DEF OnTime
  <2>4. CASE ~ (entry < NRelays)
    <3>1. entry = NRelays
      BY <2>1, <2>4, PeriodsAssumption
    <3>2. elapsed' <= Spent(NRelays)' + took'
      BY <1>2, <1>3, <2>1, <3>1
    <3> QED BY <1>5, <2>4, <3>2, Zenon DEF OnTime
  <2> QED BY <2>3, <2>4, Zenon
<1>6. CASE pc = "dial"
  <2>1. left > 0 /\ Spent(NRelays) \in Nat /\ elapsed <= Spent(NRelays) + Answer
    BY <1>6, LateOnTime, Zenon
  <2>2. pc' = "window"
    BY <1>6, <2>1, Zenon DEF Main, ConnectRelay, Reserve, Dial, EndWindow, NewStream, Goto,
                      Tolerable
  <2>3. elapsed' <= Spent(NRelays)' + Answer + took'
    BY <1>2, <1>3, <2>1, PeriodsAssumption
  <2> QED BY <2>2, <2>3, Zenon DEF OnTime
<1>7. CASE pc = "window" /\ pc' = "stream" /\ took = Window
  <2>1. Spent(NRelays) \in Nat /\ elapsed <= Spent(NRelays) + Answer + Window
    BY <1>7, LateOnTime, Zenon DEF OnTime
  <2>2. elapsed' <= Spent(NRelays)' + Answer + Window + took'
    BY <1>2, <1>3, <2>1, PeriodsAssumption
  <2> QED BY <1>7, <2>2, Zenon DEF OnTime
<1>8. CASE pc = "stream"
  <2>1. left > 0
    BY <1>8, LateOnTime, Zenon
  <2>2. pc' = "open"
    BY <1>8, <2>1, Zenon DEF Main, ConnectRelay, Reserve, Dial, EndWindow, NewStream, Goto,
                      Tolerable
  <2> QED BY <2>2, Zenon DEF OnTime
<1> QED BY <1>4, <1>5, <1>6, <1>7, <1>8, MainSteps, Zenon

LEMMA TimeOnTime ==
  ASSUME Inv, Tolerable, OnTime, TimePasses
  PROVE  OnTime'
<1>1. TypeOK /\ Bounded
  BY Zenon DEF Inv
<1>2. /\ relay' = relay /\ server' = server /\ pc' = pc /\ entry' = entry
      /\ took' = took + 1 /\ elapsed' = elapsed + 1
      /\ took \in Nat /\ elapsed \in Nat
  BY <1>1, Zenon DEF TimePasses, TypeOK
<1>3. Spent(NRelays)' = Spent(NRelays) /\ Spent(entry - 1)' = Spent(entry - 1)
  BY <1>2, Zenon DEF Spent
<1>4. pc \in {"connect", "reserve"} => Spent(entry - 1) \in Nat
  BY RelayOnTime, Zenon
<1>5. Spent(NRelays) \in Nat
  <2>1. NRelays \in Nat /\ (NRelays # 0 => NRelays - 1 \in Nat /\ NRelays = (NRelays - 1) + 1)
    BY PeriodsAssumption
  <2>2. CASE NRelays = 0
    <3>1. Spent(0) = Asked(0)
      BY DEF Spent
    <3> QED BY <2>2, <3>1, AskedFacts, Zenon
  <2>3. CASE NRelays # 0
    <3>1. NRelays - 1 < NRelays
      BY <2>1
    <3> QED BY <1>1, <2>1, <2>3, <3>1, SpentFacts, Zenon
  <2> QED BY <2>2, <2>3, Zenon
<1> HIDE DEF Spent
<1>6. pc' # "failed"
  BY <1>2, Zenon DEF OnTime
<1>7. pc' = "connect" => elapsed' <= Spent(entry - 1)' + took'
  BY <1>2, <1>3, <1>4, PeriodsAssumption DEF OnTime
<1>8. pc' = "reserve" => /\ relay'[entry'] # "unreachable"
                         /\ elapsed' <= Spent(entry - 1)' + Answer + took'
  BY <1>2, <1>3, <1>4, PeriodsAssumption DEF OnTime
<1>9. pc' = "dial" => elapsed' <= Spent(NRelays)' + took'
  BY <1>2, <1>3, <1>5, PeriodsAssumption DEF OnTime
<1>10. pc' = "window" => elapsed' <= Spent(NRelays)' + Answer + took'
  BY <1>2, <1>3, <1>5, PeriodsAssumption DEF OnTime
<1>11. pc' = "stream" => elapsed' <= Spent(NRelays)' + Answer + Window + took'
  BY <1>2, <1>3, <1>5, PeriodsAssumption DEF OnTime
<1> QED BY <1>6, <1>7, <1>8, <1>9, <1>10, <1>11, Zenon DEF OnTime

LEMMA NextOnTime ==
  ASSUME Fits
  PROVE  TimedInv /\ [Next]_vars => TimedInv'
<1> SUFFICES ASSUME TimedInv, [Next]_vars, Tolerable'
             PROVE  OnTime'
  BY NextInv, Zenon DEF TimedInv
<1>1. relay' = relay /\ server' = server
  BY MainSteps, Zenon DEF Next, Done, vars, TimePasses, TimedInv
<1>2. Tolerable
  BY <1>1, Zenon DEF Tolerable, Dead
<1>3. Inv /\ OnTime
  BY <1>2, Zenon DEF TimedInv
<1>4. CASE UNCHANGED vars
  BY <1>3, <1>4, Zenon DEF OnTime, Spent, vars
<1> QED BY <1>2, <1>3, <1>4, MainOnTime, TimeOnTime, Zenon DEF Next, Done

\* Where the times fit into the context, a client whose server answers gets
\* its stream, with any number of relays, as long as none hangs or keeps silent
\* and at most one cannot be reached.
THEOREM OneDeadRelayToleratedTheorem ==
  ASSUME Fits
  PROVE  Spec => []OneDeadRelayTolerated
<1>1. TimedInv => OneDeadRelayTolerated
  <2> SUFFICES ASSUME TimedInv, pc = "failed", server = "answers",
                      ~ (Cardinality(Dead) > 1),
                      \A i \in Entries : relay[i] \notin {"hung", "silent"}
               PROVE  FALSE
    BY Zenon DEF OneDeadRelayTolerated
  <2>1. Cardinality(Dead) \in Nat
    <3>1. IsFiniteSet(1 .. NRelays) /\ Dead \subseteq 1 .. NRelays
      BY FS_Interval, PeriodsAssumption DEF Dead, Entries
    <3> QED BY <3>1, FS_Subset, FS_CardinalityType, Zenon
  <2>2. Tolerable
    BY <2>1 DEF Tolerable
  <2> QED BY <2>2, Zenon DEF TimedInv, OnTime
<1> QED BY <1>1, InitOnTime, NextOnTime, PTL DEF Spec
=============================================================================
