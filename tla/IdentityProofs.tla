--------------------------- MODULE IdentityProofs ---------------------------
(***************************************************************************)
(* Proofs about Identity, for every number of processes and of keys.       *)
(***************************************************************************)
EXTENDS Identity, TLAPS

\* The key in the environment is the one handed out last, and the processes
\* started since take it from there.
EnvOK ==
  /\ env # None => env = last /\ \A p \in Procs : pc[p] \in Down \cup {"up", "env"}
  /\ env = None => \A p \in Procs : pc[p] # "env"

\* So is a key on disk; and until that is lost no process makes another one,
\* and only one makes the first.
DiskOK ==
  /\ file \in Keys => file = last
  /\ ~lost =>
       /\ last # None /\ env = None => file = last
       /\ \A p \in Procs : pc[p] \in Creating
            => last = None /\ \A q \in Procs : pc[q] \in Creating => q = p
       /\ \A p \in Procs : pc[p] = "up" => key[p] = last

Inv == TypeOK /\ EnvOK /\ DiskOK /\ TornOnlyWhenCut

\* Before the first start.
LEMMA InvInit == Init => Inv
BY NamesAssumption, Zenon
   DEF Init, Inv, TypeOK, EnvOK, DiskOK, TornOnlyWhenCut, Down, Creating

\* Every step keeps the types.
LEMMA TypeStep == Inv /\ [Next]_vars => TypeOK'
<1> SUFFICES ASSUME Inv, [Next]_vars PROVE TypeOK'
  BY Zenon
<1> USE NamesAssumption DEF Inv, TypeOK, Down, Creating, Goto, ComeUp
<1>1. ASSUME NEW p \in Procs, Start(p) PROVE TypeOK'
  BY <1>1, Zenon DEF Start
<1>2. ASSUME NEW p \in Procs, LoadEnv(p) PROVE TypeOK'
  BY <1>2, Zenon DEF LoadEnv, EnvOK
<1>3. ASSUME NEW p \in Procs, ReadKey(p) PROVE TypeOK'
  BY <1>3 DEF ReadKey
<1>4. ASSUME NEW p \in Procs, ReadFails(p) PROVE TypeOK'
  BY <1>4, Zenon DEF ReadFails
<1>5. ASSUME NEW p \in Procs, Generate(p) PROVE TypeOK'
  BY <1>5 DEF Generate
<1>6. ASSUME NEW p \in Procs, Truncate(p) PROVE TypeOK'
  BY <1>6, Zenon DEF Truncate
<1>7. ASSUME NEW p \in Procs, WriteKey(p) PROVE TypeOK'
  BY <1>7, Zenon DEF WriteKey
<1>8. ASSUME NEW p \in Procs, WriteFails(p) PROVE TypeOK'
  BY <1>8, Zenon DEF WriteFails
<1>9. ASSUME NEW p \in Procs, Stop(p) PROVE TypeOK'
  BY <1>9, Zenon DEF Stop
<1>10. CASE SetEnv \/ Wipe
  BY <1>10, Zenon DEF SetEnv, Wipe
<1>11. CASE UNCHANGED vars
  BY <1>11, Zenon DEF vars
<1> QED BY <1>1, <1>2, <1>3, <1>4, <1>5, <1>6, <1>7, <1>8, <1>9, <1>10, <1>11, Zenon DEF Next

\* Every step keeps the rest.
LEMMA StoreStep == Inv /\ [Next]_vars => EnvOK' /\ DiskOK' /\ TornOnlyWhenCut'
<1> SUFFICES ASSUME Inv, [Next]_vars PROVE EnvOK' /\ DiskOK' /\ TornOnlyWhenCut'
  BY Zenon
<1> USE NamesAssumption
    DEF Inv, TypeOK, EnvOK, DiskOK, TornOnlyWhenCut, Down, Creating, Goto, ComeUp
<1>1. ASSUME NEW p \in Procs, Start(p) PROVE EnvOK' /\ DiskOK' /\ TornOnlyWhenCut'
  BY <1>1 DEF Start
<1>2. ASSUME NEW p \in Procs, LoadEnv(p) PROVE EnvOK' /\ DiskOK' /\ TornOnlyWhenCut'
  BY <1>2 DEF LoadEnv
<1>3. ASSUME NEW p \in Procs, ReadKey(p) PROVE EnvOK' /\ DiskOK' /\ TornOnlyWhenCut'
  BY <1>3 DEF ReadKey
<1>4. ASSUME NEW p \in Procs, ReadFails(p) PROVE EnvOK' /\ DiskOK' /\ TornOnlyWhenCut'
  <2>1. EnvOK'
    BY <1>4, Zenon DEF ReadFails
  <2>2. DiskOK'
    <3>1. /\ pc[p] = "read" /\ env = None /\ UNCHANGED <<file, env, key, last>>
          /\ \A q \in Procs : pc'[q] = IF q = p THEN "generate" ELSE pc[q]
      BY <1>4, Zenon DEF ReadFails
    <3>2. ~lost' => ~lost /\ file = None /\ \A q \in Procs : pc[q] \notin Creating
      BY <1>4, Zenon DEF ReadFails
    <3>3. ~lost' => last = None
      BY <3>1, <3>2, Zenon
    <3>4. \A q \in Procs : q # p /\ pc'[q] \in Creating => pc[q] \in Creating
      BY <3>1, Zenon
    <3>5. \A q \in Procs : pc'[q] = "up" => pc[q] = "up" /\ key'[q] = key[q]
      BY <3>1, Zenon
    <3> HIDE DEF Creating
    <3> QED BY <3>1, <3>2, <3>3, <3>4, <3>5, Zenon
  <2>3. TornOnlyWhenCut'
    BY <1>4, Zenon DEF ReadFails
  <2> QED BY ONLY <2>1, <2>2, <2>3, Zenon
<1>5. ASSUME NEW p \in Procs, Generate(p) PROVE EnvOK' /\ DiskOK' /\ TornOnlyWhenCut'
  BY <1>5 DEF Generate
<1>6. ASSUME NEW p \in Procs, Truncate(p) PROVE EnvOK' /\ DiskOK' /\ TornOnlyWhenCut'
  BY <1>6 DEF Truncate
<1>7. ASSUME NEW p \in Procs, WriteKey(p) PROVE EnvOK' /\ DiskOK' /\ TornOnlyWhenCut'
  BY <1>7 DEF WriteKey
<1>8. ASSUME NEW p \in Procs, WriteFails(p) PROVE EnvOK' /\ DiskOK' /\ TornOnlyWhenCut'
  BY <1>8 DEF WriteFails
<1>9. ASSUME NEW p \in Procs, Stop(p) PROVE EnvOK' /\ DiskOK' /\ TornOnlyWhenCut'
  <2>1. EnvOK'
    BY <1>9 DEF Stop
  <2>2. DiskOK'
    BY <1>9 DEF Stop
  <2>3. TornOnlyWhenCut'
    BY <1>9, Zenon DEF Stop
  <2> QED BY ONLY <2>1, <2>2, <2>3, Zenon
<1>10. CASE SetEnv \/ Wipe
  BY <1>10, Zenon DEF SetEnv, Wipe
<1>11. CASE UNCHANGED vars
  BY <1>11, Zenon DEF vars
<1> QED BY <1>1, <1>2, <1>3, <1>4, <1>5, <1>6, <1>7, <1>8, <1>9, <1>10, <1>11, Zenon DEF Next

\* The inductive invariant.
THEOREM InvTheorem == Spec => []Inv
<1>1. Inv /\ [Next]_vars => Inv'
  BY TypeStep, StoreStep, Zenon DEF Inv
<1> QED BY InvInit, <1>1, PTL DEF Spec

\* A process that is up has a key, and the file and the environment hold
\* nothing but keys, a torn write or nothing.
THEOREM TypeTheorem == Spec => []TypeOK
<1>1. Inv => TypeOK
  BY Zenon DEF Inv
<1> QED BY InvTheorem, <1>1, PTL

\* Only a process that ended inside os.WriteFile leaves a key file that does
\* not parse.
THEOREM TornTheorem == Spec => []TornOnlyWhenCut
<1>1. Inv => TornOnlyWhenCut
  BY Zenon DEF Inv
<1> QED BY InvTheorem, <1>1, PTL

\* LoadOrCreateIdentity returns a key only when it is stored.
THEOREM StoredTheorem == Spec => []HandedOutIsStored
<1>1. Inv => HandedOutIsStored
  BY Zenon DEF Inv, TypeOK, EnvOK, DiskOK, HandedOutIsStored
<1> QED BY InvTheorem, <1>1, PTL

\* A restart keeps the PeerID, however many processes share the key path and
\* wherever they are stopped, unless the file itself was lost.
THEOREM KeptTheorem == Spec => IdentityKept
<1> DEFINE Kept == \A p \in Procs : /\ pc[p] # "up" /\ pc'[p] = "up"
                                    /\ last # None /\ ~lost
                                    => key'[p] = last
<1>1. Inv /\ [Next]_vars => [Kept]_vars
  <2> SUFFICES ASSUME Inv, Next, NEW p \in Procs, pc[p] # "up", pc'[p] = "up",
                      last # None, ~lost
               PROVE  key'[p] = last
    BY Zenon
  <2>1. LoadEnv(p) \/ ReadKey(p) \/ WriteKey(p)
    BY DEF Next, Start, LoadEnv, ReadKey, ReadFails, Generate, Truncate, WriteKey,
           WriteFails, Stop, SetEnv, Wipe, Goto, ComeUp, Inv, TypeOK
  <2>2. CASE LoadEnv(p)
    BY <2>2, Zenon DEF LoadEnv, ComeUp, Inv, TypeOK, EnvOK
  <2>3. CASE ReadKey(p)
    BY <2>3, Zenon DEF ReadKey, ComeUp, Goto, Inv, TypeOK, DiskOK
  <2>4. CASE WriteKey(p)
    BY <2>4, Zenon DEF WriteKey, Inv, DiskOK, Creating
  <2> QED BY <2>1, <2>2, <2>3, <2>4, Zenon
<1> QED BY InvTheorem, <1>1, PTL DEF Spec, IdentityKept
=============================================================================
