----------------------------- MODULE WireProofs -----------------------------
(***************************************************************************)
(* Proofs about Wire, for scripts of any length, with byte slices of any   *)
(* length and integers of any width in any base:                           *)
(*                                                                         *)
(*   1. induction and recursion over the naturals;                         *)
(*   2. an integer is read as it was written;                              *)
(*   3. a buffer that is appended to;                                      *)
(*   4. where the fields of a message are in its bytes;                    *)
(*   5. where the messages of a script are in its stream;                  *)
(*   6. the inductive invariant: the reader's place in the stream, from    *)
(*      which on the bytes on their way continue it;                       *)
(*   7. the writer and the network keep the invariant;                     *)
(*   8. the reader does;                                                   *)
(*   9. the theorems.                                                      *)
(***************************************************************************)
EXTENDS Wire, WellFoundedInduction, TLAPS

(***************************************************************************)
(* 1. Induction, in terms of sets.                                         *)
(***************************************************************************)
\* A set of naturals has a least element.
LEMMA Least ==
  ASSUME NEW T \in SUBSET Nat, T # {}
  PROVE  \E n \in T : \A m \in T : n <= m
<1>1. \E x \in T : \A y \in T : ~ (<<y, x>> \in OpToRel(<, Nat))
  BY NatLessThanWellFounded, WFMin, Zenon
<1>2. ASSUME NEW x \in Nat, NEW y \in Nat, y < x
      PROVE  <<y, x>> \in OpToRel(<, Nat)
  <2>1. <<y, x>> \in Nat \X Nat /\ <<y, x>>[1] = y /\ <<y, x>>[2] = x
    BY Zenon
  <2> QED BY <1>2, <2>1, Zenon DEF OpToRel
<1>3. PICK x \in T : \A y \in T : ~ (<<y, x>> \in OpToRel(<, Nat))
  BY <1>1
<1>4. \A y \in T : ~ (y < x)
  BY <1>2, <1>3, Zenon
<1> QED BY <1>4

\* A set with 0 and every successor of its elements has all naturals.
LEMMA InductionSet ==
  ASSUME NEW T \in SUBSET Nat, 0 \in T, \A n \in T : n + 1 \in T
  PROVE  T = Nat
<1>1. ASSUME Nat \ T # {}
      PROVE  FALSE
  <2>1. PICK n \in Nat \ T : \A m \in Nat \ T : n <= m
    BY <1>1, Least, Zenon
  <2>2. n # 0 /\ n - 1 \in Nat
    OBVIOUS
  <2>3. n - 1 \in T
    BY <2>1, <2>2
  <2> QED BY <2>2, <2>3
<1> QED BY <1>1, Zenon

\* The first n + 1 values of the iteration of a step.
\* The steps of a set into itself.
Steps(S) == [S -> S]

\* The values of a recursion over 0 .. n that starts from init and has step[k]
\* for its k-th step.
Recursions(S, init, step, n) ==
  {f \in [0 .. n -> S] : f[0] = init /\ \A k \in 1 .. n : f[k] = step[k][f[k - 1]]}

\* Steps of a set into itself, one for every number up to n.
StepSeqs(S, n) == [1 .. n -> Steps(S)]

\* A recursion whose k-th step depends on k has a value for every number up to n.
LEMMA Recursion ==
  ASSUME NEW S, NEW init \in S, NEW n \in Nat, NEW step \in StepSeqs(S, n)
  PROVE  Recursions(S, init, step, n) # {}
<1> USE DEF Steps, StepSeqs
<1> DEFINE T == {m \in Nat : m <= n => Recursions(S, init, step, m) # {}}
<1>1. 0 \in T
  <2> DEFINE g == [k \in 0 .. 0 |-> init]
  <2>1. g \in Recursions(S, init, step, 0)
    BY DEF Recursions
  <2> QED BY <2>1, Zenon
<1>2. ASSUME NEW m \in T, m + 1 <= n
      PROVE  Recursions(S, init, step, m + 1) # {}
  <2>0. m \in Nat /\ m <= n
    BY <1>2
  <2>1. PICK g \in Recursions(S, init, step, m) : TRUE
    BY <1>2, <2>0, Zenon
  <2>2. /\ g \in [0 .. m -> S] /\ g[0] = init
        /\ \A k \in 1 .. m : g[k] = step[k][g[k - 1]]
    BY <2>1, Zenon DEF Recursions
  <2> DEFINE h == [k \in 0 .. m + 1 |-> IF k = m + 1 THEN step[m + 1][g[m]] ELSE g[k]]
  <2>3. g[m] \in S /\ step[m + 1] \in [S -> S]
    BY <1>2, <2>0, <2>2
  <2>31. step[m + 1][g[m]] \in S
    BY <2>3, Zenon
  <2>4. \A k \in 0 .. m + 1 : k # m + 1 => k \in 0 .. m
    BY <2>0
  <2>5. h \in [0 .. m + 1 -> S]
    BY <2>2, <2>31, <2>4, Zenon
  <2>6. h[0] = init
    BY <2>0, <2>2
  <2>7. ASSUME NEW k \in 1 .. m + 1
        PROVE  h[k] = step[k][h[k - 1]]
    <3>1. k - 1 \in 0 .. m /\ k - 1 \in 0 .. m + 1 /\ k - 1 # m + 1 /\ k \in 0 .. m + 1
      BY <2>0
    <3>2. h[k - 1] = g[k - 1]
      BY <3>1, Zenon
    <3>3. CASE k = m + 1
      <4>1. k - 1 = m
        BY <2>0, <3>3
      <4>2. h[k] = step[m + 1][g[m]]
        BY <3>1, <3>3, Zenon
      <4> QED BY <3>2, <3>3, <4>1, <4>2, Zenon
    <3>4. CASE k # m + 1
      <4>1. k \in 1 .. m
        BY <2>0, <3>4
      <4>2. h[k] = g[k]
        BY <3>1, <3>4, Zenon
      <4> QED BY <2>2, <3>2, <4>1, <4>2, Zenon
    <3> QED BY <3>3, <3>4, Zenon
  <2> HIDE DEF h
  <2>8. h \in Recursions(S, init, step, m + 1)
    BY <2>5, <2>6, <2>7, Zenon DEF Recursions
  <2> QED BY <2>8, Zenon
<1>3. \A m \in T : m + 1 \in T
  BY <1>2
<1>4. T = Nat
  <2> HIDE DEF T
  <2>1. T \in SUBSET Nat
    BY Zenon DEF T
  <2> QED BY <1>1, <1>3, <2>1, InductionSet, Zenon
<1> QED BY <1>4

\* Induction up to a bound.
LEMMA InductionUpTo ==
  ASSUME NEW n \in Nat, NEW U, 0 \in U, \A k \in 1 .. n : k - 1 \in U => k \in U
  PROVE  \A k \in 0 .. n : k \in U
<1> DEFINE T == {k \in Nat : k <= n => k \in U}
<1>1. 0 \in T
  BY Zenon
<1>2. ASSUME NEW k \in T
      PROVE  k + 1 \in T
  <2>1. ASSUME k + 1 <= n
        PROVE  k + 1 \in U
    <3>1. k + 1 \in 1 .. n /\ (k + 1) - 1 = k /\ k <= n
      BY <2>1
    <3>2. k \in U
      BY <3>1, Zenon
    <3> QED BY <3>1, <3>2, Zenon
  <2> QED BY <2>1
<1>3. T = Nat
  <2> HIDE DEF T
  <2>1. T \in SUBSET Nat
    BY Zenon DEF T
  <2> QED BY <1>1, <1>2, <2>1, InductionSet, Zenon
<1> QED BY <1>3

(***************************************************************************)
(* 2. Integers.                                                            *)
(***************************************************************************)
\* A shift drops the last byte.
LEMMA ShiftedFacts ==
  ASSUME NEW n \in Nat
  PROVE  /\ Shifted(n)[0] = n
         /\ \A k \in 1 .. Width : Shifted(n)[k] = Shifted(n)[k - 1] \div Base
         /\ \A k \in 0 .. Width : Shifted(n)[k] \in Nat
<1> DEFINE step == [k \in 1 .. Width |-> [x \in Nat |-> x \div Base]]
           Rec(f) == [k \in 0 .. Width |-> IF k = 0 THEN n ELSE f[k - 1] \div Base]
<1>0. Width \in Nat /\ Base \in Nat /\ Base > 0
  BY WireAssumption DEF msgKind
<1>1. \A x \in Nat : x \div Base \in Nat
  BY <1>0
<1>2. step \in StepSeqs(Nat, Width)
  BY <1>1, Zenon DEF StepSeqs, Steps
<1>3. \A k \in 1 .. Width, x \in Nat : step[k][x] = x \div Base
  BY Zenon
<1> HIDE DEF step
<1>4. PICK f \in [0 .. Width -> Nat] : f[0] = n /\ \A k \in 1 .. Width : f[k] = step[k][f[k - 1]]
  <2>1. Recursions(Nat, n, step, Width) # {}
    BY ONLY <1>0, <1>2, Recursion, Zenon
  <2> QED BY <2>1, Zenon DEF Recursions
<1>5. \A k \in 0 .. Width : f[k] = IF k = 0 THEN n ELSE f[k - 1] \div Base
  <2> SUFFICES ASSUME NEW k \in 0 .. Width, k # 0
               PROVE  f[k] = f[k - 1] \div Base
    BY <1>4, Zenon
  <2>1. k \in 1 .. Width /\ k - 1 \in 0 .. Width
    BY <1>0
  <2> QED BY <1>3, <1>4, <2>1
<1>6. f = Rec(f)
  BY <1>4, <1>5, Zenon
<1>7. Shifted(n) = CHOOSE g : g = Rec(g)
  BY Zenon DEF Shifted
<1> DEFINE shift == Shifted(n)
<1>8. shift = Rec(shift)
  <2> HIDE DEF Rec
  <2> QED BY <1>6, <1>7, Zenon
<1> HIDE DEF shift
<1>9. \A k \in 0 .. Width : shift[k] = IF k = 0 THEN n ELSE shift[k - 1] \div Base
  BY <1>8, Zenon
<1>10. shift[0] = n /\ \A k \in 1 .. Width : shift[k] = shift[k - 1] \div Base
  BY <1>0, <1>9
<1> DEFINE U == {k \in 0 .. Width : shift[k] \in Nat}
<1>11. 0 \in U
  BY <1>0, <1>10
<1>13. ASSUME NEW k \in 1 .. Width, k - 1 \in U
       PROVE  k \in U
  <2>1. shift[k] = shift[k - 1] \div Base /\ shift[k - 1] \in Nat
    BY <1>10, <1>13, Zenon
  <2>2. shift[k] \in Nat
    BY <1>1, <2>1, Zenon
  <2> QED BY <1>0, <2>2
<1>12. \A k \in 0 .. Width : k \in U
  <2> HIDE DEF U
  <2> QED BY <1>0, <1>11, <1>13, InductionUpTo, Zenon
<1> QED BY <1>10, <1>12, Zenon DEF shift

\* Uint32 reads from the left.
LEMMA Uint32Facts ==
  ASSUME NEW buf \in Seq(Nat)
  PROVE  \E value : /\ Uint32(buf) = value[Len(buf)] /\ value[0] = 0
                    /\ \A k \in 1 .. Len(buf) : value[k] = value[k - 1] * Base + buf[k]
<1> DEFINE n == Len(buf)
           step == [k \in 1 .. n |-> [x \in Nat |-> x * Base + buf[k]]]
           Rec(f) == [k \in 0 .. n |-> IF k = 0 THEN 0 ELSE f[k - 1] * Base + buf[k]]
<1>0. n \in Nat /\ Base \in Nat
  BY WireAssumption
<1>1. \A k \in 1 .. n, x \in Nat : x * Base + buf[k] \in Nat
  BY <1>0
<1>2. step \in StepSeqs(Nat, n)
  BY <1>1, Zenon DEF StepSeqs, Steps
<1>3. \A k \in 1 .. n, x \in Nat : step[k][x] = x * Base + buf[k]
  BY Zenon
<1> HIDE DEF step, n
<1>4. PICK f \in [0 .. n -> Nat] : f[0] = 0 /\ \A k \in 1 .. n : f[k] = step[k][f[k - 1]]
  <2>1. Recursions(Nat, 0, step, n) # {}
    BY ONLY <1>0, <1>2, Recursion, Zenon
  <2> QED BY <2>1, Zenon DEF Recursions
<1>5. \A k \in 0 .. n : f[k] = IF k = 0 THEN 0 ELSE f[k - 1] * Base + buf[k]
  <2> SUFFICES ASSUME NEW k \in 0 .. n, k # 0
               PROVE  f[k] = f[k - 1] * Base + buf[k]
    BY <1>4, Zenon
  <2>1. k \in 1 .. n /\ k - 1 \in 0 .. n
    BY <1>0
  <2> QED BY <1>3, <1>4, <2>1, Zenon
<1>6. f = Rec(f)
  BY <1>4, <1>5, Zenon
<1> DEFINE value == CHOOSE g : g = Rec(g)
<1>7. Uint32(buf) = value[n]
  BY Zenon DEF Uint32, n
<1>8. value = Rec(value)
  <2> HIDE DEF Rec
  <2> QED BY <1>6, Zenon
<1> HIDE DEF value
<1>9. \A k \in 0 .. n : value[k] = IF k = 0 THEN 0 ELSE value[k - 1] * Base + buf[k]
  BY <1>8, Zenon
<1>10. value[0] = 0 /\ \A k \in 1 .. n : value[k] = value[k - 1] * Base + buf[k]
  BY <1>0, <1>9
<1> QED BY <1>7, <1>10, Zenon DEF n

\* A number is its last byte and the rest.
LEMMA LastByte ==
  ASSUME NEW x \in Nat
  PROVE  (x \div Base) * Base + (x % Base) = x /\ x % Base \in Byte
BY WireAssumption DEF msgKind, Byte

\* PutUint32 fills Width bytes, and Uint32 reads them as the number they were
\* made of.
THEOREM PutUint32Facts ==
  ASSUME NEW n, IsUint32(n)
  PROVE  /\ PutUint32(n) \in Seq(Byte) /\ Len(PutUint32(n)) = Width
         /\ Uint32(PutUint32(n)) = n
<1> DEFINE buf == PutUint32(n)
           shift == Shifted(n)
<1>0. n \in Nat /\ Width \in Nat /\ shift[Width] = 0 /\ Base \in Nat
  BY WireAssumption, Zenon DEF IsUint32
<1>1. /\ shift[0] = n
      /\ \A k \in 1 .. Width : shift[k] = shift[k - 1] \div Base
      /\ \A k \in 0 .. Width : shift[k] \in Nat
  BY <1>0, ShiftedFacts, Zenon
<1>2. buf = [i \in 1 .. Width |-> shift[Width - i] % Base]
  BY Zenon DEF PutUint32
<1> HIDE DEF buf, shift
<1>3. \A i \in 1 .. Width : shift[Width - i] \in Nat
  BY <1>0, <1>1
<1>4. \A i \in 1 .. Width : shift[Width - i] % Base \in Byte
  BY <1>3, LastByte, Zenon
<1>5. buf \in [1 .. Width -> Byte]
  BY <1>2, <1>4, Zenon
<1>6. buf \in Seq(Byte) /\ Len(buf) = Width
  BY <1>0, <1>5
<1>7. buf \in Seq(Nat)
  BY <1>0, <1>5 DEF Byte
<1>8. PICK value : /\ Uint32(buf) = value[Width] /\ value[0] = 0
                   /\ \A k \in 1 .. Width : value[k] = value[k - 1] * Base + buf[k]
  BY <1>6, <1>7, Uint32Facts, Zenon
<1> DEFINE U == {k \in 0 .. Width : value[k] = shift[Width - k]}
<1>9. 0 \in U
  BY <1>0, <1>8
<1>10. ASSUME NEW k \in 1 .. Width, k - 1 \in U
       PROVE  k \in U
  <2>0. k - 1 \in 0 .. Width /\ k \in 0 .. Width /\ Width - k \in 0 .. Width
        /\ Width - (k - 1) \in 1 .. Width /\ (Width - (k - 1)) - 1 = Width - k
    BY <1>0
  <2>1. value[k - 1] = shift[Width - (k - 1)]
    BY <1>10, <2>0, Zenon
  <2>2. shift[Width - (k - 1)] = shift[Width - k] \div Base
    BY <1>1, <2>0, Zenon
  <2>3. value[k] = value[k - 1] * Base + buf[k] /\ buf[k] = shift[Width - k] % Base
    BY <1>2, <1>8, Zenon
  <2>4. shift[Width - k] \in Nat
    BY <1>1, <2>0, Zenon
  <2>5. (shift[Width - k] \div Base) * Base + (shift[Width - k] % Base) = shift[Width - k]
    BY <2>4, LastByte, Zenon
  <2>6. value[k] = shift[Width - k]
    BY <2>1, <2>2, <2>3, <2>5, Zenon
  <2> QED BY <2>0, <2>6, Zenon
<1>11. \A k \in 0 .. Width : k \in U
  <2> HIDE DEF U
  <2> QED BY <1>0, <1>9, <1>10, InductionUpTo, Zenon
<1>12. value[Width] = shift[0]
  BY <1>0, <1>11
<1> QED BY <1>1, <1>6, <1>8, <1>12, Zenon DEF buf

(***************************************************************************)
(* 3. Buffers.                                                             *)
(***************************************************************************)
\* A buffer grows by one part after the other.
LEMMA AppendedFacts ==
  ASSUME NEW S, NEW first \in Seq(S), NEW parts \in Seq(Seq(S))
  PROVE  /\ Appended(first, parts)[0] = first
         /\ \A k \in 1 .. Len(parts) :
              Appended(first, parts)[k] = Appended(first, parts)[k - 1] \o parts[k]
         /\ \A k \in 0 .. Len(parts) : Appended(first, parts)[k] \in Seq(S)
<1> DEFINE n == Len(parts)
           T == Seq(S)
           step == [k \in 1 .. n |-> [x \in T |-> x \o parts[k]]]
           Rec(f) == [k \in 0 .. n |-> IF k = 0 THEN first ELSE f[k - 1] \o parts[k]]
<1>0. n \in Nat /\ first \in T /\ \A k \in 1 .. n : parts[k] \in T
  OBVIOUS
<1>1. \A k \in 1 .. n, x \in T : x \o parts[k] \in T
  <2> SUFFICES ASSUME NEW k \in 1 .. n, NEW x \in T
               PROVE  x \o parts[k] \in T
    BY Zenon
  <2>1. x \in Seq(S) /\ parts[k] \in Seq(S)
    BY <1>0, Zenon
  <2> QED BY ONLY <2>1
<1>2. step \in StepSeqs(T, n)
  <2> HIDE DEF T, n
  <2> QED BY <1>1, Zenon DEF StepSeqs, Steps
<1>3. \A k \in 1 .. n, x \in T : step[k][x] = x \o parts[k]
  BY Zenon
<1> HIDE DEF step, n, T
<1>4. PICK f \in [0 .. n -> T] : f[0] = first /\ \A k \in 1 .. n : f[k] = step[k][f[k - 1]]
  <2>1. Recursions(T, first, step, n) # {}
    BY ONLY <1>0, <1>2, Recursion, Zenon
  <2> QED BY <2>1, Zenon DEF Recursions
<1>5. \A k \in 0 .. n : f[k] = IF k = 0 THEN first ELSE f[k - 1] \o parts[k]
  <2> SUFFICES ASSUME NEW k \in 0 .. n, k # 0
               PROVE  f[k] = f[k - 1] \o parts[k]
    BY <1>4, Zenon
  <2>1. k \in 1 .. n /\ k - 1 \in 0 .. n
    BY <1>0
  <2>2. f[k] = step[k][f[k - 1]] /\ f[k - 1] \in T
    BY <1>4, <2>1, Zenon
  <2> QED BY <1>3, <2>1, <2>2, Zenon
<1>6. f = Rec(f)
  BY <1>4, <1>5, Zenon
<1>7. Appended(first, parts) = CHOOSE g : g = Rec(g)
  BY Zenon DEF Appended, n
<1> DEFINE buf == Appended(first, parts)
<1>8. buf = Rec(buf)
  <2> HIDE DEF Rec
  <2> QED BY <1>6, <1>7, Zenon
<1> HIDE DEF buf
<1>9. \A k \in 0 .. n : buf[k] = IF k = 0 THEN first ELSE buf[k - 1] \o parts[k]
  BY <1>8, Zenon
<1>10. buf[0] = first
  <2>1. 0 \in 0 .. n
    BY <1>0
  <2> QED BY <1>9, <2>1, Zenon
<1>11. ASSUME NEW k \in 1 .. n
       PROVE  buf[k] = buf[k - 1] \o parts[k]
  <2>1. k \in 0 .. n /\ k # 0
    BY <1>0
  <2> QED BY <1>9, <2>1, Zenon
<1> DEFINE U == {k \in 0 .. n : buf[k] \in T}
<1>12. 0 \in U
  BY <1>0, <1>10
<1>13. ASSUME NEW k \in 1 .. n, k - 1 \in U
       PROVE  k \in U
  <2>1. buf[k] \in T
    BY <1>1, <1>11, <1>13, Zenon
  <2>2. k \in 0 .. n
    BY <1>0
  <2> QED BY <2>1, <2>2, Zenon
<1>14. \A k \in 0 .. n : k \in U
  <2> HIDE DEF U
  <2> QED BY <1>0, <1>12, <1>13, InductionUpTo, Zenon
<1>15. \A k \in 0 .. n : buf[k] \in T
  BY <1>14, Zenon
<1> QED BY <1>10, <1>11, <1>15, Zenon DEF buf, n, T

\* Sequences with the same elements are the same.
LEMMA SameElements ==
  ASSUME NEW S, NEW s \in Seq(S), NEW t \in Seq(S), Len(s) = Len(t),
         \A i \in 1 .. Len(s) : s[i] = t[i]
  PROVE  s = t
OBVIOUS

\* The length of a part, and the places of what is after it.
LEMMA Grown ==
  ASSUME NEW a \in Nat, NEW b \in Nat, NEW c, c = a + b
  PROVE  a <= c /\ \A i \in 1 .. b : a + i \in 1 .. c
OBVIOUS

\* A sequence continued by another.
Continues(s, t) == Len(s) <= Len(t) /\ \A i \in 1 .. Len(s) : t[i] = s[i]

\* Where the parts of a buffer are in the whole.
Placed(S, buf, parts, whole) ==
  /\ \A k \in 0 .. Len(parts) :
       buf[k] \in Seq(S) /\ Len(buf[k]) \in Nat /\ Continues(buf[k], whole)
  /\ \A k \in 1 .. Len(parts) :
       /\ Len(buf[k]) = Len(buf[k - 1]) + Len(parts[k])
       /\ \A i \in 1 .. Len(parts[k]) : whole[Len(buf[k - 1]) + i] = parts[k][i]

\* Each part is where the buffer ended before it.
LEMMA AppendedPlaces ==
  ASSUME NEW S, NEW first \in Seq(S), NEW parts \in Seq(Seq(S))
  PROVE  Placed(S, Appended(first, parts), parts, Appended(first, parts)[Len(parts)])
<1> DEFINE n == Len(parts)
           buf == Appended(first, parts)
           whole == buf[n]
<1>0. n \in Nat /\ \A k \in 1 .. n : parts[k] \in Seq(S)
  OBVIOUS
<1>1. /\ \A k \in 1 .. n : buf[k] = buf[k - 1] \o parts[k]
      /\ \A k \in 0 .. n : buf[k] \in Seq(S)
  <2>1. /\ Appended(first, parts)[0] = first
        /\ \A k \in 1 .. Len(parts) :
             Appended(first, parts)[k] = Appended(first, parts)[k - 1] \o parts[k]
        /\ \A k \in 0 .. Len(parts) : Appended(first, parts)[k] \in Seq(S)
    BY AppendedFacts, Zenon
  <2> QED BY <2>1, Zenon
<1> HIDE DEF n, buf
<1>2. ASSUME NEW k \in 1 .. n
      PROVE  /\ Len(buf[k]) = Len(buf[k - 1]) + Len(parts[k])
             /\ \A i \in 1 .. Len(buf[k - 1]) : buf[k][i] = buf[k - 1][i]
             /\ \A i \in 1 .. Len(parts[k]) : buf[k][Len(buf[k - 1]) + i] = parts[k][i]
             /\ Len(buf[k - 1]) \in Nat /\ Len(parts[k]) \in Nat
  <2>1. k - 1 \in 0 .. n
    BY <1>0
  <2>2. buf[k] = buf[k - 1] \o parts[k] /\ buf[k - 1] \in Seq(S) /\ parts[k] \in Seq(S)
    BY <1>0, <1>1, <2>1, Zenon
  <2> DEFINE s == buf[k - 1]  t == parts[k]  u == buf[k]
  <2>3. u = s \o t /\ s \in Seq(S) /\ t \in Seq(S)
    BY <2>2, Zenon
  <2> HIDE DEF s, t, u
  <2>4. /\ Len(u) = Len(s) + Len(t)
        /\ \A i \in 1 .. Len(s) : u[i] = s[i]
        /\ \A i \in 1 .. Len(t) : u[Len(s) + i] = t[i]
        /\ Len(s) \in Nat /\ Len(t) \in Nat
    BY ONLY <2>3
  <2> QED BY <2>4, Zenon DEF s, t, u
<1>3. \A k \in 0 .. n : Len(buf[k]) \in Nat
  <2> SUFFICES ASSUME NEW k \in 0 .. n
               PROVE  Len(buf[k]) \in Nat
    BY Zenon
  <2>1. buf[k] \in Seq(S)
    BY <1>1, Zenon
  <2> QED BY ONLY <2>1
\* Going down from the whole.
<1> DEFINE U == {d \in 0 .. n : Continues(buf[n - d], whole)}
<1>4. 0 \in U
  <2>1. 0 \in 0 .. n /\ n - 0 = n /\ n \in 0 .. n
    BY <1>0
  <2>2. Len(whole) <= Len(whole)
    BY <1>3, <2>1
  <2>3. Continues(whole, whole)
    BY <2>2, Zenon DEF Continues
  <2> QED BY <2>1, <2>3, Zenon
<1>5. ASSUME NEW d \in 1 .. n, d - 1 \in U
      PROVE  d \in U
  <2> DEFINE k == n - (d - 1)
  <2>1. k \in 1 .. n /\ k - 1 = n - d /\ d \in 0 .. n /\ k \in 0 .. n /\ k - 1 \in 0 .. n /\ n \in 0 .. n
    BY <1>0
  <2>2. Continues(buf[k], whole)
    BY <1>5, Zenon
  <2> HIDE DEF k
  <2>3. Len(buf[k]) <= Len(whole) /\ \A i \in 1 .. Len(buf[k]) : whole[i] = buf[k][i]
    BY <2>2, Zenon DEF Continues
  <2>4. Len(buf[k]) \in Nat /\ Len(buf[k - 1]) \in Nat /\ Len(whole) \in Nat
    BY <1>3, <2>1, Zenon
  <2>5. /\ Len(buf[k]) = Len(buf[k - 1]) + Len(parts[k]) /\ Len(parts[k]) \in Nat
        /\ \A i \in 1 .. Len(buf[k - 1]) : buf[k][i] = buf[k - 1][i]
    BY <1>2, <2>1, Zenon
  <2>6. Len(buf[k - 1]) <= Len(buf[k])
    BY <2>4, <2>5, Grown, Zenon
  <2>7. Len(buf[k - 1]) <= Len(whole) /\ \A i \in 1 .. Len(buf[k - 1]) : i \in 1 .. Len(buf[k])
    BY <2>3, <2>4, <2>6
  <2>8. Continues(buf[k - 1], whole)
    BY <2>3, <2>5, <2>7, Zenon DEF Continues
  <2> QED BY <2>1, <2>8, Zenon
<1>6. \A d \in 0 .. n : d \in U
  <2> HIDE DEF U
  <2> QED BY <1>0, <1>4, <1>5, InductionUpTo, Zenon
<1>7. ASSUME NEW k \in 0 .. n
      PROVE  Continues(buf[k], whole)
  <2>1. n - k \in 0 .. n /\ n - (n - k) = k
    BY <1>0
  <2>2. Continues(buf[n - (n - k)], whole)
    BY <1>6, <2>1, Zenon
  <2> QED BY <2>1, <2>2, Zenon
<1>8. ASSUME NEW k \in 1 .. n, NEW i \in 1 .. Len(parts[k])
      PROVE  whole[Len(buf[k - 1]) + i] = parts[k][i]
  <2>1. k \in 0 .. n
    BY <1>0
  <2>2. Len(buf[k - 1]) + i \in 1 .. Len(buf[k])
    BY <1>2, Grown, Zenon
  <2>3. whole[Len(buf[k - 1]) + i] = buf[k][Len(buf[k - 1]) + i]
    BY <1>7, <2>1, <2>2, Zenon DEF Continues
  <2> QED BY <1>2, <2>3, Zenon
<1>9. Placed(S, buf, parts, whole)
  BY <1>1, <1>2, <1>3, <1>7, <1>8, Zenon DEF n, Placed
<1> QED BY <1>9, Zenon DEF n, buf

(***************************************************************************)
(* 4. Messages.                                                            *)
(***************************************************************************)
\* The types a layout is made of.
FieldTypes == {"int", "bytes", "hash", "nonce", "key"}

\* Every sentinel is a byte, and a field of every type has a size.
LEMMA Constants ==
  /\ Width \in Nat /\ Width > 0 /\ Base \in Nat /\ Base > 7
  /\ \A type \in FieldTypes : Size(type) \in Nat
<1>1. Len(msgKind) = 7
  BY Zenon DEF msgKind
<1>2. Width \in Nat /\ Width > 0 /\ Base \in Nat /\ Base > 7
  BY <1>1, WireAssumption
<1> QED BY <1>2, WireAssumption, Zenon DEF FieldTypes, Size

\* Every layout is a sequence of field types; the first field of WhatToDo is an
\* integer.
LEMMA LayoutFacts ==
  ASSUME NEW kind \in Kinds
  PROVE  /\ Layout(kind) \in Seq(FieldTypes) /\ Len(Layout(kind)) \in Nat
         /\ kind = "WhatToDo" => Len(Layout(kind)) = 2 /\ Layout(kind)[1] = "int"
<1>1. kind \in {"Header", "ChunkRequest", "ChunkResponse", "LotteryTicket",
                "KeyReveal", "Root", "FinalAck", "WhatToDo"}
  BY DEF Kinds, msgKind
<1>2. CASE kind = "WhatToDo"
  <2>1. Layout(kind) = <<"int", "bytes">>
    BY <1>2, Zenon DEF Layout
  <2> QED BY <2>1 DEF FieldTypes
<1>3. CASE kind = "Header"
  <2>1. Layout(kind) = <<"int", "hash", "bytes", "int">>
    BY <1>3, Zenon DEF Layout
  <2>2. kind # "WhatToDo"
    BY <1>3, Zenon
  <2>3. Layout(kind) \in Seq(FieldTypes) /\ Len(Layout(kind)) \in Nat
    BY <2>1 DEF FieldTypes
  <2> QED BY <2>2, <2>3, Zenon
<1>4. CASE kind = "ChunkRequest"
  <2>1. Layout(kind) = <<"int">>
    BY <1>4, Zenon DEF Layout
  <2>2. kind # "WhatToDo"
    BY <1>4, Zenon
  <2>3. Layout(kind) \in Seq(FieldTypes) /\ Len(Layout(kind)) \in Nat
    BY <2>1 DEF FieldTypes
  <2> QED BY <2>2, <2>3, Zenon
<1>5. CASE kind = "ChunkResponse"
  <2>1. Layout(kind) = <<"int", "bytes", "nonce", "hash">>
    BY <1>5, Zenon DEF Layout
  <2>2. kind # "WhatToDo"
    BY <1>5, Zenon
  <2>3. Layout(kind) \in Seq(FieldTypes) /\ Len(Layout(kind)) \in Nat
    BY <2>1 DEF FieldTypes
  <2> QED BY <2>2, <2>3, Zenon
<1>6. CASE kind = "LotteryTicket"
  <2>1. Layout(kind) = <<"int">>
    BY <1>6, Zenon DEF Layout
  <2>2. kind # "WhatToDo"
    BY <1>6, Zenon
  <2>3. Layout(kind) \in Seq(FieldTypes) /\ Len(Layout(kind)) \in Nat
    BY <2>1 DEF FieldTypes
  <2> QED BY <2>2, <2>3, Zenon
<1>7. CASE kind = "KeyReveal"
  <2>1. Layout(kind) = <<"int", "key">>
    BY <1>7, Zenon DEF Layout
  <2>2. kind # "WhatToDo"
    BY <1>7, Zenon
  <2>3. Layout(kind) \in Seq(FieldTypes) /\ Len(Layout(kind)) \in Nat
    BY <2>1 DEF FieldTypes
  <2> QED BY <2>2, <2>3, Zenon
<1>8. CASE kind = "Root"
  <2>1. Layout(kind) = <<"hash">>
    BY <1>8, Zenon DEF Layout
  <2>2. kind # "WhatToDo"
    BY <1>8, Zenon
  <2>3. Layout(kind) \in Seq(FieldTypes) /\ Len(Layout(kind)) \in Nat
    BY <2>1 DEF FieldTypes
  <2> QED BY <2>2, <2>3, Zenon
<1>9. CASE kind = "FinalAck"
  <2>1. Layout(kind) = <<>>
    BY <1>9, Zenon DEF Layout
  <2>2. kind # "WhatToDo"
    BY <1>9, Zenon
  <2>3. Layout(kind) \in Seq(FieldTypes) /\ Len(Layout(kind)) \in Nat
    BY <2>1 DEF FieldTypes
  <2> QED BY <2>2, <2>3, Zenon
<1> QED BY <1>1, <1>2, <1>3, <1>4, <1>5, <1>6, <1>7, <1>8, <1>9, Zenon

\* A sentinel is a byte that tells the kind; only WhatToDo has none.
LEMMA SentinelFacts ==
  ASSUME NEW kind \in Kinds
  PROVE  /\ kind = "WhatToDo" => Sentinel(kind) = <<>>
         /\ kind # "WhatToDo" => \E b \in Byte : Sentinel(kind) = <<b>> /\ msgKind[b] = kind
<1>1. kind = "WhatToDo" => Sentinel(kind) = <<>>
  BY Zenon DEF Sentinel
<1>2. ASSUME kind # "WhatToDo"
      PROVE  \E b \in Byte : Sentinel(kind) = <<b>> /\ msgKind[b] = kind
  <2> DEFINE c == CHOOSE b \in DOMAIN msgKind : msgKind[b] = kind
  <2>1. \E b \in DOMAIN msgKind : msgKind[b] = kind
    BY <1>2, Zenon DEF Kinds
  <2>2. c \in DOMAIN msgKind /\ msgKind[c] = kind
    BY <2>1, Zenon
  <2>3. Sentinel(kind) = <<c>>
    BY <1>2, Zenon DEF Sentinel
  <2>4. DOMAIN msgKind = 1 .. 7
    BY DEF msgKind
  <2> HIDE DEF c
  <2>5. c \in Byte
    <3>1. c \in 1 .. 7
      BY <2>2, <2>4, Zenon
    <3> QED BY ONLY <3>1, Constants DEF Byte
  <2> QED BY <2>2, <2>3, <2>5, Zenon
<1> QED BY <1>1, <1>2, Zenon

\* The bytes of a slice: its length, then its elements.
LengthThenBytes(bytes, value) ==
  /\ Len(bytes) = Width + Len(value) /\ Len(value) \in Nat
  /\ \A i \in 1 .. Width : bytes[i] = PutUint32(Len(value))[i]
  /\ \A i \in 1 .. Len(value) : bytes[Width + i] = value[i]

\* The bytes of a field.
LEMMA FieldFacts ==
  ASSUME NEW type \in FieldTypes, NEW value, IsValue(type, value)
  PROVE  LET bytes == EncodeField(type, value)
         IN  /\ bytes \in Seq(Byte) /\ Len(bytes) \in Nat
             /\ type = "int" => bytes = PutUint32(value) /\ Len(bytes) = Width
             /\ type = "bytes" => LengthThenBytes(bytes, value)
             /\ type \notin {"int", "bytes"} => bytes = value /\ Len(bytes) = Size(type)
<1> DEFINE bytes == EncodeField(type, value)
<1>1. CASE type = "int"
  <2>1. IsUint32(value) /\ bytes = PutUint32(value)
    BY <1>1, Zenon DEF IsValue, EncodeField
  <2>2. bytes \in Seq(Byte) /\ Len(bytes) = Width
    BY <2>1, PutUint32Facts, Zenon
  <2> HIDE DEF bytes
  <2>3. bytes \in Seq(Byte) /\ Len(bytes) \in Nat
    BY ONLY <2>2
  <2> QED BY <1>1, <2>1, <2>2, <2>3, Zenon DEF bytes
<1>2. CASE type = "bytes"
  <2> DEFINE l == PutUint32(Len(value))
  <2>1. value \in Seq(Byte) /\ IsUint32(Len(value)) /\ bytes = l \o value
    BY <1>2, Zenon DEF IsValue, EncodeField
  <2>2. l \in Seq(Byte) /\ Len(l) = Width
    BY <2>1, PutUint32Facts, Zenon
  <2> HIDE DEF bytes, l
  <2>3. l \in Seq(Byte) /\ value \in Seq(Byte) /\ bytes = l \o value
    BY ONLY <2>1, <2>2, Zenon
  <2>4. Len(bytes) = Len(l) + Len(value) /\ Len(bytes) \in Nat /\ Len(value) \in Nat
    BY ONLY <2>3
  <2>5. \A i \in 1 .. Len(l) : bytes[i] = l[i]
    BY ONLY <2>3
  <2>6. \A i \in 1 .. Len(value) : bytes[Len(l) + i] = value[i]
    BY ONLY <2>3
  <2>7. bytes \in Seq(Byte)
    BY ONLY <2>3
  <2>8. LengthThenBytes(bytes, value)
    BY <2>2, <2>4, <2>5, <2>6, Zenon DEF LengthThenBytes, l
  <2> QED BY <1>2, <2>4, <2>7, <2>8, Zenon DEF bytes
<1>3. CASE type \notin {"int", "bytes"}
  <2>1. value \in Seq(Byte) /\ Len(value) = Size(type) /\ bytes = value
    BY <1>3, Zenon DEF IsValue, EncodeField
  <2> HIDE DEF bytes
  <2>2. bytes \in Seq(Byte) /\ Len(bytes) \in Nat
    BY ONLY <2>1
  <2> QED BY <1>3, <2>1, <2>2, Zenon DEF bytes
<1> QED BY <1>1, <1>2, <1>3, Zenon

\* The fields of a message, and the bytes of its k-th one.
FieldType(m, k) == Layout(m.kind)[k]

FieldBytes(m, k) == EncodeField(Layout(m.kind)[k], m.values[k])

\* A message has the fields of its layout.
LEMMA ValuesFacts ==
  ASSUME NEW m, IsMessage(m)
  PROVE  /\ m.kind \in Kinds /\ Len(Layout(m.kind)) \in Nat
         /\ DOMAIN m.values = 1 .. Len(Layout(m.kind))
         /\ Len(m.values) = Len(Layout(m.kind))
         /\ m.values = [i \in 1 .. Len(Layout(m.kind)) |-> m.values[i]]
         /\ m = Message(m.kind, m.values)
         /\ \A k \in 1 .. Len(Layout(m.kind)) :
              FieldType(m, k) \in FieldTypes /\ IsValue(FieldType(m, k), m.values[k])
<1> DEFINE L == Layout(m.kind)
           v == [i \in DOMAIN L |-> m.values[i]]
<1>1. m.kind \in Kinds /\ m = Message(m.kind, v)
      /\ \A k \in DOMAIN L : IsValue(L[k], m.values[k])
  BY Zenon DEF IsMessage
<1>2. L \in Seq(FieldTypes) /\ Len(L) \in Nat
  BY <1>1, LayoutFacts, Zenon
<1> HIDE DEF L
<1>3. DOMAIN L = 1 .. Len(L) /\ \A k \in 1 .. Len(L) : L[k] \in FieldTypes
  BY ONLY <1>2
<1>4. Message(m.kind, v).values = v
  BY Zenon DEF Message
<1>5. m.values = v
  BY <1>1, <1>4, Zenon
<1>6. v = [i \in 1 .. Len(L) |-> m.values[i]]
  BY <1>3, Zenon
<1>7. m.values = [i \in 1 .. Len(L) |-> m.values[i]]
  BY <1>5, <1>6, Zenon
<1>8. m = Message(m.kind, m.values)
  BY <1>1, <1>5, Zenon
<1> DEFINE w == m.values
<1>9. DOMAIN w = 1 .. Len(L)
  BY <1>7, Zenon
<1>10. Len(w) = Len(L)
  <2> HIDE DEF w
  <2> QED BY ONLY <1>2, <1>9
<1> QED BY <1>1, <1>2, <1>3, <1>7, <1>8, <1>9, <1>10, Zenon DEF L, FieldType

\* Where the fields of a message are in its bytes.
LEMMA MessageFacts ==
  ASSUME NEW m, IsMessage(m)
  PROVE  LET n == Len(Layout(m.kind))
             buf == EncodeFields(m)
         IN  /\ Encode(m) = buf[n] /\ Encode(m) \in Seq(Byte) /\ buf[0] = Sentinel(m.kind)
             /\ \A k \in 0 .. n : Len(buf[k]) \in Nat /\ Continues(buf[k], Encode(m))
             /\ \A k \in 1 .. n :
                  /\ Len(buf[k]) = Len(buf[k - 1]) + Len(FieldBytes(m, k))
                  /\ \A i \in 1 .. Len(FieldBytes(m, k)) :
                       Encode(m)[Len(buf[k - 1]) + i] = FieldBytes(m, k)[i]
<1> DEFINE n == Len(Layout(m.kind))
           buf == EncodeFields(m)
           first == Sentinel(m.kind)
           parts == [i \in 1 .. n |-> FieldBytes(m, i)]
<1>1. /\ m.kind \in Kinds /\ n \in Nat /\ DOMAIN m.values = 1 .. n /\ Len(m.values) = n
      /\ \A k \in 1 .. n : FieldType(m, k) \in FieldTypes /\ IsValue(FieldType(m, k), m.values[k])
  BY ValuesFacts, Zenon
<1>2. ASSUME NEW k \in 1 .. n
      PROVE  FieldBytes(m, k) \in Seq(Byte)
  <2>1. EncodeField(FieldType(m, k), m.values[k]) \in Seq(Byte)
    BY <1>1, FieldFacts, Zenon
  <2> QED BY <2>1, Zenon DEF FieldBytes, FieldType
<1>3. first \in Seq(Byte)
  <2>1. CASE m.kind = "WhatToDo"
    <3>1. first = <<>>
      BY <1>1, <2>1, SentinelFacts, Zenon
    <3> HIDE DEF first
    <3> QED BY ONLY <3>1
  <2>2. CASE m.kind # "WhatToDo"
    <3>1. PICK b \in Byte : first = <<b>>
      BY <1>1, <2>2, SentinelFacts, Zenon
    <3> HIDE DEF first
    <3> QED BY ONLY <3>1, b \in Byte
  <2> QED BY <2>1, <2>2, Zenon
<1>4. buf = Appended(first, parts)
  BY <1>1, Zenon DEF EncodeFields, FieldBytes
<1>5. Encode(m) = buf[n]
  BY <1>1, Zenon DEF Encode
<1>6. parts \in [1 .. n -> Seq(Byte)] /\ \A k \in 1 .. n : parts[k] = FieldBytes(m, k)
  BY <1>2, Zenon
<1> HIDE DEF n, buf, first, parts
<1>7. parts \in Seq(Seq(Byte)) /\ Len(parts) = n
  BY ONLY <1>1, <1>6
<1>8. buf[0] = first
  <2>1. Appended(first, parts)[0] = first
    BY <1>3, <1>7, AppendedFacts, Zenon
  <2> QED BY <1>4, <2>1, Zenon
<1>9. Placed(Byte, Appended(first, parts), parts, Appended(first, parts)[Len(parts)])
  BY <1>3, <1>7, AppendedPlaces, Zenon
<1>10. /\ \A k \in 0 .. n :
            /\ buf[k] \in Seq(Byte) /\ Len(buf[k]) \in Nat
            /\ Continues(buf[k], buf[n])
       /\ \A k \in 1 .. n :
            /\ Len(buf[k]) = Len(buf[k - 1]) + Len(parts[k])
            /\ \A i \in 1 .. Len(parts[k]) : buf[n][Len(buf[k - 1]) + i] = parts[k][i]
  BY <1>4, <1>7, <1>9, Zenon DEF Placed
<1>11. n \in 0 .. n
  BY <1>1
<1>12. Encode(m) \in Seq(Byte)
  BY <1>5, <1>10, <1>11, Zenon
<1>13. \A k \in 0 .. n : Len(buf[k]) \in Nat /\ Continues(buf[k], Encode(m))
  BY <1>5, <1>10, Zenon
<1>14. ASSUME NEW k \in 1 .. n
       PROVE  /\ Len(buf[k]) = Len(buf[k - 1]) + Len(FieldBytes(m, k))
              /\ \A i \in 1 .. Len(FieldBytes(m, k)) :
                   Encode(m)[Len(buf[k - 1]) + i] = FieldBytes(m, k)[i]
  <2>1. parts[k] = FieldBytes(m, k)
    BY <1>6, Zenon
  <2> QED BY <1>5, <1>10, <2>1, Zenon
<1> QED BY <1>5, <1>8, <1>12, <1>13, <1>14, Zenon DEF n, buf, first

\* No message is without bytes, and the first one is the sentinel.
LEMMA FirstByte ==
  ASSUME NEW m, IsMessage(m)
  PROVE  /\ Len(Encode(m)) \in Nat /\ Len(Encode(m)) > 0
         /\ m.kind # "WhatToDo" =>
              /\ \E b \in Byte : Sentinel(m.kind) = <<b>> /\ msgKind[b] = m.kind
              /\ <<Encode(m)[1]>> = Sentinel(m.kind)
              /\ Len(EncodeFields(m)[0]) = 1
         /\ m.kind = "WhatToDo" => Len(EncodeFields(m)[0]) = 0
<1> DEFINE n == Len(Layout(m.kind))
           buf == EncodeFields(m)
           all == Encode(m)
<1>1. m.kind \in Kinds /\ n \in Nat
  BY ValuesFacts, Zenon
<1>2. /\ all \in Seq(Byte) /\ buf[0] = Sentinel(m.kind)
      /\ \A k \in 0 .. n : Len(buf[k]) \in Nat /\ Continues(buf[k], all)
      /\ \A k \in 1 .. n : Len(buf[k]) = Len(buf[k - 1]) + Len(FieldBytes(m, k))
  <2>1. all \in Seq(Byte) /\ buf[0] = Sentinel(m.kind)
    BY MessageFacts, Zenon
  <2>2. \A k \in 0 .. n : Len(buf[k]) \in Nat /\ Continues(buf[k], all)
    BY MessageFacts, Zenon
  <2>3. \A k \in 1 .. n : Len(buf[k]) = Len(buf[k - 1]) + Len(FieldBytes(m, k))
    BY MessageFacts, Zenon
  <2> QED BY <2>1, <2>2, <2>3, Zenon
<1>3. 0 \in 0 .. n
  BY <1>1
<1>4. Len(all) \in Nat
  <2> HIDE DEF all
  <2> QED BY ONLY <1>2
<1>5. CASE m.kind # "WhatToDo"
  <2>1. PICK b \in Byte : Sentinel(m.kind) = <<b>> /\ msgKind[b] = m.kind
    BY <1>1, <1>5, SentinelFacts, Zenon
  <2>2. Len(<<b>>) = 1 /\ <<b>>[1] = b
    BY Zenon
  <2>3. Len(buf[0]) = 1 /\ buf[0][1] = b
    BY <1>2, <2>1, <2>2, Zenon
  <2>4. Len(buf[0]) <= Len(all) /\ \A i \in 1 .. Len(buf[0]) : all[i] = buf[0][i]
    BY <1>2, <1>3, Zenon DEF Continues
  <2>5. 1 <= Len(all)
    BY <2>3, <2>4, Zenon
  <2>6. all[1] = b
    <3>1. 1 \in 1 .. 1
      OBVIOUS
    <3> QED BY <2>3, <2>4, <3>1, Zenon
  <2>7. Len(all) > 0
    <3> HIDE DEF all
    <3> QED BY <1>4, <2>5
  <2> QED BY <1>4, <1>5, <2>1, <2>3, <2>6, <2>7, Zenon
<1>6. CASE m.kind = "WhatToDo"
  <2>1. n = 2 /\ Layout(m.kind)[1] = "int" /\ Sentinel(m.kind) = <<>>
    BY <1>1, <1>6, LayoutFacts, SentinelFacts, Zenon
  <2>2. 1 \in 1 .. n /\ 1 - 1 = 0 /\ 1 \in 0 .. n /\ Len(<<>>) = 0
    BY <2>1
  <2>3. Len(FieldBytes(m, 1)) = Width
    <3>1. FieldType(m, 1) \in FieldTypes /\ IsValue(FieldType(m, 1), m.values[1])
      BY <2>2, ValuesFacts, Zenon
    <3>2. FieldType(m, 1) = "int"
      BY <2>1, Zenon DEF FieldType
    <3>3. Len(EncodeField(FieldType(m, 1), m.values[1])) = Width
      BY <3>1, <3>2, FieldFacts, Zenon
    <3> QED BY <3>3, Zenon DEF FieldBytes, FieldType
  <2>4. Len(buf[0]) = 0 /\ Len(buf[1]) = Len(buf[0]) + Width
    BY <1>2, <2>1, <2>2, <2>3, Zenon
  <2>5. Len(buf[1]) <= Len(all)
    BY <1>2, <2>2, Zenon DEF Continues
  <2> HIDE DEF buf, all
  <2>6. Len(all) > 0
    BY <1>4, <2>4, <2>5, Constants
  <2> QED BY <1>4, <1>6, <2>4, <2>6, Zenon DEF buf, all
<1> QED BY <1>5, <1>6, Zenon

(***************************************************************************)
(* 5. The stream.                                                          *)
(***************************************************************************)
\* The bytes of the first k messages of a script.
Stream(s) == Appended(<<>>, [i \in DOMAIN s |-> Encode(s[i])])

\* A script is a sequence of messages, with a WhatToDo only in front.
LEMMA ScriptFacts ==
  ASSUME NEW s \in Scripts
  PROVE  /\ Len(s) \in Nat /\ Len(s) > 0 /\ DOMAIN s = 1 .. Len(s)
         /\ s \in Seq({s[i] : i \in 1 .. Len(s)})
         /\ \A i \in 1 .. Len(s) : IsMessage(s[i]) /\ (s[i].kind = "WhatToDo" => i = 1)
<1> DEFINE R == {s[i] : i \in DOMAIN s}
<1>1. /\ s # <<>> /\ s \in Seq(R)
      /\ \A i \in DOMAIN s : IsMessage(s[i]) /\ (s[i].kind = "WhatToDo" => i = 1)
  BY ScriptsAssumption, Zenon
<1> HIDE DEF R
<1>2. Len(s) \in Nat /\ DOMAIN s = 1 .. Len(s) /\ Len(s) > 0
  BY ONLY <1>1
<1>3. R = {s[i] : i \in 1 .. Len(s)}
  BY <1>2, Zenon DEF R
<1> QED BY <1>1, <1>2, <1>3, Zenon

\* Each message of a script is in the stream where the ones before it end.
LEMMA StreamFacts ==
  ASSUME NEW s \in Scripts
  PROVE  /\ Len(Stream(s)[0]) = 0
         /\ \A k \in 0 .. Len(s) :
              Len(Stream(s)[k]) \in Nat /\ Len(Stream(s)[k]) <= Len(Stream(s)[Len(s)])
         /\ \A k \in 1 .. Len(s) :
              /\ Len(Stream(s)[k]) = Len(Stream(s)[k - 1]) + Len(Encode(s[k]))
              /\ \A i \in 1 .. Len(Encode(s[k])) :
                   Stream(s)[Len(s)][Len(Stream(s)[k - 1]) + i] = Encode(s[k])[i]
<1> DEFINE n == Len(s)
           parts == [i \in 1 .. n |-> Encode(s[i])]
           buf == Stream(s)
<1>1. n \in Nat /\ DOMAIN s = 1 .. n /\ \A i \in 1 .. n : IsMessage(s[i])
  BY ScriptFacts, Zenon
<1>2. buf = Appended(<<>>, parts)
  BY <1>1, Zenon DEF Stream
<1>3. \A i \in 1 .. n : Encode(s[i]) \in Seq(Byte)
  BY <1>1, MessageFacts, Zenon
<1>4. parts \in [1 .. n -> Seq(Byte)] /\ \A i \in 1 .. n : parts[i] = Encode(s[i])
  BY <1>3, Zenon
<1> HIDE DEF n, parts, buf
<1>5. parts \in Seq(Seq(Byte)) /\ Len(parts) = n /\ <<>> \in Seq(Byte) /\ Len(<<>>) = 0
  BY ONLY <1>1, <1>4
<1>6. Appended(<<>>, parts)[0] = <<>>
  BY <1>5, AppendedFacts, Zenon
<1>7. Placed(Byte, Appended(<<>>, parts), parts, Appended(<<>>, parts)[Len(parts)])
  BY <1>5, AppendedPlaces, Zenon
<1>8. Len(buf[0]) = 0
  BY <1>2, <1>5, <1>6, Zenon
<1>9. \A k \in 0 .. n : Len(buf[k]) \in Nat /\ Len(buf[k]) <= Len(buf[n])
  BY <1>2, <1>5, <1>7, Zenon DEF Placed, Continues
<1>10. \A k \in 1 .. n :
         /\ Len(buf[k]) = Len(buf[k - 1]) + Len(Encode(s[k]))
         /\ \A i \in 1 .. Len(Encode(s[k])) : buf[n][Len(buf[k - 1]) + i] = Encode(s[k])[i]
  <2> SUFFICES ASSUME NEW k \in 1 .. n
               PROVE  /\ Len(buf[k]) = Len(buf[k - 1]) + Len(Encode(s[k]))
                      /\ \A i \in 1 .. Len(Encode(s[k])) :
                           buf[n][Len(buf[k - 1]) + i] = Encode(s[k])[i]
    BY Zenon
  <2>1. Placed(Byte, buf, parts, buf[n]) /\ parts[k] = Encode(s[k])
    BY <1>2, <1>4, <1>5, <1>7, Zenon
  <2>2. /\ Len(buf[k]) = Len(buf[k - 1]) + Len(parts[k])
        /\ \A i \in 1 .. Len(parts[k]) : buf[n][Len(buf[k - 1]) + i] = parts[k][i]
    BY <1>5, <2>1, Zenon DEF Placed
  <2> QED BY <2>1, <2>2, Zenon
<1> QED BY <1>8, <1>9, <1>10, Zenon DEF n, buf

\* The bytes of a buffer are those of the stream from a place on.
Ahead(buf, s, at) == \A i \in 1 .. Len(buf) : buf[i] = Stream(s)[Len(s)][at + i]

\* Bytes that are read.
LEMMA AheadRest ==
  ASSUME NEW in \in Seq(Byte), NEW n \in Nat, n <= Len(in), NEW s, NEW at \in Nat,
         Ahead(in, s, at)
  PROVE  /\ SubSeq(in, n + 1, Len(in)) \in Seq(Byte)
         /\ Len(SubSeq(in, n + 1, Len(in))) = Len(in) - n
         /\ Ahead(SubSeq(in, n + 1, Len(in)), s, at + n)
<1> DEFINE rest == SubSeq(in, n + 1, Len(in))
           all == Stream(s)[Len(s)]
<1>1. /\ rest \in Seq(Byte) /\ Len(rest) = Len(in) - n
      /\ \A i \in 1 .. Len(in) - n : rest[i] = in[n + i]
      /\ Len(in) \in Nat
  OBVIOUS
<1>2. \A i \in 1 .. Len(in) : in[i] = all[at + i]
  BY Zenon DEF Ahead
<1> HIDE DEF rest, all
<1>3. ASSUME NEW i \in 1 .. Len(rest)
      PROVE  rest[i] = all[(at + n) + i]
  <2>1. n + i \in 1 .. Len(in) /\ at + (n + i) = (at + n) + i /\ i \in 1 .. Len(in) - n
    BY <1>1
  <2> QED BY <1>1, <1>2, <2>1, Zenon
<1>4. Ahead(rest, s, at + n)
  BY <1>3, Zenon DEF Ahead, all
<1> QED BY <1>1, <1>4, Zenon DEF rest

\* A byte that arrives.
LEMMA AheadMoved ==
  ASSUME NEW in \in Seq(Byte), NEW out \in Seq(Byte), out # <<>>, NEW s, NEW at \in Nat,
         Ahead(in, s, at), Ahead(out, s, at + Len(in))
  PROVE  /\ Append(in, Head(out)) \in Seq(Byte) /\ Tail(out) \in Seq(Byte)
         /\ Len(Append(in, Head(out))) = Len(in) + 1 /\ Len(Tail(out)) = Len(out) - 1
         /\ Ahead(Append(in, Head(out)), s, at)
         /\ Ahead(Tail(out), s, at + Len(Append(in, Head(out))))
<1> DEFINE more == Append(in, Head(out))
           less == Tail(out)
           all == Stream(s)[Len(s)]
<1>0. in \in Seq(Byte) /\ out \in Seq(Byte) /\ out # <<>>
  BY Zenon
<1>1. /\ more \in Seq(Byte) /\ Len(more) = Len(in) + 1 /\ more[Len(in) + 1] = out[1]
      /\ \A i \in 1 .. Len(in) : more[i] = in[i]
      /\ less \in Seq(Byte) /\ Len(less) = Len(out) - 1
      /\ \A i \in 1 .. Len(out) - 1 : less[i] = out[i + 1]
      /\ Len(in) \in Nat /\ Len(out) \in Nat /\ Len(out) > 0
  <2>1. /\ less \in Seq(Byte) /\ Len(less) = Len(out) - 1
        /\ \A i \in 1 .. Len(out) - 1 : less[i] = out[i + 1]
        /\ Len(out) \in Nat /\ Len(out) > 0 /\ Head(out) = out[1] /\ out[1] \in Byte
    BY ONLY <1>0
  <2>2. /\ more \in Seq(Byte) /\ Len(more) = Len(in) + 1 /\ more[Len(in) + 1] = Head(out)
        /\ Len(in) \in Nat
        /\ \A i \in 1 .. Len(in) : more[i] = in[i]
    <3> DEFINE b == Head(out)
    <3>1. b \in Byte
      BY <2>1, Zenon
    <3> HIDE DEF b
    <3>2. /\ Append(in, b) \in Seq(Byte) /\ Len(Append(in, b)) = Len(in) + 1
          /\ Append(in, b)[Len(in) + 1] = b /\ Len(in) \in Nat
          /\ \A i \in 1 .. Len(in) : Append(in, b)[i] = in[i]
      BY ONLY <1>0, <3>1
    <3> QED BY <3>2, Zenon DEF b
  <2> HIDE DEF more, less
  <2> QED BY <2>1, <2>2, Zenon
<1>2. /\ \A i \in 1 .. Len(in) : in[i] = all[at + i]
      /\ \A i \in 1 .. Len(out) : out[i] = all[(at + Len(in)) + i]
  BY Zenon DEF Ahead
<1> HIDE DEF more, less, all
<1>3. ASSUME NEW i \in 1 .. Len(more)
      PROVE  more[i] = all[at + i]
  <2>1. CASE i = Len(in) + 1
    <3>1. 1 \in 1 .. Len(out) /\ (at + Len(in)) + 1 = at + i
      BY <1>1, <2>1
    <3> QED BY <1>1, <1>2, <2>1, <3>1, Zenon
  <2>2. CASE i # Len(in) + 1
    <3>1. i \in 1 .. Len(in)
      BY <1>1, <2>2
    <3> QED BY <1>1, <1>2, <3>1, Zenon
  <2> QED BY <2>1, <2>2, Zenon
<1>4. ASSUME NEW i \in 1 .. Len(less)
      PROVE  less[i] = all[(at + Len(more)) + i]
  <2>1. i + 1 \in 1 .. Len(out) /\ (at + Len(in)) + (i + 1) = (at + Len(more)) + i
        /\ i \in 1 .. Len(out) - 1
    BY <1>1
  <2> QED BY <1>1, <1>2, <2>1, Zenon
<1>5. Ahead(more, s, at) /\ Ahead(less, s, at + Len(more))
  BY <1>3, <1>4, Zenon DEF Ahead, all
<1> QED BY <1>1, <1>5, Zenon DEF more, less

\* Bytes that are lost from the end.
LEMMA AheadLost ==
  ASSUME NEW out \in Seq(Byte), NEW n \in 0 .. Len(out), NEW s, NEW at, Ahead(out, s, at)
  PROVE  /\ SubSeq(out, 1, n) \in Seq(Byte) /\ Len(SubSeq(out, 1, n)) = n
         /\ Ahead(SubSeq(out, 1, n), s, at)
<1> DEFINE some == SubSeq(out, 1, n)
<1>1. /\ some \in Seq(Byte) /\ Len(some) = n
      /\ \A i \in 1 .. n : some[i] = out[i] /\ i \in 1 .. Len(out)
  OBVIOUS
<1> HIDE DEF some
<1>2. Ahead(some, s, at)
  BY <1>1, Zenon DEF Ahead
<1> QED BY <1>1, <1>2, Zenon DEF some

\* The bytes in out, after the first at ones of the stream, end with the w-th message.
Reaches(out, s, at, w) == at + Len(out) = Len(Stream(s)[w])

\* A message that is written.
LEMMA AheadWritten ==
  ASSUME NEW s \in Scripts, NEW out \in Seq(Byte), NEW at \in Nat, NEW w \in Nat, w < Len(s),
         Ahead(out, s, at), Reaches(out, s, at, w)
  PROVE  /\ out \o Encode(s[w + 1]) \in Seq(Byte)
         /\ Reaches(out \o Encode(s[w + 1]), s, at, w + 1)
         /\ Ahead(out \o Encode(s[w + 1]), s, at)
<1> DEFINE m == Encode(s[w + 1])
           more == out \o m
           all == Stream(s)[Len(s)]
           end == Len(Stream(s)[w])
           next == Len(Stream(s)[w + 1])
<1>1. Len(s) \in Nat /\ w + 1 \in 1 .. Len(s) /\ (w + 1) - 1 = w
  BY ScriptFacts
<1>2. IsMessage(s[w + 1])
  BY <1>1, ScriptFacts, Zenon
<1>3. m \in Seq(Byte)
  BY <1>2, MessageFacts, Zenon
<1>4. next = end + Len(m) /\ \A i \in 1 .. Len(m) : all[end + i] = m[i]
  <2>1. /\ Len(Stream(s)[w + 1]) = Len(Stream(s)[(w + 1) - 1]) + Len(Encode(s[w + 1]))
        /\ \A i \in 1 .. Len(Encode(s[w + 1])) :
             Stream(s)[Len(s)][Len(Stream(s)[(w + 1) - 1]) + i] = Encode(s[w + 1])[i]
    BY <1>1, StreamFacts, Zenon
  <2> QED BY <1>1, <2>1, Zenon
<1>5. \A i \in 1 .. Len(out) : out[i] = all[at + i]
  BY Zenon DEF Ahead
<1>6. end = at + Len(out)
  BY Zenon DEF Reaches
<1> HIDE DEF m, all, end, next
<1>7. /\ more \in Seq(Byte) /\ Len(more) = Len(out) + Len(m) /\ Len(out) \in Nat /\ Len(m) \in Nat
      /\ \A i \in 1 .. Len(out) : more[i] = out[i]
      /\ \A i \in 1 .. Len(m) : more[Len(out) + i] = m[i]
  BY ONLY <1>3, out \in Seq(Byte)
<1> HIDE DEF more
<1>8. ASSUME NEW i \in 1 .. Len(more)
      PROVE  more[i] = all[at + i]
  <2>1. CASE i <= Len(out)
    <3>1. i \in 1 .. Len(out)
      BY <1>7, <2>1
    <3> QED BY <1>5, <1>7, <3>1, Zenon
  <2>2. CASE ~ (i <= Len(out))
    <3> DEFINE j == i - Len(out)
    <3>1. j \in 1 .. Len(m) /\ Len(out) + j = i /\ (at + Len(out)) + j = at + i
      BY <1>7, <2>2
    <3> HIDE DEF j
    <3>2. more[i] = m[j]
      BY <1>7, <3>1, Zenon
    <3>3. all[at + i] = m[j]
      BY <1>4, <1>6, <3>1, Zenon
    <3> QED BY <3>2, <3>3, Zenon
  <2> QED BY <2>1, <2>2, Zenon
<1>9. Ahead(more, s, at)
  BY <1>8, Zenon DEF Ahead, all
<1>10. at + Len(more) = next
  BY <1>4, <1>6, <1>7
<1>11. Reaches(more, s, at, w + 1)
  BY <1>10, Zenon DEF Reaches, next
<1> QED BY <1>7, <1>9, <1>11, Zenon DEF m, more

(***************************************************************************)
(* 6. The reader's place in the stream.                                    *)
(***************************************************************************)
\* The message being read.
Current == script[Len(read) + 1]

\* How far into a message the reader is.
Offset(m, what, k) ==
  IF what = "sentinel"
  THEN 0
  ELSE Len(EncodeFields(m)[k]) + (IF what = "body" THEN Width ELSE 0)

\* How far into the stream it is.
Place == Len(Stream(script)[Len(read)]) + Offset(Current, reading, Len(values))

\* What is on its way continues the stream from a place, to the end of what was
\* written unless the stream was cut.
Continued(s, w, isCut, in, out, at) ==
  /\ (at + Len(in)) + Len(out) <= Len(Stream(s)[w])
  /\ ~isCut => (at + Len(in)) + Len(out) = Len(Stream(s)[w])
  /\ Ahead(in, s, at) /\ Ahead(out, s, at + Len(in))

\* A part of a message that does not reach its end.
CutOff(in, m) == \E from, to \in 0 .. Len(m) : to < Len(m) /\ in = SubSeq(m, from + 1, to)

\* The reader asks for a WhatToDo first if the script has one, and never later.
InvScript ==
  /\ script \in Scripts /\ asked \in Seq(Kinds) /\ Len(asked) > 0
  /\ \A i \in 1 .. Len(asked) : asked[i] = "WhatToDo" => i = 1
  /\ asked[1] = "WhatToDo" <=> script[1].kind = "WhatToDo"

\* Types of the stream.
InvBytes ==
  /\ written \in 0 .. Len(script) /\ cut \in BOOLEAN /\ failed \in BOOLEAN
  /\ wire \in Seq(Byte) /\ inbox \in Seq(Byte)

\* What was read is what was written first.
InvRead ==
  /\ read \in Seq({script[i] : i \in 1 .. Len(script)})
  /\ Len(read) <= written /\ Len(read) <= Len(asked)
  /\ \A i \in 1 .. Len(read) : read[i] = script[i]

\* The reader is before a sentinel, or in a message of the kind it asked for.
InvField ==
  /\ reading \in {"sentinel", "field", "body"}
  /\ reading = "sentinel" => values = <<>> /\ (Len(read) = 0 => asked[1] # "WhatToDo")
  /\ reading # "sentinel" =>
       /\ Len(read) < Len(asked) /\ InStep
       /\ values \in Seq(Nat \cup Seq(Byte)) /\ Len(values) < Len(Layout(Kind))
       /\ \A i \in 1 .. Len(values) : values[i] = Current.values[i]
  /\ reading = "body" =>
       Field = "bytes" /\ length = Len(Current.values[Len(values) + 1])

\* Until the reader fails it is on a boundary of the stream, and what is to come
\* continues the stream from there.
InvPlace == ~failed => Continued(script, written, cut, inbox, wire, Place)

\* It fails in step with the writer only when the message it is in was cut.
InvFailed == failed /\ InStep => cut /\ wire = <<>> /\ CutOff(inbox, Encode(Current))

\* The inductive invariant.
WireInv == InvScript /\ InvBytes /\ InvRead /\ InvField /\ InvPlace /\ InvFailed

\* It says what the two invariants say.
LEMMA WireInvImplies == WireInv => ReadAsWritten /\ FailsOnlyWhenCut
<1> SUFFICES ASSUME WireInv
             PROVE  ReadAsWritten /\ FailsOnlyWhenCut
  BY Zenon
<1>1. ReadAsWritten
  <2>1. /\ read \in Seq({script[i] : i \in 1 .. Len(script)}) /\ Len(read) <= written
        /\ \A i \in 1 .. Len(read) : read[i] = script[i]
        /\ written \in 0 .. Len(script) /\ script \in Scripts
    BY Zenon DEF WireInv, InvRead, InvBytes, InvScript
  <2>2. Len(script) \in Nat /\ script \in Seq({script[i] : i \in 1 .. Len(script)})
    BY <2>1, ScriptFacts, Zenon
  <2> DEFINE R == {script[i] : i \in 1 .. Len(script)}
  <2>3. read \in Seq(R) /\ script \in Seq(R)
    BY <2>1, <2>2, Zenon
  <2> HIDE DEF R
  <2>4. Len(read) \in Nat /\ Len(read) <= Len(script)
    BY <2>1, <2>2, <2>3
  <2>5. read = SubSeq(script, 1, Len(read))
    BY ONLY <2>1, <2>2, <2>3, <2>4
  <2> QED BY <2>1, <2>5, Zenon DEF ReadAsWritten
<1>2. FailsOnlyWhenCut
  BY Zenon DEF WireInv, InvFailed, FailsOnlyWhenCut, CutOff, Current
<1> QED BY <1>1, <1>2, Zenon

\* It holds of a stream just opened.
LEMMA WireInvInit == Init => WireInv
<1> SUFFICES ASSUME Init
             PROVE  WireInv
  BY Zenon
<1>1. /\ script \in Scripts
      /\ asked[1] = "WhatToDo" <=> script[1].kind = "WhatToDo"
      /\ written = 0 /\ wire = <<>> /\ inbox = <<>> /\ cut = FALSE /\ failed = FALSE
      /\ read = <<>> /\ values = <<>> /\ reading = First(asked[1])
  BY Zenon DEF Init
<1>2. PICK s \in Scripts : asked = [i \in DOMAIN s |-> s[i].kind]
  BY Zenon DEF Init
<1>3. Len(s) \in Nat /\ Len(s) > 0 /\ DOMAIN s = 1 .. Len(s)
      /\ \A i \in 1 .. Len(s) : IsMessage(s[i]) /\ (s[i].kind = "WhatToDo" => i = 1)
  BY ScriptFacts, Zenon
<1>4. \A i \in 1 .. Len(s) : s[i].kind \in Kinds
  BY <1>3, ValuesFacts, Zenon
<1>5. asked \in [1 .. Len(s) -> Kinds] /\ \A i \in 1 .. Len(s) : asked[i] = s[i].kind
  BY <1>2, <1>3, <1>4, Zenon
<1>6. asked \in Seq(Kinds) /\ Len(asked) = Len(s)
  BY ONLY <1>3, <1>5
<1>7. InvScript
  <2>1. \A i \in 1 .. Len(asked) : asked[i] = "WhatToDo" => i = 1
    BY <1>3, <1>5, <1>6, Zenon
  <2> QED BY <1>1, <1>3, <1>6, <2>1, Zenon DEF InvScript
<1>8. Len(script) \in Nat /\ Len(script) > 0 /\ IsMessage(script[1])
  <2>1. Len(script) \in Nat /\ Len(script) > 0
    BY <1>1, ScriptFacts, Zenon
  <2>2. 1 \in 1 .. Len(script)
    BY <2>1
  <2> QED BY <1>1, <2>1, <2>2, ScriptFacts, Zenon
<1>9. Len(<<>>) = 0 /\ 0 + 1 = 1
  OBVIOUS
<1>10. InvBytes
  <2>1. 0 \in 0 .. Len(script) /\ <<>> \in Seq(Byte)
    BY <1>8
  <2> QED BY <1>1, <2>1, Zenon DEF InvBytes
<1>11. InvRead
  BY <1>1, <1>3, <1>6 DEF InvRead
<1>12. InvField
  <2>1. CASE asked[1] = "WhatToDo"
    <3>1. script[1].kind = "WhatToDo" /\ reading = "field"
      BY <1>1, <2>1, Zenon DEF First
    <3>2. Len(Layout(asked[1])) = 2
      <4>1. "WhatToDo" \in Kinds
        BY Zenon DEF Kinds
      <4> QED BY <2>1, <4>1, LayoutFacts, Zenon
    <3>3. InStep
      BY <1>1, <1>8, <1>9, <2>1, <3>1, Zenon DEF InStep, Kind
    <3>4. Kind = asked[1]
      BY <1>1, <1>9, Zenon DEF Kind
    <3>5. values \in Seq(Nat \cup Seq(Byte)) /\ Len(values) = 0
      BY <1>1
    <3>6. Len(read) < Len(asked) /\ Len(values) < Len(Layout(Kind))
      <4>1. Len(read) = 0 /\ Len(values) = 0 /\ Len(Layout(Kind)) = 2
        BY <1>1, <1>9, <3>2, <3>4, Zenon
      <4>2. 0 < Len(asked) /\ 0 < 2
        BY <1>3, <1>6
      <4> QED BY <4>1, <4>2, Zenon
    <3>7. \A i \in 1 .. Len(values) : values[i] = Current.values[i]
      BY <3>5
    <3>8. reading # "sentinel" /\ reading # "body" /\ reading \in {"sentinel", "field", "body"}
      BY <3>1, Zenon
    <3> QED BY <3>3, <3>5, <3>6, <3>7, <3>8, Zenon DEF InvField
  <2>2. CASE asked[1] # "WhatToDo"
    <3>1. reading = "sentinel"
      BY <1>1, <2>2, Zenon DEF First
    <3> QED BY <1>1, <2>2, <3>1, Zenon DEF InvField
  <2> QED BY <2>1, <2>2, Zenon
<1>13. InvPlace
  <2>1. Len(Stream(script)[0]) = 0
    BY <1>1, StreamFacts, Zenon
  <2>2. Offset(Current, reading, Len(values)) = 0
    <3>1. CASE asked[1] = "WhatToDo"
      <4>1. script[1].kind = "WhatToDo" /\ reading = "field"
        BY <1>1, <3>1, Zenon DEF First
      <4>2. Len(EncodeFields(script[1])[0]) = 0
        BY <1>8, <4>1, FirstByte, Zenon
      <4>3. Current = script[1] /\ Len(values) = 0
        BY <1>1, <1>9, Zenon DEF Current
      <4>4. Len(EncodeFields(Current)[Len(values)]) = 0
        BY <4>2, <4>3, Zenon
      <4> QED BY <4>1, <4>4 DEF Offset
    <3>2. CASE asked[1] # "WhatToDo"
      <4>1. reading = "sentinel"
        BY <1>1, <3>2, Zenon DEF First
      <4> QED BY <4>1, Zenon DEF Offset
    <3> QED BY <3>1, <3>2, Zenon
  <2>3. Place = 0
    BY <1>1, <1>9, <2>1, <2>2 DEF Place
  <2>4. Ahead(<<>>, script, 0) /\ Ahead(<<>>, script, 0 + Len(<<>>))
    BY DEF Ahead
  <2>5. (0 + Len(<<>>)) + Len(<<>>) = 0
    OBVIOUS
  <2>6. Continued(script, 0, cut, <<>>, <<>>, 0)
    BY <2>1, <2>4, <2>5 DEF Continued
  <2> QED BY <1>1, <2>3, <2>6, Zenon DEF InvPlace
<1>14. InvFailed
  BY <1>1, Zenon DEF InvFailed
<1> QED BY <1>7, <1>10, <1>11, <1>12, <1>13, <1>14, Zenon DEF WireInv

(***************************************************************************)
(* 7. The writer and the network keep the reader's place.                  *)
(***************************************************************************)
\* The types of what the invariant speaks of.
LEMMA PlaceFacts ==
  ASSUME WireInv
  PROVE  /\ script \in Scripts /\ Len(script) \in Nat /\ written \in Nat /\ Len(read) \in Nat
         /\ Len(asked) \in Nat /\ Len(inbox) \in Nat /\ Len(wire) \in Nat
         /\ Len(Stream(script)[Len(read)]) \in Nat /\ Len(Stream(script)[written]) \in Nat
         /\ Len(Stream(script)[written]) <= Len(Stream(script)[Len(script)])
         /\ Len(Stream(script)[Len(script)]) \in Nat
         /\ Len(values) \in Nat /\ Place \in Nat
<1>1. /\ script \in Scripts /\ asked \in Seq(Kinds) /\ written \in 0 .. Len(script)
      /\ wire \in Seq(Byte) /\ inbox \in Seq(Byte)
      /\ read \in Seq({script[i] : i \in 1 .. Len(script)}) /\ Len(read) <= written
  BY Zenon DEF WireInv, InvScript, InvBytes, InvRead
<1>2. Len(script) \in Nat
  BY <1>1, ScriptFacts, Zenon
<1>3. Len(wire) \in Nat /\ Len(inbox) \in Nat /\ Len(asked) \in Nat /\ Len(read) \in Nat
  BY ONLY <1>1
<1>4. /\ written \in Nat /\ Len(read) \in 0 .. Len(script) /\ Len(script) \in 0 .. Len(script)
  BY ONLY <1>1, <1>2, <1>3
<1>5. /\ Len(Stream(script)[Len(read)]) \in Nat
      /\ Len(Stream(script)[written]) \in Nat
      /\ Len(Stream(script)[written]) <= Len(Stream(script)[Len(script)])
      /\ Len(Stream(script)[Len(script)]) \in Nat
  BY <1>1, <1>4, StreamFacts, Zenon
<1>6. Len(values) \in Nat /\ Offset(Current, reading, Len(values)) \in Nat
  <2>1. CASE reading = "sentinel"
    <3>1. values = <<>> /\ Offset(Current, reading, Len(values)) = 0
      BY <2>1, Zenon DEF WireInv, InvField, Offset
    <3> QED BY <3>1
  <2>2. CASE reading # "sentinel"
    <3>1. /\ values \in Seq(Nat \cup Seq(Byte)) /\ Len(values) < Len(Layout(Kind))
          /\ Len(read) < Len(script) /\ Kind = Current.kind
      BY <2>2, Zenon DEF WireInv, InvField, InStep, Current
    <3>2. Len(values) \in Nat
      BY ONLY <3>1
    <3>3. Len(read) + 1 \in 1 .. Len(script)
      BY <1>2, <1>3, <3>1
    <3>4. IsMessage(Current)
      BY <1>1, <3>3, ScriptFacts, Zenon DEF Current
    <3>5. Len(Layout(Current.kind)) \in Nat
      BY <3>4, ValuesFacts, Zenon
    <3>6. Len(values) \in 0 .. Len(Layout(Current.kind))
      BY <3>1, <3>2, <3>5
    <3>7. Len(EncodeFields(Current)[Len(values)]) \in Nat
      BY <3>4, <3>6, MessageFacts, Zenon
    <3> DEFINE a == Len(EncodeFields(Current)[Len(values)])
    <3>8. Offset(Current, reading, Len(values)) = a + (IF reading = "body" THEN Width ELSE 0)
      BY <2>2, Zenon DEF Offset
    <3>9. a \in Nat
      BY <3>7, Zenon
    <3> HIDE DEF a
    <3>10. a + (IF reading = "body" THEN Width ELSE 0) \in Nat
      BY ONLY <3>9, Constants
    <3> QED BY <3>2, <3>8, <3>10, Zenon
  <2> QED BY <2>1, <2>2, Zenon
<1>7. Place \in Nat
  BY <1>5, <1>6 DEF Place
<1> QED BY <1>1, <1>2, <1>3, <1>4, <1>5, <1>6, <1>7, Zenon

\* What a step that is not the reader's leaves as it was.
LEMMA SameReader ==
  ASSUME WireInv, UNCHANGED <<script, asked, read, values, reading, length>>
  PROVE  /\ InvScript' /\ InvField' /\ Place' = Place /\ Current' = Current
         /\ InStep' = InStep
<1>1. /\ script' = script /\ asked' = asked /\ read' = read /\ values' = values
      /\ reading' = reading /\ length' = length
  BY Zenon
<1>2. InvScript'
  BY <1>1, Zenon DEF WireInv, InvScript
<1>3. Current' = Current
  BY <1>1, Zenon DEF Current
<1>4. InStep' = InStep /\ Kind' = Kind
  BY <1>1, Zenon DEF InStep, Kind
<1>5. Field' = Field
  BY <1>1, <1>4, Zenon DEF Field
<1>6. Place' = Place
  BY <1>1, <1>3, Zenon DEF Place
<1>7. InvField'
  BY <1>1, <1>3, <1>4, <1>5, Zenon DEF WireInv, InvField
<1> QED BY <1>2, <1>3, <1>4, <1>6, <1>7, Zenon

\* A message that is written continues the stream at its end.
LEMMA WriteKeeps == WireInv /\ Write => WireInv'
<1> SUFFICES ASSUME WireInv, Write
             PROVE  WireInv'
  BY Zenon
<1>1. /\ ~cut /\ written < Len(script) /\ written' = written + 1
      /\ wire' = wire \o Encode(script[written + 1])
      /\ script' = script /\ asked' = asked /\ cut' = cut /\ inbox' = inbox
      /\ failed' = failed /\ read' = read /\ values' = values
      /\ reading' = reading /\ length' = length
  BY Zenon DEF Write, readerVars
<1>2. /\ InvScript' /\ InvField' /\ Place' = Place /\ InStep' = InStep
  BY <1>1, SameReader, Zenon
<1>3. /\ script \in Scripts /\ Len(script) \in Nat /\ written \in Nat /\ Len(read) \in Nat
      /\ Len(inbox) \in Nat /\ Len(wire) \in Nat /\ Place \in Nat
      /\ Len(Stream(script)[written]) \in Nat
  BY PlaceFacts, Zenon
<1>4. wire \in Seq(Byte) /\ inbox \in Seq(Byte) /\ cut \in BOOLEAN /\ failed \in BOOLEAN
  BY Zenon DEF WireInv, InvBytes
<1>5. written + 1 \in 0 .. Len(script) /\ written + 1 \in 1 .. Len(script)
  BY <1>1, <1>3
<1>6. InvBytes'
  <2>1. IsMessage(script[written + 1])
    BY <1>3, <1>5, ScriptFacts, Zenon
  <2>2. Encode(script[written + 1]) \in Seq(Byte)
    BY <2>1, MessageFacts, Zenon
  <2> DEFINE m == Encode(script[written + 1])
  <2>3. wire \o m \in Seq(Byte)
    <3>1. m \in Seq(Byte)
      BY <2>2, Zenon
    <3> HIDE DEF m
    <3> QED BY ONLY <1>4, <3>1
  <2>4. wire' \in Seq(Byte)
    BY <1>1, <2>3, Zenon
  <2> QED BY <1>1, <1>4, <1>5, <2>4, Zenon DEF InvBytes
<1>7. InvRead'
  <2>1. Len(read) <= written
    BY Zenon DEF WireInv, InvRead
  <2>2. Len(read) <= written + 1
    BY <1>3, <2>1
  <2> QED BY <1>1, <2>2, Zenon DEF WireInv, InvRead
<1>8. InvPlace'
  <2> SUFFICES ASSUME ~failed
               PROVE  Continued(script, written + 1, cut, inbox, wire', Place)
    BY <1>1, <1>2, Zenon DEF InvPlace
  <2>1. Continued(script, written, cut, inbox, wire, Place)
    BY Zenon DEF WireInv, InvPlace
  <2>2. /\ (Place + Len(inbox)) + Len(wire) = Len(Stream(script)[written])
        /\ Ahead(inbox, script, Place) /\ Ahead(wire, script, Place + Len(inbox))
    BY <1>1, <2>1, Zenon DEF Continued
  <2>3. Place + Len(inbox) \in Nat
    BY <1>3
  <2>4. /\ (Place + Len(inbox)) + Len(wire') = Len(Stream(script)[written + 1])
        /\ Ahead(wire', script, Place + Len(inbox))
    <3> DEFINE at == Place + Len(inbox)
    <3>1. at \in Nat /\ Ahead(wire, script, at) /\ Reaches(wire, script, at, written)
      BY <2>2, <2>3, Zenon DEF Reaches
    <3> HIDE DEF at
    <3>2. Reaches(wire \o Encode(script[written + 1]), script, at, written + 1)
      BY <1>1, <1>3, <1>4, <3>1, AheadWritten, Zenon
    <3>3. Ahead(wire \o Encode(script[written + 1]), script, at)
      BY <1>1, <1>3, <1>4, <3>1, AheadWritten, Zenon
    <3> QED BY <1>1, <3>2, <3>3, Zenon DEF Reaches, at
  <2>5. Len(Stream(script)[written + 1]) \in Nat
    BY <1>3, <1>5, StreamFacts, Zenon
  <2>6. (Place + Len(inbox)) + Len(wire') <= Len(Stream(script)[written + 1])
    BY <2>4, <2>5
  <2> QED BY <2>2, <2>4, <2>6, Zenon DEF Continued
<1>9. InvFailed'
  BY <1>1, <1>2, Zenon DEF WireInv, InvFailed
<1> QED BY <1>2, <1>6, <1>7, <1>8, <1>9, Zenon DEF WireInv

\* Closing the stream takes nothing from it.
LEMMA CloseKeeps == WireInv /\ Close => WireInv'
<1> SUFFICES ASSUME WireInv, Close
             PROVE  WireInv'
  BY Zenon
<1>1. /\ ~cut /\ cut' = TRUE /\ written' = written /\ wire' = wire
      /\ script' = script /\ asked' = asked /\ inbox' = inbox
      /\ failed' = failed /\ read' = read /\ values' = values
      /\ reading' = reading /\ length' = length
  BY Zenon DEF Close, readerVars
<1>2. /\ InvScript' /\ InvField' /\ Place' = Place /\ InStep' = InStep
  BY <1>1, SameReader, Zenon
<1>3. InvBytes'
  BY <1>1, Zenon DEF WireInv, InvBytes
<1>4. InvRead'
  BY <1>1, Zenon DEF WireInv, InvRead
<1>5. InvPlace'
  BY <1>1, <1>2, Zenon DEF WireInv, InvPlace, Continued
<1>6. InvFailed'
  BY <1>1, <1>2, Zenon DEF WireInv, InvFailed
<1> QED BY <1>2, <1>3, <1>4, <1>5, <1>6, Zenon DEF WireInv

\* A broken connection takes bytes from the end only.
LEMMA BreakKeeps == WireInv /\ Break => WireInv'
<1> SUFFICES ASSUME WireInv, Break
             PROVE  WireInv'
  BY Zenon
<1>1. /\ ~cut /\ cut' = TRUE /\ written' = written
      /\ script' = script /\ asked' = asked /\ inbox' = inbox
      /\ failed' = failed /\ read' = read /\ values' = values
      /\ reading' = reading /\ length' = length
  BY Zenon DEF Break, readerVars
<1>2. PICK n \in 0 .. Len(wire) : wire' = SubSeq(wire, 1, n)
  BY Zenon DEF Break
<1>3. /\ InvScript' /\ InvField' /\ Place' = Place /\ InStep' = InStep
  BY <1>1, SameReader, Zenon
<1>4. /\ Len(inbox) \in Nat /\ Len(wire) \in Nat /\ Place \in Nat
      /\ Len(Stream(script)[written]) \in Nat
  BY PlaceFacts, Zenon
<1>5. wire \in Seq(Byte)
  BY Zenon DEF WireInv, InvBytes
<1>6. SubSeq(wire, 1, n) \in Seq(Byte)
  BY ONLY <1>5, n \in 0 .. Len(wire)
<1>7. InvBytes'
  BY <1>1, <1>2, <1>6, Zenon DEF WireInv, InvBytes
<1>8. InvRead'
  BY <1>1, Zenon DEF WireInv, InvRead
<1>9. InvPlace'
  <2> SUFFICES ASSUME ~failed
               PROVE  Continued(script, written, TRUE, inbox, wire', Place)
    BY <1>1, <1>3, Zenon DEF InvPlace
  <2>1. /\ (Place + Len(inbox)) + Len(wire) <= Len(Stream(script)[written])
        /\ Ahead(inbox, script, Place) /\ Ahead(wire, script, Place + Len(inbox))
    BY Zenon DEF WireInv, InvPlace, Continued
  <2>2. Len(wire') = n /\ Ahead(wire', script, Place + Len(inbox))
    BY <1>2, <1>5, <2>1, AheadLost, Zenon
  <2>3. (Place + Len(inbox)) + n <= Len(Stream(script)[written])
    BY <1>4, <2>1
  <2> QED BY <2>1, <2>2, <2>3, Zenon DEF Continued
<1>10. InvFailed'
  BY <1>1, <1>3, Zenon DEF WireInv, InvFailed
<1> QED BY <1>3, <1>7, <1>8, <1>9, <1>10, Zenon DEF WireInv

\* A byte that arrives is the next one.
LEMMA DeliverKeeps == WireInv /\ Deliver => WireInv'
<1> SUFFICES ASSUME WireInv, Deliver
             PROVE  WireInv'
  BY Zenon
<1>1. /\ wire # <<>> /\ inbox' = Append(inbox, Head(wire)) /\ wire' = Tail(wire)
      /\ cut' = cut /\ written' = written
      /\ script' = script /\ asked' = asked
      /\ failed' = failed /\ read' = read /\ values' = values
      /\ reading' = reading /\ length' = length
  BY Zenon DEF Deliver
<1>2. /\ InvScript' /\ InvField' /\ Place' = Place /\ InStep' = InStep
  BY <1>1, SameReader, Zenon
<1>3. /\ Len(inbox) \in Nat /\ Len(wire) \in Nat /\ Place \in Nat
      /\ Len(Stream(script)[written]) \in Nat
  BY PlaceFacts, Zenon
<1>4. wire \in Seq(Byte) /\ inbox \in Seq(Byte)
  BY Zenon DEF WireInv, InvBytes
<1>5. Append(inbox, Head(wire)) \in Seq(Byte) /\ Tail(wire) \in Seq(Byte)
  BY ONLY <1>1, <1>4
<1>6. InvBytes'
  BY <1>1, <1>5, Zenon DEF WireInv, InvBytes
<1>7. InvRead'
  BY <1>1, Zenon DEF WireInv, InvRead
<1>8. InvPlace'
  <2> SUFFICES ASSUME ~failed
               PROVE  Continued(script, written, cut, inbox', wire', Place)
    BY <1>1, <1>2, Zenon DEF InvPlace
  <2>1. /\ (Place + Len(inbox)) + Len(wire) <= Len(Stream(script)[written])
        /\ ~cut => (Place + Len(inbox)) + Len(wire) = Len(Stream(script)[written])
        /\ Ahead(inbox, script, Place) /\ Ahead(wire, script, Place + Len(inbox))
    BY Zenon DEF WireInv, InvPlace, Continued
  <2> DEFINE more == Append(inbox, Head(wire))  less == Tail(wire)
  <2>2. /\ Len(more) = Len(inbox) + 1 /\ Len(less) = Len(wire) - 1
        /\ Ahead(more, script, Place) /\ Ahead(less, script, Place + Len(more))
    BY <1>1, <1>3, <1>4, <2>1, AheadMoved, Zenon
  <2> HIDE DEF more, less
  <2>3. (Place + Len(more)) + Len(less) = (Place + Len(inbox)) + Len(wire)
    BY <1>3, <2>2
  <2>4. Continued(script, written, cut, more, less, Place)
    BY <2>1, <2>2, <2>3, Zenon DEF Continued
  <2> QED BY <1>1, <2>4, Zenon DEF more, less
<1>9. InvFailed'
  BY <1>1, <1>2, Zenon DEF WireInv, InvFailed
<1> QED BY <1>2, <1>6, <1>7, <1>8, <1>9, Zenon DEF WireInv

(***************************************************************************)
(* 8. The reader gets what was written.                                    *)
(***************************************************************************)
\* What the next ReadFull is for, when it is for the k-th field of m.
Wanted(m, k, what) ==
  IF what = "body" THEN m.values[k]
  ELSE IF FieldType(m, k) = "bytes" THEN PutUint32(Len(m.values[k])) ELSE FieldBytes(m, k)

\* It is the bytes of the field after the first skip ones,
Within(want, skip, bytes) ==
  /\ skip + Len(want) <= Len(bytes)
  /\ \A i \in 1 .. Len(want) : bytes[skip + i] = want[i]

\* and the reader makes the value of the field, or its length, of it.
Recovered(what, type, value, want) ==
  /\ what = "body" => want = value
  /\ type = "int" => Uint32(want) = value
  /\ what = "field" /\ type = "bytes" => Uint32(want) = Len(value)
  /\ type \notin {"int", "bytes"} => want = value

\* Where the bytes wanted are in the field, and what is made of them.
LEMMA WantedFacts ==
  ASSUME NEW m, IsMessage(m), NEW k \in 1 .. Len(Layout(m.kind)), NEW what \in {"field", "body"},
         what = "body" => FieldType(m, k) = "bytes"
  PROVE  LET want == Wanted(m, k, what)
             skip == IF what = "body" THEN Width ELSE 0
             type == FieldType(m, k)
             value == m.values[k]
         IN  /\ want \in Seq(Byte) /\ Len(want) \in Nat
             /\ Within(want, skip, FieldBytes(m, k))
             /\ what = "body" => Len(want) = Len(value)
             /\ what = "field" => Len(want) = Size(type)
             /\ what = "body" \/ type # "bytes" => skip + Len(want) = Len(FieldBytes(m, k))
             /\ Recovered(what, type, value, want)
<1> DEFINE want == Wanted(m, k, what)
           type == FieldType(m, k)
           value == m.values[k]
           bytes == FieldBytes(m, k)
<1>1. type \in FieldTypes /\ IsValue(type, value) /\ bytes = EncodeField(type, value)
  BY ValuesFacts, Zenon DEF FieldBytes, FieldType
<1>2. Width \in Nat
  BY Constants, Zenon
<1>3. want = IF what = "body" THEN value
             ELSE IF type = "bytes" THEN PutUint32(Len(value)) ELSE bytes
  BY Zenon DEF Wanted
<1>4. what = "body" => type = "bytes"
  BY Zenon
<1>5. Size("int") = Width /\ Size("bytes") = Width
  BY Zenon DEF Size
<1>6. bytes \in Seq(Byte) /\ Len(bytes) \in Nat
  <2>1. EncodeField(type, value) \in Seq(Byte) /\ Len(EncodeField(type, value)) \in Nat
    BY <1>1, FieldFacts, Zenon
  <2> QED BY <1>1, <2>1, Zenon
<1>7. type = "int" => bytes = PutUint32(value) /\ Len(bytes) = Width
  BY <1>1, FieldFacts, Zenon
<1>8. type = "bytes" =>
        /\ Len(bytes) = Width + Len(value) /\ Len(value) \in Nat
        /\ \A i \in 1 .. Width : bytes[i] = PutUint32(Len(value))[i]
        /\ \A i \in 1 .. Len(value) : bytes[Width + i] = value[i]
  <2>1. type = "bytes" => LengthThenBytes(EncodeField(type, value), value)
    BY <1>1, FieldFacts, Zenon
  <2>2. type = "bytes" => LengthThenBytes(bytes, value)
    BY <1>1, <2>1, Zenon
  <2> HIDE DEF type, value, bytes
  <2> QED BY <2>2, Zenon DEF LengthThenBytes
<1>9. type \notin {"int", "bytes"} => bytes = value /\ Len(bytes) = Size(type)
  BY <1>1, FieldFacts, Zenon
<1>10. type = "int" => IsUint32(value)
  BY <1>1, Zenon DEF IsValue
<1>11. type = "bytes" => value \in Seq(Byte) /\ IsUint32(Len(value))
  BY <1>1, Zenon DEF IsValue
<1>12. "int" # "bytes" /\ "field" # "body"
  BY Zenon
<1> HIDE DEF want, type, value, bytes
<1>13. \A n \in Nat : n <= n /\ 0 + n = n
  OBVIOUS
<1>14. CASE what = "body"
  <2>1. type = "bytes" /\ want = value /\ value \in Seq(Byte)
    BY <1>3, <1>4, <1>11, <1>14, Zenon
  <2>2. Width + Len(value) <= Len(bytes)
    BY <1>2, <1>6, <1>8, <2>1
  <2>3. what # "field" /\ type # "int" /\ ~(type \notin {"int", "bytes"})
    BY <1>12, <1>14, <2>1, Zenon
  <2>4. (IF what = "body" THEN Width ELSE 0) = Width
    BY <1>14, Zenon
  <2> HIDE <1>14
  <2>5. Within(want, Width, bytes)
    BY <1>8, <2>1, <2>2, Zenon DEF Within
  <2>6. Recovered(what, type, value, want)
    BY <2>1, <2>3, Zenon DEF Recovered
  <2> QED BY <1>8, <2>1, <2>3, <2>4, <2>5, <2>6, Zenon DEF want, type, value, bytes
<1>15. CASE what # "body" /\ type = "bytes"
  <2>1. want = PutUint32(Len(value))
    BY <1>3, <1>15, Zenon
  <2>2. want \in Seq(Byte) /\ Len(want) = Width /\ Uint32(want) = Len(value)
    BY <1>11, <1>15, <2>1, PutUint32Facts, Zenon
  <2>3. \A i \in 1 .. Width : bytes[0 + i] = want[i]
    <3>1. \A i \in 1 .. Width : 0 + i = i
      BY <1>2
    <3> QED BY <1>8, <1>15, <2>1, <3>1, Zenon
  <2>4. 0 + Width <= Len(bytes)
    BY <1>2, <1>8, <1>15
  <2>5. (IF what = "body" THEN Width ELSE 0) = 0
    BY <1>15, Zenon
  <2>6. type # "int" /\ ~(type \notin {"int", "bytes"})
    BY <1>12, <1>15, Zenon
  <2>7. Within(want, 0, bytes)
    BY <2>2, <2>3, <2>4, Zenon DEF Within
  <2>8. Recovered(what, type, value, want)
    BY <1>15, <2>2, <2>6, Zenon DEF Recovered
  <2> QED BY <1>2, <1>5, <1>15, <2>2, <2>5, <2>7, <2>8, Zenon DEF want, type, value, bytes
<1>16. CASE what # "body" /\ type # "bytes"
  <2>1. want = bytes
    BY <1>3, <1>16, Zenon
  <2>2. \A i \in 1 .. Len(want) : bytes[0 + i] = want[i]
    <3>1. \A i \in 1 .. Len(want) : 0 + i = i
      BY <1>6, <2>1
    <3> QED BY <2>1, <3>1, Zenon
  <2>3. 0 + Len(want) <= Len(bytes) /\ 0 + Len(want) = Len(bytes)
    BY <1>6, <1>13, <2>1, Zenon
  <2>4. type = "int" => Uint32(want) = value
    BY <1>7, <1>10, <2>1, PutUint32Facts, Zenon
  <2>5. Len(want) = Size(type)
    BY <1>5, <1>7, <1>9, <1>16, <2>1, Zenon
  <2>6. (IF what = "body" THEN Width ELSE 0) = 0
    BY <1>16, Zenon
  <2>7. type \notin {"int", "bytes"} => want = value
    BY <1>9, <2>1, Zenon
  <2>8. Within(want, 0, bytes)
    BY <2>2, <2>3, Zenon DEF Within
  <2>9. Recovered(what, type, value, want)
    BY <1>16, <2>4, <2>7, Zenon DEF Recovered
  <2> QED BY <1>6, <1>16, <2>1, <2>3, <2>5, <2>6, <2>8, <2>9, Zenon DEF want, type, value, bytes
<1> QED BY <1>14, <1>15, <1>16, Zenon DEF type

\* The bytes of the message after the first j are in the stream s after theirs.
Follows(s, j) ==
  \A o, i \in Nat :
    o + i \in 1 .. Len(Encode(s[j + 1])) =>
      Stream(s)[Len(s)][(Len(Stream(s)[j]) + o) + i] = Encode(s[j + 1])[o + i]

\* They are, for every j.
LEMMA MessageAhead ==
  ASSUME NEW s \in Scripts, NEW j \in Nat, j < Len(s)
  PROVE  Follows(s, j)
<1> SUFFICES ASSUME NEW o \in Nat, NEW i \in Nat, o + i \in 1 .. Len(Encode(s[j + 1]))
             PROVE  Stream(s)[Len(s)][(Len(Stream(s)[j]) + o) + i] = Encode(s[j + 1])[o + i]
  BY Zenon DEF Follows
<1>1. Len(s) \in Nat
  BY ScriptFacts, Zenon
<1>2. j + 1 \in 1 .. Len(s) /\ (j + 1) - 1 = j /\ j \in 0 .. Len(s)
  BY <1>1
<1>3. Len(Stream(s)[j]) \in Nat
  BY <1>2, StreamFacts, Zenon
<1>4. \A h \in 1 .. Len(Encode(s[j + 1])) :
        Stream(s)[Len(s)][Len(Stream(s)[(j + 1) - 1]) + h] = Encode(s[j + 1])[h]
  BY <1>2, StreamFacts, Zenon
<1>5. Stream(s)[Len(s)][Len(Stream(s)[j]) + (o + i)] = Encode(s[j + 1])[o + i]
  BY <1>2, <1>4, Zenon
<1> DEFINE a == Len(Stream(s)[j])
<1>6. a \in Nat
  BY <1>3, Zenon
<1> HIDE DEF a
<1>7. (a + o) + i = a + (o + i)
  BY ONLY <1>6, o \in Nat, i \in Nat
<1> QED BY <1>5, <1>7, Zenon DEF a

\* A reader in a message has the field it is for ahead of it.
LEMMA FieldAhead ==
  ASSUME WireInv, reading # "sentinel"
  PROVE  LET k == Len(values) + 1
             want == Wanted(Current, k, reading)
         IN  /\ Len(read) < Len(script) /\ IsMessage(Current) /\ Kind = Current.kind
             /\ k \in 1 .. Len(Layout(Current.kind)) /\ Field = FieldType(Current, k)
             /\ reading \in {"field", "body"}
             /\ reading = "body" => FieldType(Current, k) = "bytes"
             /\ Needed = Len(want) /\ Len(want) \in Nat /\ want \in Seq(Byte)
             /\ Offset(Current, reading, Len(values)) \in Nat
             /\ Offset(Current, reading, Len(values)) + Len(want) <= Len(Encode(Current))
             /\ \A i \in 1 .. Len(want) :
                  Encode(Current)[Offset(Current, reading, Len(values)) + i] = want[i]
<1> DEFINE m == Current
           n == Len(values)
           k == Len(values) + 1
           want == Wanted(m, k, reading)
           field == FieldBytes(m, k)
           skip == IF reading = "body" THEN Width ELSE 0
           before == Len(EncodeFields(m)[n])
           all == Encode(m)
<1>1. /\ script \in Scripts /\ Len(script) \in Nat /\ Len(read) \in Nat /\ n \in Nat
  BY PlaceFacts, Zenon
<1>2. /\ Len(read) < Len(script) /\ Kind = m.kind /\ n < Len(Layout(Kind))
      /\ reading \in {"sentinel", "field", "body"}
      /\ reading = "body" => Field = "bytes" /\ length = Len(m.values[k])
  BY Zenon DEF WireInv, InvField, InStep, Current
<1>3. Len(read) + 1 \in 1 .. Len(script)
  BY <1>1, <1>2
<1>4. IsMessage(m)
  BY <1>1, <1>3, ScriptFacts, Zenon DEF Current
<1>5. Len(Layout(m.kind)) \in Nat
  BY <1>4, ValuesFacts, Zenon
<1>6. k \in 1 .. Len(Layout(m.kind)) /\ n \in 0 .. Len(Layout(m.kind)) /\ k - 1 = n
      /\ k \in 0 .. Len(Layout(m.kind))
  BY <1>1, <1>2, <1>5
<1>7. Field = FieldType(m, k)
  BY <1>2, Zenon DEF Field, FieldType
<1>8. reading \in {"field", "body"} /\ (reading = "body" => FieldType(m, k) = "bytes")
  BY <1>2, <1>7, Zenon
<1>9. want \in Seq(Byte) /\ Len(want) \in Nat /\ Within(want, skip, field)
  BY <1>4, <1>6, <1>8, WantedFacts, Zenon
<1>10. skip + Len(want) <= Len(field) /\ \A i \in 1 .. Len(want) : field[skip + i] = want[i]
  BY <1>9, Zenon DEF Within
<1>11. Needed = Len(want)
  <2>1. CASE reading = "body"
    <3>1. Len(want) = Len(m.values[k])
      BY <1>4, <1>6, <1>8, <2>1, WantedFacts, Zenon
    <3>2. Needed = length
      BY <2>1, Zenon DEF Needed
    <3> QED BY <1>2, <2>1, <3>1, <3>2, Zenon
  <2>2. CASE reading # "body"
    <3>1. reading = "field"
      BY <1>8, <2>2, Zenon
    <3>2. Len(want) = Size(FieldType(m, k))
      BY <1>4, <1>6, <1>8, <3>1, WantedFacts, Zenon
    <3>3. Needed = Size(Field)
      BY <3>1, Zenon DEF Needed
    <3> QED BY <1>7, <3>2, <3>3, Zenon
  <2> QED BY <2>1, <2>2, Zenon
<1>12. before \in Nat /\ Len(EncodeFields(m)[k]) \in Nat /\ Continues(EncodeFields(m)[k], all)
  BY <1>4, <1>6, MessageFacts, Zenon
<1>13. Len(EncodeFields(m)[k]) = before + Len(field)
  <2>1. Len(EncodeFields(m)[k]) = Len(EncodeFields(m)[k - 1]) + Len(FieldBytes(m, k))
    BY <1>4, <1>6, MessageFacts, Zenon
  <2> QED BY <1>6, <2>1, Zenon
<1>14. \A i \in 1 .. Len(field) : all[before + i] = field[i]
  <2>1. \A i \in 1 .. Len(FieldBytes(m, k)) :
          Encode(m)[Len(EncodeFields(m)[k - 1]) + i] = FieldBytes(m, k)[i]
    BY <1>4, <1>6, MessageFacts, Zenon
  <2> QED BY <1>6, <2>1, Zenon
<1>15. Offset(m, reading, n) = before + skip
  BY Zenon DEF Offset
<1>16. Len(EncodeFields(m)[k]) <= Len(all)
  BY <1>12, Zenon DEF Continues
<1>17. skip \in Nat
  BY Constants, Zenon
<1>18. Len(all) \in Nat /\ Len(field) \in Nat
  <2>1. all \in Seq(Byte)
    BY <1>4, MessageFacts, Zenon
  <2>2. Len(field) \in Nat
    <3>1. FieldType(m, k) \in FieldTypes /\ IsValue(FieldType(m, k), m.values[k])
      BY <1>4, <1>6, ValuesFacts, Zenon
    <3>2. Len(EncodeField(FieldType(m, k), m.values[k])) \in Nat
      BY <3>1, FieldFacts, Zenon
    <3> QED BY <3>2, Zenon DEF FieldBytes, FieldType
  <2> HIDE DEF all
  <2> QED BY <2>1, <2>2
<1> HIDE DEF m, n, want, field, skip, before, all
<1>19. Offset(m, reading, n) \in Nat /\ Offset(m, reading, n) + Len(want) <= Len(all)
  BY <1>9, <1>10, <1>12, <1>13, <1>15, <1>16, <1>17, <1>18
<1>20. ASSUME NEW i \in 1 .. Len(want)
       PROVE  all[Offset(m, reading, n) + i] = want[i]
  <2>1. skip + i \in 1 .. Len(field) /\ before + (skip + i) = (before + skip) + i
    BY <1>9, <1>10, <1>12, <1>17, <1>18
  <2>2. all[before + (skip + i)] = field[skip + i]
    BY <1>14, <2>1, Zenon
  <2> QED BY <1>10, <1>15, <2>1, <2>2, Zenon
<1> QED BY <1>2, <1>4, <1>6, <1>7, <1>8, <1>9, <1>11, <1>19, <1>20, Zenon
        DEF m, n, want, all

\* A reader before a sentinel sees whether it asked for the right kind.
LEMMA SentinelAhead ==
  ASSUME WireInv, ~failed, reading = "sentinel", Len(read) < Len(asked), Len(inbox) >= 1
  PROVE  Len(read) < Len(script) /\ readSentinel(inbox[1]) = InStep
<1> DEFINE j == Len(read) + 1
           end == Len(Stream(script)[Len(read)])
           all == Stream(script)[Len(script)]
<1>1. /\ script \in Scripts /\ Len(script) \in Nat /\ Len(read) \in Nat /\ Len(asked) \in Nat
      /\ Len(inbox) \in Nat /\ Len(wire) \in Nat /\ end \in Nat /\ Len(all) \in Nat
      /\ Len(Stream(script)[written]) \in Nat /\ Len(Stream(script)[written]) <= Len(all)
  BY PlaceFacts, Zenon
<1>2. Offset(Current, reading, Len(values)) = 0
  BY Zenon DEF Offset
<1>3. Place = end
  BY <1>1, <1>2 DEF Place
<1>4. /\ (end + Len(inbox)) + Len(wire) <= Len(Stream(script)[written])
      /\ \A i \in 1 .. Len(inbox) : inbox[i] = all[end + i]
  BY <1>3, Zenon DEF WireInv, InvPlace, Continued, Ahead
<1>5. Len(read) <= written /\ written \in 0 .. Len(script)
  BY Zenon DEF WireInv, InvRead, InvBytes
<1>6. Len(read) < Len(script)
  <2>1. ASSUME Len(read) = Len(script)
        PROVE  FALSE
    <3>1. end = Len(all)
      BY <2>1, Zenon
    <3> HIDE DEF end, all
    <3> QED BY <1>1, <1>4, <3>1
  <2> QED BY <1>1, <1>5, <2>1
<1>7. j \in 1 .. Len(script) /\ j \in 1 .. Len(asked) /\ 1 \in 1 .. Len(inbox)
  BY <1>1, <1>6
<1>8. IsMessage(script[j]) /\ (script[j].kind = "WhatToDo" => j = 1)
  BY <1>1, <1>7, ScriptFacts, Zenon
<1>9. Kind = asked[j] /\ Kind \in Kinds
  <2>1. asked \in Seq(Kinds)
    BY Zenon DEF WireInv, InvScript
  <2>2. asked[j] \in Kinds
    BY <1>7, <2>1
  <2> QED BY <2>2, Zenon DEF Kind
<1>10. Kind # "WhatToDo" /\ script[j].kind # "WhatToDo"
  <2>1. /\ \A i \in 1 .. Len(asked) : asked[i] = "WhatToDo" => i = 1
        /\ asked[1] = "WhatToDo" <=> script[1].kind = "WhatToDo"
        /\ Len(read) = 0 => asked[1] # "WhatToDo"
    BY Zenon DEF WireInv, InvScript, InvField
  <2>2. j = 1 => Len(read) = 0
    BY <1>1
  <2> QED BY <1>7, <1>8, <1>9, <2>1, <2>2, Zenon
<1>11. /\ Len(Encode(script[j])) \in Nat /\ Len(Encode(script[j])) > 0
       /\ <<Encode(script[j])[1]>> = Sentinel(script[j].kind)
  BY <1>8, <1>10, FirstByte, Zenon
<1>12. inbox[1] = Encode(script[j])[1]
  <2>1. 0 + 1 \in 1 .. Len(Encode(script[j])) /\ 0 + 1 = 1 /\ end + 0 = end
        /\ 0 \in Nat /\ 1 \in Nat
    BY <1>1, <1>11
  <2>2. all[(end + 0) + 1] = Encode(script[j])[0 + 1]
    <3>1. Follows(script, Len(read))
      BY <1>1, <1>6, MessageAhead, Zenon
    <3> QED BY <2>1, <3>1, Zenon DEF Follows
  <2> QED BY <1>4, <1>7, <2>1, <2>2, Zenon
<1>13. readSentinel(inbox[1]) = (Sentinel(script[j].kind) = Sentinel(Kind))
  BY <1>11, <1>12, Zenon DEF readSentinel
<1>14. ASSUME Sentinel(script[j].kind) = Sentinel(Kind)
       PROVE  script[j].kind = Kind
  <2>1. script[j].kind \in Kinds
    BY <1>8, ValuesFacts, Zenon
  <2>2. PICK b \in Byte : Sentinel(script[j].kind) = <<b>> /\ msgKind[b] = script[j].kind
    BY <1>10, <2>1, SentinelFacts, Zenon
  <2>3. PICK c \in Byte : Sentinel(Kind) = <<c>> /\ msgKind[c] = Kind
    BY <1>9, <1>10, SentinelFacts, Zenon
  <2>4. <<b>> = <<c>> => b = c
    BY Zenon
  <2> QED BY <1>14, <2>2, <2>3, <2>4, Zenon
<1>15. (Sentinel(script[j].kind) = Sentinel(Kind)) = (Kind = script[j].kind)
  BY <1>14, Zenon
<1>16. InStep = (Kind = script[j].kind)
  BY <1>6, Zenon DEF InStep
<1> QED BY <1>6, <1>13, <1>15, <1>16, Zenon

\* A read that gets too few bytes has a part of the message.
LEMMA ReadFailsKeeps == WireInv /\ ReadFails => WireInv'
<1> SUFFICES ASSUME WireInv, ReadFails
             PROVE  WireInv'
  BY Zenon
<1>1. /\ Reading /\ ~Take(Needed) /\ cut /\ wire = <<>> /\ failed' = TRUE
      /\ cut' = cut /\ written' = written /\ wire' = wire /\ inbox' = inbox
      /\ script' = script /\ asked' = asked /\ read' = read /\ values' = values
      /\ reading' = reading /\ length' = length
  BY Zenon DEF ReadFails
<1>2. /\ InvScript' /\ InvField' /\ Current' = Current /\ InStep' = InStep
  BY <1>1, SameReader, Zenon
<1>3. InvBytes'
  BY <1>1, Zenon DEF WireInv, InvBytes
<1>4. InvRead'
  BY <1>1, Zenon DEF WireInv, InvRead
<1>5. InvPlace'
  BY <1>1, Zenon DEF InvPlace
<1>6. ASSUME InStep
      PROVE  CutOff(inbox, Encode(Current))
  <2> DEFINE m == Encode(Current)
             o == Offset(Current, reading, Len(values))
             end == Len(Stream(script)[Len(read)])
             all == Stream(script)[Len(script)]
  <2>1. /\ script \in Scripts /\ Len(script) \in Nat /\ Len(read) \in Nat /\ Len(inbox) \in Nat
        /\ end \in Nat
    BY PlaceFacts, Zenon
  <2>2. Len(read) < Len(script)
    BY <1>6, Zenon DEF InStep
  <2>3. Len(read) + 1 \in 1 .. Len(script)
    BY <2>1, <2>2
  <2>4. IsMessage(Current)
    BY <2>1, <2>3, ScriptFacts, Zenon DEF Current
  <2>5. m \in Seq(Byte) /\ Len(m) \in Nat /\ Len(m) > 0
    BY <2>4, MessageFacts, FirstByte, Zenon
  <2>6. o \in Nat /\ Needed \in Nat /\ o + Needed <= Len(m)
    <3>1. CASE reading = "sentinel"
      <4>1. o = 0
        BY <3>1, Zenon DEF Offset
      <4>2. Needed = 1
        BY <3>1, Zenon DEF Needed
      <4> HIDE DEF m
      <4> QED BY <2>5, <4>1, <4>2
    <3>2. CASE reading # "sentinel"
      <4>1. /\ Needed = Len(Wanted(Current, Len(values) + 1, reading))
            /\ Len(Wanted(Current, Len(values) + 1, reading)) \in Nat
            /\ o \in Nat /\ o + Len(Wanted(Current, Len(values) + 1, reading)) <= Len(m)
        BY <3>2, FieldAhead, Zenon
      <4> QED BY <4>1, Zenon
    <3> QED BY <3>1, <3>2, Zenon
  <2>7. Len(inbox) < Needed
    <3>1. ~(Len(inbox) >= Needed)
      BY <1>1, Zenon DEF Take
    <3> QED BY ONLY <2>1, <2>6, <3>1
  <2>8. \A i \in 1 .. Len(inbox) : inbox[i] = all[(end + o) + i]
    BY <1>1, Zenon DEF WireInv, InvPlace, Reading, Continued, Ahead, Place
  <2> HIDE DEF m, o, end, all
  <2>9. o + Len(inbox) \in 0 .. Len(m) /\ o + Len(inbox) < Len(m) /\ o \in 0 .. Len(m)
    BY <2>1, <2>5, <2>6, <2>7
  <2>10. ASSUME NEW i \in 1 .. Len(inbox)
         PROVE  inbox[i] = m[o + i]
    <3>1. i \in Nat /\ o + i \in 1 .. Len(m)
      BY <2>1, <2>6, <2>9
    <3>2. all[(end + o) + i] = m[o + i]
      <4>1. Follows(script, Len(read))
        BY <2>1, <2>2, MessageAhead, Zenon
      <4> QED BY <2>6, <3>1, <4>1, Zenon DEF Follows, all, end, m, Current
    <3> QED BY <2>8, <3>2, Zenon
  <2>11. inbox \in Seq(Byte)
    BY Zenon DEF WireInv, InvBytes
  <2>12. inbox = SubSeq(m, o + 1, o + Len(inbox))
    <3> DEFINE part == SubSeq(m, o + 1, o + Len(inbox))
    <3>1. /\ part \in Seq(Byte) /\ Len(part) = Len(inbox)
          /\ \A i \in 1 .. Len(inbox) : part[i] = m[o + i]
      BY ONLY <2>1, <2>5, <2>6, <2>9
    <3>2. \A i \in 1 .. Len(inbox) : inbox[i] = part[i]
      BY <2>10, <3>1, Zenon
    <3> HIDE DEF part
    <3>3. inbox = part
      BY ONLY <2>11, <3>1, <3>2, SameElements, Zenon
    <3> QED BY <3>3, Zenon DEF part
  <2> QED BY <2>9, <2>12, Zenon DEF CutOff, m
<1>7. InvFailed'
  BY <1>1, <1>2, <1>6, Zenon DEF InvFailed
<1> QED BY <1>2, <1>3, <1>4, <1>5, <1>7, Zenon DEF WireInv

\* What io.ReadFull takes is gone, and what is left continues the stream.
LEMMA Taken ==
  ASSUME WireInv, ~failed, Needed \in Nat, Take(Needed)
  PROVE  /\ SubSeq(inbox, Needed + 1, Len(inbox)) \in Seq(Byte)
         /\ Continued(script, written, cut, SubSeq(inbox, Needed + 1, Len(inbox)), wire,
                      Place + Needed)
         /\ Place + Needed <= Len(Stream(script)[written])
         /\ Needed <= Len(inbox)
<1> DEFINE rest == SubSeq(inbox, Needed + 1, Len(inbox))
           w == Len(Stream(script)[written])
<1>1. Len(inbox) \in Nat /\ Len(wire) \in Nat /\ Place \in Nat /\ w \in Nat
  BY PlaceFacts, Zenon
<1>2. inbox \in Seq(Byte)
  BY Zenon DEF WireInv, InvBytes
<1>3. /\ (Place + Len(inbox)) + Len(wire) <= w
      /\ ~cut => (Place + Len(inbox)) + Len(wire) = w
      /\ Ahead(inbox, script, Place) /\ Ahead(wire, script, Place + Len(inbox))
  BY Zenon DEF WireInv, InvPlace, Continued
<1>4. Needed <= Len(inbox)
  <2>1. Len(inbox) >= Needed
    BY Zenon DEF Take
  <2> QED BY ONLY <1>1, <2>1, Needed \in Nat, Zenon
<1>5. rest \in Seq(Byte) /\ Len(rest) = Len(inbox) - Needed
      /\ Ahead(rest, script, Place + Needed)
  BY <1>1, <1>2, <1>3, <1>4, AheadRest, Zenon
<1> HIDE DEF rest, w
<1>6. /\ (Place + Needed) + Len(rest) = Place + Len(inbox)
      /\ Place + Needed <= w
  BY ONLY <1>1, <1>3, <1>4, <1>5, Needed \in Nat
<1>7. Continued(script, written, cut, rest, wire, Place + Needed)
  BY <1>3, <1>5, <1>6, Zenon DEF Continued, w
<1> QED BY <1>4, <1>5, <1>6, <1>7, Zenon DEF rest, w

\* The last field of a message was read.
LEMMA Completed ==
  ASSUME WireInv, Len(read) < Len(script), Len(read) < Len(asked), Needed \in Nat,
         Place + Needed = Len(Stream(script)[Len(read)]) + Len(Encode(Current)),
         Place + Needed <= Len(Stream(script)[written]),
         script' = script, asked' = asked, written' = written,
         read' = Append(read, Current), values' = <<>>, reading' = "sentinel"
  PROVE  InvRead' /\ InvField' /\ Place' = Place + Needed
<1> DEFINE R == {script[i] : i \in 1 .. Len(script)}
           j == Len(read) + 1
           end == Len(Stream(script)[Len(read)])
<1>1. /\ script \in Scripts /\ Len(script) \in Nat /\ written \in Nat /\ Len(read) \in Nat
      /\ Len(asked) \in Nat /\ end \in Nat /\ Len(Stream(script)[written]) \in Nat
  BY PlaceFacts, Zenon
<1>2. read \in Seq(R) /\ Len(read) <= written /\ \A i \in 1 .. Len(read) : read[i] = script[i]
  BY Zenon DEF WireInv, InvRead
<1>3. j \in 1 .. Len(script) /\ j - 1 = Len(read) /\ j <= Len(asked) /\ j # 0
  BY <1>1
<1>4. IsMessage(script[j])
  BY <1>1, <1>3, ScriptFacts, Zenon
<1>5. Len(Encode(script[j])) \in Nat /\ Len(Encode(script[j])) > 0
  BY <1>4, FirstByte, Zenon
<1>6. Current = script[j] /\ Current \in R
  BY <1>3, Zenon DEF Current
<1> DEFINE c == Current
<1>7. c = script[j] /\ c \in R
  BY <1>6, Zenon
<1>8. read' = Append(read, c)
  BY Zenon
<1> HIDE DEF R, c
<1>9. /\ read' \in Seq(R) /\ Len(read') = j /\ read'[j] = c
      /\ \A i \in 1 .. Len(read) : read'[i] = read[i]
  BY <1>2, <1>7, <1>8
<1>10. ASSUME NEW i \in 1 .. Len(read')
       PROVE  read'[i] = script[i]
  <2>1. CASE i = j
    BY <1>7, <1>9, <2>1, Zenon
  <2>2. CASE i # j
    <3>1. i \in 1 .. Len(read)
      BY ONLY <1>1, <1>9, <2>2, i \in 1 .. Len(read')
    <3> QED BY <1>2, <1>9, <3>1, Zenon
  <2> QED BY <2>1, <2>2, Zenon
<1>11. Len(read') <= written
  <2>1. ASSUME Len(read) = written
        PROVE  FALSE
    <3>1. end = Len(Stream(script)[written])
      BY <2>1, Zenon
    <3>2. end + Len(Encode(script[j])) <= end
      BY <1>6, <3>1, Zenon
    <3> HIDE DEF end
    <3> QED BY ONLY <1>1, <1>5, <3>2
  <2>2. j <= written
    BY <1>1, <1>2, <2>1
  <2> QED BY <1>9, <2>2, Zenon
<1>12. InvRead'
  <2>1. Len(read') <= Len(asked')
    BY <1>3, <1>9, Zenon
  <2> QED BY <1>9, <1>10, <1>11, <2>1, Zenon DEF InvRead, R
<1>13. InvField'
  <2>1. Len(read') # 0
    BY <1>3, <1>9, Zenon
  <2>2. "sentinel" # "body"
    BY Zenon
  <2> QED BY <2>1, <2>2, Zenon DEF InvField
<1>14. Place' = Place + Needed
  <2>1. Len(Stream(script)[j]) = end + Len(Encode(script[j]))
    <3>1. Len(Stream(script)[j]) = Len(Stream(script)[j - 1]) + Len(Encode(script[j]))
      BY <1>1, <1>3, StreamFacts, Zenon
    <3> QED BY <1>3, <3>1, Zenon
  <2>2. Place' = Len(Stream(script)[j]) + 0
    <3>1. Offset(Current, reading, Len(values))' = 0
      BY Zenon DEF Offset
    <3>2. Len(Stream(script')[Len(read')]) = Len(Stream(script)[j])
      BY <1>9, Zenon
    <3>3. Place' = Len(Stream(script')[Len(read')]) + Offset(Current, reading, Len(values))'
      BY Zenon DEF Place
    <3> DEFINE e == Len(Stream(script')[Len(read')])
               d == Offset(Current, reading, Len(values))'
    <3>4. d = 0 /\ e = Len(Stream(script)[j]) /\ Place' = e + d
      BY <3>1, <3>2, <3>3, Zenon
    <3> HIDE DEF d, e
    <3> QED BY <3>4, Zenon
  <2>4. \A n \in Nat : n + 0 = n
    OBVIOUS
  <2>5. Len(Stream(script)[j]) \in Nat
    <3>1. j \in 0 .. Len(script)
      BY <1>1, <1>3
    <3> QED BY <1>1, <3>1, StreamFacts, Zenon
  <2>6. Place' = Len(Stream(script)[j])
    <3>1. Len(Stream(script)[j]) + 0 = Len(Stream(script)[j])
      BY <2>4, <2>5, Zenon
    <3> QED BY <2>2, <3>1, Zenon
  <2>7. Place + Needed = end + Len(Encode(script[j]))
    BY <1>6, Zenon
  <2> QED BY <2>1, <2>6, <2>7, Zenon
<1> QED BY <1>12, <1>13, <1>14, Zenon

\* A field's value is a number or bytes.
LEMMA ValueType ==
  ASSUME NEW m, IsMessage(m), NEW k \in 1 .. Len(Layout(m.kind))
  PROVE  m.values[k] \in Nat \cup Seq(Byte)
<1>1. IsValue(FieldType(m, k), m.values[k])
  BY ValuesFacts, Zenon
<1> QED BY <1>1, Zenon DEF IsValue, IsUint32

\* A field was read, and how far the reader is then.
LEMMA GotKeeps ==
  ASSUME WireInv, ~failed, reading # "sentinel", Take(Needed),
         reading = "body" \/ Field # "bytes", Got(Current.values[Len(values) + 1]),
         script' = script, asked' = asked, written' = written
  PROVE  InvRead' /\ InvField' /\ Place' = Place + Needed
<1> DEFINE m == Current
           n == Len(Layout(m.kind))
           k == Len(values) + 1
           v == m.values[k]
           all == Append(values, v)
           want == Wanted(m, k, reading)
           skip == IF reading = "body" THEN Width ELSE 0
           before == Len(EncodeFields(m)[Len(values)])
           end == Len(Stream(script)[Len(read)])
           V == Nat \cup Seq(Byte)
<1>1. /\ Len(read) < Len(script) /\ IsMessage(m) /\ Kind = m.kind
      /\ k \in 1 .. n /\ Field = FieldType(m, k)
      /\ reading \in {"field", "body"} /\ (reading = "body" => FieldType(m, k) = "bytes")
      /\ Needed = Len(want) /\ Len(want) \in Nat
  BY FieldAhead, Zenon
<1>2. /\ Len(read) \in Nat /\ Len(script) \in Nat /\ Len(values) \in Nat /\ end \in Nat
      /\ Place \in Nat
  BY PlaceFacts, Zenon
<1>3. n \in Nat
  BY <1>1, ValuesFacts, Zenon
<1>4. /\ Len(read) < Len(asked) /\ values \in Seq(V)
      /\ \A i \in 1 .. Len(values) : values[i] = m.values[i]
  BY Zenon DEF WireInv, InvField
<1>5. v \in V
  BY <1>1, ValueType, Zenon
<1>6. skip + Len(want) = Len(FieldBytes(m, k))
  BY <1>1, WantedFacts, Zenon
<1>7. k - 1 = Len(values) /\ k \in 0 .. n /\ Len(values) \in 0 .. n
  BY <1>1, <1>2, <1>3
<1>8. before \in Nat /\ Len(EncodeFields(m)[k]) \in Nat
  BY <1>1, <1>7, MessageFacts, Zenon
<1>9. Len(EncodeFields(m)[k]) = before + Len(FieldBytes(m, k))
  <2>1. Len(EncodeFields(m)[k]) = Len(EncodeFields(m)[k - 1]) + Len(FieldBytes(m, k))
    BY <1>1, <1>7, MessageFacts, Zenon
  <2> QED BY <1>7, <2>1, Zenon
<1>10. Place = end + (before + skip)
  BY Zenon DEF Place, Offset
<1>11. skip \in Nat
  BY Constants, Zenon
<1>12. /\ length' = 0
       /\ Len(all) = n => /\ read' = Append(read, Message(Kind, all))
                          /\ values' = <<>> /\ reading' = "sentinel"
       /\ Len(all) # n => values' = all /\ reading' = "field" /\ read' = read
  BY <1>1, Zenon DEF Got
<1> DEFINE after == Len(EncodeFields(m)[k])
<1>13. after \in Nat /\ after = before + (skip + Len(want))
  BY <1>6, <1>8, <1>9, Zenon
<1>14. Place + Needed = end + after
  <2> HIDE DEF end, before, skip, want, after
  <2> QED BY <1>1, <1>2, <1>8, <1>10, <1>11, <1>13
<1> HIDE DEF V
<1>15. /\ all \in Seq(V) /\ Len(all) = k /\ all[k] = v
       /\ \A i \in 1 .. Len(values) : all[i] = values[i]
  <2> HIDE DEF v
  <2> QED BY ONLY <1>2, <1>4, <1>5
<1>16. ASSUME NEW i \in 1 .. k
       PROVE  all[i] = m.values[i]
  <2>1. CASE i = k
    BY <1>15, <2>1, Zenon
  <2>2. CASE i # k
    <3>1. i \in 1 .. Len(values)
      BY ONLY <1>2, <2>2, i \in 1 .. k
    <3> QED BY <1>4, <1>15, <3>1, Zenon
  <2> QED BY <2>1, <2>2, Zenon
<1>17. CASE k = n
  <2>1. \A i \in 1 .. n : m.values[i] \in V
    BY <1>1, ValueType, Zenon DEF V
  <2>2. m.values \in [1 .. n -> V]
    <3>1. m.values = [i \in 1 .. n |-> m.values[i]]
      BY <1>1, ValuesFacts, Zenon
    <3> QED BY <2>1, <3>1, Zenon
  <2> DEFINE w == m.values
             a == all
  <2>3. w \in [1 .. n -> V] /\ a \in Seq(V) /\ Len(a) = n /\ \A i \in 1 .. n : a[i] = w[i]
    BY <1>15, <1>16, <1>17, <2>2, Zenon
  <2> HIDE DEF w, a, n
  <2>4. w \in Seq(V) /\ Len(w) = n
    BY ONLY <1>3, <2>3
  <2>5. a = w
    BY ONLY <2>3, <2>4, SameElements, Zenon
  <2>6. all = m.values
    BY <2>5, Zenon DEF a, w
  <2>7. m = Message(m.kind, m.values)
    BY <1>1, ValuesFacts, Zenon
  <2>8. read' = Append(read, Current) /\ values' = <<>> /\ reading' = "sentinel"
    <3>1. Message(Kind, all) = Current
      BY <1>1, <2>6, <2>7, Zenon
    <3>2. Len(all) = n
      BY <1>15, <1>17, Zenon
    <3> QED BY <1>12, <3>1, <3>2, Zenon
  <2>9. after = Len(Encode(m))
    <3>1. Encode(m) = EncodeFields(m)[n]
      BY <1>1, MessageFacts, Zenon DEF n
    <3> QED BY <1>17, <3>1, Zenon
  <2>10. Place + Needed = Len(Stream(script)[Len(read)]) + Len(Encode(Current))
    BY <1>14, <2>9, Zenon
  <2>11. Needed \in Nat
    BY <1>1, Zenon
  <2>12. Place + Needed <= Len(Stream(script)[written])
    BY <2>11, Taken, Zenon
  <2> HIDE DEF m, k, v, all, want, skip, before, end, after
  <2> QED BY ONLY WireInv, <1>1, <1>4, <2>8, <2>10, <2>11, <2>12, Completed,
                  script' = script, asked' = asked, written' = written, Zenon
<1>18. CASE k # n
  <2>1. values' = all /\ reading' = "field" /\ read' = read
    BY <1>12, <1>15, <1>18, Zenon
  <2>2. InvRead'
    BY <2>1, Zenon DEF WireInv, InvRead
  <2>3. Current' = Current /\ Kind' = Kind /\ InStep' = InStep
    BY <2>1, Zenon DEF Current, Kind, InStep
  <2>4. InvField'
    <3>1. k < n
      BY ONLY <1>1, <1>3, <1>18
    <3>2. Len(values') < Len(Layout(Kind'))
      BY <1>1, <1>15, <2>1, <2>3, <3>1, Zenon
    <3>3. \A i \in 1 .. Len(values') : values'[i] = Current'.values[i]
      BY <1>15, <1>16, <2>1, <2>3, Zenon
    <3>4. InStep' /\ Len(read') < Len(asked')
      BY <1>4, <2>1, <2>3, Zenon DEF WireInv, InvField
    <3>5. values' \in Seq(V)
      BY <1>15, <2>1, Zenon
    <3>6. reading' # "sentinel" /\ reading' # "body" /\ reading' \in {"sentinel", "field", "body"}
      BY ONLY <2>1, Zenon
    <3> QED BY <3>2, <3>3, <3>4, <3>5, <3>6, Zenon DEF InvField, V
  <2>5. Place' = end + Offset(m, "field", k)
    BY <1>15, <2>1, <2>3, Zenon DEF Place
  <2>6. Offset(m, "field", k) = after
    <3>1. Offset(m, "field", k) = after + 0
      <4>1. "field" # "sentinel" /\ "field" # "body"
        BY Zenon
      <4> QED BY <4>1, Zenon DEF Offset
    <3> HIDE DEF after
    <3>2. after + 0 = after
      BY ONLY <1>13
    <3> QED BY <3>1, <3>2, Zenon
  <2> QED BY <1>14, <2>2, <2>4, <2>5, <2>6, Zenon
<1> QED BY <1>17, <1>18, Zenon

\* What ReadFull has in its buffer, when it was for a field.
LEMMA Received ==
  ASSUME WireInv, ~failed, reading # "sentinel", Take(Needed)
  PROVE  [i \in 1 .. Needed |-> IF i <= Len(inbox) THEN inbox[i] ELSE 0]
           = Wanted(Current, Len(values) + 1, reading)
<1> DEFINE want == Wanted(Current, Len(values) + 1, reading)
           o == Offset(Current, reading, Len(values))
           end == Len(Stream(script)[Len(read)])
           all == Stream(script)[Len(script)]
           m == Encode(Current)
           buf == [i \in 1 .. Needed |-> IF i <= Len(inbox) THEN inbox[i] ELSE 0]
<1>1. /\ Len(read) < Len(script) /\ Needed = Len(want) /\ Len(want) \in Nat
      /\ want \in Seq(Byte) /\ o \in Nat /\ o + Len(want) <= Len(m) /\ IsMessage(Current)
      /\ \A i \in 1 .. Len(want) : m[o + i] = want[i]
  BY FieldAhead, Zenon
<1>2. script \in Scripts /\ Len(read) \in Nat /\ Len(inbox) \in Nat
  BY PlaceFacts, Zenon
<1>3. Needed \in Nat /\ Needed <= Len(inbox)
  <2>1. Needed \in Nat
    BY <1>1, Zenon
  <2> QED BY <2>1, Taken, Zenon
<1>4. \A i \in 1 .. Len(inbox) : inbox[i] = all[(end + o) + i]
  BY Zenon DEF WireInv, InvPlace, Continued, Ahead, Place
<1>5. Follows(script, Len(read))
  BY <1>1, <1>2, MessageAhead, Zenon
<1>6. Len(m) \in Nat
  BY <1>1, FirstByte, Zenon
<1>7. ASSUME NEW i \in 1 .. Needed
      PROVE  i <= Len(inbox) /\ inbox[i] = want[i]
  <2> HIDE DEF m, o, want
  <2>1. i \in Nat /\ o + i \in 1 .. Len(m) /\ i \in 1 .. Len(inbox) /\ i <= Len(inbox)
        /\ i \in 1 .. Len(want)
    BY <1>1, <1>2, <1>3, <1>6
  <2>2. all[(end + o) + i] = m[o + i]
    BY <1>1, <1>5, <2>1, Zenon DEF Follows, m, Current
  <2> QED BY <1>1, <1>4, <2>1, <2>2, Zenon
<1>8. buf = [i \in 1 .. Needed |-> want[i]]
  <2> HIDE DEF want
  <2> QED BY <1>7, Zenon
<1>9. want = [i \in 1 .. Len(want) |-> want[i]]
  <2> HIDE DEF want
  <2> QED BY ONLY <1>1
<1> QED BY <1>1, <1>8, <1>9, Zenon

\* io.ReadFull gets the bytes of the next part of the message, and the value a
\* Read function makes of them is the one the Send function was given.
LEMMA ReadFullKeeps == WireInv /\ ReadFull => WireInv'
<1> SUFFICES ASSUME WireInv, ReadFull
             PROVE  WireInv'
  BY Zenon
<1> DEFINE buf == [i \in 1 .. Needed |-> IF i <= Len(inbox) THEN inbox[i] ELSE 0]
           m == Current
           k == Len(values) + 1
           end == Len(Stream(script)[Len(read)])
<1>1. /\ ~failed /\ Len(read) < Len(asked) /\ Take(Needed)
      /\ inbox' = SubSeq(inbox, Needed + 1, Len(inbox))
      /\ script' = script /\ asked' = asked /\ written' = written /\ wire' = wire /\ cut' = cut
  BY Zenon DEF ReadFull, Reading
<1>2. \/ /\ reading = "sentinel" /\ ~readSentinel(buf[1]) /\ failed' = TRUE
         /\ read' = read /\ values' = values /\ reading' = reading /\ length' = length
      \/ /\ reading = "sentinel" /\ readSentinel(buf[1])
         /\ IF Layout(Kind) = <<>>
            THEN read' = Append(read, Message(Kind, <<>>)) /\ reading' = reading
            ELSE reading' = "field" /\ read' = read
         /\ failed' = failed /\ values' = values /\ length' = length
      \/ /\ reading = "field" /\ Field = "bytes" /\ length' = Uint32(buf) /\ reading' = "body"
         /\ failed' = failed /\ read' = read /\ values' = values
      \/ /\ reading = "body" \/ (reading = "field" /\ Field # "bytes")
         /\ Got(IF Field = "int" THEN Uint32(buf) ELSE buf) /\ failed' = failed
  BY Zenon DEF ReadFull
<1>3. InvScript'
  BY <1>1, Zenon DEF WireInv, InvScript
<1>4. /\ script \in Scripts /\ Len(script) \in Nat /\ Len(read) \in Nat /\ Len(inbox) \in Nat
      /\ Len(values) \in Nat /\ end \in Nat /\ Place \in Nat
  BY PlaceFacts, Zenon
\* A step that keeps the place and does not fail.
<1>5. ASSUME Needed \in Nat, failed' = failed, InvRead', InvField', Place' = Place + Needed
      PROVE  WireInv'
  <2>1. /\ inbox' \in Seq(Byte)
        /\ Continued(script, written, cut, inbox', wire, Place + Needed)
    BY <1>1, <1>5, Taken, Zenon
  <2>2. InvBytes'
    BY <1>1, <1>5, <2>1, Zenon DEF WireInv, InvBytes
  <2>3. InvPlace'
    BY <1>1, <1>5, <2>1, Zenon DEF InvPlace
  <2>4. InvFailed'
    BY <1>1, <1>5, Zenon DEF InvFailed
  <2> QED BY <1>3, <1>5, <2>2, <2>3, <2>4, Zenon DEF WireInv
<1>6. CASE reading = "sentinel"
  <2>1. Needed = 1 /\ Needed \in Nat
    BY <1>6, Zenon DEF Needed
  <2>2. Len(inbox) >= 1 /\ 1 <= Len(inbox)
    <3>1. 1 <= Len(inbox)
      BY <1>1, <2>1, Taken, Zenon
    <3> QED BY <1>4, <3>1, Zenon
  <2>3. buf[1] = inbox[1]
    <3>1. 1 \in 1 .. Needed
      BY <2>1
    <3> QED BY <2>2, <3>1, Zenon
  <2>4. Len(read) < Len(script) /\ readSentinel(inbox[1]) = InStep
    BY <1>1, <1>6, <2>2, SentinelAhead, Zenon
  <2>5. values = <<>> /\ (Len(read) = 0 => asked[1] # "WhatToDo")
    BY <1>6, Zenon DEF WireInv, InvField
  <2>6. "field" # "sentinel" /\ "body" # "sentinel" /\ "field" # "body" /\ Len(<<>>) = 0
    BY Zenon
  <2>7. Len(read) + 1 \in 1 .. Len(script) /\ Len(read) + 1 \in 1 .. Len(asked)
    <3>1. Len(asked) \in Nat
      BY PlaceFacts, Zenon
    <3> QED BY <1>1, <1>4, <2>4, <3>1
  <2>8. IsMessage(m)
    BY <1>4, <2>7, ScriptFacts, Zenon DEF Current
  <2>9. Place = end
    <3>1. Offset(Current, reading, Len(values)) = 0
      BY <1>6, Zenon DEF Offset
    <3>2. Place = end + 0
      BY <3>1, Zenon DEF Place
    <3> HIDE DEF end
    <3> QED BY <1>4, <3>2
  <2>10. CASE ~readSentinel(buf[1])
    <3>1. /\ failed' = TRUE /\ read' = read /\ values' = values /\ reading' = reading
          /\ length' = length
      BY <1>2, <1>6, <2>6, <2>10, Zenon
    <3>2. InvField' /\ InStep' = InStep
      BY <1>1, <3>1, SameReader, Zenon
    <3>3. ~InStep
      BY <2>3, <2>4, <2>10, Zenon
    <3>4. InvRead'
      BY <1>1, <3>1, Zenon DEF WireInv, InvRead
    <3>5. InvBytes'
      <4>1. inbox' \in Seq(Byte)
        BY <1>1, <2>1, Taken, Zenon
      <4> QED BY <1>1, <3>1, <4>1, Zenon DEF WireInv, InvBytes
    <3>6. InvPlace' /\ InvFailed'
      BY <3>1, <3>2, <3>3, Zenon DEF InvPlace, InvFailed
    <3> QED BY <1>3, <3>2, <3>4, <3>5, <3>6, Zenon DEF WireInv
  <2>11. CASE readSentinel(buf[1])
    <3>1. /\ IF Layout(Kind) = <<>>
             THEN read' = Append(read, Message(Kind, <<>>)) /\ reading' = reading
             ELSE reading' = "field" /\ read' = read
          /\ failed' = failed /\ values' = values /\ length' = length
      BY <1>2, <1>6, <2>6, <2>11, Zenon
    <3>2. InStep /\ Kind = m.kind
      BY <2>3, <2>4, <2>11, Zenon DEF InStep, Current
    <3>3. m.kind # "WhatToDo"
      <4>1. /\ \A i \in 1 .. Len(asked) : asked[i] = "WhatToDo" => i = 1
        BY Zenon DEF WireInv, InvScript
      <4>2. Len(read) + 1 = 1 => Len(read) = 0
        BY <1>4
      <4>3. Kind # "WhatToDo"
        BY <2>5, <2>7, <4>1, <4>2, Zenon DEF Kind
      <4> QED BY <3>2, <4>3, Zenon
    <3>4. Len(EncodeFields(m)[0]) = 1
      BY <2>8, <3>3, FirstByte, Zenon
    <3>5. Len(Layout(m.kind)) \in Nat /\ Layout(m.kind) \in Seq(FieldTypes)
      BY <2>8, ValuesFacts, LayoutFacts, Zenon
    <3>6. CASE Layout(Kind) = <<>>
      <4>1. m.values = <<>>
        <5>1. m.values = [i \in 1 .. Len(Layout(m.kind)) |-> m.values[i]]
          BY <2>8, ValuesFacts, Zenon
        <5>2. Len(Layout(m.kind)) = 0
          BY <2>6, <3>2, <3>6, Zenon
        <5>3. m.values = [i \in 1 .. 0 |-> m.values[i]]
          BY <5>1, <5>2, Zenon
        <5> DEFINE v == m.values
        <5>4. v = [i \in 1 .. 0 |-> v[i]]
          BY <5>3, Zenon
        <5>5. v = <<>>
          <6> HIDE DEF v
          <6> QED BY ONLY <5>4
        <5> QED BY <5>5, Zenon
      <4>2. m = Message(Kind, <<>>)
        <5>1. m = Message(m.kind, m.values)
          BY <2>8, ValuesFacts, Zenon
        <5> QED BY <3>2, <4>1, <5>1, Zenon
      <4>3. read' = Append(read, Current) /\ values' = <<>> /\ reading' = "sentinel"
        BY <1>6, <2>5, <3>1, <3>6, <4>2, Zenon
      <4>4. Len(Encode(m)) = 1
        <5>1. Encode(m) = EncodeFields(m)[Len(Layout(m.kind))]
          BY <2>8, MessageFacts, Zenon
        <5> QED BY <2>6, <3>2, <3>4, <3>6, <5>1, Zenon
      <4>5. Place + Needed = Len(Stream(script)[Len(read)]) + Len(Encode(Current))
        BY <2>1, <2>9, <4>4, Zenon
      <4>6. Place + Needed <= Len(Stream(script)[written])
        BY <1>1, <2>1, Taken, Zenon
      <4>7. InvRead' /\ InvField' /\ Place' = Place + Needed
        BY <1>1, <2>1, <2>4, <4>3, <4>5, <4>6, Completed, Zenon
      <4> QED BY <1>5, <2>1, <3>1, <4>7, Zenon
    <3>7. CASE Layout(Kind) # <<>>
      <4>1. reading' = "field" /\ read' = read /\ values' = values
        BY <3>1, <3>7, Zenon
      <4>2. Current' = Current /\ Kind' = Kind /\ InStep' = InStep
        BY <1>1, <4>1, Zenon DEF Current, Kind, InStep
      <4>3. 0 < Len(Layout(Kind))
        <5> DEFINE L == Layout(Kind)
        <5>1. L \in Seq(FieldTypes) /\ L # <<>>
          BY <3>2, <3>5, <3>7, Zenon
        <5> HIDE DEF L
        <5>2. 0 < Len(L)
          BY ONLY <5>1
        <5> QED BY <5>2, Zenon DEF L
      <4>4. InvRead'
        BY <1>1, <4>1, Zenon DEF WireInv, InvRead
      <4>5. InvField'
        <5>1. values' = <<>> /\ Len(values') = 0 /\ Len(values') < Len(Layout(Kind'))
          BY <2>5, <2>6, <4>1, <4>2, <4>3, Zenon
        <5>2. values' \in Seq(Nat \cup Seq(Byte))
          BY ONLY <5>1
        <5>3. \A i \in 1 .. Len(values') : values'[i] = Current'.values[i]
          <6>1. 1 .. 0 = {}
            OBVIOUS
          <6> QED BY <5>1, <6>1, Zenon
        <5>4. reading' # "sentinel" /\ reading' # "body" /\ reading' \in {"sentinel", "field", "body"}
          BY ONLY <4>1, Zenon
        <5>5. InStep' /\ Len(read') < Len(asked')
          BY <1>1, <3>2, <4>1, <4>2, Zenon
        <5> QED BY <5>1, <5>2, <5>3, <5>4, <5>5, Zenon DEF InvField
      <4>6. Place' = Place + Needed
        <5>1. Place' = end + Offset(m, "field", 0)
          BY <1>1, <2>5, <2>6, <4>1, <4>2, Zenon DEF Place
        <5>2. Offset(m, "field", 0) = 1 + 0
          BY <2>6, <3>4, Zenon DEF Offset
        <5>3. 1 + 0 = 1
          OBVIOUS
        <5> QED BY <2>1, <2>9, <5>1, <5>2, <5>3, Zenon
      <4> QED BY <1>5, <2>1, <3>1, <4>4, <4>5, <4>6, Zenon
    <3> QED BY <3>6, <3>7, Zenon
  <2> QED BY <2>10, <2>11, Zenon
<1>7. CASE reading # "sentinel"
  <2> DEFINE want == Wanted(m, k, reading)
             type == FieldType(m, k)
             v == m.values[k]
  <2>1. /\ Len(read) < Len(script) /\ IsMessage(m) /\ Kind = m.kind
        /\ k \in 1 .. Len(Layout(m.kind)) /\ Field = type
        /\ reading \in {"field", "body"} /\ (reading = "body" => type = "bytes")
        /\ Needed = Len(want) /\ Len(want) \in Nat
    BY <1>7, FieldAhead, Zenon
  <2>2. buf = want
    BY <1>1, <1>7, Received, Zenon
  <2>3. Needed \in Nat
    BY <2>1, Zenon
  <2>4. "field" # "sentinel" /\ "body" # "sentinel" /\ "field" # "body" /\ "int" # "bytes"
    BY Zenon
  <2>5. CASE reading = "field" /\ type = "bytes"
    <3>1. /\ length' = Uint32(want) /\ reading' = "body"
          /\ failed' = failed /\ read' = read /\ values' = values
      BY <1>2, <1>7, <2>1, <2>2, <2>4, <2>5, Zenon
    <3>2. Uint32(want) = Len(v) /\ Len(want) = Size(type)
      <4>1. Recovered(reading, type, v, want) /\ (reading = "field" => Len(want) = Size(type))
        BY <2>1, WantedFacts, Zenon
      <4> QED BY <2>5, <4>1, Zenon DEF Recovered
    <3>3. Needed = Width
      <4>1. Size("bytes") = Width
        BY Zenon DEF Size
      <4> QED BY <2>1, <2>5, <3>2, <4>1, Zenon
    <3>4. Current' = Current /\ Kind' = Kind /\ InStep' = InStep /\ Field' = Field
      BY <1>1, <3>1, Zenon DEF Current, Kind, InStep, Field
    <3>5. InvRead'
      BY <1>1, <3>1, Zenon DEF WireInv, InvRead
    <3>6. InvField'
      <4>1. length' = Len(Current'.values[Len(values') + 1]) /\ Field' = "bytes"
        BY <2>1, <2>5, <3>1, <3>2, <3>4, Zenon
      <4>2. reading' # "sentinel" /\ reading' \in {"sentinel", "field", "body"}
        BY ONLY <3>1, Zenon
      <4> QED BY <1>1, <1>7, <3>1, <3>4, <4>1, <4>2, Zenon DEF WireInv, InvField
    <3>7. Place' = Place + Needed
      <4> DEFINE before == Len(EncodeFields(m)[Len(values)])
      <4>1. Place = end + (before + 0) /\ Place' = end + (before + Width)
        BY <1>1, <2>4, <2>5, <3>1, <3>4, Zenon DEF Place, Offset
      <4>2. before \in Nat
        <5>1. Len(values) \in 0 .. Len(Layout(m.kind))
          BY <1>4, <2>1
        <5> QED BY <2>1, <5>1, MessageFacts, Zenon
      <4> HIDE DEF before, end
      <4> QED BY <1>4, <3>3, <4>1, <4>2, Constants
    <3> QED BY <1>5, <2>3, <3>1, <3>5, <3>6, <3>7, Zenon
  <2>6. CASE reading = "body" \/ type # "bytes"
    <3>1. Got(IF Field = "int" THEN Uint32(buf) ELSE buf) /\ failed' = failed
      BY <1>2, <1>7, <2>1, <2>4, <2>6, Zenon
    <3>2. /\ type = "int" => Uint32(want) = v
          /\ type \notin {"int", "bytes"} => want = v
          /\ reading = "body" => want = v
      <4>1. Recovered(reading, type, v, want)
        BY <2>1, WantedFacts, Zenon
      <4> QED BY <4>1, Zenon DEF Recovered
    <3>3. (IF Field = "int" THEN Uint32(buf) ELSE buf) = v
      BY <2>1, <2>2, <2>4, <2>6, <3>2, Zenon
    <3>4. Got(Current.values[Len(values) + 1])
      BY <3>1, <3>3, Zenon
    <3>5. InvRead' /\ InvField' /\ Place' = Place + Needed
      BY <1>1, <1>7, <2>1, <2>6, <3>4, GotKeeps, Zenon
    <3> QED BY <1>5, <2>3, <3>1, <3>5, Zenon
  <2> QED BY <2>1, <2>5, <2>6, Zenon
<1> QED BY <1>6, <1>7, Zenon

(***************************************************************************)
(* 9. The theorems.                                                        *)
(***************************************************************************)
\* Init, and every step of the writer, the network and the reader, keep WireInv.
LEMMA WireInvHolds == Spec => []WireInv
<1>1. WireInv /\ [Next]_vars => WireInv'
  <2> SUFFICES ASSUME WireInv, [Next]_vars
               PROVE  WireInv'
    BY Zenon
  <2>1. CASE Write
    BY <2>1, WriteKeeps, Zenon
  <2>2. CASE Close
    BY <2>2, CloseKeeps, Zenon
  <2>3. CASE Break
    BY <2>3, BreakKeeps, Zenon
  <2>4. CASE Deliver
    BY <2>4, DeliverKeeps, Zenon
  <2>5. CASE ReadFull
    BY <2>5, ReadFullKeeps, Zenon
  <2>6. CASE ReadFails
    BY <2>6, ReadFailsKeeps, Zenon
  <2>7. CASE UNCHANGED vars
    <3>1. /\ cut' = cut /\ written' = written /\ wire' = wire /\ inbox' = inbox
          /\ script' = script /\ asked' = asked /\ failed' = failed /\ read' = read
          /\ values' = values /\ reading' = reading /\ length' = length
      BY <2>7, Zenon DEF vars
    <3>2. /\ InvScript' /\ InvField' /\ Place' = Place /\ Current' = Current
          /\ InStep' = InStep
      BY <3>1, SameReader, Zenon
    <3>3. InvBytes' /\ InvRead'
      BY <3>1, Zenon DEF WireInv, InvBytes, InvRead
    <3>4. InvPlace' /\ InvFailed'
      BY <3>1, <3>2, Zenon DEF WireInv, InvPlace, InvFailed
    <3> QED BY <3>2, <3>3, <3>4, Zenon DEF WireInv
  <2> QED BY <2>1, <2>2, <2>3, <2>4, <2>5, <2>6, <2>7, Zenon DEF Next, Done
<1> QED BY <1>1, WireInvInit, PTL DEF Spec

\* What ReadHeader, ReadChunkResponse and the other Read functions return is what
\* was given to SendHeader, SendChunkResponse and the others, in their order,
\* however the bytes arrive and wherever the stream ends.
THEOREM ReadAsWrittenTheorem == Spec => []ReadAsWritten
BY WireInvImplies, WireInvHolds, PTL

\* A Read function fails on a message of its own kind only when the end of the
\* message has not arrived: it never runs out of step with the Send function.
THEOREM FailsOnlyWhenCutTheorem == Spec => []FailsOnlyWhenCut
BY WireInvImplies, WireInvHolds, PTL
=============================================================================
