------------------------- MODULE PrimeServiceProofs -------------------------
(***************************************************************************)
(* Proofs about the prime number service, for any numbers, queues, buffer  *)
(* and bound on the primes: its types, and that a user who waits for each  *)
(* answer sees the right primes as long as the buffer has held no longer   *)
(* string.  The last needs what sprintf and atoi do to each other, for     *)
(* every number.                                                           *)
(***************************************************************************)
EXTENDS PrimeService, SequenceTheorems, WellFoundedInduction, TLAPS

(* A non-empty set of naturals has a least element, and a set that has a   *)
(* number when it has all smaller ones has all.                            *)
LEMMA Least ==
    ASSUME NEW T \in SUBSET Nat, T # {}
    PROVE  \E i \in T : \A j \in T : i <= j
<1> DEFINE R == {ss \in Nat \X Nat : ss[1] < ss[2]}
<1>1. OpToRel(<, Nat) = R
    BY Zenon DEF OpToRel
<1>2. IsWellFoundedOn(R, Nat)
    BY <1>1, NatLessThanWellFounded, Zenon
<1> HIDE DEF R
<1>3. \E i \in T : \A j \in T : ~ (<<j, i>> \in R)
    BY <1>2, WFMin
<1>4. ASSUME NEW i \in T, NEW j \in T, <<j, i>> \notin R
      PROVE  i <= j
  <2>1. i \in Nat /\ j \in Nat
    OBVIOUS
  <2>2. ~ (j < i)
    BY <2>1, <1>4 DEF R
  <2>3. QED
    BY <2>1, <2>2
<1>5. QED
    BY <1>3, <1>4

LEMMA AllNumbers ==
    ASSUME NEW T, \A n \in Nat : (\A k \in 0..(n - 1) : k \in T) => n \in T
    PROVE  \A n \in Nat : n \in T
<1>1. ASSUME NEW m \in Nat, m \notin T
      PROVE  FALSE
  <2> DEFINE U == {n \in Nat : n \notin T}
  <2>1. U \in SUBSET Nat /\ U # {}
    BY <1>1
  <2>2. PICK i \in U : \A j \in U : i <= j
    <3> HIDE DEF U
    <3>1. QED
      BY <2>1, Least
  <2>3. i \in Nat /\ i \notin T
    OBVIOUS
  <2>4. \A k \in 0..(i - 1) : k \in T
    <3>1. ASSUME NEW k \in 0..(i - 1), k \notin T
          PROVE  FALSE
      <4>1. k \in U /\ ~ (i <= k)
        BY <2>3, <3>1
      <4>2. QED
        BY <2>2, <4>1
    <3>2. QED
      BY <3>1
  <2>5. QED
    BY <2>3, <2>4
<1>2. QED
    BY <1>1
-----------------------------------------------------------------------------
(* Digits is what its definition says: there is a function that satisfies  *)
(* the recursion.  f is one up to m.                                       *)
Tenth(n) == n \div 10

Rest(n) == n % 10

LEMMA TenthRest ==
    ASSUME NEW n \in Nat
    PROVE  /\ Tenth(n) \in Nat /\ Rest(n) \in 0..9 /\ n = 10 * Tenth(n) + Rest(n)
           /\ n >= 10 => Tenth(n) \in 0..(n - 1)
BY DEF Tenth, Rest

Spelled(f, n) == IF n < 10 THEN <<n>> ELSE Append(f[Tenth(n)], Rest(n))

Spells(f, m) == f = [k \in 0..m |-> Spelled(f, k)]

LEMMA SpellsSame ==
    ASSUME NEW f, NEW g, NEW a \in Nat, NEW b \in Nat, Spells(f, a), Spells(g, b)
    PROVE  \A k \in Nat : k <= a /\ k <= b => f[k] = g[k]
<1> DEFINE T == {k \in Nat : k <= a /\ k <= b => f[k] = g[k]}
<1>1. ASSUME NEW n \in Nat, \A k \in 0..(n - 1) : k \in T
      PROVE  n \in T
  <2>1. SUFFICES ASSUME n <= a, n <= b PROVE f[n] = g[n]
    OBVIOUS
  <2>2. n \in 0..a /\ n \in 0..b
    BY <2>1
  <2>3. f[n] = Spelled(f, n) /\ g[n] = Spelled(g, n)
    BY <2>2 DEF Spells
  <2>4. CASE n < 10
    BY <2>3, <2>4 DEF Spelled
  <2>5. CASE ~ (n < 10)
    <3>1. Tenth(n) \in 0..(n - 1)
      BY <2>5, TenthRest
    <3>2. Tenth(n) \in T /\ Tenth(n) <= a /\ Tenth(n) <= b
      BY <1>1, <2>1, <3>1
    <3>3. f[Tenth(n)] = g[Tenth(n)]
      BY <3>2
    <3>4. QED
      BY <2>3, <2>5, <3>3 DEF Spelled
  <2>6. QED
    BY <2>4, <2>5
<1>2. \A n \in Nat : n \in T
  <2> HIDE DEF T
  <2>1. QED
    BY <1>1, AllNumbers
<1>3. QED
    BY <1>2

LEMMA SpellsUpTo ==
    \A m \in Nat : \E f : Spells(f, m)
<1> DEFINE T == {m \in Nat : \E f : Spells(f, m)}
<1>1. ASSUME NEW n \in Nat, \A k \in 0..(n - 1) : k \in T
      PROVE  n \in T
  <2>1. CASE n = 0
    <3>1. PICK f : f = [k \in 0..0 |-> <<k>>]
      OBVIOUS
    <3>2. Spells(f, 0)
      BY <3>1 DEF Spells, Spelled
    <3>3. QED
      BY <2>1, <3>2
  <2>2. CASE n # 0
    <3>1. n - 1 \in 0..(n - 1) /\ n - 1 \in Nat
      BY <2>2
    <3>2. PICK f : Spells(f, n - 1)
      BY <1>1, <3>1
    <3>3. PICK g : g = [k \in 0..n |-> IF k = n THEN Spelled(f, n) ELSE f[k]]
      OBVIOUS
    <3>4. \A k \in 0..(n - 1) : g[k] = f[k]
      BY <3>3
    <3>5. ASSUME NEW k \in 0..n
          PROVE  g[k] = Spelled(g, k)
      <4>1. Spelled(g, k) = Spelled(f, k)
        <5>1. CASE k < 10
          BY <5>1 DEF Spelled
        <5>2. CASE ~ (k < 10)
          <6>1. Tenth(k) \in 0..(n - 1)
            BY <5>2, TenthRest
          <6>2. QED
            BY <3>4, <5>2, <6>1 DEF Spelled
        <5>3. QED
          BY <5>1, <5>2
      <4>2. CASE k = n
        BY <3>3, <4>1, <4>2
      <4>3. CASE k # n
        <5>1. k \in 0..(n - 1)
          BY <4>3
        <5>2. f[k] = Spelled(f, k)
          BY <3>2, <5>1 DEF Spells
        <5>3. QED
          BY <3>4, <4>1, <5>1, <5>2
      <4>4. QED
        BY <4>2, <4>3
    <3>6. g = [k \in 0..n |-> Spelled(g, k)]
      BY <3>3, <3>5
    <3>7. Spells(g, n)
      BY <3>6 DEF Spells
    <3>8. QED
      BY <3>7
  <2>3. QED
    BY <2>1, <2>2
<1>2. \A n \in Nat : n \in T
  <2> HIDE DEF T
  <2>1. QED
    BY <1>1, AllNumbers
<1>3. QED
    BY <1>2

LEMMA DigitsDefined ==
    \A n \in Nat : Digits[n] = Spelled(Digits, n)
<1> DEFINE s == [m \in Nat |-> CHOOSE f : Spells(f, m)]
           d == [m \in Nat |-> s[m][m]]
<1>1. \A m \in Nat : Spells(s[m], m)
    BY SpellsUpTo
<1>2. ASSUME NEW n \in Nat
      PROVE  d[n] = Spelled(d, n)
  <2>1. s[n][n] = Spelled(s[n], n)
    <3>1. n \in 0..n
      OBVIOUS
    <3>2. PICK f : f = s[n]
      OBVIOUS
    <3>3. f = [k \in 0..n |-> Spelled(f, k)]
      BY <1>1, <3>2 DEF Spells
    <3>4. f[n] = Spelled(f, n)
      BY <3>1, <3>3
    <3>5. QED
      BY <3>2, <3>4
  <2>2. CASE n < 10
    BY <2>1, <2>2 DEF Spelled
  <2>3. CASE ~ (n < 10)
    <3>1. PICK t \in Nat : t = Tenth(n) /\ t <= n
      BY <2>3, TenthRest
    <3>2. s[n][t] = s[t][t]
      <4> HIDE DEF s
      <4>1. QED
        BY <1>1, <3>1, SpellsSame
    <3>3. d[t] = s[n][t] /\ d[n] = s[n][n]
      BY <3>2
    <3>4. QED
      <4> HIDE DEF d, s
      <4>1. QED
        BY <2>1, <2>3, <3>1, <3>3 DEF Spelled
  <2>4. QED
    BY <2>2, <2>3
<1>3. d = [n \in Nat |-> Spelled(d, n)]
    BY <1>2
<1>4. \E f : f = [n \in Nat |-> IF n < 10 THEN <<n>> ELSE Append(f[n \div 10], n % 10)]
  <2> HIDE DEF d
  <2>1. d = [n \in Nat |-> IF n < 10 THEN <<n>> ELSE Append(d[n \div 10], n % 10)]
    BY <1>3 DEF Spelled, Tenth, Rest
  <2>2. QED
    BY <2>1
<1>5. Digits = [n \in Nat |-> IF n < 10 THEN <<n>> ELSE Append(Digits[n \div 10], n % 10)]
    BY <1>4 DEF Digits
<1>6. QED
    BY <1>5 DEF Spelled, Tenth, Rest

LEMMA DigitsType ==
    \A n \in Nat : Digits[n] \in Seq(0..9) /\ Len(Digits[n]) \in Nat \ {0}
<1> DEFINE T == {n \in Nat : Digits[n] \in Seq(0..9) /\ Len(Digits[n]) \in Nat \ {0}}
<1>1. ASSUME NEW n \in Nat, \A k \in 0..(n - 1) : k \in T
      PROVE  n \in T
  <2>1. CASE n < 10
    <3>1. Digits[n] = <<n>>
      BY <2>1, DigitsDefined DEF Spelled
    <3>2. n \in 0..9
      BY <2>1
    <3>3. <<n>> \in Seq(0..9) /\ Len(<<n>>) \in Nat \ {0}
      BY <3>2
    <3>4. Digits[n] \in Seq(0..9) /\ Len(Digits[n]) \in Nat \ {0}
      BY <3>1, <3>3
    <3>5. QED
      BY <3>4
  <2>2. CASE ~ (n < 10)
    <3>1. Tenth(n) \in 0..(n - 1) /\ Rest(n) \in 0..9
      BY <2>2, TenthRest
    <3>2. Tenth(n) \in T
      <4> HIDE DEF T
      <4>1. QED
        BY <1>1, <3>1
    <3>3. Digits[n] = Append(Digits[Tenth(n)], Rest(n))
      BY <2>2, DigitsDefined DEF Spelled
    <3>4. PICK s \in Seq(0..9), d \in 0..9 :
              s = Digits[Tenth(n)] /\ d = Rest(n) /\ Len(s) \in Nat \ {0}
      BY <3>1, <3>2
    <3>5. Append(s, d) \in Seq(0..9) /\ Len(Append(s, d)) = Len(s) + 1
      BY AppendProperties
    <3>6. Digits[n] = Append(s, d)
      BY <3>3, <3>4
    <3>7. Len(Append(s, d)) \in Nat \ {0}
      BY <3>4, <3>5
    <3>8. QED
      BY <3>5, <3>6, <3>7
  <2>3. QED
    BY <2>1, <2>2
<1>2. \A n \in Nat : n \in T
  <2> HIDE DEF T
  <2>1. QED
    BY <1>1, AllNumbers
<1>3. QED
    BY <1>2
-----------------------------------------------------------------------------
(* atoi's loop over s, for m characters.                                   *)
Summed(f, s, i) == IF i = 0 THEN 0 ELSE 10 * f[i - 1] + s[i]

Sums(f, s, m) == f = [i \in 0..m |-> Summed(f, s, i)]

LEMMA SumsUpTo ==
    ASSUME NEW s
    PROVE  \A m \in Nat : \E f : Sums(f, s, m)
<1> DEFINE T == {m \in Nat : \E f : Sums(f, s, m)}
<1>1. ASSUME NEW n \in Nat, \A k \in 0..(n - 1) : k \in T
      PROVE  n \in T
  <2>1. CASE n = 0
    <3>1. PICK f : f = [k \in 0..0 |-> 0]
      OBVIOUS
    <3>2. Sums(f, s, 0)
      BY <3>1 DEF Sums, Summed
    <3>3. QED
      BY <2>1, <3>2
  <2>2. CASE n # 0
    <3>1. n - 1 \in 0..(n - 1) /\ n - 1 \in Nat
      BY <2>2
    <3>2. PICK f : Sums(f, s, n - 1)
      BY <1>1, <3>1
    <3>3. PICK g : g = [k \in 0..n |-> IF k = n THEN Summed(f, s, n) ELSE f[k]]
      OBVIOUS
    <3>4. \A k \in 0..(n - 1) : g[k] = f[k]
      BY <3>3
    <3>5. ASSUME NEW k \in 0..n
          PROVE  g[k] = Summed(g, s, k)
      <4>1. Summed(g, s, k) = Summed(f, s, k)
        <5>1. CASE k = 0
          BY <5>1 DEF Summed
        <5>2. CASE k # 0
          <6>1. k - 1 \in 0..(n - 1)
            BY <5>2
          <6>2. g[k - 1] = f[k - 1]
            BY <3>4, <6>1
          <6>3. QED
            BY <5>2, <6>2 DEF Summed
        <5>3. QED
          BY <5>1, <5>2
      <4>2. CASE k = n
        BY <3>3, <4>1, <4>2
      <4>3. CASE k # n
        <5>1. k \in 0..(n - 1)
          BY <4>3
        <5>2. f[k] = Summed(f, s, k)
          BY <3>2, <5>1 DEF Sums
        <5>3. QED
          BY <3>4, <4>1, <5>1, <5>2
      <4>4. QED
        BY <4>2, <4>3
    <3>6. g = [k \in 0..n |-> Summed(g, s, k)]
      BY <3>3, <3>5
    <3>7. Sums(g, s, n)
      BY <3>6 DEF Sums
    <3>8. QED
      BY <3>7
  <2>3. QED
    BY <2>1, <2>2
<1>2. \A n \in Nat : n \in T
  <2> HIDE DEF T
  <2>1. QED
    BY <1>1, AllNumbers
<1>3. QED
    BY <1>2

LEMMA NumberSums ==
    ASSUME NEW s, Len(s) \in Nat
    PROVE  \E f : Sums(f, s, Len(s)) /\ Number(s) = f[Len(s)]
<1> DEFINE value == CHOOSE f : f = [i \in 0..Len(s) |-> IF i = 0 THEN 0 ELSE 10 * f[i - 1] + s[i]]
<1>1. \E f : f = [i \in 0..Len(s) |-> IF i = 0 THEN 0 ELSE 10 * f[i - 1] + s[i]]
    BY SumsUpTo DEF Sums, Summed
<1>2. value = [i \in 0..Len(s) |-> IF i = 0 THEN 0 ELSE 10 * value[i - 1] + s[i]]
    BY <1>1
<1>3. Number(s) = value[Len(s)]
    BY DEF Number
<1> HIDE DEF value
<1>4. Sums(value, s, Len(s))
    BY <1>2 DEF Sums, Summed
<1>5. QED
    BY <1>3, <1>4

LEMMA SumsType ==
    ASSUME NEW s \in Seq(Nat), NEW f, Sums(f, s, Len(s))
    PROVE  f[Len(s)] \in Nat
<1>1. PICK l \in Nat : l = Len(s)
    BY LenProperties
<1> DEFINE T == {n \in Nat : n <= l => f[n] \in Nat}
<1>2. ASSUME NEW n \in Nat, \A k \in 0..(n - 1) : k \in T
      PROVE  n \in T
  <2>1. SUFFICES ASSUME n <= l PROVE f[n] \in Nat
    OBVIOUS
  <2>2. f[n] = Summed(f, s, n)
    BY <1>1, <2>1 DEF Sums
  <2>3. CASE n = 0
    BY <2>2, <2>3 DEF Summed
  <2>4. CASE n # 0
    <3>1. n - 1 \in T /\ n - 1 <= l /\ n \in 1..l
      BY <1>2, <2>1, <2>4
    <3>2. f[n - 1] \in Nat /\ s[n] \in Nat
      BY <1>1, <3>1, ElementOfSeq
    <3>3. QED
      BY <2>2, <2>4, <3>2 DEF Summed
  <2>5. QED
    BY <2>3, <2>4
<1>3. \A n \in Nat : n \in T
  <2> HIDE DEF T
  <2>1. QED
    BY <1>2, AllNumbers
<1>4. QED
    BY <1>1, <1>3

LEMMA NumberType ==
    ASSUME NEW s \in Seq(Nat)
    PROVE  Number(s) \in Nat
<1>1. Len(s) \in Nat
    BY LenProperties
<1>2. QED
    BY <1>1, NumberSums, SumsType

(* atoi undoes sprintf.                                                    *)
LEMMA NumberOfDigits ==
    \A n \in Nat : Number(Digits[n]) = n
<1> DEFINE T == {n \in Nat : \A f : Sums(f, Digits[n], Len(Digits[n])) => f[Len(Digits[n])] = n}
<1>1. ASSUME NEW n \in Nat, \A k \in 0..(n - 1) : k \in T
      PROVE  n \in T
  <2>1. SUFFICES ASSUME NEW f, Sums(f, Digits[n], Len(Digits[n]))
                 PROVE  f[Len(Digits[n])] = n
    OBVIOUS
  <2>2. CASE n < 10
    <3>1. Digits[n] = <<n>>
      BY <2>2, DigitsDefined DEF Spelled
    <3>2. Len(<<n>>) = 1 /\ <<n>>[1] = n
      OBVIOUS
    <3>3. Sums(f, <<n>>, 1)
      BY <2>1, <3>1, <3>2
    <3>4. f[1] = Summed(f, <<n>>, 1) /\ f[0] = Summed(f, <<n>>, 0)
      BY <3>3 DEF Sums
    <3>5. f[0] = 0
      BY <3>4 DEF Summed
    <3>6. f[1] = 10 * f[1 - 1] + n
      BY <3>2, <3>4 DEF Summed
    <3>7. f[1] = n
      BY <3>5, <3>6
    <3>8. QED
      BY <3>1, <3>2, <3>7
  <2>3. CASE ~ (n < 10)
    <3>1. PICK t \in Nat, d \in 0..9 : t = Tenth(n) /\ d = Rest(n) /\ n = 10 * t + d /\ t \in T
      <4>1. Tenth(n) \in 0..(n - 1) /\ Tenth(n) \in Nat /\ Rest(n) \in 0..9
            /\ n = 10 * Tenth(n) + Rest(n)
        BY <2>3, TenthRest
      <4>2. Tenth(n) \in T
        <5> HIDE DEF T
        <5>1. QED
          BY <1>1, <4>1
      <4>3. QED
        <5> HIDE DEF T
        <5>1. QED
          BY <4>1, <4>2
    <3>2. PICK s \in Seq(0..9), l \in Nat : s = Digits[t] /\ l = Len(s)
      BY DigitsType
    <3>3. Digits[n] = Append(s, d)
      BY <2>3, <3>1, <3>2, DigitsDefined DEF Spelled
    <3>4. PICK u \in Seq(0..9) : /\ u = Digits[n] /\ Len(u) = l + 1 /\ u[l + 1] = d
                                 /\ \A i \in 1..l : u[i] = s[i]
      <4>1. /\ Append(s, d) \in Seq(0..9) /\ Len(Append(s, d)) = l + 1
            /\ Append(s, d)[l + 1] = d /\ \A i \in 1..l : Append(s, d)[i] = s[i]
        BY <3>2, AppendProperties
      <4>2. QED
        BY <3>3, <4>1
    <3>5. \A i \in 0..(l + 1) : f[i] = Summed(f, u, i)
      BY <2>1, <3>4 DEF Sums
    <3>6. PICK g : g = [i \in 0..l |-> f[i]]
      OBVIOUS
    <3>7. ASSUME NEW i \in 0..l
          PROVE  g[i] = Summed(g, s, i)
      <4>1. g[i] = f[i] /\ f[i] = Summed(f, u, i)
        BY <3>5, <3>6
      <4>2. CASE i = 0
        BY <4>1, <4>2 DEF Summed
      <4>3. CASE i # 0
        <5>1. i - 1 \in 0..l /\ i \in 1..l
          BY <4>3
        <5>2. g[i - 1] = f[i - 1] /\ u[i] = s[i]
          BY <3>4, <3>6, <5>1
        <5>3. QED
          BY <4>1, <4>3, <5>2 DEF Summed
      <4>4. QED
        BY <4>2, <4>3
    <3>8. Sums(g, s, l)
      BY <3>6, <3>7 DEF Sums
    <3>9. f[l] = t
      <4>1. g[l] = t
        BY <3>1, <3>2, <3>8
      <4>2. QED
        BY <3>6, <4>1
    <3>10. f[l + 1] = 10 * f[l] + d
      <4>1. l + 1 \in 0..(l + 1) /\ l + 1 # 0 /\ (l + 1) - 1 = l
        OBVIOUS
      <4>2. f[l + 1] = Summed(f, u, l + 1)
        BY <3>5, <4>1
      <4>3. Summed(f, u, l + 1) = 10 * f[l] + u[l + 1]
        BY <4>1 DEF Summed
      <4>4. QED
        BY <3>4, <4>2, <4>3
    <3>11. QED
      BY <3>1, <3>4, <3>9, <3>10
  <2>4. QED
    BY <2>2, <2>3
<1>2. \A n \in Nat : n \in T
  <2> HIDE DEF T
  <2>1. QED
    BY <1>1, AllNumbers
<1>3. ASSUME NEW n \in Nat
      PROVE  Number(Digits[n]) = n
  <2>1. Len(Digits[n]) \in Nat
    BY DigitsType
  <2>2. PICK f : Sums(f, Digits[n], Len(Digits[n])) /\ Number(Digits[n]) = f[Len(Digits[n])]
    BY <2>1, NumberSums
  <2>3. QED
    BY <1>2, <2>2
<1>4. QED
    BY <1>3
-----------------------------------------------------------------------------
(* Buffers.                                                                *)
Buffer == [1..Width -> Bytes]

EndsAt(b, k) == (\A i \in 1..k : b[i] # Nul) /\ (k < Width => b[k + 1] = Nul)

LEMMA TextEnds ==
    ASSUME NEW b \in Buffer
    PROVE  TextLength(b) \in 0..Width /\ EndsAt(b, TextLength(b))
<1>1. \E k \in 0..Width : EndsAt(b, k)
  <2> DEFINE T == {i \in 1..Width : b[i] = Nul}
  <2>1. CASE T = {}
    <3>1. EndsAt(b, Width) /\ Width \in 0..Width
      BY <2>1, PrimeAssumption DEF EndsAt
    <3>2. QED
      BY <3>1
  <2>2. CASE T # {}
    <3>1. T \in SUBSET Nat
      BY PrimeAssumption
    <3>2. PICK i \in T : \A j \in T : i <= j
      <4> HIDE DEF T
      <4>1. QED
        BY <2>2, <3>1, Least
    <3>3. i \in 1..Width /\ b[i] = Nul
      OBVIOUS
    <3>4. \A j \in 1..(i - 1) : b[j] # Nul
      <4>1. ASSUME NEW j \in 1..(i - 1), b[j] = Nul
            PROVE  FALSE
        <5>1. j \in T /\ ~ (i <= j)
          BY <3>3, <4>1, PrimeAssumption
        <5>2. QED
          BY <3>2, <5>1
      <4>2. QED
        BY <4>1
    <3>5. EndsAt(b, i - 1) /\ i - 1 \in 0..Width
      BY <3>3, <3>4, PrimeAssumption DEF EndsAt
    <3>6. QED
      BY <3>5
  <2>3. QED
    BY <2>1, <2>2
<1>2. TextLength(b) = CHOOSE k \in 0..Width : EndsAt(b, k)
    BY DEF TextLength, EndsAt
<1>3. QED
    BY <1>1, <1>2

LEMMA TextLengthIs ==
    ASSUME NEW b \in Buffer, NEW k \in 0..Width, EndsAt(b, k)
    PROVE  TextLength(b) = k
<1>1. PICK l \in 0..Width : l = TextLength(b) /\ EndsAt(b, l)
    BY TextEnds
<1>2. l = k
    BY <1>1, PrimeAssumption DEF EndsAt
<1>3. QED
    BY <1>1, <1>2

LEMMA BufferIsSeq ==
    ASSUME NEW b \in Buffer
    PROVE  b \in Seq(Bytes) /\ Len(b) = Width
BY PrimeAssumption DEF Buffer, Bytes, Nul

LEMMA AtoiType ==
    ASSUME NEW b \in Buffer
    PROVE  Atoi(b) \in Nat
<1>1. PICK k \in 0..Width : k = TextLength(b)
    BY TextEnds
<1>2. b \in Seq(Bytes) /\ Len(b) = Width
    BY BufferIsSeq
<1>3. SubSeq(b, 1, k) \in Seq(Bytes)
  <2>1. \A i \in 1..k : b[i] \in Bytes
    BY <1>1, PrimeAssumption DEF Buffer
  <2>2. QED
    BY <1>1, <2>1, PrimeAssumption
<1>4. SubSeq(b, 1, k) \in Seq(Nat)
    BY <1>3 DEF Bytes, Nul
<1>5. QED
    BY <1>1, <1>4, NumberType DEF Atoi

(* b holds n: its digits, and the end of the string.                       *)
Size(n) == Len(Digits[n])

Holds(b, n) ==
    /\ b \in Buffer /\ n \in Nat /\ Size(n) < Width
    /\ \A i \in 1..Size(n) : b[i] = Digits[n][i]
    /\ b[Size(n) + 1] = Nul

LEMMA HoldsNumber ==
    ASSUME NEW b, NEW n, Holds(b, n)
    PROVE  Atoi(b) = n
<1>1. PICK s \in Seq(0..9), l \in Nat : s = Digits[n] /\ l = Len(s)
    BY DigitsType DEF Holds
<1>2. /\ b \in Buffer /\ n \in Nat /\ l < Width /\ b[l + 1] = Nul
      /\ \A i \in 1..l : b[i] = s[i]
    BY <1>1 DEF Holds, Size
<1>3. \A i \in 1..l : s[i] \in 0..9
    BY <1>1, ElementOfSeq
<1>4. EndsAt(b, l) /\ l \in 0..Width
    BY <1>2, <1>3, PrimeAssumption DEF EndsAt, Nul
<1>5. TextLength(b) = l
    BY <1>2, <1>4, TextLengthIs
<1>6. SubSeq(b, 1, l) = s
    BY <1>1, <1>2, PrimeAssumption
<1>7. QED
    BY <1>1, <1>2, <1>5, <1>6, NumberOfDigits DEF Atoi

LEMMA OverwriteType ==
    ASSUME NEW b \in Buffer, NEW s \in Seq(Bytes)
    PROVE  Overwrite(b, s) \in Buffer
<1>1. PICK l \in Nat : l = Len(s)
    BY LenProperties
<1>2. ASSUME NEW i \in 1..Width, i <= l PROVE s[i] \in Bytes
    BY <1>1, <1>2, PrimeAssumption, ElementOfSeq
<1>3. QED
    BY <1>1, <1>2 DEF Overwrite, Buffer

LEMMA DigitsAreBytes ==
    ASSUME NEW n \in Nat
    PROVE  Digits[n] \in Seq(Bytes) /\ Size(n) \in Nat \ {0}
<1>1. PICK s \in Seq(0..9) : s = Digits[n] /\ Len(s) \in Nat \ {0}
    BY DigitsType
<1>2. s \in Seq(Bytes)
    BY DEF Bytes, Nul
<1>3. QED
    BY <1>1, <1>2 DEF Size

(* What sprintf leaves in the buffer.                                      *)
LEMMA PrintedType ==
    ASSUME NEW b \in Buffer, NEW n \in Nat
    PROVE  Printed(b, n) \in Buffer
<1>1. Digits[n] \in Seq(Bytes)
    BY DigitsAreBytes
<1>2. Nul \in Bytes
    BY DEF Bytes, Nul
<1>3. Append(Digits[n], Nul) \in Seq(Bytes)
    BY <1>1, <1>2, AppendProperties
<1>4. QED
    BY <1>3, OverwriteType DEF Printed

LEMMA PrintedHolds ==
    ASSUME NEW b \in Buffer, NEW n \in Nat, Size(n) < Width
    PROVE  /\ Holds(Printed(b, n), n)
           /\ \A j \in 1..Width : Printed(b, n)[j] # Nul => j <= Size(n) \/ b[j] # Nul
<1>1. PICK s \in Seq(Bytes), l \in Nat : s = Digits[n] /\ l = Len(s)
    BY DigitsAreBytes DEF Size
<1>2. PICK u : u = Append(s, Nul) /\ Len(u) = l + 1 /\ u[l + 1] = Nul /\ \A i \in 1..l : u[i] = s[i]
  <2>1. Nul \in Bytes
    BY DEF Bytes, Nul
  <2>2. /\ Len(Append(s, Nul)) = l + 1 /\ Append(s, Nul)[l + 1] = Nul
        /\ \A i \in 1..l : Append(s, Nul)[i] = s[i]
    BY <1>1, <2>1, AppendProperties
  <2>3. QED
    BY <2>2
<1>3. Printed(b, n) = [i \in 1..Width |-> IF i <= l + 1 THEN u[i] ELSE b[i]]
    BY <1>1, <1>2 DEF Printed, Overwrite
<1>4. l < Width /\ Size(n) = l
    BY <1>1 DEF Size
<1>5. \A j \in 1..Width : Printed(b, n)[j] # Nul => j <= l \/ b[j] # Nul
    BY <1>2, <1>3
<1>6. Printed(b, n)[l + 1] = Nul /\ \A i \in 1..l : Printed(b, n)[i] = s[i]
    BY <1>2, <1>3, <1>4, PrimeAssumption
<1>7. QED
    BY <1>1, <1>4, <1>5, <1>6, PrintedType DEF Holds

(* A received string is ended by what was there before.                    *)
LEMMA ReceivedHolds ==
    ASSUME NEW b \in Buffer, NEW n \in Nat, Size(n) < Width
    PROVE  /\ Received(b, Digits[n]) \in Buffer
           /\ b[Size(n) + 1] = Nul => Holds(Received(b, Digits[n]), n)
           /\ \A j \in 1..Width : Received(b, Digits[n])[j] # Nul => j <= Size(n) \/ b[j] # Nul
<1>1. PICK s \in Seq(Bytes), l \in Nat : s = Digits[n] /\ l = Len(s)
    BY DigitsAreBytes DEF Size
<1>2. Received(b, s) = [i \in 1..Width |-> IF i <= l THEN s[i] ELSE b[i]]
    BY <1>1 DEF Received, Overwrite
<1>3. l < Width /\ Size(n) = l
    BY <1>1 DEF Size
<1>4. Received(b, s) \in Buffer
    BY OverwriteType DEF Received
<1>5. \A j \in 1..Width : Received(b, s)[j] # Nul => j <= l \/ b[j] # Nul
    BY <1>2
<1>6. Received(b, s)[l + 1] = b[l + 1] /\ \A i \in 1..l : Received(b, s)[i] = s[i]
    BY <1>2, <1>3, PrimeAssumption
<1>7. QED
    BY <1>1, <1>3, <1>4, <1>5, <1>6 DEF Holds
-----------------------------------------------------------------------------
(* Types. *)
LEMMA PrimeType ==
    ASSUME NEW n, \E p \in Primes : Rank[p] = n
    PROVE  ComputePrime(n) \in Primes /\ ComputePrime(n) \in Nat
<1>1. ComputePrime(n) \in Primes
    BY DEF ComputePrime
<1>2. Primes \subseteq Nat
    BY PrimeAssumption DEF Primes
<1>3. QED
    BY <1>1, <1>2

LEMMA TypeInit == Init => TypeOK
<1>1. SUFFICES ASSUME Init PROVE TypeOK
    OBVIOUS
<1>2. message \in Buffer
    BY <1>1 DEF Init, Buffer, Bytes, Nul
<1>3. Capacity \in Nat
    BY PrimeAssumption
<1>4. /\ <<>> \in Seq(Seq(Bytes)) /\ <<>> \in Seq(Nat) /\ Len(<<>>) <= Capacity
    BY <1>3
<1>5. QED
    BY <1>1, <1>2, <1>4 DEF Init, TypeOK, Buffer

LEMMA TypeNext == TypeOK /\ [Next]_vars => TypeOK'
<1>1. SUFFICES ASSUME TypeOK, [Next]_vars PROVE TypeOK'
    OBVIOUS
<1>2. message \in Buffer /\ message \in Seq(Bytes)
    BY <1>1, BufferIsSeq DEF TypeOK, Buffer
<1>3. CASE Type
  <2>1. PICK n \in Numbers : /\ prompt' = [at |-> "send", n |-> n]
                             /\ message' = Printed(message, n)
                             /\ typed' = Append(typed, n)
    BY <1>3 DEF Type
  <2>2. n \in Nat
    BY PrimeAssumption
  <2>3. message' \in Buffer
    BY <1>2, <2>1, <2>2, PrintedType
  <2>4. typed' \in Seq(Nat)
    BY <1>1, <2>1, <2>2 DEF TypeOK
  <2>5. hasty' \in BOOLEAN
    BY <1>3, Zenon DEF Type
  <2>6. QED
    BY <1>1, <1>3, <2>1, <2>2, <2>3, <2>4, <2>5 DEF TypeOK, Type, Buffer
<1>4. CASE SendRequest
  <2>1. requests' \in Seq(Seq(Bytes)) /\ Len(requests') <= Capacity
    BY <1>1, <1>2, <1>4, PrimeAssumption DEF SendRequest, TypeOK
  <2>2. prompt' \in [at : {"prompt", "send", "stop", "exit"}, n : Nat]
    BY <1>1, <1>4 DEF SendRequest, TypeOK
  <2>3. QED
    BY <1>1, <1>4, <2>1, <2>2 DEF SendRequest, TypeOK, user
<1>5. CASE Stop
    BY <1>1, <1>5 DEF Stop, TypeOK, user
<1>6. CASE Poll
    BY <1>1, <1>6 DEF Poll, TypeOK, user
<1>7. CASE ReceiveAnswer
  <2>1. Head(answers) \in Seq(Bytes) /\ answers' \in Seq(Seq(Bytes)) /\ Len(answers') <= Capacity
    BY <1>1, <1>7, PrimeAssumption DEF ReceiveAnswer, TypeOK
  <2>2. message' \in Buffer
    BY <1>2, <1>7, <2>1, OverwriteType DEF ReceiveAnswer, Received
  <2>3. QED
    BY <1>1, <1>7, <2>1, <2>2 DEF ReceiveAnswer, TypeOK, Buffer, user
<1>8. CASE Show
  <2>1. shown' \in Seq(Nat)
    BY <1>1, <1>2, <1>8, AtoiType DEF Show, TypeOK
  <2>2. QED
    BY <1>1, <1>8, <2>1 DEF Show, TypeOK
<1>9. CASE Check
    BY <1>1, <1>9 DEF Check, TypeOK, user
<1>10. CASE Compute
  <2>1. requests' \in Seq(Seq(Bytes)) /\ Len(requests') <= Capacity
    BY <1>1, <1>10, PrimeAssumption DEF Compute, TypeOK
  <2>2. PICK n : n = Atoi(Head(requests))
    OBVIOUS
  <2>3. server' \in [at : {"receive", "send", "gone"}, prime : Nat]
    <3>1. CASE server' = [server EXCEPT !.at = "gone"]
      BY <1>1, <3>1 DEF TypeOK
    <3>2. CASE /\ \E p \in Primes : Rank[p] = n
               /\ server' = [at |-> "send", prime |-> ComputePrime(n)]
      BY <3>2, PrimeType
    <3>3. QED
      BY <1>10, <2>2, <3>1, <3>2 DEF Compute
  <2>4. QED
    BY <1>1, <1>10, <2>1, <2>3 DEF Compute, TypeOK, user
<1>11. CASE SendAnswer
  <2>1. server.prime \in Nat
    BY <1>1 DEF TypeOK
  <2>2. Digits[server.prime] \in Seq(Bytes)
    BY <2>1, DigitsAreBytes
  <2>3. answers' \in Seq(Seq(Bytes)) /\ Len(answers') <= Capacity
    BY <1>1, <1>11, <2>2, PrimeAssumption DEF SendAnswer, TypeOK
  <2>4. server' \in [at : {"receive", "send", "gone"}, prime : Nat]
    BY <1>1, <1>11 DEF SendAnswer, TypeOK
  <2>5. QED
    BY <1>1, <1>11, <2>3, <2>4 DEF SendAnswer, TypeOK, user
<1>12. CASE UNCHANGED vars
    BY <1>1, <1>12 DEF TypeOK, vars
<1>13. QED
    BY <1>1, <1>3, <1>4, <1>5, <1>6, <1>7, <1>8, <1>9, <1>10, <1>11, <1>12
    DEF Next, PromptThread, PrintThread, ServerLoop

(* The queues, the buffer, both threads and the server stay well typed,    *)
(* whatever the threads do to each other's strings.                        *)
THEOREM TypeCorrect == Spec => []TypeOK
BY TypeInit, TypeNext, PTL DEF Spec
-----------------------------------------------------------------------------
(* A user who waits for each answer.  Every string is shorter than the     *)
(* buffer.                                                                 *)
Fits == /\ \A n \in Numbers : Size(n) < Width
        /\ \A p \in Primes : Size(p) < Width

(* A number goes through the two threads, the server and the queues, and   *)
(* is nowhere but in one of them.                                          *)
NoRequest == prompt.at # "send" /\ requests = <<>>
NoTurn    == server.at # "send"
NoAnswer  == answers = <<>> /\ print \notin {"receive", "show"}

Waiting == NoRequest /\ NoTurn /\ NoAnswer

Asking(n) == prompt.at = "send" /\ Holds(message, n) /\ requests = <<>> /\ NoTurn /\ NoAnswer

Asked(n) ==
    /\ prompt.at # "send" /\ NoTurn /\ NoAnswer
    /\ \E m \in Buffer : requests = <<m>> /\ Holds(m, n)

Computed(n) ==
    /\ NoRequest /\ NoAnswer
    /\ server.at = "send" /\ server.prime = ComputePrime(n) /\ ComputePrime(n) \in Primes

Answered(n) ==
    /\ NoRequest /\ NoTurn /\ print # "show"
    /\ answers = <<Digits[ComputePrime(n)]>> /\ ComputePrime(n) \in Primes

(* The first r answers; and no longer string before or with answer i.      *)
Known(t, r) == \A i \in 1..r : ComputePrime(t[i]) \in Primes

Longest(t, i) ==
    /\ \A j \in 1..i : Size(t[j]) <= Size(ComputePrime(t[i]))
    /\ \A j \in 1..i - 1 : Size(ComputePrime(t[j])) <= Size(ComputePrime(t[i]))

Printing ==
    /\ NoRequest /\ NoTurn /\ answers = <<>> /\ print = "show"
    /\ Longest(typed, Len(typed)) => Holds(message, ComputePrime(typed[Len(typed)]))

Turn ==
    \/ Len(shown) = Len(typed) /\ Waiting
    \/ /\ Len(typed) = Len(shown) + 1
       /\ \/ Asking(typed[Len(typed)])
          \/ Asked(typed[Len(typed)])
          \/ Computed(typed[Len(typed)])
          \/ Answered(typed[Len(typed)])
          \/ Printing
          \/ Waiting /\ server.at = "gone"

(* Bytes of the buffer that are not blank were reached by some string: of  *)
(* the numbers typed, or of the first r answers.                           *)
Reached(t, r, j) ==
    \/ \E i \in 1..Len(t) : j <= Size(t[i])
    \/ \E i \in 1..r : j <= Size(ComputePrime(t[i]))

Blank(b, t, r) == \A j \in 1..Width : b[j] # Nul => Reached(t, r, j)

Right(t, s) == \A i \in 1..Len(s) : Longest(t, i) => s[i] = ComputePrime(t[i])

(* Answers that print has received. *)
Got == Len(shown) + IF print = "show" THEN 1 ELSE 0

Patient ==
    /\ Turn /\ Len(shown) <= Len(typed)
    /\ Known(typed, Got) /\ Blank(message, typed, Got) /\ Right(typed, shown)

IInv == TypeOK /\ (~ hasty => Patient)
-----------------------------------------------------------------------------
(* What has been typed before does not depend on what is typed next.       *)
LEMMA TypeMore ==
    ASSUME NEW t \in Seq(Nat), NEW n \in Nat, NEW r \in Nat, r <= Len(t)
    PROVE  /\ Append(t, n) \in Seq(Nat)
           /\ Len(Append(t, n)) = Len(t) + 1 /\ Append(t, n)[Len(t) + 1] = n
           /\ Known(t, r) => Known(Append(t, n), r)
           /\ \A j \in 1..Width : j <= Size(n) \/ Reached(t, r, j) => Reached(Append(t, n), r, j)
           /\ \A i \in 1..Len(t) : Longest(Append(t, n), i) <=> Longest(t, i)
<1>1. PICK k \in Nat : k = Len(t)
    BY LenProperties
<1>2. PICK u : /\ u = Append(t, n) /\ u \in Seq(Nat) /\ Len(u) = k + 1 /\ u[k + 1] = n
               /\ \A i \in 1..k : u[i] = t[i]
  <2>1. /\ Append(t, n) \in Seq(Nat) /\ Len(Append(t, n)) = k + 1
        /\ Append(t, n)[k + 1] = n /\ \A i \in 1..k : Append(t, n)[i] = t[i]
    BY <1>1, AppendProperties
  <2>2. QED
    BY <2>1
<1>3. Known(t, r) => Known(u, r)
    BY <1>1, <1>2 DEF Known
<1>4. ASSUME NEW j \in 1..Width, j <= Size(n) \/ Reached(t, r, j) PROVE Reached(u, r, j)
  <2>1. CASE j <= Size(n)
    <3>1. k + 1 \in 1..Len(u) /\ j <= Size(u[k + 1])
      BY <1>2, <2>1
    <3>2. QED
      BY <3>1 DEF Reached
  <2>2. CASE \E i \in 1..Len(t) : j <= Size(t[i])
    <3>1. PICK i \in 1..k : j <= Size(t[i])
      BY <1>1, <2>2
    <3>2. i \in 1..Len(u) /\ j <= Size(u[i])
      BY <1>2, <3>1
    <3>3. QED
      BY <3>2 DEF Reached
  <2>3. CASE \E i \in 1..r : j <= Size(ComputePrime(t[i]))
    <3>1. PICK i \in 1..r : j <= Size(ComputePrime(t[i]))
      BY <2>3
    <3>2. u[i] = t[i]
      BY <1>1, <1>2
    <3>3. QED
      BY <3>1, <3>2 DEF Reached
  <2>4. QED
    BY <1>4, <2>1, <2>2, <2>3 DEF Reached
<1>5. ASSUME NEW i \in 1..k PROVE Longest(u, i) <=> Longest(t, i)
  <2>1. /\ \A j \in 1..i : u[j] = t[j]
        /\ \A j \in 1..i - 1 : u[j] = t[j]
    BY <1>2
  <2>2. u[i] = t[i]
    BY <1>2
  <2>3. QED
    BY <2>1, <2>2 DEF Longest
<1>6. QED
    BY <1>1, <1>2, <1>3, <1>4, <1>5

LEMMA RightMore ==
    ASSUME NEW t \in Seq(Nat), NEW n \in Nat, NEW s \in Seq(Nat), Len(s) <= Len(t), Right(t, s)
    PROVE  Right(Append(t, n), s)
<1>1. PICK k \in Nat, l \in Nat : k = Len(t) /\ l = Len(s) /\ l <= k
    BY LenProperties
<1>2. \A i \in 1..k : Append(t, n)[i] = t[i]
    BY <1>1, AppendProperties
<1>3. \A i \in 1..k : Longest(Append(t, n), i) <=> Longest(t, i)
    BY <1>1, TypeMore
<1>4. \A i \in 1..l : i \in 1..k
    BY <1>1
<1>5. QED
    BY <1>1, <1>2, <1>3, <1>4 DEF Right

(* A byte that a string longer than all others reaches is no byte of       *)
(* theirs.                                                                 *)
LEMMA BlankAfter ==
    ASSUME NEW t \in Seq(Nat), NEW k \in Nat \ {0}, k = Len(t), NEW b,
           Known(t, k - 1), ComputePrime(t[k]) \in Primes,
           Size(ComputePrime(t[k])) < Width, Blank(b, t, k - 1), Longest(t, k)
    PROVE  b[Size(ComputePrime(t[k])) + 1] = Nul
<1>1. Primes \subseteq Nat
    BY PrimeAssumption DEF Primes
<1>2. PICK l \in Nat : l = Size(ComputePrime(t[k]))
    BY <1>1, DigitsAreBytes
<1>3. l + 1 \in 1..Width
    BY <1>2, PrimeAssumption
<1>4. ASSUME Reached(t, k - 1, l + 1)
      PROVE  FALSE
  <2>1. CASE \E i \in 1..Len(t) : l + 1 <= Size(t[i])
    <3>1. PICK i \in 1..k : l + 1 <= Size(t[i])
      BY <2>1
    <3>2. PICK z \in Nat : z = Size(t[i])
      <4>1. t[i] \in Nat
        BY ElementOfSeq
      <4>2. QED
        BY <4>1, DigitsAreBytes
    <3>3. z <= l
      BY <1>2, <3>2 DEF Longest
    <3>4. QED
      BY <3>1, <3>2, <3>3
  <2>2. CASE \E i \in 1..k - 1 : l + 1 <= Size(ComputePrime(t[i]))
    <3>1. PICK i \in 1..k - 1 : l + 1 <= Size(ComputePrime(t[i]))
      BY <2>2
    <3>2. PICK z \in Nat : z = Size(ComputePrime(t[i]))
      BY <1>1, <3>1, DigitsAreBytes DEF Known
    <3>3. z <= l
      BY <1>2, <3>2 DEF Longest
    <3>4. QED
      BY <3>1, <3>2, <3>3
  <2>3. QED
    BY <1>4, <2>1, <2>2 DEF Reached
<1>5. QED
    BY <1>2, <1>3, <1>4 DEF Blank

LEMMA KnownMore ==
    ASSUME NEW t, NEW r \in Nat, Known(t, r), ComputePrime(t[r + 1]) \in Primes
    PROVE  Known(t, r + 1)
BY DEF Known

LEMMA ReachedMore ==
    ASSUME NEW t, NEW r \in Nat, NEW j \in Nat,
           Reached(t, r, j) \/ j <= Size(ComputePrime(t[r + 1]))
    PROVE  Reached(t, r + 1, j)
<1>1. r + 1 \in 1..r + 1 /\ \A i \in 1..r : i \in 1..r + 1
    OBVIOUS
<1>2. QED
    BY <1>1 DEF Reached

LEMMA RightShown ==
    ASSUME NEW t, NEW s \in Seq(Nat), NEW v \in Nat, Right(t, s),
           Longest(t, Len(s) + 1) => v = ComputePrime(t[Len(s) + 1])
    PROVE  Right(t, Append(s, v))
<1>1. PICK l \in Nat : l = Len(s)
    BY LenProperties
<1>2. /\ Len(Append(s, v)) = l + 1 /\ Append(s, v)[l + 1] = v
      /\ \A i \in 1..l : Append(s, v)[i] = s[i]
    BY <1>1, AppendProperties
<1>3. \A i \in 1..l + 1 : i \in 1..l \/ i = l + 1
    BY <1>1
<1>4. QED
    BY <1>1, <1>2, <1>3 DEF Right
-----------------------------------------------------------------------------
LEMMA PatientInit == Init => Patient
<1>1. SUFFICES ASSUME Init PROVE Patient
    OBVIOUS
<1>2. Len(typed) = 0 /\ Len(shown) = 0 /\ Got = 0
    BY <1>1 DEF Init, Got
<1>3. Turn
    BY <1>1 DEF Init, Turn, Waiting, NoRequest, NoTurn, NoAnswer
<1>4. Blank(message, typed, Got)
    BY <1>1 DEF Init, Blank
<1>5. QED
    BY <1>2, <1>3, <1>4 DEF Patient, Known, Right

(* A step that neither types, receives nor shows leaves all but the turn.  *)
LEMMA TurnOnly ==
    ASSUME Patient, Turn', UNCHANGED <<message, typed, shown>>, (print' = "show") <=> (print = "show")
    PROVE  Patient'
<1>1. Got' = Got
    BY DEF Got
<1>2. Known(typed, Got)' /\ Blank(message, typed, Got)' /\ Right(typed, shown)'
    BY <1>1 DEF Patient
<1>3. QED
    BY <1>2 DEF Patient

LEMMA TypePatient ==
    ASSUME TypeOK, Fits, ~ hasty => Patient, Type, ~ hasty'
    PROVE  Patient'
<1>1. PICK n \in Numbers : /\ prompt' = [at |-> "send", n |-> n]
                           /\ message' = Printed(message, n)
                           /\ typed' = Append(typed, n)
    BY DEF Type
<1>2. n \in Nat /\ Size(n) < Width
    BY PrimeAssumption DEF Fits
<1>3. Patient /\ Len(shown) = Len(typed)
    BY Zenon DEF Type
<1>4. PICK k \in Nat : k = Len(typed) /\ k = Len(shown)
    BY <1>3, LenProperties DEF TypeOK
<1>5. Waiting
    BY <1>3, <1>4 DEF Patient, Turn
<1>6. Got = k /\ Got' = k
    BY <1>4, <1>5 DEF Got, Waiting, NoAnswer, Type
<1>7. /\ Known(typed, k) => Known(typed', k)
      /\ \A j \in 1..Width : j <= Size(n) \/ Reached(typed, k, j) => Reached(typed', k, j)
      /\ Len(typed') = k + 1 /\ typed'[k + 1] = n
  <2>1. PICK t \in Seq(Nat) : t = typed
    BY DEF TypeOK
  <2>2. Len(t) = k
    BY <1>4, <2>1, Zenon
  <2>3. k <= Len(t)
    BY <2>2
  <2>4. /\ Known(t, k) => Known(Append(t, n), k)
        /\ \A j \in 1..Width : j <= Size(n) \/ Reached(t, k, j) => Reached(Append(t, n), k, j)
        /\ Len(Append(t, n)) = Len(t) + 1 /\ Append(t, n)[Len(t) + 1] = n
    BY <1>2, <2>3, TypeMore
  <2>5. QED
    BY <1>1, <2>1, <2>2, <2>4
<1>8. Known(typed, k) /\ Blank(message, typed, k) /\ Right(typed, shown)
    BY <1>3, <1>6 DEF Patient
<1>9. message \in Buffer
    BY DEF TypeOK, Buffer
<1>10. /\ Holds(message', n)
       /\ \A j \in 1..Width : message'[j] # Nul => j <= Size(n) \/ message[j] # Nul
    BY <1>1, <1>2, <1>9, PrintedHolds
<1>11. Blank(message', typed', k)
    BY <1>7, <1>8, <1>10 DEF Blank
<1>12. Right(typed', shown')
  <2>1. PICK t \in Seq(Nat), s \in Seq(Nat) : t = typed /\ s = shown
    BY DEF TypeOK
  <2>2. Right(t, s)
    BY <1>8, <2>1, Zenon
  <2>3. Len(s) = k /\ Len(t) = k
    BY <1>4, <2>1, Zenon
  <2>4. Len(s) <= Len(t)
    BY <2>3
  <2>5. Right(Append(t, n), s)
    BY <1>2, <2>2, <2>4, RightMore
  <2>6. QED
    BY <1>1, <2>1, <2>5 DEF Type
<1>13. Asking(n)'
    BY <1>1, <1>5, <1>10 DEF Asking, Waiting, NoRequest, NoTurn, NoAnswer, Type
<1>14. Len(shown') = k
    BY <1>4 DEF Type
<1>15. Turn'
  <2>1. Len(typed') = Len(shown') + 1
    BY <1>7, <1>14
  <2>2. Asking(typed[Len(typed)])'
    BY <1>7, <1>13
  <2>3. QED
    BY <2>1, <2>2 DEF Turn
<1>16. Len(shown') <= Len(typed')
    BY <1>7, <1>14
<1>17. QED
    BY <1>6, <1>7, <1>8, <1>11, <1>12, <1>15, <1>16 DEF Patient

LEMMA SendPatient ==
    ASSUME TypeOK, Patient, SendRequest
    PROVE  Patient'
<1>1. Len(typed) = Len(shown) + 1 /\ Asking(typed[Len(typed)])
    BY DEF Patient, Turn, SendRequest, Waiting, NoRequest, Asked, Computed, Answered, Printing
<1>2. message \in Buffer /\ requests' = <<message>>
    BY <1>1 DEF SendRequest, Asking, Holds
<1>3. prompt'.at # "send"
    BY DEF SendRequest, TypeOK
<1>4. Asked(typed[Len(typed)])'
    BY <1>1, <1>2, <1>3 DEF Asking, Asked, SendRequest, NoTurn, NoAnswer, user
<1>5. Turn'
    BY <1>1, <1>4 DEF Turn, SendRequest, user
<1>6. QED
    BY <1>5, TurnOnly DEF SendRequest, user

LEMMA StopPatient ==
    ASSUME TypeOK, Patient, Stop
    PROVE  Patient'
<1>1. prompt'.at # "send" /\ prompt.at # "send"
    BY DEF Stop, TypeOK
<1>2. Turn'
    BY <1>1 DEF Patient, Turn, Stop, Waiting, NoRequest, NoTurn, NoAnswer, Asking, Asked, Computed, Answered, Printing, user
<1>3. QED
    BY <1>2, TurnOnly DEF Stop, user

LEMMA PollPatient ==
    ASSUME TypeOK, Patient, Poll
    PROVE  Patient'
<1>1. print' # "show" /\ print # "show" /\ (answers = <<>> => print' = "check")
    BY DEF Poll
<1>2. Turn'
    BY <1>1 DEF Patient, Turn, Poll, Waiting, NoRequest, NoTurn, NoAnswer, Asking, Asked, Computed, Answered, Printing, user
<1>3. QED
    BY <1>1, <1>2, TurnOnly DEF Poll, user

LEMMA CheckPatient ==
    ASSUME TypeOK, Patient, Check
    PROVE  Patient'
<1>1. print' \notin {"show", "receive"} /\ print = "check"
    BY DEF Check
<1>2. Turn'
    BY <1>1 DEF Patient, Turn, Check, Waiting, NoRequest, NoTurn, NoAnswer, Asking, Asked, Computed, Answered, Printing, user
<1>3. QED
    BY <1>1, <1>2, TurnOnly DEF Check, user

LEMMA ReceivePatient ==
    ASSUME TypeOK, Fits, Patient, ReceiveAnswer
    PROVE  Patient'
<1>1. Len(typed) = Len(shown) + 1 /\ Answered(typed[Len(typed)])
    BY DEF Patient, Turn, ReceiveAnswer, Waiting, NoRequest, NoAnswer, Asking, Asked, Computed, Printing
<1>2. PICK l \in Nat : l = Len(shown) /\ Len(typed) = l + 1
    BY <1>1, LenProperties DEF TypeOK
<1>3. PICK v \in Primes : v = ComputePrime(typed[l + 1]) /\ answers = <<Digits[v]>>
    BY <1>1, <1>2 DEF Answered
<1>4. v \in Nat /\ Size(v) < Width
    BY PrimeAssumption DEF Fits, Primes
<1>5. message' = Received(message, Digits[v]) /\ answers' = <<>> /\ print' = "show"
    BY <1>3 DEF ReceiveAnswer
<1>6. Got = l /\ Got' = l + 1
    BY <1>2, <1>5 DEF Got, ReceiveAnswer, user
<1>7. Known(typed, l) /\ Blank(message, typed, l) /\ Right(typed, shown)
    BY <1>6 DEF Patient
<1>8. message \in Buffer
    BY DEF TypeOK, Buffer
<1>9. /\ message[Size(v) + 1] = Nul => Holds(message', v)
      /\ \A j \in 1..Width : message'[j] # Nul => j <= Size(v) \/ message[j] # Nul
    BY <1>4, <1>5, <1>8, ReceivedHolds
<1>10. Longest(typed, l + 1) => Holds(message', v)
  <2>1. l + 1 \in Nat \ {0} /\ (l + 1) - 1 = l
    OBVIOUS
  <2>2. ASSUME Longest(typed, l + 1) PROVE message[Size(v) + 1] = Nul
    BY <1>2, <1>3, <1>4, <1>7, <2>1, <2>2, BlankAfter DEF TypeOK
  <2>3. QED
    BY <1>9, <2>2
<1>11. Printing'
    BY <1>1, <1>2, <1>3, <1>5, <1>10
    DEF Printing, Answered, ReceiveAnswer, NoRequest, NoTurn, user
<1>12. Turn'
    BY <1>1, <1>11 DEF Turn, ReceiveAnswer, user
<1>13. Known(typed, l + 1)
    BY <1>3, <1>7, KnownMore
<1>14. Blank(message', typed, l + 1)
  <2>1. \A j \in 1..Width : message'[j] # Nul => j <= Size(v) \/ Reached(typed, l, j)
    BY <1>7, <1>9 DEF Blank
  <2>2. \A j \in 1..Width : j <= Size(v) \/ Reached(typed, l, j) => Reached(typed, l + 1, j)
    BY <1>3, ReachedMore, PrimeAssumption
  <2>3. QED
    BY <2>1, <2>2 DEF Blank
<1>15. UNCHANGED <<typed, shown>> /\ Len(shown) <= Len(typed)
    BY DEF ReceiveAnswer, user, Patient
<1>16. QED
    BY <1>6, <1>7, <1>12, <1>13, <1>14, <1>15 DEF Patient

LEMMA ShowPatient ==
    ASSUME TypeOK, Patient, Show
    PROVE  Patient'
<1>1. Len(typed) = Len(shown) + 1 /\ Printing
    BY DEF Patient, Turn, Show, Waiting, NoAnswer, Asking, Asked, Computed, Answered
<1>2. PICK l \in Nat : l = Len(shown) /\ Len(typed) = l + 1
    BY <1>1, LenProperties DEF TypeOK
<1>3. PICK v \in Nat : v = Atoi(message) /\ shown' = Append(shown, v)
    BY AtoiType DEF TypeOK, Buffer, Show
<1>4. print' = "check" /\ print = "show"
    BY DEF Show
<1>5. Len(shown') = l + 1
    BY <1>2, <1>3, AppendProperties DEF TypeOK
<1>6. Got = l + 1 /\ Got' = l + 1
    BY <1>2, <1>4, <1>5 DEF Got
<1>7. Longest(typed, l + 1) => v = ComputePrime(typed[l + 1])
    BY <1>1, <1>2, <1>3, HoldsNumber DEF Printing
<1>8. Right(typed, shown')
    BY <1>2, <1>3, <1>7, RightShown DEF TypeOK, Patient
<1>9. UNCHANGED <<message, typed>>
    BY DEF Show
<1>10. Waiting'
    BY <1>1, <1>4 DEF Printing, Waiting, NoRequest, NoTurn, NoAnswer, Show
<1>11. Turn' /\ Len(shown') <= Len(typed')
    BY <1>2, <1>5, <1>9, <1>10 DEF Turn
<1>12. QED
    BY <1>6, <1>8, <1>9, <1>11 DEF Patient

LEMMA ComputePatient ==
    ASSUME TypeOK, Patient, Compute
    PROVE  Patient'
<1>1. Len(typed) = Len(shown) + 1 /\ Asked(typed[Len(typed)])
    BY DEF Patient, Turn, Compute, Waiting, NoRequest, Asking, Computed, Answered, Printing
<1>2. PICK n : n = typed[Len(typed)]
    OBVIOUS
<1>3. PICK m \in Buffer : requests = <<m>> /\ Holds(m, n)
    BY <1>1, <1>2 DEF Asked
<1>4. Atoi(Head(requests)) = n /\ requests' = <<>>
    BY <1>3, HoldsNumber DEF Compute
<1>5. UNCHANGED <<answers, message, stopPrinting, prompt, print, typed, shown>>
    BY DEF Compute, user
<1>6. Computed(n)' \/ (Waiting' /\ server'.at = "gone")
  <2>1. CASE server' = [server EXCEPT !.at = "gone"]
    <3>1. server'.at = "gone"
      BY <2>1 DEF TypeOK
    <3>2. QED
      BY <1>1, <1>4, <1>5, <3>1 DEF Asked, Waiting, NoRequest, NoTurn, NoAnswer
  <2>2. CASE /\ \E p \in Primes : Rank[p] = n
             /\ server' = [at |-> "send", prime |-> ComputePrime(n)]
    <3>1. ComputePrime(n) \in Primes
      BY <2>2, PrimeType
    <3>2. QED
      BY <1>1, <1>4, <1>5, <2>2, <3>1 DEF Asked, Computed, NoRequest, NoTurn, NoAnswer
  <2>3. QED
    BY <1>4, <2>1, <2>2 DEF Compute
<1>7. Turn'
    BY <1>1, <1>2, <1>5, <1>6 DEF Turn
<1>8. QED
    BY <1>5, <1>7, TurnOnly

LEMMA AnswerPatient ==
    ASSUME TypeOK, Patient, SendAnswer
    PROVE  Patient'
<1>1. Len(typed) = Len(shown) + 1 /\ Computed(typed[Len(typed)])
    BY DEF Patient, Turn, SendAnswer, Waiting, NoTurn, Asking, Asked, Answered, Printing
<1>2. answers' = <<Digits[server.prime]>> /\ server'.at # "send"
    BY <1>1 DEF SendAnswer, Computed, NoAnswer, TypeOK
<1>3. UNCHANGED <<requests, message, stopPrinting, prompt, print, typed, shown>>
    BY DEF SendAnswer, user
<1>4. Answered(typed[Len(typed)])'
    BY <1>1, <1>2, <1>3 DEF Computed, Answered, NoRequest, NoTurn, NoAnswer
<1>5. Turn'
    BY <1>1, <1>3, <1>4 DEF Turn
<1>6. QED
    BY <1>3, <1>5, TurnOnly

LEMMA PatientNext ==
    ASSUME Fits
    PROVE  IInv /\ [Next]_vars => IInv'
<1>1. SUFFICES ASSUME IInv, [Next]_vars, ~ hasty' PROVE Patient'
    BY TypeNext DEF IInv
<1>2. TypeOK /\ (~ hasty => Patient)
    BY <1>1 DEF IInv
<1>3. CASE Type
    BY <1>1, <1>2, <1>3, TypePatient
<1>4. ASSUME ~ Type PROVE Patient
  <2>1. hasty' = hasty
    BY <1>1, <1>4 DEF Next, PromptThread, PrintThread, ServerLoop, SendRequest, Stop, Poll,
        ReceiveAnswer, Show, Check, Compute, SendAnswer, user, vars
  <2>2. QED
    BY <1>1, <1>2, <2>1
<1>5. CASE UNCHANGED vars
  <2>1. Patient
    BY <1>1, <1>2, <1>5 DEF vars
  <2>2. UNCHANGED <<message, typed, shown, print>>
    BY <1>5 DEF vars
  <2>3. Turn'
    BY <1>5, <2>1 DEF vars, Patient, Turn, Waiting, NoRequest, NoTurn, NoAnswer, Asking, Asked,
        Computed, Answered, Printing
  <2>4. QED
    BY <2>1, <2>2, <2>3, TurnOnly
<1>6. CASE ~ Type /\ Next
    BY <1>2, <1>4, <1>6, SendPatient, StopPatient, PollPatient, ReceivePatient, ShowPatient,
       CheckPatient, ComputePatient, AnswerPatient DEF Next, PromptThread, PrintThread, ServerLoop
<1>7. QED
    BY <1>1, <1>3, <1>5, <1>6

LEMMA AlwaysPatient ==
    ASSUME Fits
    PROVE  Spec => []IInv
<1>1. Init => IInv
    BY TypeInit, PatientInit DEF IInv
<1>2. IInv /\ [Next]_vars => IInv'
    BY PatientNext
<1>3. QED
    BY <1>1, <1>2, PTL DEF Spec

(* A user who waits for each answer sees the right prime for each number,  *)
(* unless the buffer has held a longer string: for any numbers and primes  *)
(* whose digits and end fit the buffer, any capacity of the queues, and    *)
(* any interleaving of the two threads and the server.                     *)
THEOREM PrimesAreRight ==
    ASSUME Fits
    PROVE  Spec => []ShowsPrimes
<1>1. ASSUME Right(typed, shown), NEW i \in 1..Len(shown), NothingLonger(i)
      PROVE  shown[i] = ComputePrime(typed[i])
  <2>1. Longest(typed, i)
    BY <1>1 DEF NothingLonger, Answer, Longest, Size
  <2>2. QED
    BY <1>1, <2>1 DEF Right
<1>2. IInv => ShowsPrimes
    BY <1>1 DEF IInv, Patient, ShowsPrimes
<1>3. QED
    BY <1>2, AlwaysPatient, PTL
=============================================================================
