---------------------------- MODULE AscendPlanProofs ----------------------------
(* Theorems about AscendPlan, for every value of its constants.            *)
EXTENDS AscendPlan, SequenceTheorems, WellFoundedInduction, TLAPS

-----------------------------------------------------------------------------
(* Induction over a set of numbers: a number outside the set would have a  *)
(* smallest one like it.                                                   *)
LEMMA NatSetInduction ==
    ASSUME NEW S, 0 \in S, \A n \in Nat : n \in S => n + 1 \in S
    PROVE  Nat \subseteq S
<1> DEFINE R == OpToRel(<, Nat)
           T == Nat \ S
<1>1. IsWellFoundedOn(R, Nat)
  BY NatLessThanWellFounded
<1>2. \A a, b \in Nat : <<a, b>> \in R <=> a < b
  BY DEF OpToRel
<1> HIDE DEF R
<1>3. ASSUME T # {}
      PROVE  FALSE
  <2>1. PICK m \in T : \A y \in T : ~(<<y, m>> \in R)
    BY <1>1, <1>3, WFMin
  <2>2. m \in Nat /\ m # 0 /\ m - 1 \in Nat
    OBVIOUS
  <2>3. m - 1 \notin T
    <3>1. <<m - 1, m>> \in R
      BY <1>2, <2>2
    <3>2. QED
      BY <2>1, <3>1
  <2>4. QED
    BY <2>2, <2>3
<1>4. QED
  BY <1>3

-----------------------------------------------------------------------------
(* Running sums.                                                           *)

(* p is the table of the running sums of the first n elements of s.        *)
SumTable(p, s, n) ==
    /\ p \in [0 .. n -> Nat] /\ p[0] = 0
    /\ \A i \in 1 .. n : p[i] = p[i - 1] + s[i]

LEMMA TableExists ==
    ASSUME NEW n \in Nat, NEW s, \A i \in 1 .. n : s[i] \in Nat
    PROVE  \E p : SumTable(p, s, n)
<1> DEFINE S == {m \in Nat : m <= n => \E p : SumTable(p, s, m)}
<1>1. 0 \in S
  <2>1. SumTable([i \in 0 .. 0 |-> 0], s, 0)
    BY DEF SumTable
  <2>2. QED
    BY <2>1
<1>2. ASSUME NEW m \in Nat, m \in S
      PROVE  m + 1 \in S
  <2>1. CASE m + 1 <= n
    <3>1. PICK p : SumTable(p, s, m)
      BY <1>2, <2>1
    <3> DEFINE q == [i \in 0 .. m + 1 |-> IF i <= m THEN p[i] ELSE p[m] + s[m + 1]]
    <3>2. s[m + 1] \in Nat /\ p \in [0 .. m -> Nat] /\ p[m] \in Nat
      BY <2>1, <3>1 DEF SumTable
    <3>3. q \in [0 .. m + 1 -> Nat]
      BY <3>2
    <3>4. q[0] = 0 /\ \A i \in 1 .. m + 1 : q[i] = q[i - 1] + s[i]
      BY <3>1, <3>2 DEF SumTable
    <3>5. SumTable(q, s, m + 1)
      BY <3>3, <3>4 DEF SumTable
    <3>6. \E p1 : SumTable(p1, s, m + 1)
      BY <3>5
    <3>7. QED
      BY <3>6
  <2>2. QED
    BY <2>1
<1> HIDE DEF S
<1>3. n \in S
  BY <1>1, <1>2, NatSetInduction
<1>4. QED
  BY <1>3 DEF S

(* The sums of Sum are those of the table.                                 *)
LEMMA SumIsTable ==
    ASSUME NEW N \in Nat, NEW s, \A i \in 1 .. N : s[i] \in Nat,
           NEW p, SumTable(p, s, N), NEW n \in 0 .. N
    PROVE  Sum(s, n) = p[n]
<1> DEFINE Eq(g) == g = [i \in 0 .. n |-> IF i = 0 THEN 0 ELSE g[i - 1] + s[i]]
           f == CHOOSE g : Eq(g)
           q == [i \in 0 .. n |-> p[i]]
<1>1. \E g : Eq(g)
  <2>1. Eq(q)
    BY DEF SumTable
  <2>2. QED
    BY <2>1
<1>2. Eq(f)
  BY <1>1
<1>3. f[0] = 0 /\ \A i \in 1 .. n : f[i] = f[i - 1] + s[i]
  <2>1. ASSUME NEW g, Eq(g)
        PROVE  g[0] = 0 /\ \A i \in 1 .. n : g[i] = g[i - 1] + s[i]
    BY <2>1
  <2> HIDE DEF f
  <2>2. QED
    BY <1>2, <2>1
<1>4. Sum(s, n) = f[n]
  BY DEF Sum
<1> HIDE DEF f
<1> DEFINE S == {m \in Nat : m <= n => f[m] = p[m]}
<1>5. 0 \in S
  BY <1>3 DEF SumTable
<1>6. ASSUME NEW m \in Nat, m \in S
      PROVE  m + 1 \in S
  <2>1. CASE m + 1 <= n
    <3>1. m + 1 \in 1 .. n /\ m + 1 \in 1 .. N /\ (m + 1) - 1 = m
      BY <2>1
    <3>2. f[m + 1] = f[m] + s[m + 1] /\ p[m + 1] = p[m] + s[m + 1]
      BY <1>3, <3>1 DEF SumTable
    <3>3. QED
      BY <1>6, <2>1, <3>2
  <2>2. QED
    BY <2>1
<1> HIDE DEF S
<1>7. n \in S
  BY <1>5, <1>6, NatSetInduction
<1>8. QED
  BY <1>4, <1>7 DEF S

(* What a running sum is.                                                  *)
LEMMA SumFacts ==
    ASSUME NEW N \in Nat, NEW s, \A i \in 1 .. N : s[i] \in Nat
    PROVE  /\ Sum(s, 0) = 0
           /\ \A n \in 0 .. N : Sum(s, n) \in Nat
           /\ \A n \in 1 .. N : Sum(s, n) = Sum(s, n - 1) + s[n]
<1>1. PICK p : SumTable(p, s, N)
  BY TableExists
<1>2. \A n \in 0 .. N : Sum(s, n) = p[n]
  BY <1>1, SumIsTable
<1>3. p[0] = 0 /\ (\A n \in 0 .. N : p[n] \in Nat) /\ \A n \in 1 .. N : p[n] = p[n - 1] + s[n]
  BY <1>1 DEF SumTable
<1>4. QED
  BY <1>2, <1>3

(* Running sums grow.                                                      *)
LEMMA SumGrows ==
    ASSUME NEW N \in Nat, NEW s, \A i \in 1 .. N : s[i] \in Nat,
           NEW m \in 0 .. N, NEW n \in m .. N
    PROVE  Sum(s, m) <= Sum(s, n)
<1> DEFINE S == {k \in Nat : m + k <= N => Sum(s, m) <= Sum(s, m + k)}
<1>1. \A k \in 0 .. N : Sum(s, k) \in Nat
  BY SumFacts
<1>2. \A k \in 1 .. N : Sum(s, k) = Sum(s, k - 1) + s[k]
  BY SumFacts
<1>3. 0 \in S
  BY <1>1
<1>4. ASSUME NEW k \in Nat, k \in S
      PROVE  k + 1 \in S
  <2>1. CASE m + (k + 1) <= N
    <3>1. Sum(s, m + (k + 1)) = Sum(s, m + k) + s[m + (k + 1)]
      <4>1. m + (k + 1) \in 1 .. N /\ (m + (k + 1)) - 1 = m + k
        BY <2>1
      <4>2. QED
        BY <1>2, <4>1
    <3>2. Sum(s, m) <= Sum(s, m + k) /\ s[m + (k + 1)] \in Nat /\ Sum(s, m + k) \in Nat /\ Sum(s, m) \in Nat
      BY <1>1, <1>4, <2>1
    <3>3. QED
      BY <3>1, <3>2
  <2>2. QED
    BY <2>1
<1> HIDE DEF S
<1>5. n - m \in S
  BY <1>3, <1>4, NatSetInduction
<1>6. m + (n - m) = n
  OBVIOUS
<1>7. QED
  BY <1>5, <1>6 DEF S

(* Every place below the sum belongs to one of the elements.               *)
LEMMA SumCovers ==
    ASSUME NEW N \in Nat, NEW s, \A i \in 1 .. N : s[i] \in Nat, NEW x \in 1 .. Sum(s, N)
    PROVE  \E k \in 1 .. N : Sum(s, k - 1) < x /\ x <= Sum(s, k)
<1> DEFINE S == {m \in Nat : m <= N /\ x <= Sum(s, m) =>
                               \E k \in 1 .. N : Sum(s, k - 1) < x /\ x <= Sum(s, k)}
<1>1. /\ Sum(s, 0) = 0 /\ \A k \in 0 .. N : Sum(s, k) \in Nat
  BY SumFacts
<1>2. 0 \in S
  BY <1>1
<1>3. ASSUME NEW m \in Nat, m \in S
      PROVE  m + 1 \in S
  <2>1. CASE m + 1 <= N /\ x <= Sum(s, m + 1)
    <3>1. CASE x <= Sum(s, m)
      BY <1>3, <2>1, <3>1
    <3>2. CASE ~(x <= Sum(s, m))
      <4>1. m + 1 \in 1 .. N /\ Sum(s, (m + 1) - 1) < x /\ x <= Sum(s, m + 1)
        BY <1>1, <2>1, <3>2
      <4>2. \E k \in 1 .. N : Sum(s, k - 1) < x /\ x <= Sum(s, k)
        BY <4>1
      <4>3. QED
        BY <4>2
    <3>3. QED
      BY <3>1, <3>2
  <2>2. QED
    BY <2>1
<1> HIDE DEF S
<1>4. N \in S
  BY <1>2, <1>3, NatSetInduction
<1>5. N <= N /\ x <= Sum(s, N)
  BY <1>1
<1>6. QED
  BY <1>4, <1>5 DEF S

-----------------------------------------------------------------------------
(* Lists one after the other.                                              *)

Lens(ss) == [h \in DOMAIN ss |-> Len(ss[h])]

(* p is the table of the concatenations of the first n lists of ss.        *)
FlatTable(p, ss, n, S) ==
    /\ p \in [0 .. n -> Seq(S)] /\ p[0] = <<>>
    /\ \A i \in 1 .. n : p[i] = p[i - 1] \o ss[i]

LEMMA FlatExists ==
    ASSUME NEW S, NEW ss \in Seq(Seq(S))
    PROVE  \E p : FlatTable(p, ss, Len(ss), S)
<1> DEFINE n == Len(ss)
           T == {m \in Nat : m <= n => \E p : FlatTable(p, ss, m, S)}
<1>1. n \in Nat /\ \A i \in 1 .. n : ss[i] \in Seq(S)
  BY LenProperties, ElementOfSeq
<1> HIDE DEF n
<1>2. 0 \in T
  <2>1. <<>> \in Seq(S)
    BY EmptySeq
  <2>2. FlatTable([i \in 0 .. 0 |-> <<>>], ss, 0, S)
    BY <2>1 DEF FlatTable
  <2>3. QED
    BY <2>2
<1>3. ASSUME NEW m \in Nat, m \in T
      PROVE  m + 1 \in T
  <2>1. CASE m + 1 <= n
    <3>1. PICK p : FlatTable(p, ss, m, S)
      BY <1>1, <1>3, <2>1
    <3> DEFINE next == p[m] \o ss[m + 1]
               q == [i \in 0 .. m + 1 |-> IF i <= m THEN p[i] ELSE next]
    <3>2. ss[m + 1] \in Seq(S) /\ p \in [0 .. m -> Seq(S)] /\ p[m] \in Seq(S)
      BY <1>1, <2>1, <3>1 DEF FlatTable
    <3>3. next \in Seq(S)
      BY <3>2, ConcatProperties
    <3> HIDE DEF next
    <3>4. q \in [0 .. m + 1 -> Seq(S)]
      BY <3>2, <3>3
    <3>5. (\A i \in 0 .. m : q[i] = p[i]) /\ q[m + 1] = next /\ (m + 1) - 1 = m
      OBVIOUS
    <3> HIDE DEF q
    <3>6. q[0] = <<>>
      BY <3>1, <3>5 DEF FlatTable
    <3>7. ASSUME NEW i \in 1 .. m + 1
          PROVE  q[i] = q[i - 1] \o ss[i]
      <4>1. CASE i = m + 1
        <5>1. i - 1 = m /\ q[m] = p[m] /\ q[m + 1] = p[m] \o ss[m + 1]
          BY <3>5, <4>1 DEF next
        <5>2. QED
          BY <4>1, <5>1, Zenon
      <4>2. CASE i # m + 1
        <5>1. i \in 1 .. m /\ i \in 0 .. m /\ i - 1 \in 0 .. m
          BY <4>2
        <5>2. QED
          BY <3>1, <3>5, <5>1 DEF FlatTable
      <4>3. QED
        BY <4>1, <4>2
    <3>8. FlatTable(q, ss, m + 1, S)
      BY <3>4, <3>6, <3>7 DEF FlatTable
    <3>9. \E p1 : FlatTable(p1, ss, m + 1, S)
      BY <3>8
    <3>10. QED
      BY <3>9
  <2>2. QED
    BY <1>1, <2>1
<1> HIDE DEF T
<1>4. n \in T
  BY <1>1, <1>2, <1>3, NatSetInduction
<1>5. QED
  BY <1>1, <1>4 DEF T, n

(* The equation of FlattenSeq's recursive function.                        *)
FlatEquation(f, ss, n) == f = [i \in 1 .. n |-> IF i = 1 THEN ss[i] ELSE f[i - 1] \o ss[i]]

(* A function with that equation is the table.                             *)
LEMMA FlatUnique ==
    ASSUME NEW S, NEW n \in Nat \ {0}, NEW ss, \A i \in 1 .. n : ss[i] \in Seq(S),
           NEW p, FlatTable(p, ss, n, S),
           NEW f, FlatEquation(f, ss, n)
    PROVE  \A i \in 1 .. n : f[i] = p[i]
<1>1. p[0] = <<>> /\ \A i \in 1 .. n : p[i] = p[i - 1] \o ss[i]
  BY DEF FlatTable
<1>2. 1 \in 1 .. n /\ ss[1] \in Seq(S)
  OBVIOUS
<1>3. f[1] = ss[1]
  BY <1>2 DEF FlatEquation
<1>4. ASSUME NEW i \in 2 .. n
      PROVE  f[i] = f[i - 1] \o ss[i]
  <2>1. i \in 1 .. n /\ i # 1
    OBVIOUS
  <2> DEFINE e(x) == IF x = 1 THEN ss[x] ELSE f[x - 1] \o ss[x]
  <2>2. f = [x \in 1 .. n |-> e(x)]
    BY DEF FlatEquation
  <2>3. e(i) = f[i - 1] \o ss[i]
    BY <2>1
  <2> HIDE DEF e
  <2>4. QED
    BY <2>1, <2>2, <2>3, Zenon
<1>5. p[1] = ss[1]
  <2>1. p[1] = p[0] \o ss[1]
    <3>1. p[1] = p[1 - 1] \o ss[1]
      BY <1>1, <1>2, Zenon
    <3>2. 1 - 1 = 0
      OBVIOUS
    <3>3. QED
      BY <3>1, <3>2, Zenon
  <2>2. <<>> \o ss[1] = ss[1]
    BY <1>2, ConcatEmptySeq
  <2>3. QED
    BY <1>1, <2>1, <2>2
<1> DEFINE T == {m \in Nat : m + 1 <= n => f[m + 1] = p[m + 1]}
<1>6. 0 \in T
  BY <1>3, <1>5
<1>7. ASSUME NEW m \in Nat, m \in T
      PROVE  m + 1 \in T
  <2>1. CASE (m + 1) + 1 <= n
    <3> DEFINE i == (m + 1) + 1
    <3>1. i \in 2 .. n /\ i \in 1 .. n /\ i - 1 = m + 1 /\ m + 1 <= n
      BY <2>1
    <3>2. f[m + 1] = p[m + 1]
      BY <1>7, <3>1
    <3> HIDE DEF i
    <3>3. f[i] = f[i - 1] \o ss[i] /\ p[i] = p[i - 1] \o ss[i]
      BY <1>1, <1>4, <3>1
    <3>4. f[i] = p[i]
      BY <3>1, <3>2, <3>3, Zenon
    <3>5. QED
      BY <3>4 DEF i
  <2>2. QED
    BY <2>1
<1>8. Nat \subseteq T
  <2> HIDE DEF T
  <2>1. QED
    BY <1>6, <1>7, NatSetInduction
<1>9. ASSUME NEW i \in 1 .. n
      PROVE  f[i] = p[i]
  <2>1. i - 1 \in T /\ (i - 1) + 1 = i /\ i <= n
    <3>1. i - 1 \in Nat
      OBVIOUS
    <3> HIDE DEF T
    <3>2. QED
      BY <1>8, <3>1
  <2>2. QED
    BY <2>1
<1>10. QED
  BY <1>9

(* FlattenSeq is the last entry of the table.                              *)
LEMMA FlattenIsTable ==
    ASSUME NEW S, NEW ss \in Seq(Seq(S)), NEW p, FlatTable(p, ss, Len(ss), S)
    PROVE  FlattenSeq(ss) = p[Len(ss)]
<1> DEFINE n == Len(ss)
           f == CHOOSE g : FlatEquation(g, ss, n)
           q == [i \in 1 .. n |-> p[i]]
<1>1. n \in Nat /\ (\A i \in 1 .. n : ss[i] \in Seq(S)) /\ (n = 0 => ss = <<>>)
  BY LenProperties, ElementOfSeq, EmptySeq
<1>2. CASE n = 0
  BY <1>1, <1>2 DEF FlattenSeq, FlatTable
<1>3. CASE n # 0
  <2>1. FlattenSeq(ss) = f[n]
    BY <1>3 DEF FlattenSeq, FlatEquation
  <2> HIDE DEF n
  <2>2. p[0] = <<>> /\ \A i \in 1 .. n : p[i] = p[i - 1] \o ss[i]
    BY DEF FlatTable, n
  <2>3. \A i \in 1 .. n : p[i] = IF i = 1 THEN ss[i] ELSE q[i - 1] \o ss[i]
    <3>1. 1 \in 1 .. n /\ ss[1] \in Seq(S)
      BY <1>1, <1>3
    <3>2. <<>> \o ss[1] = ss[1]
      BY <3>1, ConcatEmptySeq
    <3>3. p[1] = ss[1]
      <4>1. p[1] = p[1 - 1] \o ss[1]
        BY <2>2, <3>1, Zenon
      <4>2. 1 - 1 = 0
        OBVIOUS
      <4>3. QED
        BY <2>2, <3>2, <4>1, <4>2, Zenon
    <3>4. ASSUME NEW i \in 1 .. n, i # 1
          PROVE  p[i] = q[i - 1] \o ss[i]
      <4>1. i - 1 \in 1 .. n
        BY <1>1, <3>4
      <4>2. q[i - 1] = p[i - 1]
        BY <4>1
      <4> HIDE DEF q
      <4>3. QED
        BY <2>2, <4>2
    <3>5. QED
      BY <3>3, <3>4
  <2>4. FlatEquation(q, ss, n)
    BY <2>3 DEF FlatEquation
  <2>5. FlatEquation(f, ss, n)
    BY <2>4
  <2>6. FlatTable(p, ss, n, S) /\ n \in Nat \ {0} /\ n \in 1 .. n
    BY <1>1, <1>3 DEF n
  <2>7. \A i \in 1 .. n : ss[i] \in Seq(S)
    BY <1>1
  <2> HIDE DEF f
  <2>8. f[n] = p[n]
    BY <2>5, <2>6, <2>7, FlatUnique
  <2>9. QED
    BY <2>1, <2>8 DEF n
<1>4. QED
  BY <1>2, <1>3

(* Where the elements of the lists are in the long list.                   *)
LEMMA FlattenFacts ==
    ASSUME NEW S, NEW ss \in Seq(Seq(S))
    PROVE  /\ FlattenSeq(ss) \in Seq(S)
           /\ Len(FlattenSeq(ss)) = Sum(Lens(ss), Len(ss))
           /\ \A g \in 1 .. Len(ss) : \A k \in 1 .. Len(ss[g]) :
                /\ Sum(Lens(ss), g - 1) + k \in 1 .. Sum(Lens(ss), Len(ss))
                /\ FlattenSeq(ss)[Sum(Lens(ss), g - 1) + k] = ss[g][k]
<1> DEFINE n == Len(ss)
           L == Lens(ss)
<1>1. n \in Nat /\ \A i \in 1 .. n : ss[i] \in Seq(S) /\ Len(ss[i]) \in Nat /\ L[i] = Len(ss[i])
  BY LenProperties, ElementOfSeq DEF Lens
<1>2. PICK p : FlatTable(p, ss, n, S)
  BY FlatExists
<1>3. FlattenSeq(ss) = p[n]
  BY <1>2, FlattenIsTable
<1> HIDE DEF n, L
<1>4. \A i \in 1 .. n : L[i] \in Nat
  BY <1>1
<1>5. /\ Sum(L, 0) = 0 /\ \A i \in 0 .. n : Sum(L, i) \in Nat
  BY <1>1, <1>4, SumFacts
<1>6. \A i \in 1 .. n : Sum(L, i) = Sum(L, i - 1) + Len(ss[i])
  BY <1>1, <1>4, SumFacts
<1>7. p[0] = <<>> /\ (\A i \in 0 .. n : p[i] \in Seq(S)) /\ \A i \in 1 .. n : p[i] = p[i - 1] \o ss[i]
  BY <1>1, <1>2 DEF FlatTable
<1> DEFINE Placed(m) == /\ Len(p[m]) = Sum(L, m)
                        /\ \A g \in 1 .. m : \A k \in 1 .. Len(ss[g]) :
                             p[m][Sum(L, g - 1) + k] = ss[g][k]
           T == {m \in Nat : m <= n => Placed(m)}
<1>8. 0 \in T
  BY <1>5, <1>7
<1>9. ASSUME NEW m \in Nat, m \in T
      PROVE  m + 1 \in T
  <2>1. CASE m + 1 <= n
    <3>1. m + 1 \in 1 .. n /\ (m + 1) - 1 = m /\ m \in 0 .. n /\ Placed(m)
      BY <1>1, <1>9, <2>1
    <3>2. p[m + 1] = p[m] \o ss[m + 1] /\ p[m] \in Seq(S) /\ ss[m + 1] \in Seq(S)
      BY <1>1, <1>7, <3>1
    <3> DEFINE a == p[m]
               b == ss[m + 1]
               c == p[m + 1]
               x == Len(a)
    <3>3. /\ Len(c) = x + Len(b)
          /\ \A i \in 1 .. x + Len(b) : c[i] = IF i <= x THEN a[i] ELSE b[i - x]
      <4>1. /\ Len(a \o b) = x + Len(b)
            /\ \A i \in 1 .. x + Len(b) : (a \o b)[i] = IF i <= x THEN a[i] ELSE b[i - x]
        BY <3>2, ConcatProperties
      <4>2. QED
        BY <3>2, <4>1, Zenon
    <3>4. x = Sum(L, m) /\ Len(b) \in Nat /\ Sum(L, m) \in Nat /\ Sum(L, m + 1) = Sum(L, m) + Len(b)
      BY <1>1, <1>5, <1>6, <3>1
    <3> HIDE DEF c, x
    <3>5. Len(c) = Sum(L, m + 1)
      BY <3>2, <3>3, <3>4
    <3>6. ASSUME NEW g \in 1 .. m + 1, NEW k \in 1 .. Len(ss[g])
          PROVE  c[Sum(L, g - 1) + k] = ss[g][k]
      <4>1. g \in 1 .. n /\ g - 1 \in 0 .. n /\ Sum(L, g - 1) \in Nat /\ Len(ss[g]) \in Nat
        BY <1>1, <1>5, <3>1
      <4>2. CASE g = m + 1
        <5>1. Sum(L, g - 1) = x /\ k \in 1 .. Len(b) /\ x \in Nat
          BY <3>1, <3>4, <4>2
        <5>2. x + k \in 1 .. x + Len(b) /\ ~(x + k <= x) /\ (x + k) - x = k
          BY <3>4, <5>1
        <5>3. c[x + k] = b[k]
          BY <3>3, <5>2
        <5>4. QED
          BY <4>2, <5>1, <5>3
      <4>3. CASE g # m + 1
        <5>1. g \in 1 .. m /\ g \in 0 .. n /\ m \in g .. n
          BY <1>1, <3>1, <4>3
        <5>2. Sum(L, g) <= Sum(L, m)
          BY <1>1, <1>4, <5>1, SumGrows
        <5>3. Sum(L, g) = Sum(L, g - 1) + Len(ss[g])
          BY <1>6, <4>1
        <5> DEFINE y == Sum(L, g - 1) + k
        <5>4. y \in 1 .. x + Len(b) /\ y <= x
          <6>1. y \in Nat /\ y >= 1 /\ y <= Sum(L, g)
            BY <4>1, <5>3
          <6>2. x \in Nat /\ Sum(L, g) \in Nat /\ Sum(L, g) <= x /\ Len(b) \in Nat
            BY <3>4, <4>1, <5>2, <5>3
          <6> HIDE DEF y, b
          <6>3. QED
            BY <6>1, <6>2
        <5> HIDE DEF y
        <5>5. c[y] = a[y]
          BY <3>3, <5>4
        <5>6. QED
          BY <3>1, <5>1, <5>5 DEF y
      <4>4. QED
        BY <4>2, <4>3
    <3>7. QED
      BY <3>5, <3>6 DEF c
  <2>2. QED
    BY <1>1, <2>1
<1> HIDE DEF T
<1>10. n \in T
  BY <1>1, <1>8, <1>9, NatSetInduction
<1>11. Placed(n)
  BY <1>1, <1>10 DEF T
<1>12. ASSUME NEW g \in 1 .. n, NEW k \in 1 .. Len(ss[g])
       PROVE  Sum(L, g - 1) + k \in 1 .. Sum(L, n)
  <2>1. Sum(L, g) <= Sum(L, n)
    <3>1. g \in 0 .. n /\ n \in g .. n
      BY <1>1
    <3>2. QED
      BY <1>1, <1>4, <3>1, SumGrows
  <2>2. g - 1 \in 0 .. n /\ Sum(L, g - 1) \in Nat /\ Sum(L, n) \in Nat /\ Len(ss[g]) \in Nat
    BY <1>1, <1>5
  <2>3. QED
    BY <1>6, <2>1, <2>2
<1>13. p[n] \in Seq(S)
  BY <1>1, <1>7
<1>14. QED
  BY <1>3, <1>11, <1>12, <1>13 DEF n, L

-----------------------------------------------------------------------------
(* The inductive invariant.                                                *)

RowsOf(l) == layout.layers[l].rows
AllocOf(l) == layout.layers[l].alloc
PageOf(l) == layout.pages[AllocOf(l)]

(* Every reference of a group is a part of its layer's block, fits the     *)
(* page of its allocation, and layers of one group share no allocation.    *)
LayoutOK ==
    /\ layout.packed \in BOOLEAN
    /\ \A a \in DOMAIN layout.pages : layout.pages[a] \in Nat
    /\ \A l \in DOMAIN layout.layers : AllocOf(l) \in DOMAIN layout.pages /\ RowsOf(l) \in Seq(Nat)
    /\ layout.refs \in Seq(Seq([layer : DOMAIN layout.layers, size : Nat \ {0}]))
    /\ \A g \in Groups : \A ref \in Range(layout.refs[g]) :
         /\ ref.size <= Total(RowsOf(ref.layer)) /\ ref.size <= PageOf(ref.layer)
         /\ layout.packed => ref.size = Total(RowsOf(ref.layer))
         /\ \A other \in Range(layout.refs[g]) :
              AllocOf(ref.layer) = AllocOf(other.layer) => ref.layer = other.layer
    /\ \A g \in Groups : \A k \in 0 .. LastLogical \div Factor : <<g, k>> \in DOMAIN SlotOf

MemoryOK ==
    /\ DOMAIN device = DOMAIN layout.layers
    /\ \A l \in DOMAIN device : /\ DOMAIN device[l] = Blocks
                                /\ \A b \in Blocks : DOMAIN device[l][b] = 1 .. Total(RowsOf(l))
    /\ DOMAIN host = DOMAIN layout.pages
    /\ \A a \in DOMAIN host : /\ DOMAIN host[a] = CpuBlocks
                              /\ \A c \in CpuBlocks : DOMAIN host[a][c] = 1 .. Factor * layout.pages[a]

(* A logical block is in at most one device block.                         *)
HoldersOK ==
    /\ held \in [Blocks -> (Groups \X Logicals) \cup {NoHolder}]
    /\ \A a, b \in Blocks : held[a] = held[b] /\ held[a] # NoHolder => a = b
    /\ saved \subseteq Groups \X Logicals

(* Before there is a worker nothing is held or saved.                      *)
PlanInv ==
    /\ layout = NoLayout => saved = {} /\ held = [b \in Blocks |-> NoHolder]
    /\ layout # NoLayout => LayoutOK /\ MemoryOK /\ HoldersOK
    /\ TransfersExact

-----------------------------------------------------------------------------
(* Arithmetic of chunks.                                                   *)

LEMMA DivMod ==
    ASSUME NEW n \in Nat, NEW f \in Nat \ {0}
    PROVE  n \div f \in Nat /\ n % f \in 0 .. f - 1 /\ n = f * (n \div f) + (n % f)
OBVIOUS

(* The chunks that a run of logical blocks touches.                        *)
LEMMA ChunksOfRun ==
    ASSUME NEW n \in Nat, NEW size \in Nat \ {0}, NEW f \in Nat \ {0}
    PROVE  ((n + size - 1) \div f) - (n \div f) + 1 = (size + (n % f) + f - 1) \div f
OBVIOUS

(* Block i of a run that starts at block n.                                *)
LEMMA PlaceInRun ==
    ASSUME NEW n \in Nat, NEW i \in Nat, NEW f \in Nat \ {0}
    PROVE  /\ (n + i) \div f = (n \div f) + (((n % f) + i) \div f)
           /\ (n + i) % f = ((n % f) + i) % f
OBVIOUS

LEMMA DivGrows ==
    ASSUME NEW m \in Nat, NEW n \in Nat, m <= n, NEW f \in Nat \ {0}
    PROVE  m \div f <= n \div f
OBVIOUS

(* Pages of a CPU block do not overlap.                                    *)
LEMMA PagesApart ==
    ASSUME NEW a \in Nat, NEW b \in Nat, NEW page \in Nat, NEW i \in 1 .. page, NEW j \in 1 .. page,
           a * page + i = b * page + j
    PROVE  a = b /\ i = j
OBVIOUS

(* A page lies inside its CPU block.                                       *)
LEMMA PageInside ==
    ASSUME NEW f \in Nat \ {0}, NEW sub \in 0 .. f - 1, NEW page \in Nat, NEW i \in 1 .. page
    PROVE  sub * page + i \in 1 .. f * page
OBVIOUS

(* A function on 1 .. n is a list.                                         *)
LEMMA ListOf ==
    ASSUME NEW S, NEW n \in Nat, NEW f \in [1 .. n -> S]
    PROVE  f \in Seq(S) /\ Len(f) = n
OBVIOUS

-----------------------------------------------------------------------------
(* What a request of the manager says.                                     *)

LEMMA ConstantFacts ==
    /\ NumBlocks \in Nat \ {0} /\ NumCpuBlocks \in Nat \ {0} /\ Factor \in Nat \ {0} /\ LastLogical \in Nat
    /\ Logicals \subseteq Nat
BY PlanAssumption DEF Logicals

LEMMA GroupFacts ==
    ASSUME LayoutOK
    PROVE  Len(layout.refs) \in Nat /\ Groups = 1 .. Len(layout.refs)
BY LenProperties DEF LayoutOK, Groups

LEMMA RefFacts ==
    ASSUME LayoutOK, NEW g \in Groups
    PROVE  /\ \A n \in DOMAIN layout.refs[g] : layout.refs[g][n] \in Range(layout.refs[g])
           /\ \A ref \in Range(layout.refs[g]) :
                /\ ref \in [layer : DOMAIN layout.layers, size : Nat \ {0}]
                /\ ref.layer \in DOMAIN layout.layers /\ ref.size \in Nat \ {0}
                /\ \E n \in DOMAIN layout.refs[g] : ref = layout.refs[g][n]
<1> DEFINE R == [layer : DOMAIN layout.layers, size : Nat \ {0}]
           s == layout.refs[g]
<1>1. layout.refs \in Seq(Seq(R)) /\ g \in 1 .. Len(layout.refs)
  BY GroupFacts DEF LayoutOK
<1>2. \A ref \in R : ref.layer \in DOMAIN layout.layers /\ ref.size \in Nat \ {0}
  OBVIOUS
<1> HIDE DEF R
<1>3. s \in Seq(R)
  BY <1>1, ElementOfSeq
<1> HIDE DEF s
<1>4. \A n \in DOMAIN s : s[n] \in R
  BY <1>3, LenProperties, ElementOfSeq
<1>5. Range(s) = {s[n] : n \in DOMAIN s}
  BY DEF Range
<1>6. QED
  BY <1>2, <1>4, <1>5 DEF s, R

LEMMA RunFacts ==
    ASSUME NEW runs \in Runs, NEW g \in Groups
    PROVE  /\ runs[g].size \in Nat /\ runs[g].logical \in Nat
           /\ runs[g].size + runs[g].logical <= LastLogical + 1
BY ConstantFacts DEF Runs, Logicals

(* The blocks of a run.                                                    *)
LEMMA CoveredFacts ==
    ASSUME NEW runs \in Runs, LayoutOK
    PROVE  /\ Covered(runs) \subseteq Groups \X Logicals
           /\ \A g \in Groups : \A i \in 0 .. runs[g].size - 1 : <<g, runs[g].logical + i>> \in Covered(runs)
           /\ \A x \in Covered(runs) :
                /\ x[1] \in Groups /\ x[2] \in Nat /\ x = <<x[1], x[2]>>
                /\ x[2] - runs[x[1]].logical \in 0 .. runs[x[1]].size - 1
<1>1. Covered(runs) \subseteq Groups \X Logicals
  BY DEF Covered
<1>2. ASSUME NEW g \in Groups, NEW i \in 0 .. runs[g].size - 1
      PROVE  <<g, runs[g].logical + i>> \in Covered(runs)
  <2>1. runs[g].logical + i \in Logicals /\ (runs[g].logical + i) - runs[g].logical = i
    BY RunFacts, ConstantFacts DEF Logicals
  <2>2. QED
    BY <2>1 DEF Covered
<1>3. ASSUME NEW x \in Covered(runs)
      PROVE  /\ x[1] \in Groups /\ x[2] \in Nat /\ x = <<x[1], x[2]>>
             /\ x[2] - runs[x[1]].logical \in 0 .. runs[x[1]].size - 1
  <2>1. x \in Groups \X Logicals /\ x[2] - runs[x[1]].logical \in 0 .. runs[x[1]].size - 1
    BY DEF Covered
  <2>2. x[1] \in Groups /\ x[2] \in Logicals /\ x = <<x[1], x[2]>>
    BY <2>1
  <2>3. QED
    BY <2>1, <2>2, ConstantFacts
<1>4. QED
  BY <1>1, <1>2, <1>3

BlockLists(runs, blockOf) ==
    [g \in Groups |-> [i \in 1 .. runs[g].size |-> blockOf[<<g, runs[g].logical + i - 1>>]]]
FirstChunk(run) == run.logical \div Factor
Chunks(run) == IF run.size = 0 THEN 0
               ELSE ((run.logical + run.size - 1) \div Factor) - FirstChunk(run) + 1
CpuLists(runs) == [g \in Groups |-> [i \in 1 .. Chunks(runs[g]) |-> SlotOf[<<g, FirstChunk(runs[g]) + i - 1>>]]]

(* The chunks of a run are the CPU blocks that copy_plan expects.          *)
LEMMA ChunkFacts ==
    ASSUME NEW runs \in Runs, NEW g \in Groups, LayoutOK
    PROVE  /\ Chunks(runs[g]) = Count(runs[g].size, runs[g].logical) /\ Chunks(runs[g]) \in Nat
           /\ \A i \in 1 .. Chunks(runs[g]) : SlotOf[<<g, FirstChunk(runs[g]) + i - 1>>] \in CpuBlocks
           /\ \A i \in 0 .. runs[g].size - 1 :
                LET at == (Skip(runs[g].logical) + i) \div Factor
                IN  at + 1 \in 1 .. Chunks(runs[g]) /\ FirstChunk(runs[g]) + at = (runs[g].logical + i) \div Factor
<1> DEFINE size == runs[g].size
           n == runs[g].logical
<1>1. size \in Nat /\ n \in Nat /\ size + n <= LastLogical + 1 /\ Factor \in Nat \ {0} /\ LastLogical \in Nat
  BY RunFacts, ConstantFacts
<1> HIDE DEF size, n
<1>2. size # 0 => ((n + size - 1) \div Factor) - (n \div Factor) + 1 = (size + (n % Factor) + Factor - 1) \div Factor
  BY <1>1, ChunksOfRun
<1>3. Chunks(runs[g]) = Count(size, n)
  BY <1>2 DEF Chunks, Count, Skip, FirstChunk, size, n
<1>4. n \div Factor \in Nat /\ n % Factor \in Nat
  BY <1>1, DivMod
<1>5. size # 0 => n \div Factor <= (n + size - 1) \div Factor /\ (n + size - 1) \div Factor <= LastLogical \div Factor
  <2>1. size # 0 => n + size - 1 \in Nat /\ n <= n + size - 1 /\ n + size - 1 <= LastLogical
    BY <1>1
  <2>2. QED
    BY <1>1, <2>1, DivGrows
<1>6. size # 0 => (n + size - 1) \div Factor \in Nat
  BY <1>1, DivMod
<1>7. Chunks(runs[g]) \in Nat
  BY <1>4, <1>5, <1>6 DEF Chunks, FirstChunk, size, n
<1>8. ASSUME NEW i \in 1 .. Chunks(runs[g])
      PROVE  SlotOf[<<g, FirstChunk(runs[g]) + i - 1>>] \in CpuBlocks
  <2>1. LastLogical \div Factor \in Nat
    BY <1>1, DivMod
  <2>2. FirstChunk(runs[g]) + i - 1 \in 0 .. LastLogical \div Factor
    BY <1>4, <1>5, <1>6, <2>1 DEF Chunks, FirstChunk, size, n
  <2>3. <<g, FirstChunk(runs[g]) + i - 1>> \in DOMAIN SlotOf
    BY <2>2 DEF LayoutOK
  <2>4. QED
    BY <2>3, PlanAssumption DEF Range
<1>9. ASSUME NEW i \in 0 .. size - 1
      PROVE  /\ ((Skip(n) + i) \div Factor) + 1 \in 1 .. Chunks(runs[g])
             /\ FirstChunk(runs[g]) + ((Skip(n) + i) \div Factor) = (n + i) \div Factor
  <2>1. i \in Nat /\ size # 0 /\ n + i \in Nat /\ n + i <= n + size - 1 /\ n + size - 1 \in Nat
        /\ Skip(n) + i \in Nat /\ Skip(n) = n % Factor
    BY <1>1, <1>4 DEF Skip
  <2>2. (n + i) \div Factor = (n \div Factor) + ((Skip(n) + i) \div Factor)
    <3>1. (n + i) \div Factor = (n \div Factor) + (((n % Factor) + i) \div Factor)
      BY <1>1, <2>1, PlaceInRun
    <3>2. QED
      BY <3>1 DEF Skip
  <2>3. (n + i) \div Factor <= (n + size - 1) \div Factor
    BY <1>1, <2>1, DivGrows
  <2>4. (Skip(n) + i) \div Factor \in Nat
    BY <1>1, <2>1, DivMod
  <2>5. Chunks(runs[g]) = ((n + size - 1) \div Factor) - (n \div Factor) + 1 /\ FirstChunk(runs[g]) = n \div Factor
    BY <2>1 DEF Chunks, FirstChunk, size, n
  <2>6. QED
    BY <1>4, <1>6, <2>1, <2>2, <2>3, <2>4, <2>5
<1>10. QED
  BY <1>3, <1>7, <1>8, <1>9 DEF size, n

(* The lists of the groups one after the other, and where each block of a  *)
(* run is in them.                                                         *)
LEMMA BlocksOfRequest ==
    ASSUME NEW runs \in Runs, LayoutOK, NEW blockOf, \A x \in Covered(runs) : blockOf[x] \in Blocks
    PROVE  LET r == Request(runs, blockOf)
           IN  /\ r.blocks \in Seq(Blocks)
               /\ \A g \in Groups : \A i \in 0 .. runs[g].size - 1 :
                    r.blocks[Sum(r.sizes, g - 1) + i + 1] = blockOf[<<g, runs[g].logical + i>>]
<1> DEFINE ss == BlockLists(runs, blockOf)
           sizes == [g \in Groups |-> runs[g].size]
<1>1. \A g \in Groups : ss[g] \in Seq(Blocks) /\ Len(ss[g]) = runs[g].size
  <2> SUFFICES ASSUME NEW g \in Groups
               PROVE  ss[g] \in Seq(Blocks) /\ Len(ss[g]) = runs[g].size
    OBVIOUS
  <2>1. runs[g].size \in Nat /\ runs[g].logical \in Nat
    BY RunFacts
  <2>2. ASSUME NEW i \in 1 .. runs[g].size
        PROVE  blockOf[<<g, runs[g].logical + i - 1>>] \in Blocks
    <3>1. i - 1 \in 0 .. runs[g].size - 1 /\ runs[g].logical + (i - 1) = runs[g].logical + i - 1
      BY <2>1
    <3>2. <<g, runs[g].logical + (i - 1)>> \in Covered(runs)
      BY <3>1, CoveredFacts
    <3>3. QED
      BY <3>1, <3>2
  <2>3. ss[g] = [i \in 1 .. runs[g].size |-> blockOf[<<g, runs[g].logical + i - 1>>]]
    BY DEF BlockLists
  <2>4. ss[g] \in [1 .. runs[g].size -> Blocks]
    BY <2>2, <2>3
  <2> HIDE DEF ss
  <2>5. QED
    BY <2>1, <2>4, ListOf
<1>2. DOMAIN ss = Groups /\ Groups = 1 .. Len(layout.refs) /\ Len(layout.refs) \in Nat
  BY GroupFacts DEF BlockLists
<1>3. Lens(ss) = sizes
  BY <1>1, <1>2 DEF Lens
<1>4. ss = [g \in 1 .. Len(layout.refs) |-> ss[g]]
  BY <1>2 DEF BlockLists
<1>5. Request(runs, blockOf).blocks = FlattenSeq(ss) /\ Request(runs, blockOf).sizes = sizes
  BY DEF Request, BlockLists
<1> HIDE DEF ss, sizes
<1>6. ss \in Seq(Seq(Blocks)) /\ Len(ss) = Len(layout.refs)
  <2>1. ss \in [1 .. Len(layout.refs) -> Seq(Blocks)]
    BY <1>1, <1>2, <1>4
  <2>2. QED
    BY <1>2, <2>1, ListOf
<1>7. /\ FlattenSeq(ss) \in Seq(Blocks)
      /\ \A g \in 1 .. Len(ss) : \A k \in 1 .. Len(ss[g]) : FlattenSeq(ss)[Sum(sizes, g - 1) + k] = ss[g][k]
  BY <1>3, <1>6, FlattenFacts
<1>8. ASSUME NEW g \in Groups, NEW i \in 0 .. runs[g].size - 1
      PROVE  FlattenSeq(ss)[Sum(sizes, g - 1) + i + 1] = blockOf[<<g, runs[g].logical + i>>]
  <2>1. runs[g].size \in Nat /\ runs[g].logical \in Nat
    BY RunFacts
  <2>2. i + 1 \in 1 .. Len(ss[g]) /\ i + 1 \in 1 .. runs[g].size /\ runs[g].logical + (i + 1) - 1 = runs[g].logical + i
    BY <1>1, <2>1
  <2>3. Sum(sizes, g - 1) \in Nat
    <3>1. \A h \in 1 .. Len(layout.refs) : sizes[h] \in Nat
      BY <1>2, RunFacts DEF sizes
    <3>2. g - 1 \in 0 .. Len(layout.refs)
      BY <1>2
    <3>3. QED
      BY <1>2, <3>1, <3>2, SumFacts
  <2>4. Sum(sizes, g - 1) + i + 1 = Sum(sizes, g - 1) + (i + 1)
    BY <2>3
  <2>5. ss[g][i + 1] = blockOf[<<g, runs[g].logical + i>>]
    <3>1. ss[g][i + 1] = blockOf[<<g, runs[g].logical + (i + 1) - 1>>]
      BY <2>2 DEF ss, BlockLists
    <3>2. QED
      BY <2>2, <3>1
  <2>6. g \in 1 .. Len(ss)
    BY <1>2, <1>6
  <2>7. QED
    BY <1>7, <2>2, <2>4, <2>5, <2>6
<1>9. QED
  BY <1>5, <1>7, <1>8

LEMMA CpuOfRequest ==
    ASSUME NEW runs \in Runs, LayoutOK, NEW blockOf
    PROVE  LET r == Request(runs, blockOf)
           IN  /\ r.cpu \in Seq(CpuBlocks) /\ Len(r.cpu) = Total(Counts(r))
               /\ \A g \in Groups : \A i \in 0 .. runs[g].size - 1 :
                    r.cpu[Sum(Counts(r), g - 1) + ((Skip(runs[g].logical) + i) \div Factor) + 1]
                      = SlotOf[<<g, (runs[g].logical + i) \div Factor>>]
<1> DEFINE r == Request(runs, blockOf)
           ss == CpuLists(runs)
           counts == Counts(r)
<1>1. \A g \in Groups : ss[g] \in Seq(CpuBlocks) /\ Len(ss[g]) = Chunks(runs[g])
  <2> SUFFICES ASSUME NEW g \in Groups
               PROVE  ss[g] \in Seq(CpuBlocks) /\ Len(ss[g]) = Chunks(runs[g])
    OBVIOUS
  <2>1. Chunks(runs[g]) \in Nat /\ \A i \in 1 .. Chunks(runs[g]) : SlotOf[<<g, FirstChunk(runs[g]) + i - 1>>] \in CpuBlocks
    BY ChunkFacts
  <2>2. ss[g] = [i \in 1 .. Chunks(runs[g]) |-> SlotOf[<<g, FirstChunk(runs[g]) + i - 1>>]]
    BY DEF CpuLists
  <2> HIDE DEF ss
  <2>3. ss[g] \in [1 .. Chunks(runs[g]) -> CpuBlocks]
    BY <2>1, <2>2
  <2>4. QED
    BY <2>1, <2>3, ListOf
<1>2. DOMAIN ss = Groups /\ Groups = 1 .. Len(layout.refs) /\ Len(layout.refs) \in Nat
  BY GroupFacts DEF CpuLists
<1>3. counts = [g \in Groups |-> Chunks(runs[g])]
  <2>1. counts = [g \in Groups |-> Count(runs[g].size, runs[g].logical)]
    BY DEF Counts, Request
  <2>2. \A g \in Groups : Chunks(runs[g]) = Count(runs[g].size, runs[g].logical)
    BY ChunkFacts
  <2> HIDE DEF counts
  <2>3. QED
    BY <2>1, <2>2
<1>4. Lens(ss) = counts
  <2> HIDE DEF counts
  <2>1. QED
    BY <1>1, <1>2, <1>3 DEF Lens
<1>5. r.cpu = FlattenSeq(ss)
  <2> DEFINE e(g) == IF runs[g].size = 0 THEN <<>>
                     ELSE LET first == runs[g].logical \div Factor
                              last == (runs[g].logical + runs[g].size - 1) \div Factor
                          IN  [i \in 1 .. last - first + 1 |-> SlotOf[<<g, first + i - 1>>]]
  <2>1. r.cpu = FlattenSeq([g \in Groups |-> e(g)])
    BY DEF Request
  <2>2. ASSUME NEW g \in Groups
        PROVE  e(g) = [i \in 1 .. Chunks(runs[g]) |-> SlotOf[<<g, FirstChunk(runs[g]) + i - 1>>]]
    <3>1. CASE runs[g].size = 0
      <4>1. [i \in 1 .. 0 |-> SlotOf[<<g, FirstChunk(runs[g]) + i - 1>>]] = <<>>
        OBVIOUS
      <4>2. Chunks(runs[g]) = 0 /\ e(g) = <<>>
        BY <3>1 DEF Chunks
      <4>3. QED
        BY <4>1, <4>2, Zenon
    <3>2. CASE runs[g].size # 0
      BY <3>2, Zenon DEF Chunks, FirstChunk
    <3>3. QED
      BY <3>1, <3>2
  <2> HIDE DEF e
  <2>3. [g \in Groups |-> e(g)] = ss
    BY <2>2, Zenon DEF CpuLists
  <2>4. QED
    BY <2>1, <2>3, Zenon
<1>6. ss = [g \in 1 .. Len(layout.refs) |-> ss[g]]
  BY <1>2 DEF CpuLists
<1>7. Len(counts) = Len(layout.refs)
  <2>1. counts \in [1 .. Len(layout.refs) -> Nat]
    BY <1>2, <1>3, ChunkFacts
  <2> HIDE DEF counts
  <2>2. QED
    BY <1>2, <2>1, ListOf
<1> HIDE DEF ss, counts
<1>8. ss \in Seq(Seq(CpuBlocks)) /\ Len(ss) = Len(layout.refs)
  <2>1. ss \in [1 .. Len(layout.refs) -> Seq(CpuBlocks)]
    BY <1>1, <1>2, <1>6
  <2>2. QED
    BY <1>2, <2>1, ListOf
<1>9. /\ FlattenSeq(ss) \in Seq(CpuBlocks)
      /\ Len(FlattenSeq(ss)) = Sum(counts, Len(ss))
      /\ \A g \in 1 .. Len(ss) : \A k \in 1 .. Len(ss[g]) : FlattenSeq(ss)[Sum(counts, g - 1) + k] = ss[g][k]
  BY <1>4, <1>8, FlattenFacts
<1>10. Len(r.cpu) = Total(counts)
  BY <1>5, <1>7, <1>8, <1>9 DEF Total
<1>11. ASSUME NEW g \in Groups, NEW i \in 0 .. runs[g].size - 1
       PROVE  r.cpu[Sum(counts, g - 1) + ((Skip(runs[g].logical) + i) \div Factor) + 1]
                = SlotOf[<<g, (runs[g].logical + i) \div Factor>>]
  <2> DEFINE at == (Skip(runs[g].logical) + i) \div Factor
  <2>1. at + 1 \in 1 .. Chunks(runs[g]) /\ FirstChunk(runs[g]) + at = (runs[g].logical + i) \div Factor
    BY ChunkFacts
  <2>2. Chunks(runs[g]) \in Nat
    BY ChunkFacts
  <2>3. FirstChunk(runs[g]) \in Nat
    BY RunFacts, ConstantFacts, DivMod DEF FirstChunk
  <2>4. at \in Nat
    <3>1. runs[g].logical \in Nat /\ Factor \in Nat \ {0} /\ i \in Nat
      BY RunFacts, ConstantFacts
    <3>2. Skip(runs[g].logical) + i \in Nat
      BY <3>1, DivMod DEF Skip
    <3>3. QED
      BY <3>1, <3>2, DivMod
  <2> HIDE DEF at
  <2>5. Sum(counts, g - 1) \in Nat
    <3>1. \A h \in 1 .. Len(layout.refs) : counts[h] \in Nat
      BY <1>2, <1>3, ChunkFacts
    <3>2. g - 1 \in 0 .. Len(layout.refs)
      BY <1>2
    <3>3. QED
      BY <1>2, <3>1, <3>2, SumFacts
  <2>6. Sum(counts, g - 1) + at + 1 = Sum(counts, g - 1) + (at + 1) /\ FirstChunk(runs[g]) + (at + 1) - 1 = FirstChunk(runs[g]) + at
    BY <2>3, <2>4, <2>5
  <2>7. ss[g][at + 1] = SlotOf[<<g, FirstChunk(runs[g]) + (at + 1) - 1>>]
    BY <2>1 DEF ss, CpuLists
  <2>8. g \in 1 .. Len(ss) /\ at + 1 \in 1 .. Len(ss[g])
    BY <1>1, <1>2, <1>8, <2>1
  <2>9. r.cpu[Sum(counts, g - 1) + at + 1] = SlotOf[<<g, FirstChunk(runs[g]) + at>>]
    BY <1>5, <1>9, <2>6, <2>7, <2>8
  <2>10. QED
    BY <2>1, <2>9 DEF at
<1>12. r.cpu \in Seq(CpuBlocks)
  BY <1>5, <1>9
<1>13. QED
  BY <1>10, <1>11, <1>12 DEF counts

(* A request that is accepted is the one the manager made.                 *)
LEMMA VariantFacts ==
    ASSUME NEW runs \in Runs, LayoutOK, NEW blockOf, NEW v \in Variants(Request(runs, blockOf)), PlanAccepted(v)
    PROVE  v = Request(runs, blockOf)
<1> DEFINE r == Request(runs, blockOf)
           short == [r EXCEPT !.cpu = SubSeq(@, 1, Len(@) - 1)]
<1>1. r.cpu \in Seq(CpuBlocks) /\ Len(r.cpu) = Total(Counts(r))
  BY CpuOfRequest
<1>2. short.sizes = r.sizes /\ short.logical = r.logical /\ short.cpu = SubSeq(r.cpu, 1, Len(r.cpu) - 1)
  BY DEF Request
<1>3. v = r \/ v = short
  BY DEF Variants
<1>4. ASSUME v = short
      PROVE  v = r
  <2>1. Counts(v) = Counts(r) /\ v.cpu = SubSeq(r.cpu, 1, Len(r.cpu) - 1)
    BY <1>2, <1>4 DEF Counts
  <2>2. Len(v.cpu) = Len(r.cpu)
    BY <1>1, <2>1 DEF PlanAccepted
  <2>3. Len(r.cpu) \in Nat
    BY <1>1, LenProperties
  <2>4. Len(r.cpu) = 0
    <3>1. CASE Len(r.cpu) # 0
      <4> DEFINE n == Len(r.cpu) - 1
                 c == r.cpu
      <4>1. n \in Nat /\ n <= Len(c)
        BY <2>3, <3>1
      <4>2. c \in Seq(CpuBlocks)
        BY <1>1
      <4>3. Len(SubSeq(c, 1, n)) = n
        <5> HIDE DEF n, c
        <5>1. 1 \in 1 .. Len(c) + 1 /\ n \in 0 .. Len(c)
          BY <4>1, <4>2, LenProperties
        <5>2. QED
          BY <4>2, <5>1, SubSeqProperties
      <4>4. QED
        BY <2>1, <2>2, <2>3, <4>3
    <3>2. QED
      BY <3>1
  <2>5. r.cpu = <<>> /\ v.cpu = <<>>
    <3>1. r.cpu = <<>>
      BY <1>1, <2>4, EmptySeq
    <3>2. v.cpu = <<>>
      BY <2>1, <2>4, <3>1
    <3>3. QED
      BY <3>1, <3>2
  <2>6. short = [r EXCEPT !.cpu = short.cpu]
    BY <1>2 DEF Request
  <2>7. QED
    BY <1>4, <2>5, <2>6 DEF Request
<1>5. QED
  BY <1>3, <1>4

-----------------------------------------------------------------------------
(* What copy_plan and _spans make of the request.                          *)

(* The entry of block x of a run for one reference.                        *)
Entry(x, ref, blockOf) ==
    [layer |-> ref.layer, size |-> ref.size, block |-> blockOf[x],
     cpu |-> SlotOf[<<x[1], x[2] \div Factor>>], sub |-> x[2] % Factor]

(* s is a part of the bytes of block x in the layer of ref, and of their   *)
(* place in the CPU block of its chunk.                                    *)
SpanOf(s, x, ref, blockOf) ==
    /\ s.layer = ref.layer /\ s.block = blockOf[x]
    /\ s.alloc = AllocOf(ref.layer) /\ s.cpu = SlotOf[<<x[1], x[2] \div Factor>>]
    /\ s.from \in Nat /\ s.width \in Nat /\ s.from + s.width <= ref.size
    /\ s.offset = (x[2] % Factor) * PageOf(ref.layer) + s.from

LEMMA PlanEntryFacts ==
    ASSUME NEW runs \in Runs, LayoutOK, NEW blockOf, \A x \in Covered(runs) : blockOf[x] \in Blocks,
           NEW g \in Groups, NEW n \in DOMAIN layout.refs[g], NEW i \in 0 .. runs[g].size - 1
    PROVE  PlanEntry(Request(runs, blockOf), g, n, i)
             = Entry(<<g, runs[g].logical + i>>, layout.refs[g][n], blockOf)
<1> DEFINE r == Request(runs, blockOf)
           ref == layout.refs[g][n]
           m == runs[g].logical
<1>1. r.blocks[Sum(r.sizes, g - 1) + i + 1] = blockOf[<<g, m + i>>]
  BY BlocksOfRequest
<1>2. r.cpu[Sum(Counts(r), g - 1) + ((Skip(m) + i) \div Factor) + 1] = SlotOf[<<g, (m + i) \div Factor>>]
  BY CpuOfRequest
<1>3. (Skip(m) + i) % Factor = (m + i) % Factor
  <2>1. m \in Nat /\ Factor \in Nat \ {0} /\ i \in Nat
    BY RunFacts, ConstantFacts
  <2>2. (m + i) % Factor = ((m % Factor) + i) % Factor
    BY <2>1, PlaceInRun
  <2>3. QED
    BY <2>2 DEF Skip
<1>4. r.logical[g] = m
  BY DEF Request
<1> HIDE DEF r, m
<1>5. PlanEntry(r, g, n, i) =
        [layer |-> ref.layer, size |-> ref.size, block |-> r.blocks[Sum(r.sizes, g - 1) + i + 1],
         cpu |-> r.cpu[Sum(Counts(r), g - 1) + ((Skip(m) + i) \div Factor) + 1], sub |-> (Skip(m) + i) % Factor]
  BY <1>4, Zenon DEF PlanEntry
<1>6. PlanEntry(r, g, n, i) =
        [layer |-> ref.layer, size |-> ref.size, block |-> blockOf[<<g, m + i>>],
         cpu |-> SlotOf[<<g, (m + i) \div Factor>>], sub |-> (m + i) % Factor]
  BY <1>1, <1>2, <1>3, <1>5, Zenon
<1>7. <<g, m + i>>[1] = g /\ <<g, m + i>>[2] = m + i
  OBVIOUS
<1>8. QED
  BY <1>6, <1>7, Zenon DEF Entry, r, m

(* The plan has an entry for every block of the request and every          *)
(* reference of its group, and no other.                                   *)
LEMMA CopyPlanFacts ==
    ASSUME NEW runs \in Runs, LayoutOK, NEW blockOf, \A x \in Covered(runs) : blockOf[x] \in Blocks
    PROVE  LET plan == CopyPlan(Request(runs, blockOf))
           IN  /\ \A e \in plan : \E x \in Covered(runs) : \E ref \in Range(layout.refs[x[1]]) :
                    e = Entry(x, ref, blockOf)
               /\ \A x \in Covered(runs) : \A ref \in Range(layout.refs[x[1]]) : Entry(x, ref, blockOf) \in plan
<1> DEFINE r == Request(runs, blockOf)
<1>1. DOMAIN r.sizes = Groups /\ \A g \in Groups : r.sizes[g] = runs[g].size
  BY DEF Request
<1>2. ASSUME NEW e \in CopyPlan(r)
      PROVE  \E x \in Covered(runs) : \E ref \in Range(layout.refs[x[1]]) : e = Entry(x, ref, blockOf)
  <2> HIDE DEF r
  <2>1. PICK g \in DOMAIN r.sizes : e \in {PlanEntry(r, g, n, i) : n \in DOMAIN layout.refs[g], i \in 0 .. r.sizes[g] - 1}
    BY DEF CopyPlan
  <2>2. PICK n \in DOMAIN layout.refs[g], i \in 0 .. r.sizes[g] - 1 : e = PlanEntry(r, g, n, i)
    BY <2>1
  <2>3. g \in Groups /\ i \in 0 .. runs[g].size - 1
    BY <1>1
  <2> DEFINE x == <<g, runs[g].logical + i>>
             ref == layout.refs[g][n]
  <2>4. e = Entry(x, ref, blockOf)
    BY <2>2, <2>3, PlanEntryFacts DEF r
  <2>5. x \in Covered(runs) /\ x[1] = g
    BY <2>3, CoveredFacts
  <2>6. ref \in Range(layout.refs[g])
    BY <2>3, RefFacts
  <2> HIDE DEF x, ref
  <2>7. QED
    BY <2>4, <2>5, <2>6
<1>3. ASSUME NEW x \in Covered(runs), NEW ref \in Range(layout.refs[x[1]])
      PROVE  Entry(x, ref, blockOf) \in CopyPlan(r)
  <2> DEFINE g == x[1]
             i == x[2] - runs[x[1]].logical
  <2>1. g \in Groups /\ i \in 0 .. runs[g].size - 1 /\ x[2] \in Nat /\ x = <<g, x[2]>>
    BY CoveredFacts
  <2>2. runs[g].logical + i = x[2]
    <3>1. runs[g].logical \in Nat
      BY <2>1, RunFacts
    <3>2. QED
      BY <2>1, <3>1
  <2>3. x = <<g, runs[g].logical + i>>
    BY <2>1, <2>2
  <2> HIDE DEF g, i
  <2>4. PICK n \in DOMAIN layout.refs[g] : ref = layout.refs[g][n]
    BY <2>1, RefFacts DEF g
  <2>5. PlanEntry(r, g, n, i) = Entry(x, ref, blockOf)
    BY <2>1, <2>3, <2>4, PlanEntryFacts
  <2>6. g \in DOMAIN r.sizes /\ i \in 0 .. r.sizes[g] - 1
    BY <1>1, <2>1
  <2> HIDE DEF r
  <2>7. PlanEntry(r, g, n, i) \in CopyPlan(r)
    BY <2>6 DEF CopyPlan
  <2>8. QED
    BY <2>5, <2>7
<1>4. QED
  BY <1>2, <1>3

(* The spans of an entry are parts of its bytes, and together all of them. *)
LEMMA EntrySpans ==
    ASSUME LayoutOK, NEW x, NEW blockOf, x[1] \in Groups, x[2] \in Nat, NEW ref \in Range(layout.refs[x[1]])
    PROVE  /\ \A s \in Spans(Entry(x, ref, blockOf)) : SpanOf(s, x, ref, blockOf)
           /\ \A i \in 1 .. ref.size : \E s \in Spans(Entry(x, ref, blockOf)) : i - s.from \in 1 .. s.width
<1> DEFINE e == Entry(x, ref, blockOf)
           l == ref.layer
           cpu == SlotOf[<<x[1], x[2] \div Factor>>]
           offset == (x[2] % Factor) * PageOf(l)
           span(from, width) == [layer |-> l, block |-> blockOf[x], from |-> from, width |-> width,
                                 alloc |-> AllocOf(l), cpu |-> cpu, offset |-> offset + from]
           rows == RowsOf(l)
           N == Len(rows)
<1>1. l \in DOMAIN layout.layers /\ ref.size \in Nat \ {0}
  BY RefFacts
<1>2. rows \in Seq(Nat) /\ ref.size <= Total(rows) /\ (layout.packed => ref.size = Total(rows))
  BY <1>1 DEF LayoutOK
<1>3. e.layer = l /\ e.size = ref.size /\ e.block = blockOf[x] /\ e.cpu = cpu /\ e.sub = x[2] % Factor
  BY DEF Entry
<1>4. Spans(e) = IF layout.packed THEN {span(Sum(rows, k - 1), rows[k]) : k \in DOMAIN rows} ELSE {span(0, ref.size)}
  <2> DEFINE eSpan(from, width) ==
               [layer |-> e.layer, block |-> e.block, from |-> from, width |-> width,
                alloc |-> AllocOf(e.layer), cpu |-> e.cpu, offset |-> e.sub * PageOf(e.layer) + from]
  <2>1. Spans(e) = IF layout.packed THEN {eSpan(Sum(RowsOf(e.layer), k - 1), RowsOf(e.layer)[k]) : k \in DOMAIN RowsOf(e.layer)}
                   ELSE {eSpan(0, e.size)}
    <3> HIDE DEF e
    <3>1. QED
      BY Zenon DEF Spans, RowsOf, AllocOf, PageOf
  <2>2. \A from, width : eSpan(from, width) = span(from, width)
    <3> HIDE DEF e
    <3>1. QED
      BY <1>3, Zenon
  <2>3. RowsOf(e.layer) = rows
    BY <1>3
  <2> HIDE DEF eSpan, span, rows, e
  <2>4. QED
    BY <1>3, <2>1, <2>2, <2>3
<1>5. ASSUME NEW from \in Nat, NEW width \in Nat, from + width <= ref.size
      PROVE  SpanOf(span(from, width), x, ref, blockOf)
  BY <1>5 DEF SpanOf
<1>6. \A from, width : span(from, width).from = from /\ span(from, width).width = width
  OBVIOUS
<1> HIDE DEF span, e
<1>7. CASE ~layout.packed
  <2>1. Spans(e) = {span(0, ref.size)}
    BY <1>4, <1>7
  <2>2. \A s \in Spans(e) : SpanOf(s, x, ref, blockOf)
    BY <1>1, <1>5, <2>1
  <2>3. ASSUME NEW i \in 1 .. ref.size
        PROVE  \E s \in Spans(e) : i - s.from \in 1 .. s.width
    <3>1. i - span(0, ref.size).from \in 1 .. span(0, ref.size).width
      BY <1>1, <1>6
    <3>2. QED
      BY <2>1, <3>1
  <2>4. QED
    BY <2>2, <2>3 DEF e
<1>8. CASE layout.packed
  <2>1. Spans(e) = {span(Sum(rows, k - 1), rows[k]) : k \in DOMAIN rows}
    BY <1>4, <1>8
  <2>2. N \in Nat /\ DOMAIN rows = 1 .. N /\ \A k \in 1 .. N : rows[k] \in Nat
    BY <1>2, LenProperties, ElementOfSeq
  <2>3. ref.size = Sum(rows, N)
    BY <1>2, <1>8 DEF Total
  <2> HIDE DEF rows, N
  <2>4. /\ \A k \in 0 .. N : Sum(rows, k) \in Nat
        /\ \A k \in 1 .. N : Sum(rows, k) = Sum(rows, k - 1) + rows[k]
    BY <2>2, SumFacts
  <2>5. ASSUME NEW k \in 1 .. N
        PROVE  SpanOf(span(Sum(rows, k - 1), rows[k]), x, ref, blockOf)
    <3>1. Sum(rows, k) <= Sum(rows, N)
      <4>1. k \in 0 .. N /\ N \in k .. N
        BY <2>2
      <4>2. QED
        BY <2>2, <4>1, SumGrows
    <3>2. k - 1 \in 0 .. N
      BY <2>2
    <3>3. Sum(rows, k - 1) \in Nat /\ rows[k] \in Nat /\ Sum(rows, k - 1) + rows[k] <= ref.size
      BY <2>2, <2>3, <2>4, <3>1, <3>2
    <3>4. QED
      BY <1>5, <3>3
  <2>6. \A s \in Spans(e) : SpanOf(s, x, ref, blockOf)
    BY <2>1, <2>2, <2>5
  <2>7. ASSUME NEW i \in 1 .. ref.size
        PROVE  \E s \in Spans(e) : i - s.from \in 1 .. s.width
    <3>1. PICK k \in 1 .. N : Sum(rows, k - 1) < i /\ i <= Sum(rows, k)
      BY <2>2, <2>3, SumCovers
    <3>2. k - 1 \in 0 .. N
      BY <2>2
    <3>3. i - Sum(rows, k - 1) \in 1 .. rows[k]
      BY <2>2, <2>4, <3>1, <3>2
    <3> DEFINE s == span(Sum(rows, k - 1), rows[k])
    <3>4. s \in Spans(e) /\ s.from = Sum(rows, k - 1) /\ s.width = rows[k]
      BY <1>6, <2>1, <2>2
    <3> HIDE DEF s
    <3>5. QED
      BY <3>3, <3>4
  <2>8. QED
    BY <2>6, <2>7 DEF e
<1>9. QED
  BY <1>7, <1>8

(* The spans of an accepted request are parts of the bytes of its blocks,  *)
(* and together all of them.                                               *)
LEMMA RequestSpans ==
    ASSUME NEW runs \in Runs, LayoutOK, NEW blockOf, \A x \in Covered(runs) : blockOf[x] \in Blocks,
           NEW v \in Variants(Request(runs, blockOf)), RequestAccepted(v)
    PROVE  /\ \A s \in AllSpans(v) : \E x \in Covered(runs) : \E ref \in Range(layout.refs[x[1]]) :
                SpanOf(s, x, ref, blockOf)
           /\ \A x \in Covered(runs) : \A ref \in Range(layout.refs[x[1]]) : \A i \in 1 .. ref.size :
                \E s \in AllSpans(v) : SpanOf(s, x, ref, blockOf) /\ i - s.from \in 1 .. s.width
<1> DEFINE plan == CopyPlan(Request(runs, blockOf))
<1>1. AllSpans(v) = UNION {Spans(e) : e \in plan}
  BY VariantFacts DEF RequestAccepted, AllSpans
<1>2. /\ \A e \in plan : \E x \in Covered(runs) : \E ref \in Range(layout.refs[x[1]]) : e = Entry(x, ref, blockOf)
      /\ \A x \in Covered(runs) : \A ref \in Range(layout.refs[x[1]]) : Entry(x, ref, blockOf) \in plan
  BY CopyPlanFacts
<1>3. \A x \in Covered(runs) : x[1] \in Groups /\ x[2] \in Nat
  BY CoveredFacts
<1> HIDE DEF plan
<1>4. ASSUME NEW s \in AllSpans(v)
      PROVE  \E x \in Covered(runs) : \E ref \in Range(layout.refs[x[1]]) : SpanOf(s, x, ref, blockOf)
  <2>1. PICK e \in plan : s \in Spans(e)
    BY <1>1
  <2>2. PICK x \in Covered(runs) : \E ref \in Range(layout.refs[x[1]]) : e = Entry(x, ref, blockOf)
    BY <1>2
  <2>3. PICK ref \in Range(layout.refs[x[1]]) : e = Entry(x, ref, blockOf)
    BY <2>2
  <2>4. SpanOf(s, x, ref, blockOf)
    BY <1>3, <2>1, <2>3, EntrySpans
  <2>5. QED
    BY <2>4
<1>5. ASSUME NEW x \in Covered(runs), NEW ref \in Range(layout.refs[x[1]]), NEW i \in 1 .. ref.size
      PROVE  \E s \in AllSpans(v) : SpanOf(s, x, ref, blockOf) /\ i - s.from \in 1 .. s.width
  <2> DEFINE e == Entry(x, ref, blockOf)
  <2>1. e \in plan /\ x[1] \in Groups /\ x[2] \in Nat
    BY <1>2, <1>3
  <2>2. PICK s \in Spans(e) : i - s.from \in 1 .. s.width
    BY <2>1, EntrySpans
  <2>3. SpanOf(s, x, ref, blockOf)
    BY <2>1, EntrySpans
  <2> HIDE DEF e
  <2>4. s \in AllSpans(v)
    BY <1>1, <2>1
  <2>5. QED
    BY <2>2, <2>3, <2>4
<1>6. QED
  BY <1>4, <1>5

-----------------------------------------------------------------------------
(* Places in memory.                                                       *)

Slot(x) == SlotOf[<<x[1], x[2] \div Factor>>]
Place(x, ref, i) == (x[2] % Factor) * PageOf(ref.layer) + i

LEMMA SlotFacts ==
    ASSUME LayoutOK, NEW x \in Groups \X Logicals
    PROVE  <<x[1], x[2] \div Factor>> \in DOMAIN SlotOf /\ Slot(x) \in CpuBlocks /\ x[2] \in Nat
<1>1. x[2] \in Nat /\ x[2] <= LastLogical /\ x[1] \in Groups /\ LastLogical \in Nat /\ Factor \in Nat \ {0}
  BY ConstantFacts DEF Logicals
<1>2. x[2] \div Factor <= LastLogical \div Factor /\ x[2] \div Factor \in Nat /\ LastLogical \div Factor \in Nat
  BY <1>1, DivGrows, DivMod
<1>3. <<x[1], x[2] \div Factor>> \in DOMAIN SlotOf
  <2>1. x[2] \div Factor \in 0 .. LastLogical \div Factor
    BY <1>2
  <2>2. <<x[1], x[2] \div Factor>> \in Groups \X (0 .. LastLogical \div Factor)
    BY <1>1, <2>1
  <2>3. QED
    BY <2>2 DEF LayoutOK
<1>4. QED
  BY <1>1, <1>3, PlanAssumption DEF Range, Slot

(* What LayoutOK says of one reference.                                    *)
LEMMA LayerFacts ==
    ASSUME LayoutOK, NEW g \in Groups, NEW ref \in Range(layout.refs[g])
    PROVE  /\ ref.layer \in DOMAIN layout.layers /\ ref.size \in Nat \ {0}
           /\ AllocOf(ref.layer) \in DOMAIN layout.pages /\ PageOf(ref.layer) \in Nat
           /\ ref.size <= PageOf(ref.layer)
           /\ Total(RowsOf(ref.layer)) \in Nat /\ ref.size <= Total(RowsOf(ref.layer))
<1>1. ref.layer \in DOMAIN layout.layers /\ ref.size \in Nat \ {0}
  BY RefFacts
<1>2. /\ AllocOf(ref.layer) \in DOMAIN layout.pages /\ RowsOf(ref.layer) \in Seq(Nat)
      /\ ref.size <= PageOf(ref.layer) /\ ref.size <= Total(RowsOf(ref.layer))
  BY <1>1 DEF LayoutOK
<1>3. PageOf(ref.layer) \in Nat
  BY <1>2 DEF LayoutOK, PageOf
<1>4. Total(RowsOf(ref.layer)) \in Nat
  <2> DEFINE rows == RowsOf(ref.layer)
  <2>1. Len(rows) \in Nat /\ \A i \in 1 .. Len(rows) : rows[i] \in Nat
    BY <1>2, LenProperties, ElementOfSeq
  <2> HIDE DEF rows
  <2>2. Sum(rows, Len(rows)) \in Nat
    <3>1. \A k \in 0 .. Len(rows) : Sum(rows, k) \in Nat
      BY <2>1, SumFacts
    <3>2. QED
      BY <2>1, <3>1
  <2>3. QED
    BY <2>2 DEF Total, rows
<1>5. QED
  BY <1>1, <1>2, <1>3, <1>4

(* The place of a byte of a logical block is inside its CPU block.         *)
LEMMA PlaceFacts ==
    ASSUME LayoutOK, MemoryOK, NEW x \in Groups \X Logicals, NEW ref \in Range(layout.refs[x[1]]),
           NEW i \in 1 .. ref.size
    PROVE  /\ AllocOf(ref.layer) \in DOMAIN host /\ Slot(x) \in DOMAIN host[AllocOf(ref.layer)]
           /\ Place(x, ref, i) \in DOMAIN host[AllocOf(ref.layer)][Slot(x)]
<1>1. x[1] \in Groups /\ x[2] \in Nat /\ Slot(x) \in CpuBlocks
  BY SlotFacts
<1> DEFINE page == PageOf(ref.layer)
           sub == x[2] % Factor
<1>2. AllocOf(ref.layer) \in DOMAIN layout.pages /\ page \in Nat /\ ref.size <= page /\ ref.size \in Nat
  BY <1>1, LayerFacts
<1>3. sub \in 0 .. Factor - 1 /\ Factor \in Nat \ {0}
  BY <1>1, ConstantFacts, DivMod
<1>4. /\ DOMAIN host[AllocOf(ref.layer)] = CpuBlocks
      /\ DOMAIN host[AllocOf(ref.layer)][Slot(x)] = 1 .. Factor * page
  BY <1>1, <1>2 DEF MemoryOK, PageOf
<1>5. i \in 1 .. page
  BY <1>2
<1> HIDE DEF page, sub
<1>6. sub * page + i \in 1 .. Factor * page
  BY <1>2, <1>3, <1>5, PageInside
<1>7. QED
  BY <1>1, <1>2, <1>4, <1>6 DEF MemoryOK, Place, page, sub

(* Two bytes with the same place in host memory are the same byte.         *)
LEMMA PlacesApart ==
    ASSUME LayoutOK, NEW x \in Groups \X Logicals, NEW y \in Groups \X Logicals,
           NEW ref \in Range(layout.refs[x[1]]), NEW other \in Range(layout.refs[y[1]]),
           NEW i \in 1 .. ref.size, NEW j \in 1 .. other.size,
           Slot(x) = Slot(y), AllocOf(ref.layer) = AllocOf(other.layer), Place(x, ref, i) = Place(y, other, j)
    PROVE  x = y /\ ref.layer = other.layer /\ i = j
<1>1. x[1] \in Groups /\ y[1] \in Groups /\ x[2] \in Nat /\ y[2] \in Nat /\ Factor \in Nat \ {0}
  BY SlotFacts, ConstantFacts
<1>2. x[1] = y[1] /\ x[2] \div Factor = y[2] \div Factor
  <2>1. <<x[1], x[2] \div Factor>> \in DOMAIN SlotOf /\ <<y[1], y[2] \div Factor>> \in DOMAIN SlotOf
    BY SlotFacts
  <2>2. <<x[1], x[2] \div Factor>> = <<y[1], y[2] \div Factor>>
    BY <2>1, PlanAssumption DEF IsInjective, Slot
  <2>3. QED
    BY <2>2
<1> DEFINE page == PageOf(ref.layer)
<1>3. page \in Nat /\ PageOf(other.layer) = page
  BY <1>1, LayerFacts DEF PageOf
<1>4. i \in 1 .. page /\ j \in 1 .. page
  BY <1>1, <1>3, LayerFacts
<1>5. (x[2] % Factor) * page + i = (y[2] % Factor) * page + j
  BY <1>3 DEF Place
<1>6. x[2] % Factor \in Nat /\ y[2] % Factor \in Nat
  BY <1>1, DivMod
<1>7. x[2] % Factor = y[2] % Factor /\ i = j
  <2> DEFINE a == x[2] % Factor
             b == y[2] % Factor
  <2>1. a \in Nat /\ b \in Nat /\ a * page + i = b * page + j
    BY <1>5, <1>6
  <2> HIDE DEF a, b, page
  <2>2. a = b /\ i = j
    BY <1>3, <1>4, <2>1, PagesApart
  <2>3. QED
    BY <2>2 DEF a, b
<1>8. x[2] = y[2]
  <2>1. x[2] = Factor * (x[2] \div Factor) + (x[2] % Factor) /\ y[2] = Factor * (y[2] \div Factor) + (y[2] % Factor)
    BY <1>1, DivMod
  <2>2. QED
    BY <1>2, <1>7, <2>1
<1>9. x = y
  BY <1>2, <1>8
<1>10. ref.layer = other.layer
  BY <1>1, <1>9 DEF LayoutOK
<1>11. QED
  BY <1>7, <1>9, <1>10

(* What HostHoldsSaved and DeviceHoldsHeld say of one byte.                *)
LEMMA HostByte ==
    ASSUME HostHoldsSaved, NEW x \in saved, NEW ref \in Range(layout.refs[x[1]]), NEW i \in 1 .. ref.size
    PROVE  host[AllocOf(ref.layer)][Slot(x)][Place(x, ref, i)] = <<ref.layer, x[2], i>>
BY DEF HostHoldsSaved, AllocOf, Slot, Place, PageOf

LEMMA DeviceByte ==
    ASSUME DeviceHoldsHeld, NEW b \in Blocks, held[b] # NoHolder,
           NEW ref \in Range(layout.refs[held[b][1]]), NEW i \in 1 .. ref.size
    PROVE  device[ref.layer][b][i] = <<ref.layer, held[b][2], i>>
BY DEF DeviceHoldsHeld

(* Steps that leave the layout alone.                                      *)
LEMMA SameLayout ==
    ASSUME LayoutOK, layout' = layout
    PROVE  /\ LayoutOK' /\ Groups' = Groups /\ \A l : AllocOf(l)' = AllocOf(l) /\ RowsOf(l)' = RowsOf(l) /\ PageOf(l)' = PageOf(l)
<1>1. /\ Groups' = Groups
      /\ \A l : AllocOf(l)' = AllocOf(l) /\ RowsOf(l)' = RowsOf(l) /\ PageOf(l)' = PageOf(l)
  BY Zenon DEF Groups, AllocOf, RowsOf, PageOf
<1>2. LayoutOK'
  BY Zenon DEF LayoutOK, Groups, AllocOf, RowsOf, PageOf
<1>3. QED
  BY <1>1, <1>2

-----------------------------------------------------------------------------
(* What the copies write.                                                  *)

StoreHits(S, a, c, i) == {s \in S : s.alloc = a /\ s.cpu = c /\ i - s.offset \in 1 .. s.width}
LoadHits(S, l, b, i) == {s \in S : s.layer = l /\ s.block = b /\ i - s.from \in 1 .. s.width}

LEMMA StoreDomains ==
    ASSUME NEW S
    PROVE  /\ DOMAIN StoreSpans(S) = DOMAIN host
           /\ \A a \in DOMAIN host : DOMAIN StoreSpans(S)[a] = DOMAIN host[a]
           /\ \A a \in DOMAIN host : \A c \in DOMAIN host[a] :
                DOMAIN StoreSpans(S)[a][c] = DOMAIN host[a][c]
BY DEF StoreSpans

LEMMA StoreValue ==
    ASSUME NEW S, NEW a \in DOMAIN host, NEW c \in DOMAIN host[a], NEW i \in DOMAIN host[a][c]
    PROVE  /\ StoreHits(S, a, c, i) = {} => StoreSpans(S)[a][c][i] = host[a][c][i]
           /\ StoreHits(S, a, c, i) # {} => \E s \in StoreHits(S, a, c, i) :
                StoreSpans(S)[a][c][i] = device[s.layer][s.block][s.from + i - s.offset]
<1> DEFINE hits == StoreHits(S, a, c, i)
           pick == CHOOSE s \in hits : TRUE
           read(s) == device[s.layer][s.block][s.from + i - s.offset]
<1>1. StoreSpans(S)[a][c][i] = IF hits = {} THEN host[a][c][i] ELSE read(pick)
  BY DEF StoreSpans, StoreHits
<1>2. hits # {} => pick \in hits
  OBVIOUS
<1> HIDE DEF hits, pick
<1>3. hits # {} => \E s \in hits : StoreSpans(S)[a][c][i] = read(s)
  BY <1>1, <1>2, Zenon
<1>4. hits = {} => StoreSpans(S)[a][c][i] = host[a][c][i]
  BY <1>1, Zenon
<1>5. QED
  BY <1>3, <1>4 DEF hits

LEMMA LoadDomains ==
    ASSUME NEW S
    PROVE  /\ DOMAIN LoadSpans(S) = DOMAIN device
           /\ \A l \in DOMAIN device : DOMAIN LoadSpans(S)[l] = DOMAIN device[l]
           /\ \A l \in DOMAIN device : \A b \in DOMAIN device[l] :
                DOMAIN LoadSpans(S)[l][b] = DOMAIN device[l][b]
BY DEF LoadSpans

LEMMA LoadValue ==
    ASSUME NEW S, NEW l \in DOMAIN device, NEW b \in DOMAIN device[l], NEW i \in DOMAIN device[l][b]
    PROVE  /\ LoadHits(S, l, b, i) = {} => LoadSpans(S)[l][b][i] = device[l][b][i]
           /\ LoadHits(S, l, b, i) # {} => \E s \in LoadHits(S, l, b, i) :
                LoadSpans(S)[l][b][i] = host[s.alloc][s.cpu][s.offset + i - s.from]
<1> DEFINE hits == LoadHits(S, l, b, i)
           pick == CHOOSE s \in hits : TRUE
           read(s) == host[s.alloc][s.cpu][s.offset + i - s.from]
<1>1. LoadSpans(S)[l][b][i] = IF hits = {} THEN device[l][b][i] ELSE read(pick)
  BY DEF LoadSpans, LoadHits
<1>2. hits # {} => pick \in hits
  OBVIOUS
<1> HIDE DEF hits, pick
<1>3. hits # {} => \E s \in hits : LoadSpans(S)[l][b][i] = read(s)
  BY <1>1, <1>2, Zenon
<1>4. hits = {} => LoadSpans(S)[l][b][i] = device[l][b][i]
  BY <1>1, Zenon
<1>5. QED
  BY <1>3, <1>4 DEF hits

(* A store leaves every byte of the blocks that were saved, and of the     *)
(* blocks it was asked for, in its place.                                  *)
LEMMA StoredByte ==
    ASSUME LayoutOK, MemoryOK, HoldersOK, TransfersExact, NEW runs \in Runs,
           NEW blockOf, \A x \in Covered(runs) : blockOf[x] \in Blocks /\ held[blockOf[x]] = x,
           NEW v \in Variants(Request(runs, blockOf)), RequestAccepted(v),
           NEW x \in saved \cup Covered(runs), NEW ref \in Range(layout.refs[x[1]]), NEW i \in 1 .. ref.size
    PROVE  StoreSpans(AllSpans(v))[AllocOf(ref.layer)][Slot(x)][Place(x, ref, i)] = <<ref.layer, x[2], i>>
<1> DEFINE S == AllSpans(v)
           a == AllocOf(ref.layer)
           c == Slot(x)
           p == Place(x, ref, i)
           hits == StoreHits(S, a, c, p)
<1>1. x \in Groups \X Logicals /\ x[1] \in Groups
  BY CoveredFacts DEF HoldersOK
<1>2. a \in DOMAIN host /\ c \in DOMAIN host[a] /\ p \in DOMAIN host[a][c]
  BY <1>1, PlaceFacts
<1>3. /\ \A s \in S : \E y \in Covered(runs) : \E other \in Range(layout.refs[y[1]]) : SpanOf(s, y, other, blockOf)
      /\ \A y \in Covered(runs) : \A other \in Range(layout.refs[y[1]]) : \A k \in 1 .. other.size :
           \E s \in S : SpanOf(s, y, other, blockOf) /\ k - s.from \in 1 .. s.width
  BY RequestSpans
<1>4. CASE hits = {}
  <2>1. StoreSpans(S)[a][c][p] = host[a][c][p]
    <3> HIDE DEF S, a, c, p
    <3>1. QED
      BY <1>2, <1>4, StoreValue
  <2>2. CASE x \in saved
    BY <2>1, <2>2, HostByte DEF TransfersExact
  <2>3. CASE x \in Covered(runs)
    <3>1. PICK s \in S : SpanOf(s, x, ref, blockOf) /\ i - s.from \in 1 .. s.width
      BY <1>3, <2>3
    <3>2. s.alloc = a /\ s.cpu = c /\ s.from \in Nat /\ s.offset = (x[2] % Factor) * PageOf(ref.layer) + s.from
      BY <3>1 DEF SpanOf, Slot
    <3>3. p - s.offset = i - s.from
      <4>1. (x[2] % Factor) \in Nat /\ PageOf(ref.layer) \in Nat
        <5>1. x[2] \in Nat /\ Factor \in Nat \ {0}
          BY <1>1, SlotFacts, ConstantFacts
        <5>2. x[2] % Factor \in Nat
          BY <5>1, DivMod
        <5>3. QED
          BY <1>1, <5>2, LayerFacts
      <4> DEFINE q == (x[2] % Factor) * PageOf(ref.layer)
      <4>2. q \in Nat
        BY <4>1
      <4>3. p = q + i /\ s.offset = q + s.from
        BY <3>2 DEF Place
      <4> HIDE DEF q, p
      <4>4. i \in Int
        BY <1>1, LayerFacts
      <4>5. QED
        BY <3>2, <4>2, <4>3, <4>4
    <3>4. s \in hits
      <4> HIDE DEF p, a, c, S
      <4>1. QED
        BY <3>1, <3>2, <3>3 DEF StoreHits
    <3>5. QED
      BY <1>4, <3>4
  <2>4. QED
    BY <2>2, <2>3
<1>5. CASE hits # {}
  <2>1. PICK s \in hits : StoreSpans(S)[a][c][p] = device[s.layer][s.block][s.from + p - s.offset]
    <3> HIDE DEF S, a, c, p
    <3>1. QED
      BY <1>2, <1>5, StoreValue
  <2>2. s \in S /\ s.alloc = a /\ s.cpu = c /\ p - s.offset \in 1 .. s.width
    <3> HIDE DEF S, a, c, p
    <3>1. QED
      BY DEF StoreHits
  <2>3. PICK y \in Covered(runs) : \E other \in Range(layout.refs[y[1]]) : SpanOf(s, y, other, blockOf)
    BY <1>3, <2>2
  <2>4. PICK other \in Range(layout.refs[y[1]]) : SpanOf(s, y, other, blockOf)
    BY <2>3
  <2>5. y \in Groups \X Logicals /\ y[1] \in Groups /\ y[2] \in Nat
    BY CoveredFacts
  <2>6. s.layer = other.layer /\ s.block = blockOf[y] /\ AllocOf(ref.layer) = AllocOf(other.layer) /\ Slot(x) = Slot(y)
    BY <2>2, <2>4 DEF SpanOf, Slot
  <2> DEFINE j == s.from + (p - s.offset)
             q == (y[2] % Factor) * PageOf(other.layer)
             r == (x[2] % Factor) * PageOf(ref.layer)
  <2>7. r \in Nat /\ q \in Nat /\ other.size \in Nat /\ p = r + i /\ i \in Int
    <3>1. x[2] \in Nat /\ Factor \in Nat \ {0}
      BY <1>1, SlotFacts, ConstantFacts
    <3>2. x[2] % Factor \in Nat /\ y[2] % Factor \in Nat
      <4>1. \A n \in Nat : n % Factor \in Nat
        BY <3>1, DivMod
      <4>2. QED
        BY <2>5, <3>1, <4>1
    <3>3. PageOf(other.layer) \in Nat /\ PageOf(ref.layer) \in Nat /\ other.size \in Nat /\ ref.size \in Nat
      BY <1>1, <2>5, LayerFacts
    <3>4. QED
      BY <3>2, <3>3 DEF Place
  <2>8. s.offset = q + s.from /\ s.from \in Nat /\ s.width \in Nat /\ s.from + s.width <= other.size
    BY <2>4 DEF SpanOf
  <2>9. j \in 1 .. other.size /\ p = q + j /\ s.from + p - s.offset = j
    <3> HIDE DEF p, q, r
    <3>1. QED
      BY <2>2, <2>7, <2>8
  <2>10. Place(x, ref, i) = Place(y, other, j)
    <3> HIDE DEF j
    <3>1. QED
      BY <2>9 DEF Place
  <2> HIDE DEF j
  <2>11. x = y /\ ref.layer = other.layer /\ i = j
    BY <1>1, <2>5, <2>6, <2>9, <2>10, PlacesApart
  <2>12. held[blockOf[y]] = y /\ blockOf[y] \in Blocks /\ held[blockOf[y]] # NoHolder
    <3>1. y \in Nat \X Nat
      BY <2>5, GroupFacts, ConstantFacts
    <3>2. QED
      BY <3>1, PlanAssumption
  <2>13. device[other.layer][blockOf[y]][j] = <<other.layer, y[2], j>>
    BY <2>9, <2>12, DeviceByte DEF TransfersExact
  <2>14. StoreSpans(S)[a][c][p] = device[other.layer][blockOf[y]][j]
    BY <2>1, <2>6, <2>9
  <2>15. QED
    BY <2>11, <2>13, <2>14
<1>6. QED
  BY <1>4, <1>5

-----------------------------------------------------------------------------
(* The steps.                                                              *)

(* What the invariant says once there is a worker.                         *)
WorkerInv == LayoutOK /\ MemoryOK /\ HoldersOK /\ TransfersExact

LEMMA StoreKeeps ==
    ASSUME WorkerInv, NEW runs \in Runs, Store(runs)
    PROVE  WorkerInv'
<1> USE DEF WorkerInv
<1> DEFINE wanted == Covered(runs)
           blockOf == [x \in wanted |-> CHOOSE b \in Blocks : held[b] = x]
<1>1. wanted \subseteq Range(held) /\ saved' = saved \cup wanted /\ layout' = layout /\ device' = device /\ held' = held
  BY DEF Store
<1>2. PICK v \in Variants(Request(runs, blockOf)) : RequestAccepted(v) /\ host' = StoreSpans(AllSpans(v))
  BY DEF Store
<1>3. ASSUME NEW x \in wanted
      PROVE  blockOf[x] \in Blocks /\ held[blockOf[x]] = x
  <2>1. \E b \in Blocks : held[b] = x
    BY <1>1 DEF Range, HoldersOK
  <2>2. QED
    BY <2>1
<1> HIDE DEF blockOf
<1>4. /\ LayoutOK' /\ Groups' = Groups
      /\ \A l : AllocOf(l)' = AllocOf(l) /\ RowsOf(l)' = RowsOf(l) /\ PageOf(l)' = PageOf(l)
  BY <1>1, SameLayout
<1>5. MemoryOK'
  <2>1. /\ DOMAIN host' = DOMAIN host
        /\ \A a \in DOMAIN host : DOMAIN host'[a] = DOMAIN host[a]
        /\ \A a \in DOMAIN host : \A c \in DOMAIN host[a] : DOMAIN host'[a][c] = DOMAIN host[a][c]
    BY <1>2, StoreDomains
  <2>2. QED
    BY <1>1, <1>4, <2>1 DEF MemoryOK
<1>6. HoldersOK'
  <2>1. wanted \subseteq Groups \X Logicals
    BY CoveredFacts
  <2>2. QED
    BY <1>1, <1>4, <2>1 DEF HoldersOK
<1>7. HostHoldsSaved'
  <2>1. ASSUME NEW x \in saved', NEW ref \in Range(layout.refs[x[1]]), NEW i \in 1 .. ref.size
        PROVE  host'[AllocOf(ref.layer)][Slot(x)][Place(x, ref, i)] = <<ref.layer, x[2], i>>
    BY <1>1, <1>2, <1>3, StoredByte
  <2>2. QED
    BY <1>1, <2>1 DEF HostHoldsSaved, AllocOf, Slot, Place, PageOf
<1>8. DeviceHoldsHeld'
  BY <1>1 DEF DeviceHoldsHeld, TransfersExact
<1>9. QED
  BY <1>4, <1>5, <1>6, <1>7, <1>8 DEF TransfersExact

(* A load puts every byte of the blocks it was asked for in their device   *)
(* blocks.                                                                 *)
LEMMA LoadedByte ==
    ASSUME LayoutOK, MemoryOK, HoldersOK, TransfersExact, NEW runs \in Runs, Covered(runs) \subseteq saved,
           NEW blockOf \in Injection(Covered(runs), Blocks),
           NEW v \in Variants(Request(runs, blockOf)), RequestAccepted(v),
           NEW x \in Covered(runs), NEW ref \in Range(layout.refs[x[1]]), NEW i \in 1 .. ref.size
    PROVE  LoadSpans(AllSpans(v))[ref.layer][blockOf[x]][i] = <<ref.layer, x[2], i>>
<1> DEFINE S == AllSpans(v)
           l == ref.layer
           b == blockOf[x]
           hits == LoadHits(S, l, b, i)
<1>0. /\ \A y \in Covered(runs) : blockOf[y] \in Blocks
      /\ \A y, z \in Covered(runs) : blockOf[y] = blockOf[z] => y = z
  BY DEF Injection, IsInjective
<1>1. x \in Groups \X Logicals /\ x[1] \in Groups
  BY CoveredFacts
<1>2. l \in DOMAIN device /\ b \in DOMAIN device[l] /\ i \in DOMAIN device[l][b]
  <2>1. l \in DOMAIN layout.layers /\ ref.size \in Nat /\ Total(RowsOf(l)) \in Nat /\ ref.size <= Total(RowsOf(l))
    BY <1>1, LayerFacts
  <2>2. QED
    BY <1>0, <2>1 DEF MemoryOK
<1>3. \A s \in S : \E y \in Covered(runs) : \E other \in Range(layout.refs[y[1]]) : SpanOf(s, y, other, blockOf)
  BY <1>0, RequestSpans
<1>4. PICK t \in S : SpanOf(t, x, ref, blockOf) /\ i - t.from \in 1 .. t.width
  BY <1>0, RequestSpans
<1>5. t \in hits
  BY <1>4 DEF LoadHits, SpanOf
<1>6. PICK s \in hits : LoadSpans(S)[l][b][i] = host[s.alloc][s.cpu][s.offset + i - s.from]
  <2> HIDE DEF S, l, b
  <2>1. QED
    BY <1>2, <1>5, LoadValue
<1>7. s \in S /\ s.layer = l /\ s.block = b /\ i - s.from \in 1 .. s.width
  BY DEF LoadHits
<1>8. PICK y \in Covered(runs) : \E other \in Range(layout.refs[y[1]]) : SpanOf(s, y, other, blockOf)
  BY <1>3, <1>7
<1>9. PICK other \in Range(layout.refs[y[1]]) : SpanOf(s, y, other, blockOf)
  BY <1>8
<1>10. y = x
  BY <1>0, <1>7, <1>9 DEF SpanOf
<1>11. other.layer = l /\ s.alloc = AllocOf(l) /\ s.cpu = Slot(x)
  BY <1>7, <1>9, <1>10 DEF SpanOf, Slot
<1>12. i \in 1 .. other.size /\ s.offset + i - s.from = Place(x, other, i)
  <2> DEFINE q == (x[2] % Factor) * PageOf(other.layer)
  <2>1. q \in Nat
    <3>1. x[2] \in Nat /\ Factor \in Nat \ {0}
      BY <1>1, SlotFacts, ConstantFacts
    <3>2. x[2] % Factor \in Nat
      BY <3>1, DivMod
    <3>3. PageOf(other.layer) \in Nat
      BY <1>1, <1>11, LayerFacts
    <3>4. QED
      BY <3>2, <3>3
  <2>2. s.offset = q + s.from /\ s.from \in Nat /\ s.width \in Nat /\ s.from + s.width <= other.size
    BY <1>9, <1>10 DEF SpanOf
  <2>3. other.size \in Nat /\ Place(x, other, i) = q + i /\ i \in Int
    BY <1>1, <1>10, LayerFacts DEF Place
  <2> HIDE DEF q
  <2>4. QED
    BY <1>7, <2>1, <2>2, <2>3
<1>13. host[AllocOf(l)][Slot(x)][Place(x, other, i)] = <<l, x[2], i>>
  <2>1. x \in saved /\ other \in Range(layout.refs[x[1]])
    BY <1>10
  <2>2. HostHoldsSaved /\ i \in 1 .. other.size
    BY <1>12 DEF TransfersExact
  <2>3. host[AllocOf(other.layer)][Slot(x)][Place(x, other, i)] = <<other.layer, x[2], i>>
    BY <2>1, <2>2, HostByte
  <2>4. QED
    BY <1>11, <2>3
<1>14. QED
  BY <1>6, <1>11, <1>12, <1>13

(* And leaves the other device blocks alone.                               *)
LEMMA LoadLeaves ==
    ASSUME LayoutOK, NEW runs \in Runs, NEW blockOf, \A x \in Covered(runs) : blockOf[x] \in Blocks,
           NEW v \in Variants(Request(runs, blockOf)), RequestAccepted(v),
           NEW l \in DOMAIN device, NEW b \in DOMAIN device[l], NEW i \in DOMAIN device[l][b],
           \A x \in Covered(runs) : blockOf[x] # b
    PROVE  LoadSpans(AllSpans(v))[l][b][i] = device[l][b][i]
<1>1. ASSUME NEW s \in LoadHits(AllSpans(v), l, b, i)
      PROVE  FALSE
  <2>1. s \in AllSpans(v) /\ s.block = b
    BY DEF LoadHits
  <2>2. \E x \in Covered(runs) : \E ref \in Range(layout.refs[x[1]]) : SpanOf(s, x, ref, blockOf)
    BY <2>1, RequestSpans
  <2>3. QED
    BY <2>1, <2>2 DEF SpanOf
<1>2. LoadHits(AllSpans(v), l, b, i) = {}
  BY <1>1
<1>3. QED
  BY <1>2, LoadValue

LEMMA LoadKeeps ==
    ASSUME WorkerInv, NEW runs \in Runs, Load(runs)
    PROVE  WorkerInv'
<1> USE DEF WorkerInv
<1> DEFINE wanted == Covered(runs)
           free == {b \in Blocks : held[b] = NoHolder}
<1>1. /\ wanted \subseteq saved /\ wanted \cap Range(held) = {}
      /\ layout' = layout /\ host' = host /\ saved' = saved
  BY DEF Load
<1>2. PICK blockOf \in Injection(wanted, free) :
        /\ held' = [b \in Blocks |-> IF b \in Range(blockOf) THEN Inverse(blockOf, wanted, free)[b] ELSE held[b]]
        /\ \E r \in Variants(Request(runs, blockOf)) : RequestAccepted(r) /\ device' = LoadSpans(AllSpans(r))
  BY DEF Load
<1>3. PICK v \in Variants(Request(runs, blockOf)) : RequestAccepted(v) /\ device' = LoadSpans(AllSpans(v))
  BY <1>2
<1>4. blockOf \in [wanted -> free] /\ \A x, y \in wanted : blockOf[x] = blockOf[y] => x = y
  BY <1>2 DEF Injection, IsInjective
<1>5. wanted \subseteq Groups \X Logicals
  BY CoveredFacts
<1> HIDE DEF wanted
<1>6. \A x \in wanted : blockOf[x] \in Blocks /\ blockOf[x] \in free /\ blockOf[x] \in Range(blockOf)
  BY <1>4 DEF Range
<1>7. ASSUME NEW b \in Range(blockOf)
      PROVE  held'[b] \in wanted /\ blockOf[held'[b]] = b /\ b \in Blocks
  <2>1. PICK x \in wanted : blockOf[x] = b
    BY <1>4 DEF Range
  <2>2. b \in free /\ b \in Blocks
    BY <1>6, <2>1
  <2>3. held'[b] = CHOOSE y \in wanted : b \in Range(blockOf) => blockOf[y] = b
    BY <1>2, <2>2 DEF Inverse
  <2>4. QED
    BY <2>1, <2>2, <2>3
<1>8. \A b \in Blocks : b \notin Range(blockOf) => held'[b] = held[b]
  BY <1>2
<1>9. /\ LayoutOK' /\ Groups' = Groups
      /\ \A l : AllocOf(l)' = AllocOf(l) /\ RowsOf(l)' = RowsOf(l) /\ PageOf(l)' = PageOf(l)
  BY <1>1, SameLayout
<1>10. MemoryOK'
  <2>1. /\ DOMAIN device' = DOMAIN device
        /\ \A l \in DOMAIN device : DOMAIN device'[l] = DOMAIN device[l]
        /\ \A l \in DOMAIN device : \A b \in DOMAIN device[l] : DOMAIN device'[l][b] = DOMAIN device[l][b]
    BY <1>3, LoadDomains
  <2>2. QED
    BY <1>1, <1>9, <2>1 DEF MemoryOK
<1>11. HoldersOK'
  <2>1. held' \in [Blocks -> (Groups \X Logicals) \cup {NoHolder}]
    <3>1. DOMAIN held' = Blocks /\ held' = [b \in Blocks |-> held'[b]]
      BY <1>2
    <3>2. \A b \in Blocks : held'[b] \in (Groups \X Logicals) \cup {NoHolder}
      BY <1>5, <1>7, <1>8 DEF HoldersOK
    <3>3. QED
      BY <3>1, <3>2
  <2>2. ASSUME NEW a \in Blocks, NEW b \in Blocks, held'[a] = held'[b], held'[a] # NoHolder
        PROVE  a = b
    <3>1. \A c \in Blocks : held[c] \notin wanted
      BY <1>1 DEF Range, HoldersOK
    <3>2. CASE a \in Range(blockOf) /\ b \in Range(blockOf)
      BY <1>7, <2>2, <3>2
    <3>3. CASE a \in Range(blockOf) /\ b \notin Range(blockOf)
      BY <1>7, <1>8, <2>2, <3>1, <3>3
    <3>4. CASE a \notin Range(blockOf) /\ b \in Range(blockOf)
      BY <1>7, <1>8, <2>2, <3>1, <3>4
    <3>5. CASE a \notin Range(blockOf) /\ b \notin Range(blockOf)
      BY <1>8, <2>2, <3>5 DEF HoldersOK
    <3>6. QED
      BY <3>2, <3>3, <3>4, <3>5
  <2>3. QED
    BY <1>1, <1>9, <2>1, <2>2 DEF HoldersOK
<1>12. HostHoldsSaved'
  BY <1>1 DEF HostHoldsSaved, TransfersExact
<1>13. DeviceHoldsHeld'
  <2>1. ASSUME NEW b \in Blocks, held'[b] # NoHolder,
               NEW ref \in Range(layout.refs[held'[b][1]]), NEW i \in 1 .. ref.size
        PROVE  device'[ref.layer][b][i] = <<ref.layer, held'[b][2], i>>
    <3>1. CASE b \in Range(blockOf)
      <4>1. PICK x : x = held'[b]
        OBVIOUS
      <4>2. x \in Covered(runs) /\ blockOf[x] = b /\ ref \in Range(layout.refs[x[1]])
        BY <1>7, <3>1, <4>1 DEF wanted
      <4>3. LoadSpans(AllSpans(v))[ref.layer][blockOf[x]][i] = <<ref.layer, x[2], i>>
        <5>1. Covered(runs) \subseteq saved /\ blockOf \in Injection(Covered(runs), Blocks)
          BY <1>1, <1>4, <1>6 DEF wanted, Injection, IsInjective
        <5>2. LayoutOK /\ MemoryOK /\ HoldersOK /\ TransfersExact /\ RequestAccepted(v)
          BY <1>3
        <5>3. QED
          BY <2>1, <4>2, <5>1, <5>2, LoadedByte
      <4>4. QED
        BY <1>3, <4>1, <4>2, <4>3
    <3>2. CASE b \notin Range(blockOf)
      <4>1. held'[b] = held[b]
        BY <1>8, <3>2
      <4>2. held[b][1] \in Groups
        BY <2>1, <4>1 DEF HoldersOK
      <4>3. ref.layer \in DOMAIN device /\ b \in DOMAIN device[ref.layer] /\ i \in DOMAIN device[ref.layer][b]
        <5>1. /\ ref.layer \in DOMAIN layout.layers /\ ref.size \in Nat
              /\ Total(RowsOf(ref.layer)) \in Nat /\ ref.size <= Total(RowsOf(ref.layer))
          BY <4>1, <4>2, LayerFacts
        <5>2. QED
          BY <5>1 DEF MemoryOK
      <4>4. \A x \in Covered(runs) : blockOf[x] \in Blocks /\ blockOf[x] # b
        BY <1>6, <3>2 DEF wanted
      <4>5. LoadSpans(AllSpans(v))[ref.layer][b][i] = device[ref.layer][b][i]
        BY <1>3, <4>3, <4>4, LoadLeaves
      <4>6. device[ref.layer][b][i] = <<ref.layer, held[b][2], i>>
        BY <2>1, <4>1, DeviceByte DEF TransfersExact
      <4>7. QED
        BY <1>3, <4>1, <4>5, <4>6
    <3>3. QED
      BY <3>1, <3>2
  <2>2. QED
    BY <1>1, <2>1 DEF DeviceHoldsHeld
<1>14. QED
  BY <1>9, <1>10, <1>11, <1>12, <1>13 DEF TransfersExact

(* A byte of a layer's reference lies in the layer's device blocks.        *)
LEMMA DevicePlace ==
    ASSUME LayoutOK, MemoryOK, NEW g \in Groups, NEW ref \in Range(layout.refs[g]), NEW b \in Blocks,
           NEW i \in 1 .. ref.size
    PROVE  ref.layer \in DOMAIN device /\ b \in DOMAIN device[ref.layer] /\ i \in DOMAIN device[ref.layer][b]
<1>1. /\ ref.layer \in DOMAIN layout.layers /\ ref.size \in Nat
      /\ Total(RowsOf(ref.layer)) \in Nat /\ ref.size <= Total(RowsOf(ref.layer))
  BY LayerFacts
<1>2. QED
  BY <1>1 DEF MemoryOK

(* Device memory d with block b of every layer written.                    *)
Written(d, b, w) == [l \in DOMAIN d |-> [d[l] EXCEPT ![b] = w[l]]]

LEMMA OneBlock ==
    ASSUME LayoutOK, MemoryOK, layout' = layout, host' = host, NEW b \in Blocks, NEW w,
           \A l \in DOMAIN device : DOMAIN w[l] = DOMAIN device[l][b],
           device' = Written(device, b, w)
    PROVE  /\ MemoryOK'
           /\ \A l \in DOMAIN device : device'[l][b] = w[l]
           /\ \A l \in DOMAIN device : \A c \in Blocks \ {b} : device'[l][c] = device[l][c]
<1>1. \A l \in DOMAIN device : DOMAIN device[l] = Blocks
  BY DEF MemoryOK
<1>2. DOMAIN device' = DOMAIN device /\ \A l \in DOMAIN device : DOMAIN device'[l] = DOMAIN device[l]
  BY DEF Written
<1>3. \A l \in DOMAIN device : device'[l][b] = w[l]
  BY <1>1 DEF Written
<1>4. \A l \in DOMAIN device : \A c \in Blocks \ {b} : device'[l][c] = device[l][c]
  BY <1>1 DEF Written
<1>5. \A l \in DOMAIN device : \A c \in Blocks : DOMAIN device'[l][c] = DOMAIN device[l][c]
  BY <1>3, <1>4
<1>6. \A l : RowsOf(l)' = RowsOf(l)
  BY DEF RowsOf
<1>7. MemoryOK'
  <2>1. /\ DOMAIN device' = DOMAIN layout.layers
        /\ \A l \in DOMAIN device' : DOMAIN device'[l] = Blocks
    BY <1>1, <1>2 DEF MemoryOK
  <2>2. \A l \in DOMAIN device' : \A c \in Blocks : DOMAIN device'[l][c] = 1 .. Total(RowsOf(l))
    BY <1>2, <1>5 DEF MemoryOK
  <2>3. QED
    BY <1>6, <2>1, <2>2 DEF MemoryOK
<1>8. QED
  BY <1>3, <1>4, <1>7

LEMMA ComputeKeeps ==
    ASSUME WorkerInv, NEW g \in Groups, NEW n \in Logicals, NEW b \in Blocks, Compute(g, n, b)
    PROVE  WorkerInv'
<1> USE DEF WorkerInv
<1> DEFINE w == [l \in DOMAIN device |-> Bytes(g, n, l, device[l][b])]
<1>1. /\ held[b] = NoHolder /\ <<g, n>> \notin Range(held) /\ held' = [held EXCEPT ![b] = <<g, n>>]
      /\ layout' = layout /\ host' = host /\ saved' = saved
  BY DEF Compute
<1>2. \A l \in DOMAIN device : DOMAIN device[l] = Blocks
  BY DEF MemoryOK
<1>3. device' = [l \in DOMAIN device |-> [device[l] EXCEPT ![b] = w[l]]]
  <2>1. device' = [l \in DOMAIN device |-> [device[l] EXCEPT ![b] = Bytes(g, n, l, device[l][b])]]
    BY Zenon DEF Compute
  <2>2. \A l \in DOMAIN device : w[l] = Bytes(g, n, l, device[l][b])
    OBVIOUS
  <2> HIDE DEF w
  <2>3. QED
    BY <2>1, <2>2
<1>4. \A l \in DOMAIN device : DOMAIN w[l] = DOMAIN device[l][b]
  BY DEF Bytes
<1>5. PICK z : z = w
  OBVIOUS
<1> HIDE DEF w
<1>6. /\ MemoryOK' /\ \A l \in DOMAIN device : device'[l][b] = w[l]
      /\ \A l \in DOMAIN device : \A c \in Blocks \ {b} : device'[l][c] = device[l][c]
  <2>1. device' = Written(device, b, z)
    BY <1>3, <1>5, Zenon DEF Written
  <2>2. \A l \in DOMAIN device : DOMAIN z[l] = DOMAIN device[l][b]
    BY <1>4, <1>5
  <2>3. /\ MemoryOK' /\ \A l \in DOMAIN device : device'[l][b] = z[l]
        /\ \A l \in DOMAIN device : \A c \in Blocks \ {b} : device'[l][c] = device[l][c]
    BY <1>1, <2>1, <2>2, OneBlock
  <2>4. QED
    BY <1>5, <2>3
<1>7. /\ LayoutOK' /\ Groups' = Groups
      /\ \A l : AllocOf(l)' = AllocOf(l) /\ RowsOf(l)' = RowsOf(l) /\ PageOf(l)' = PageOf(l)
  BY <1>1, SameLayout
<1>8. held'[b] = <<g, n>> /\ \A c \in Blocks \ {b} : held'[c] = held[c]
  BY <1>1 DEF HoldersOK
<1>9. HoldersOK'
  <2>1. held' \in [Blocks -> (Groups \X Logicals) \cup {NoHolder}]
    BY <1>1 DEF HoldersOK
  <2>2. \A c \in Blocks : held[c] # <<g, n>>
    BY <1>1 DEF Range, HoldersOK
  <2>3. \A a, c \in Blocks : held'[a] = held'[c] /\ held'[a] # NoHolder => a = c
    BY <1>8, <2>2 DEF HoldersOK
  <2>4. QED
    BY <1>1, <1>7, <2>1, <2>3 DEF HoldersOK
<1>10. HostHoldsSaved'
  BY <1>1 DEF HostHoldsSaved, TransfersExact
<1>11. DeviceHoldsHeld'
  <2>1. ASSUME NEW c \in Blocks, held'[c] # NoHolder,
               NEW ref \in Range(layout.refs[held'[c][1]]), NEW i \in 1 .. ref.size
        PROVE  device'[ref.layer][c][i] = <<ref.layer, held'[c][2], i>>
    <3>1. CASE c = b
      <4> DEFINE l == ref.layer
                 sizes == {r.size : r \in {q \in Range(layout.refs[g]) : q.layer = l}}
      <4>1. held'[c] = <<g, n>> /\ held'[c][1] = g /\ held'[c][2] = n
        BY <1>8, <3>1
      <4>2. ref \in Range(layout.refs[g])
        BY <4>1
      <4>3. l \in DOMAIN device /\ i \in DOMAIN device[l][b]
        BY <4>2, DevicePlace
      <4>4. \E size \in sizes : i <= size
        <5>1. ref.size \in sizes
          BY <4>2
        <5>2. i <= ref.size
          BY <4>2, LayerFacts
        <5> HIDE DEF sizes
        <5>3. QED
          BY <5>1, <5>2
      <4>5. w[l] = Bytes(g, n, l, device[l][b])
        BY <4>3 DEF w
      <4>6. Bytes(g, n, l, device[l][b]) =
              [k \in DOMAIN device[l][b] |-> IF \E size \in sizes : k <= size THEN <<l, n, k>> ELSE device[l][b][k]]
        BY Zenon DEF Bytes
      <4> HIDE DEF sizes
      <4>7. Bytes(g, n, l, device[l][b])[i] = <<l, n, i>>
        BY <4>3, <4>4, <4>6
      <4>8. device'[l][c] = Bytes(g, n, l, device[l][b])
        BY <1>6, <3>1, <4>3, <4>5
      <4>9. QED
        BY <4>1, <4>7, <4>8
    <3>2. CASE c # b
      <4>1. held'[c] = held[c]
        BY <1>8, <3>2
      <4>2. held[c][1] \in Groups
        BY <2>1, <4>1 DEF HoldersOK
      <4>3. ref.layer \in DOMAIN device
        BY <4>1, <4>2, DevicePlace
      <4>4. device[ref.layer][c][i] = <<ref.layer, held[c][2], i>>
        BY <2>1, <4>1, DeviceByte DEF TransfersExact
      <4>5. QED
        BY <1>6, <3>2, <4>1, <4>3, <4>4
    <3>3. QED
      BY <3>1, <3>2
  <2>2. QED
    BY <1>1, <2>1 DEF DeviceHoldsHeld
<1>12. QED
  BY <1>6, <1>7, <1>9, <1>10, <1>11 DEF TransfersExact

LEMMA ReleaseKeeps ==
    ASSUME WorkerInv, NEW b \in Blocks, Release(b)
    PROVE  WorkerInv'
<1> USE DEF WorkerInv
<1> DEFINE w == [l \in DOMAIN device |-> [i \in DOMAIN device[l][b] |-> NoByte]]
<1>1. /\ held' = [held EXCEPT ![b] = NoHolder]
      /\ layout' = layout /\ host' = host /\ saved' = saved
  BY DEF Release
<1>2. device' = [l \in DOMAIN device |-> [device[l] EXCEPT ![b] = w[l]]]
  <2>1. device' = [l \in DOMAIN device |-> [device[l] EXCEPT ![b] = [i \in DOMAIN device[l][b] |-> NoByte]]]
    BY Zenon DEF Release
  <2>2. \A l \in DOMAIN device : w[l] = [i \in DOMAIN device[l][b] |-> NoByte]
    OBVIOUS
  <2> HIDE DEF w
  <2>3. QED
    BY <2>1, <2>2
<1>3. \A l \in DOMAIN device : DOMAIN w[l] = DOMAIN device[l][b]
  OBVIOUS
<1>4. PICK z : z = w
  OBVIOUS
<1> HIDE DEF w
<1>5. /\ MemoryOK'
      /\ \A l \in DOMAIN device : \A c \in Blocks \ {b} : device'[l][c] = device[l][c]
  <2>1. device' = Written(device, b, z)
    BY <1>2, <1>4, Zenon DEF Written
  <2>2. \A l \in DOMAIN device : DOMAIN z[l] = DOMAIN device[l][b]
    BY <1>3, <1>4
  <2>3. QED
    BY <1>1, <2>1, <2>2, OneBlock
<1>6. /\ LayoutOK' /\ Groups' = Groups
      /\ \A l : AllocOf(l)' = AllocOf(l) /\ RowsOf(l)' = RowsOf(l) /\ PageOf(l)' = PageOf(l)
  BY <1>1, SameLayout
<1>7. held'[b] = NoHolder /\ \A c \in Blocks \ {b} : held'[c] = held[c]
  BY <1>1 DEF HoldersOK
<1>8. HoldersOK'
  <2>1. held' \in [Blocks -> (Groups \X Logicals) \cup {NoHolder}]
    BY <1>1 DEF HoldersOK
  <2>2. \A a, c \in Blocks : held'[a] = held'[c] /\ held'[a] # NoHolder => a = c
    BY <1>7 DEF HoldersOK
  <2>3. QED
    BY <1>1, <1>6, <2>1, <2>2 DEF HoldersOK
<1>9. HostHoldsSaved'
  BY <1>1 DEF HostHoldsSaved, TransfersExact
<1>10. DeviceHoldsHeld'
  <2>1. ASSUME NEW c \in Blocks, held'[c] # NoHolder,
               NEW ref \in Range(layout.refs[held'[c][1]]), NEW i \in 1 .. ref.size
        PROVE  device'[ref.layer][c][i] = <<ref.layer, held'[c][2], i>>
    <3>1. c # b /\ held'[c] = held[c]
      BY <1>7, <2>1
    <3>2. held[c][1] \in Groups
      BY <2>1, <3>1 DEF HoldersOK
    <3>3. ref.layer \in DOMAIN device
      BY <3>1, <3>2, DevicePlace
    <3>4. device[ref.layer][c][i] = <<ref.layer, held[c][2], i>>
      BY <2>1, <3>1, DeviceByte DEF TransfersExact
    <3>5. QED
      BY <1>5, <3>1, <3>3, <3>4
  <2>2. QED
    BY <1>1, <2>1 DEF DeviceHoldsHeld
<1>11. QED
  BY <1>5, <1>6, <1>8, <1>9, <1>10 DEF TransfersExact

-----------------------------------------------------------------------------
(* Registration.                                                           *)

LEMMA TotalNat ==
    ASSUME NEW s \in Seq(Nat)
    PROVE  Total(s) \in Nat
<1>1. Len(s) \in Nat /\ \A i \in 1 .. Len(s) : s[i] \in Nat
  BY LenProperties, ElementOfSeq
<1>2. \A k \in 0 .. Len(s) : Sum(s, k) \in Nat
  BY <1>1, SumFacts
<1>3. Len(s) \in 0 .. Len(s)
  BY <1>1
<1>4. QED
  BY <1>2, <1>3 DEF Total

(* A layer that build_layout accepts.                                      *)
LEMMA RowsFitFacts ==
    ASSUME NEW c \in Configs, Packed(c), NEW name \in DOMAIN c.caches, RowsFit(c, name)
    PROVE  /\ c.caches[name] \in Seq(Nat) /\ Total(c.caches[name]) \in Nat \ {0}
           /\ AllocationOf(c, name) \in DOMAIN c.allocs
           /\ Total(c.caches[name]) <= Page(c, AllocationOf(c, name))
<1>1. c.caches[name] \in Seq(Nat)
  BY ConfigAssumption
<1>2. Total(c.caches[name]) \in Nat
  BY <1>1, TotalNat
<1>3. Total(c.caches[name]) > 0 /\ Total(c.caches[name]) <= Page(c, AllocationOf(c, name))
  BY DEF RowsFit
<1>4. AllocationOf(c, name) \in DOMAIN c.allocs
  BY DEF RowsFit, AllocationOf
<1>5. QED
  BY <1>1, <1>2, <1>3, <1>4

(* build_layout numbers the layers so that every reference finds its own.  *)
LEMMA BuildLayoutOK ==
    ASSUME NEW c \in Configs, Packed(c), LayoutAccepted(c), layout' = BuildLayout(c)
    PROVE  LayoutOK'
<1> DEFINE G == c.groups
           C == DOMAIN c.caches
           names == FlattenSeq(G)
           L == Lens(G)
           N == Len(G)
           at(g, i) == Sum(L, g - 1) + i
           size(name) == Total(c.caches[name])
<1>1. /\ G \in Seq(Seq(C)) /\ \A a \in DOMAIN c.allocs : c.allocs[a].size \in Nat
      /\ \A g \in DOMAIN G : \A k \in 0 .. LastLogical \div Factor : <<g, k>> \in DOMAIN SlotOf
  <2>1. G \in Seq(Seq(C)) /\ \A a \in DOMAIN c.allocs : c.allocs[a].size \in Nat
    BY ConfigAssumption
  <2>2. \A g \in DOMAIN G : \A k \in 0 .. LastLogical \div Factor : <<g, k>> \in DOMAIN SlotOf
    BY ConfigAssumption
  <2>3. QED
    BY <2>1, <2>2
<1>2. N \in Nat /\ DOMAIN G = 1 .. N /\ \A g \in 1 .. N : G[g] \in Seq(C) /\ Len(G[g]) \in Nat /\ DOMAIN G[g] = 1 .. Len(G[g])
  <2> HIDE DEF G, C
  <2>1. N \in Nat /\ DOMAIN G = 1 .. N /\ \A g \in 1 .. N : G[g] \in Seq(C)
    BY <1>1, LenProperties, ElementOfSeq
  <2>2. QED
    BY <2>1, LenProperties
<1>3. /\ names \in Seq(C) /\ Len(names) = Sum(L, N)
      /\ \A g \in 1 .. N : \A i \in 1 .. Len(G[g]) : at(g, i) \in 1 .. Sum(L, N) /\ names[at(g, i)] = G[g][i]
  BY <1>1, FlattenFacts
<1>4. DOMAIN names = 1 .. Sum(L, N) /\ Sum(L, N) \in Nat
  <2> HIDE DEF names
  <2>1. QED
    BY <1>3, LenProperties
<1>5. \A l \in DOMAIN names : \E g \in 1 .. N : \E i \in 1 .. Len(G[g]) : l = at(g, i)
  <2> HIDE DEF G, names, N
  <2>1. \A g \in 1 .. N : L[g] = Len(G[g]) /\ L[g] \in Nat
    BY <1>2 DEF Lens
  <2> HIDE DEF L
  <2>2. ASSUME NEW l \in 1 .. Sum(L, N)
        PROVE  \E g \in 1 .. N : \E i \in 1 .. Len(G[g]) : l = at(g, i)
    <3>1. PICK g \in 1 .. N : Sum(L, g - 1) < l /\ l <= Sum(L, g)
      BY <1>2, <2>1, SumCovers
    <3>2. (\A k \in 0 .. N : Sum(L, k) \in Nat) /\ \A k \in 1 .. N : Sum(L, k) = Sum(L, k - 1) + L[k]
      BY <1>2, <2>1, SumFacts
    <3>3. Sum(L, g) = Sum(L, g - 1) + Len(G[g]) /\ Sum(L, g - 1) \in Nat /\ Len(G[g]) \in Nat
      <4>1. g - 1 \in 0 .. N
        BY <1>2
      <4>2. QED
        BY <1>2, <2>1, <3>2, <4>1
    <3>4. l - Sum(L, g - 1) \in 1 .. Len(G[g]) /\ l = at(g, l - Sum(L, g - 1))
      BY <1>4, <3>1, <3>3
    <3> HIDE DEF at
    <3>5. QED
      BY <3>4
  <2>3. QED
    BY <1>4, <2>2
<1>6. ASSUME NEW g \in 1 .. N, NEW i \in 1 .. Len(G[g])
      PROVE  /\ G[g][i] \in C /\ c.caches[G[g][i]] \in Seq(Nat) /\ size(G[g][i]) \in Nat \ {0}
             /\ AllocationOf(c, G[g][i]) \in DOMAIN c.allocs
             /\ size(G[g][i]) <= Page(c, AllocationOf(c, G[g][i]))
  <2>1. G[g][i] \in C
    <3> HIDE DEF G, C, N
    <3>1. QED
      BY <1>2, ElementOfSeq
  <2>2. RowsFit(c, G[g][i])
    BY <1>2 DEF LayoutAccepted, GroupAccepted
  <2>3. QED
    BY <2>1, <2>2, RowsFitFacts
<1>7. ASSUME NEW g \in 1 .. N, NEW i \in 1 .. Len(G[g]), NEW j \in 1 .. Len(G[g]),
             AllocationOf(c, G[g][i]) = AllocationOf(c, G[g][j])
      PROVE  i = j
  BY <1>2, <1>7 DEF LayoutAccepted, GroupAccepted, IsInjective
<1>8. /\ layout'.packed = TRUE
      /\ layout'.pages = [a \in DOMAIN c.allocs |-> Page(c, a)]
      /\ layout'.layers = [l \in DOMAIN names |-> [alloc |-> AllocationOf(c, names[l]), rows |-> c.caches[names[l]]]]
      /\ layout'.refs = [g \in 1 .. N |-> [i \in 1 .. Len(G[g]) |-> [layer |-> at(g, i), size |-> size(G[g][i])]]]
  <2> DEFINE before == [g \in DOMAIN G |-> Sum([h \in DOMAIN G |-> Len(G[h])], g - 1)]
  <2>1. /\ layout'.packed = TRUE
        /\ layout'.pages = [a \in DOMAIN c.allocs |-> Page(c, a)]
        /\ layout'.layers = [l \in DOMAIN names |-> [alloc |-> AllocationOf(c, names[l]), rows |-> c.caches[names[l]]]]
        /\ layout'.refs = [g \in DOMAIN G |-> [i \in DOMAIN G[g] |-> [layer |-> before[g] + i, size |-> size(G[g][i])]]]
    BY DEF BuildLayout
  <2>2. \A g \in 1 .. N : before[g] = Sum(L, g - 1)
    BY <1>2 DEF Lens
  <2>3. \A g \in 1 .. N : \A i \in 1 .. Len(G[g]) : before[g] + i = at(g, i)
    BY <2>2
  <2> HIDE DEF before, at, size, G, N, names
  <2>4. layout'.refs = [g \in 1 .. N |-> [i \in 1 .. Len(G[g]) |-> [layer |-> at(g, i), size |-> size(G[g][i])]]]
    BY <1>2, <2>1, <2>3
  <2>5. QED
    BY <2>1, <2>4
<1> HIDE DEF G, C, names, L, N, at, size
<1>9. /\ DOMAIN layout'.pages = DOMAIN c.allocs
      /\ \A a \in DOMAIN layout'.pages : layout'.pages[a] = Page(c, a) /\ layout'.pages[a] \in Nat
  <2>1. \A a \in DOMAIN c.allocs : Page(c, a) \in Nat
    <3> SUFFICES ASSUME NEW a \in DOMAIN c.allocs PROVE Page(c, a) \in Nat
      OBVIOUS
    <3>1. c.allocs[a].size \in Nat /\ NumBlocks \in Nat \ {0}
      BY <1>1, ConstantFacts
    <3>2. QED
      BY <3>1, DivMod DEF Page
  <2>2. QED
    BY <1>8, <2>1
<1>10. /\ DOMAIN layout'.layers = DOMAIN names
       /\ \A g \in 1 .. N : \A i \in 1 .. Len(G[g]) :
            /\ at(g, i) \in DOMAIN names
            /\ AllocOf(at(g, i))' = AllocationOf(c, G[g][i]) /\ RowsOf(at(g, i))' = c.caches[G[g][i]]
  <2>1. DOMAIN layout'.layers = DOMAIN names
    BY <1>8
  <2>2. ASSUME NEW g \in 1 .. N, NEW i \in 1 .. Len(G[g])
        PROVE  /\ at(g, i) \in DOMAIN names
               /\ layout'.layers[at(g, i)].alloc = AllocationOf(c, G[g][i])
               /\ layout'.layers[at(g, i)].rows = c.caches[G[g][i]]
    <3>1. at(g, i) \in DOMAIN names /\ names[at(g, i)] = G[g][i]
      BY <1>3, <1>4
    <3>2. QED
      BY <1>8, <3>1
  <2>3. QED
    BY <2>1, <2>2 DEF AllocOf, RowsOf
<1>11. \A l \in DOMAIN layout'.layers : AllocOf(l)' \in DOMAIN layout'.pages /\ RowsOf(l)' \in Seq(Nat)
  <2> SUFFICES ASSUME NEW l \in DOMAIN names
               PROVE  AllocOf(l)' \in DOMAIN layout'.pages /\ RowsOf(l)' \in Seq(Nat)
    BY <1>10
  <2>1. PICK g \in 1 .. N : \E i \in 1 .. Len(G[g]) : l = at(g, i)
    BY <1>5
  <2>2. PICK i \in 1 .. Len(G[g]) : l = at(g, i)
    BY <2>1
  <2>3. QED
    BY <1>6, <1>9, <1>10, <2>2
<1> DEFINE R == [layer : DOMAIN names, size : Nat \ {0}]
<1>12. DOMAIN layout'.refs = 1 .. N /\ \A g \in 1 .. N : DOMAIN layout'.refs[g] = 1 .. Len(G[g])
  BY <1>8
<1>13. \A g \in 1 .. N : \A i \in 1 .. Len(G[g]) :
         /\ layout'.refs[g][i].layer = at(g, i) /\ layout'.refs[g][i].size = size(G[g][i])
         /\ layout'.refs[g][i] \in R
  <2> SUFFICES ASSUME NEW g \in 1 .. N, NEW i \in 1 .. Len(G[g])
               PROVE  /\ layout'.refs[g][i].layer = at(g, i) /\ layout'.refs[g][i].size = size(G[g][i])
                      /\ layout'.refs[g][i] \in R
    OBVIOUS
  <2>1. layout'.refs[g][i] = [layer |-> at(g, i), size |-> size(G[g][i])]
    BY <1>8
  <2>2. at(g, i) \in DOMAIN names /\ size(G[g][i]) \in Nat \ {0}
    BY <1>6, <1>10
  <2>3. QED
    BY <2>1, <2>2
<1>14. layout'.refs \in Seq(Seq(R))
  <2> HIDE DEF R
  <2>1. \A g \in 1 .. N : layout'.refs[g] \in [1 .. Len(G[g]) -> R]
    <3> SUFFICES ASSUME NEW g \in 1 .. N PROVE layout'.refs[g] \in [1 .. Len(G[g]) -> R]
      OBVIOUS
    <3>1. layout'.refs[g] = [i \in 1 .. Len(G[g]) |-> layout'.refs[g][i]]
      BY <1>8
    <3>2. QED
      BY <1>13, <3>1
  <2>2. \A g \in 1 .. N : layout'.refs[g] \in Seq(R)
    BY <1>2, <2>1, ListOf
  <2>3. layout'.refs = [g \in 1 .. N |-> layout'.refs[g]]
    BY <1>8
  <2>4. layout'.refs \in [1 .. N -> Seq(R)]
    BY <2>2, <2>3
  <2>5. QED
    BY <1>2, <2>4, ListOf
<1>15. Groups' = 1 .. N /\ \A g \in Groups' : \A k \in 0 .. LastLogical \div Factor : <<g, k>> \in DOMAIN SlotOf
  BY <1>1, <1>2, <1>12 DEF Groups
<1>16. ASSUME NEW g \in Groups', NEW ref \in Range(layout'.refs[g])
       PROVE  /\ ref.size <= Total(RowsOf(ref.layer)') /\ ref.size <= PageOf(ref.layer)'
              /\ layout'.packed => ref.size = Total(RowsOf(ref.layer)')
              /\ \A other \in Range(layout'.refs[g]) :
                   AllocOf(ref.layer)' = AllocOf(other.layer)' => ref.layer = other.layer
  <2>1. g \in 1 .. N /\ DOMAIN layout'.refs[g] = 1 .. Len(G[g])
    BY <1>12, <1>15
  <2>2. PICK i \in 1 .. Len(G[g]) : ref = layout'.refs[g][i]
    BY <2>1 DEF Range
  <2>3. ref.layer = at(g, i) /\ ref.size = size(G[g][i]) /\ ref.size \in Nat
    BY <1>6, <1>13, <2>1, <2>2
  <2>4. ref.size = Total(RowsOf(ref.layer)')
    <3>1. RowsOf(at(g, i))' = c.caches[G[g][i]]
      BY <1>10, <2>1
    <3>2. QED
      BY <2>3, <3>1 DEF size
  <2>5. ref.size <= PageOf(ref.layer)'
    <3>1. AllocOf(at(g, i))' = AllocationOf(c, G[g][i]) /\ AllocationOf(c, G[g][i]) \in DOMAIN c.allocs
      BY <1>6, <1>10, <2>1
    <3>2. PageOf(ref.layer)' = Page(c, AllocationOf(c, G[g][i]))
      BY <1>9, <2>3, <3>1 DEF PageOf
    <3>3. QED
      BY <1>6, <2>1, <2>3, <3>2
  <2>6. ASSUME NEW other \in Range(layout'.refs[g]), AllocOf(ref.layer)' = AllocOf(other.layer)'
        PROVE  ref.layer = other.layer
    <3>1. PICK j \in 1 .. Len(G[g]) : other = layout'.refs[g][j]
      BY <2>1 DEF Range
    <3>2. other.layer = at(g, j)
      BY <1>13, <2>1, <3>1
    <3>3. AllocationOf(c, G[g][i]) = AllocationOf(c, G[g][j])
      BY <1>10, <2>1, <2>3, <2>6, <3>2
    <3>4. i = j
      BY <1>7, <2>1, <3>3
    <3>5. QED
      BY <2>3, <3>2, <3>4
  <2>7. ref.size <= Total(RowsOf(ref.layer)')
    BY <2>3, <2>4
  <2>8. QED
    BY <2>4, <2>5, <2>6, <2>7
<1>17. QED
  BY <1>8, <1>9, <1>10, <1>11, <1>14, <1>15, <1>16 DEF LayoutOK

LEMMA CanonicalLayoutOK ==
    ASSUME NEW c \in Configs, ~Packed(c), layout' = CanonicalLayout(c)
    PROVE  LayoutOK'
<1> DEFINE P == DOMAIN c.pages
           R == [layer : P, size : Nat \ {0}]
<1>1. /\ c.pages \in Seq(Nat) /\ c.refs \in Seq(Seq(R))
      /\ \A g \in DOMAIN c.refs : \A ref \in Range(c.refs[g]) : ref.size <= c.pages[ref.layer]
      /\ \A g \in DOMAIN c.refs : \A k \in 0 .. LastLogical \div Factor : <<g, k>> \in DOMAIN SlotOf
  BY ConfigAssumption
<1>2. /\ layout'.packed = FALSE /\ layout'.pages = c.pages /\ layout'.refs = c.refs
      /\ layout'.layers = [l \in P |-> [alloc |-> l, rows |-> <<c.pages[l]>>]]
  BY DEF CanonicalLayout
<1>3. \A l \in P : c.pages[l] \in Nat
  BY <1>1, LenProperties, ElementOfSeq
<1>4. DOMAIN layout'.layers = P /\ \A l \in P : AllocOf(l)' = l /\ RowsOf(l)' = <<c.pages[l]>> /\ PageOf(l)' = c.pages[l]
  BY <1>2 DEF AllocOf, RowsOf, PageOf
<1>5. ASSUME NEW l \in P
      PROVE  RowsOf(l)' \in Seq(Nat) /\ Total(RowsOf(l)') = c.pages[l]
  <2> DEFINE n == c.pages[l]
             s == <<n>>
  <2>1. n \in Nat /\ RowsOf(l)' = s
    BY <1>3, <1>4
  <2> HIDE DEF n
  <2>2. s \in Seq(Nat) /\ Len(s) = 1 /\ s[1] = n /\ \A i \in 1 .. 1 : s[i] \in Nat
    BY <2>1
  <2> HIDE DEF s
  <2>3. Sum(s, 0) = 0 /\ \A k \in 1 .. 1 : Sum(s, k) = Sum(s, k - 1) + s[k]
    BY <2>2, SumFacts
  <2>4. 1 \in 1 .. 1 /\ 1 - 1 = 0
    OBVIOUS
  <2>5. Sum(s, 1) = 0 + s[1]
    BY <2>3, <2>4
  <2>6. Total(s) = n
    BY <2>1, <2>2, <2>5 DEF Total
  <2>7. QED
    BY <2>1, <2>2, <2>6 DEF n
<1>6. Groups' = DOMAIN c.refs
  BY <1>2 DEF Groups
<1>7. ASSUME NEW g \in Groups', NEW ref \in Range(layout'.refs[g])
      PROVE  ref \in R /\ ref.layer \in P /\ ref.size \in Nat /\ ref.size <= c.pages[ref.layer]
  <2>1. ref \in R
    <3> HIDE DEF R
    <3>1. c.refs[g] \in Seq(R)
      BY <1>1, <1>6, LenProperties, ElementOfSeq
    <3>2. PICK i \in DOMAIN c.refs[g] : ref = c.refs[g][i]
      BY <1>2 DEF Range
    <3> DEFINE s == c.refs[g]
    <3> HIDE DEF s
    <3>3. s \in Seq(R) /\ i \in DOMAIN s /\ ref = s[i]
      BY <3>1, <3>2 DEF s
    <3>4. QED
      BY <3>3, LenProperties, ElementOfSeq
  <2>2. QED
    BY <1>1, <1>2, <1>6, <2>1
<1>8. ASSUME NEW g \in Groups', NEW ref \in Range(layout'.refs[g])
      PROVE  /\ ref.size <= Total(RowsOf(ref.layer)') /\ ref.size <= PageOf(ref.layer)'
             /\ \A other \in Range(layout'.refs[g]) :
                  AllocOf(ref.layer)' = AllocOf(other.layer)' => ref.layer = other.layer
  <2>1. ref.layer \in P /\ ref.size <= c.pages[ref.layer]
    BY <1>7
  <2>2. \A other \in Range(layout'.refs[g]) : other.layer \in P
    BY <1>7
  <2>3. QED
    BY <1>4, <1>5, <2>1, <2>2
<1>9. \A a \in DOMAIN layout'.pages : layout'.pages[a] \in Nat
  BY <1>2, <1>3
<1>10. \A l \in DOMAIN layout'.layers : AllocOf(l)' \in DOMAIN layout'.pages /\ RowsOf(l)' \in Seq(Nat)
  BY <1>2, <1>4, <1>5
<1>11. layout'.refs \in Seq(Seq([layer : DOMAIN layout'.layers, size : Nat \ {0}]))
  BY <1>1, <1>2, <1>4
<1>12. \A g \in Groups' : \A k \in 0 .. LastLogical \div Factor : <<g, k>> \in DOMAIN SlotOf
  BY <1>1, <1>6
<1>13. QED
  BY <1>2, <1>8, <1>9, <1>10, <1>11, <1>12 DEF LayoutOK

(* Registration starts from empty memory, with nothing held or saved.      *)
LEMMA GetWorkerKeeps ==
    ASSUME PlanInv, NEW c \in Configs, GetWorker(c)
    PROVE  PlanInv'
<1> DEFINE built == IF Packed(c) THEN BuildLayout(c) ELSE CanonicalLayout(c)
<1>1. layout = NoLayout /\ layout' = built /\ (Packed(c) => LayoutAccepted(c)) /\ held' = held /\ saved' = saved
  BY DEF GetWorker
<1>2. saved' = {} /\ held' = [b \in Blocks |-> NoHolder]
  BY <1>1 DEF PlanInv
<1>3. LayoutOK'
  BY <1>1, BuildLayoutOK, CanonicalLayoutOK
<1>4. /\ device' = [l \in DOMAIN layout'.layers |-> [b \in Blocks |-> [i \in 1 .. Total(layout'.layers[l].rows) |-> NoByte]]]
      /\ host' = [a \in DOMAIN layout'.pages |-> [b \in CpuBlocks |-> [i \in 1 .. Factor * layout'.pages[a] |-> NoByte]]]
  <2> HIDE DEF built
  <2>1. /\ device' = [l \in DOMAIN built.layers |-> [b \in Blocks |-> [i \in 1 .. Total(built.layers[l].rows) |-> NoByte]]]
        /\ host' = [a \in DOMAIN built.pages |-> [b \in CpuBlocks |-> [i \in 1 .. Factor * built.pages[a] |-> NoByte]]]
    BY DEF GetWorker, built
  <2>2. QED
    BY <1>1, <2>1, Zenon
<1>5. MemoryOK'
  BY <1>4 DEF MemoryOK, RowsOf
<1>6. HoldersOK'
  BY <1>2 DEF HoldersOK
<1>7. HostHoldsSaved'
  BY <1>2 DEF HostHoldsSaved
<1>8. DeviceHoldsHeld'
  BY <1>2 DEF DeviceHoldsHeld
<1>9. QED
  BY <1>2, <1>3, <1>5, <1>6, <1>7, <1>8 DEF PlanInv, TransfersExact

-----------------------------------------------------------------------------
(* The theorems.                                                           *)

LEMMA PlanInitOK == PlanInit => PlanInv
<1> SUFFICES ASSUME PlanInit PROVE PlanInv
  OBVIOUS
<1>1. saved = {} /\ held = [b \in Blocks |-> NoHolder] /\ layout = NoLayout
  BY DEF PlanInit
<1>2. HostHoldsSaved
  BY <1>1 DEF HostHoldsSaved
<1>3. DeviceHoldsHeld
  BY <1>1 DEF DeviceHoldsHeld
<1>4. QED
  BY <1>1, <1>2, <1>3 DEF PlanInv, TransfersExact

LEMMA PlanStep == PlanInv /\ [PlanNext]_planVars => PlanInv'
<1> SUFFICES ASSUME PlanInv, [PlanNext]_planVars PROVE PlanInv'
  OBVIOUS
<1>1. ASSUME NEW c \in Configs, GetWorker(c)
      PROVE  PlanInv'
  BY <1>1, GetWorkerKeeps
<1>2. ASSUME layout # NoLayout
      PROVE  WorkerInv /\ (WorkerInv' /\ layout' = layout => PlanInv')
  BY <1>2 DEF PlanInv, WorkerInv
<1>3. ASSUME layout # NoLayout, NEW runs \in Runs, Store(runs)
      PROVE  PlanInv'
  <2>1. layout' = layout
    BY <1>3 DEF Store
  <2>2. QED
    BY <1>2, <1>3, <2>1, StoreKeeps
<1>4. ASSUME layout # NoLayout, NEW runs \in Runs, Load(runs)
      PROVE  PlanInv'
  <2>1. layout' = layout
    BY <1>4 DEF Load
  <2>2. QED
    BY <1>2, <1>4, <2>1, LoadKeeps
<1>5. ASSUME layout # NoLayout, NEW g \in Groups, NEW n \in Logicals, NEW b \in Blocks, Compute(g, n, b)
      PROVE  PlanInv'
  <2>1. layout' = layout
    BY <1>5 DEF Compute
  <2>2. QED
    BY <1>2, <1>5, <2>1, ComputeKeeps
<1>6. ASSUME layout # NoLayout, NEW b \in Blocks, Release(b)
      PROVE  PlanInv'
  <2>1. layout' = layout
    BY <1>6 DEF Release
  <2>2. QED
    BY <1>2, <1>6, <2>1, ReleaseKeeps
<1>7. CASE UNCHANGED planVars
  <2>1. layout' = layout /\ device' = device /\ host' = host /\ held' = held /\ saved' = saved
    BY <1>7 DEF planVars
  <2>2. LayoutOK => LayoutOK'
    BY <2>1, SameLayout
  <2>3. MemoryOK => MemoryOK'
    BY <2>1 DEF MemoryOK, RowsOf
  <2>4. HoldersOK => HoldersOK'
    BY <2>1 DEF HoldersOK, Groups
  <2>5. HostHoldsSaved => HostHoldsSaved'
    BY <2>1 DEF HostHoldsSaved
  <2>6. DeviceHoldsHeld => DeviceHoldsHeld'
    BY <2>1 DEF DeviceHoldsHeld
  <2>7. QED
    BY <2>1, <2>2, <2>3, <2>4, <2>5, <2>6 DEF PlanInv, TransfersExact
<1>8. QED
  BY <1>1, <1>3, <1>4, <1>5, <1>6, <1>7 DEF PlanNext

(* The layout finds every layer in its own page, device and host memory    *)
(* have their shape, a logical block is in one device block, and every     *)
(* byte is in its place, whatever get_worker, submit_store, submit_load    *)
(* and the runner do.                                                      *)
THEOREM PlanInvariant == PlanSpec => []PlanInv
<1>1. QED
  BY PlanInitOK, PlanStep, PTL DEF PlanSpec

(* The copies that copy_plan and _spans ask for put every byte of every    *)
(* stored or loaded logical block where its next reader looks, for any     *)
(* caches, block size factor, groups and runs.                             *)
THEOREM PlanTransfersExact == PlanSpec => []TransfersExact
<1>1. PlanInv => TransfersExact
  BY DEF PlanInv
<1>2. QED
  BY <1>1, PlanInvariant, PTL
=================================================================================
