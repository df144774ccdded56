-------------------------- MODULE PrefixSumsProofs --------------------------
(***************************************************************************)
(* What the sums of PrefixSums are, for every N and every function.  The   *)
(* induction is on a set of naturals, from the well-foundedness of < .     *)
(***************************************************************************)
EXTENDS PrefixSums, FiniteSetTheorems, FunctionTheorems, WellFoundedInduction, TLAPS

(* Every non-empty set of naturals has a least element.                    *)
LEMMA NatSetMin ==
  ASSUME NEW T, T \subseteq Nat, T # {}
  PROVE  \E x \in T : \A y \in T : x <= y
<1> DEFINE R == {ss \in Nat \X Nat : ss[1] < ss[2]}
<1>1. IsWellFoundedOn(R, Nat)
  BY NatLessThanWellFounded DEF OpToRel
<1> HIDE DEF R
<1>2. PICK x \in T : \A y \in T : <<y, x>> \notin R
  BY <1>1, WFMin
<1>3. \A y \in T : ~(y < x)
  BY <1>2 DEF R
<1> QED BY <1>3

(* Every non-empty set of numbers up to N has a greatest element.          *)
LEMMA BoundedMax ==
  ASSUME NEW N \in Nat, NEW T, T \subseteq 0..N, T # {}
  PROVE  \E x \in T : \A y \in T : y <= x
<1> DEFINE R == {z \in 0..N : N - z \in T}
<1>1. R \subseteq Nat /\ \A y \in T : N - y \in R /\ N - (N - y) = y
  OBVIOUS
<1>2. PICK z \in R : \A y \in R : z <= y
  BY <1>1, NatSetMin
<1>3. PICK x \in T : z = N - x
  <2>1. N - z \in T /\ z = N - (N - z)
    OBVIOUS
  <2> QED BY <2>1
<1>4. ASSUME NEW y \in T PROVE y <= x
  <2>1. N - x <= N - y
    BY <1>1, <1>2, <1>3
  <2> QED BY <2>1
<1> QED BY <1>4

(* Induction on 0..N, for a property given as the set of the numbers that  *)
(* have it.                                                                *)
LEMMA SetInduction ==
  ASSUME NEW N \in Nat, NEW S, 0 \in S,
         \A n \in 1..N : n - 1 \in S => n \in S
  PROVE  \A n \in 0..N : n \in S
<1> DEFINE T == {n \in 0..N : n \notin S}
<1> SUFFICES ASSUME T # {} PROVE FALSE
  OBVIOUS
<1>1. T \subseteq Nat
  OBVIOUS
<1> HIDE DEF T
<1>2. PICK x \in T : \A y \in T : x <= y
  BY <1>1, NatSetMin
<1> USE DEF T
<1>3. x \in 1..N
  BY <1>2
<1>4. x - 1 \in S
  BY <1>2, <1>3
<1> QED BY <1>2, <1>3, <1>4

(* The recursive definition of Cum has a solution.                         *)
LEMMA CumExists ==
  ASSUME NEW N \in Nat, NEW f
  PROVE  \E g : g = [n \in 0..N |-> IF n = 0 THEN 0 ELSE g[n - 1] + f[n]]
<1> DEFINE Sol(k, g) == g = [n \in 0..k |-> IF n = 0 THEN 0 ELSE g[n - 1] + f[n]]
           S == {k \in 0..N : \E g : Sol(k, g)}
<1>1. 0 \in S
  <2>1. Sol(0, [n \in 0..0 |-> 0])
    OBVIOUS
  <2> HIDE DEF Sol
  <2> QED BY <2>1
<1>2. ASSUME NEW k \in 1..N, k - 1 \in S PROVE k \in S
  <2> SUFFICES \E g : Sol(k, g)
    BY <1>2
  <2>1. PICK g : Sol(k - 1, g)
    BY <1>2
  <2> DEFINE h == [n \in 0..k |-> IF n = k THEN g[k - 1] + f[k] ELSE g[n]]
  <2>2. Sol(k, h)
    <3>1. \A n \in 0..(k-1) : g[n] = IF n = 0 THEN 0 ELSE g[n - 1] + f[n]
      BY <2>1
    <3>2. \A n \in 0..k : h[n] = IF n = 0 THEN 0 ELSE h[n - 1] + f[n]
      BY <3>1
    <3> QED BY <3>2
  <2> HIDE DEF Sol, h
  <2> QED BY <2>2
<1> HIDE DEF S
<1>3. N \in S
  BY <1>1, <1>2, SetInduction
<1> QED BY <1>3 DEF S

(* The equations of Cum.                                                   *)
LEMMA CumDef ==
  ASSUME NEW N \in Nat, NEW f
  PROVE  /\ Cum(f, N)[0] = 0
         /\ \A n \in 1..N : Cum(f, N)[n] = Cum(f, N)[n - 1] + f[n]
<1>1. Cum(f, N) = [n \in 0..N |-> IF n = 0 THEN 0 ELSE Cum(f, N)[n - 1] + f[n]]
  BY CumExists DEF Cum
<1>2. \A n \in 0..N : Cum(f, N)[n] = IF n = 0 THEN 0 ELSE Cum(f, N)[n - 1] + f[n]
  BY <1>1
<1> QED BY <1>2

(* Sums of integers are integers.                                          *)
LEMMA CumType ==
  ASSUME NEW N \in Nat, NEW f \in [1..N -> Int]
  PROVE  /\ \A n \in 0..N : Cum(f, N)[n] \in Int
         /\ Total(f, N) \in Int
<1> DEFINE S == {n \in 0..N : Cum(f, N)[n] \in Int}
<1>0. Cum(f, N)[0] = 0 /\ \A n \in 1..N : Cum(f, N)[n] = Cum(f, N)[n - 1] + f[n]
  BY CumDef
<1>1. 0 \in S
  BY <1>0
<1>2. \A n \in 1..N : n - 1 \in S => n \in S
  BY <1>0
<1> HIDE DEF S
<1>3. \A n \in 0..N : n \in S
  BY <1>1, <1>2, SetInduction
<1> QED BY <1>3 DEF S, Total

(* Sums of naturals grow with the index and bound every term.              *)
LEMMA CumMonotone ==
  ASSUME NEW N \in Nat, NEW f \in [1..N -> Nat]
  PROVE  /\ \A n \in 0..N : Cum(f, N)[n] >= 0 /\ Cum(f, N)[n] <= Total(f, N)
         /\ \A n \in 1..N : /\ Cum(f, N)[n - 1] <= Cum(f, N)[n]
                            /\ f[n] <= Total(f, N)
<1> DEFINE c == Cum(f, N)
<1>0. f \in [1..N -> Int]
  OBVIOUS
<1>1. /\ c[0] = 0
      /\ \A n \in 1..N : c[n] = c[n - 1] + f[n]
      /\ \A n \in 0..N : c[n] \in Int
  BY <1>0, CumDef, CumType
<1> HIDE DEF c
<1>2. \A n \in 1..N : c[n - 1] <= c[n]
  BY <1>1
<1>3. \A n \in 0..N : c[n] >= 0
  <2> DEFINE S == {n \in 0..N : c[n] >= 0}
  <2>1. 0 \in S /\ \A n \in 1..N : n - 1 \in S => n \in S
    BY <1>1
  <2> HIDE DEF S
  <2>2. \A n \in 0..N : n \in S
    BY <2>1, SetInduction
  <2> QED BY <2>2 DEF S
<1>4. \A n \in 0..N : c[n] <= c[N]
  <2> DEFINE S == {k \in 0..N : c[N - k] <= c[N]}
  <2>1. 0 \in S
    BY <1>1
  <2>2. ASSUME NEW k \in 1..N, k - 1 \in S PROVE k \in S
    <3>1. c[N - (k - 1)] <= c[N]
      BY <2>2
    <3>2. N - k + 1 \in 1..N /\ N - (k - 1) = N - k + 1 /\ (N - k + 1) - 1 = N - k
      OBVIOUS
    <3>3. c[N - k] <= c[N - k + 1]
      BY <1>2, <3>2
    <3>4. N - k \in 0..N
      OBVIOUS
    <3> QED BY <1>1, <3>1, <3>2, <3>3, <3>4
  <2> HIDE DEF S
  <2>3. \A k \in 0..N : k \in S
    BY <2>1, <2>2, SetInduction
  <2> TAKE n \in 0..N
  <2>4. N - n \in 0..N /\ N - (N - n) = n
    OBVIOUS
  <2> QED BY <2>3, <2>4 DEF S
<1>5. ASSUME NEW n \in 1..N PROVE f[n] <= c[N]
  <2>1. n \in 0..N /\ n - 1 \in 0..N /\ f[n] \in Int
    OBVIOUS
  <2>2. c[n - 1] >= 0 /\ c[n] <= c[N] /\ c[n - 1] \in Int /\ c[n] \in Int /\ c[N] \in Int
    BY <2>1, <1>1, <1>3, <1>4
  <2>3. c[n] = c[n - 1] + f[n]
    BY <1>1
  <2> QED BY <2>1, <2>2, <2>3
<1> QED BY <1>2, <1>3, <1>4, <1>5 DEF c, Total

(* A sum of differences telescopes.                                        *)
LEMMA CumTelescope ==
  ASSUME NEW N \in Nat, NEW f, NEW g \in [0..N -> Int],
         \A n \in 1..N : f[n] = g[n] - g[n - 1]
  PROVE  /\ \A n \in 0..N : Cum(f, N)[n] = g[n] - g[0]
         /\ Total(f, N) = g[N] - g[0]
<1> DEFINE S == {n \in 0..N : Cum(f, N)[n] = g[n] - g[0]}
<1>1. 0 \in S
  BY CumDef
<1>2. \A n \in 1..N : n - 1 \in S => n \in S
  BY CumDef
<1> HIDE DEF S
<1>3. \A n \in 0..N : n \in S
  BY <1>1, <1>2, SetInduction
<1> QED BY <1>3 DEF S, Total

(* The sum of h = f + g is the sum of the sums.                            *)
LEMMA TotalPlus ==
  ASSUME NEW N \in Nat, NEW f \in [1..N -> Int], NEW g \in [1..N -> Int],
         NEW h, \A n \in 1..N : h[n] = f[n] + g[n]
  PROVE  Total(h, N) = Total(f, N) + Total(g, N)
<1> DEFINE s == [n \in 0..N |-> Cum(f, N)[n] + Cum(g, N)[n]]
<1>1. s \in [0..N -> Int]
  BY CumType
<1>2. ASSUME NEW n \in 1..N PROVE h[n] = s[n] - s[n - 1]
  <2>1. n \in 0..N /\ n - 1 \in 0..N /\ f[n] \in Int /\ g[n] \in Int
    OBVIOUS
  <2>2. Cum(f, N)[n] = Cum(f, N)[n - 1] + f[n] /\ Cum(g, N)[n] = Cum(g, N)[n - 1] + g[n]
    BY CumDef
  <2>3. /\ Cum(f, N)[n - 1] \in Int /\ Cum(f, N)[n] \in Int
        /\ Cum(g, N)[n - 1] \in Int /\ Cum(g, N)[n] \in Int
    BY <2>1, CumType
  <2>4. s[n] = Cum(f, N)[n] + Cum(g, N)[n] /\ s[n - 1] = Cum(f, N)[n - 1] + Cum(g, N)[n - 1]
    BY <2>1
  <2>5. h[n] = f[n] + g[n]
    OBVIOUS
  <2> HIDE DEF s
  <2>6. ASSUME NEW a \in Int, NEW b \in Int, NEW x \in Int, NEW y \in Int
        PROVE  x + y = ((a + x) + (b + y)) - (a + b)
    OBVIOUS
  <2>7. f[n] + g[n] = ((Cum(f, N)[n - 1] + f[n]) + (Cum(g, N)[n - 1] + g[n]))
                      - (Cum(f, N)[n - 1] + Cum(g, N)[n - 1])
    BY <2>1, <2>3, <2>6
  <2>8. s[n] = (Cum(f, N)[n - 1] + f[n]) + (Cum(g, N)[n - 1] + g[n])
    BY <2>2, <2>4, Zenon
  <2> QED BY <2>4, <2>5, <2>7, <2>8, Zenon
<1>3. s[0] = 0 /\ s[N] = Total(f, N) + Total(g, N)
  BY CumDef DEF Total
<1> HIDE DEF s
<1>4. Total(h, N) = s[N] - s[0]
  BY <1>1, <1>2, CumTelescope
<1> QED BY <1>1, <1>3, <1>4, CumType

(* A function that is 0 on 1..N sums to 0.                                 *)
LEMMA TotalZero ==
  ASSUME NEW N \in Nat, NEW f, \A n \in 1..N : f[n] = 0
  PROVE  Total(f, N) = 0
<1> DEFINE g == [n \in 0..N |-> 0]
<1>1. g \in [0..N -> Int] /\ (\A n \in 1..N : f[n] = g[n] - g[n - 1]) /\ g[N] = 0 /\ g[0] = 0
  OBVIOUS
<1> HIDE DEF g
<1>2. Total(f, N) = g[N] - g[0]
  BY <1>1, CumTelescope
<1> QED BY <1>1, <1>2

(* Two functions that agree on 1..N have the same sum.                     *)
LEMMA TotalEqual ==
  ASSUME NEW N \in Nat, NEW f \in [1..N -> Int], NEW h,
         \A n \in 1..N : h[n] = f[n]
  PROVE  Total(h, N) = Total(f, N)
<1> DEFINE z == [n \in 1..N |-> 0]
<1>1. z \in [1..N -> Int] /\ \A n \in 1..N : h[n] = f[n] + z[n]
  OBVIOUS
<1>2. Total(z, N) = 0
  BY TotalZero
<1> HIDE DEF z
<1>3. Total(h, N) = Total(f, N) + Total(z, N)
  BY <1>1, TotalPlus
<1> QED BY <1>2, <1>3, CumType

(* Changing one term by d changes the sum by d.                            *)
LEMMA TotalBump ==
  ASSUME NEW N \in Nat, NEW f \in [1..N -> Int], NEW k \in 1..N, NEW d \in Int,
         NEW h, \A n \in 1..N : h[n] = IF n = k THEN f[n] + d ELSE f[n]
  PROVE  Total(h, N) = Total(f, N) + d
<1> DEFINE s == [n \in 0..N |-> IF n >= k THEN Cum(f, N)[n] + d ELSE Cum(f, N)[n]]
<1>1. s \in [0..N -> Int]
  BY CumType
<1>2. ASSUME NEW n \in 1..N PROVE h[n] = s[n] - s[n - 1]
  <2>1. n \in 0..N /\ n - 1 \in 0..N /\ f[n] \in Int
    OBVIOUS
  <2>2. Cum(f, N)[n] = Cum(f, N)[n - 1] + f[n]
    BY CumDef
  <2>3. Cum(f, N)[n - 1] \in Int /\ Cum(f, N)[n] \in Int
    BY <2>1, CumType
  <2> QED BY <2>1, <2>2, <2>3
<1>3. s[0] = 0 /\ s[N] = Total(f, N) + d
  BY CumDef DEF Total
<1> HIDE DEF s
<1>4. Total(h, N) = s[N] - s[0]
  BY <1>1, <1>2, CumTelescope
<1> QED BY <1>1, <1>3, <1>4, CumType

(* Emptying one term takes it from the sum.                                *)
LEMMA TotalDrop ==
  ASSUME NEW N \in Nat, NEW f \in [1..N -> Int], NEW k \in 1..N,
         NEW h, \A n \in 1..N : h[n] = IF n = k THEN 0 ELSE f[n]
  PROVE  Total(h, N) = Total(f, N) - f[k]
<1>1. PICK d \in Int : d = 0 - f[k]
  OBVIOUS
<1>2. f[k] \in Int /\ f[k] + d = 0
  BY <1>1
<1>3. \A n \in 1..N : h[n] = IF n = k THEN f[n] + d ELSE f[n]
  BY <1>2
<1>4. Total(h, N) = Total(f, N) + d
  BY <1>3, TotalBump
<1> QED BY <1>1, <1>2, <1>4, CumType

(* A function that adds x at i and takes y at j sums to x - y.             *)
LEMMA TotalMove ==
  ASSUME NEW N \in Nat, NEW i \in 1..N, NEW j \in 1..N, NEW x \in Int, NEW y \in Int
  PROVE  Total([n \in 1..N |-> (IF n = i THEN x ELSE 0) - (IF n = j THEN y ELSE 0)], N) = x - y
<1> DEFINE d == [n \in 1..N |-> (IF n = i THEN x ELSE 0) - (IF n = j THEN y ELSE 0)]
           s == [n \in 0..N |-> (IF n >= i THEN x ELSE 0) - (IF n >= j THEN y ELSE 0)]
<1>1. s \in [0..N -> Int]
  OBVIOUS
<1>2. ASSUME NEW n \in 1..N PROVE d[n] = s[n] - s[n - 1]
  <2>1. n \in 0..N /\ n - 1 \in 0..N /\ (n - 1 >= i <=> n >= i /\ n # i)
        /\ (n - 1 >= j <=> n >= j /\ n # j)
    OBVIOUS
  <2>2. /\ s[n] = (IF n >= i THEN x ELSE 0) - (IF n >= j THEN y ELSE 0)
        /\ s[n - 1] = (IF n - 1 >= i THEN x ELSE 0) - (IF n - 1 >= j THEN y ELSE 0)
    BY <2>1
  <2> QED BY <2>1, <2>2
<1>3. s[0] = 0 /\ s[N] = x - y
  OBVIOUS
<1> HIDE DEF s, d
<1>4. Total(d, N) = s[N] - s[0]
  BY <1>1, <1>2, CumTelescope
<1> QED BY <1>3, <1>4 DEF d

(* The common part of two intervals is a natural number ...               *)
LEMMA OverlapType ==
  ASSUME NEW a1 \in Nat, NEW a2 \in Nat, NEW b1 \in Nat, NEW b2 \in Nat
  PROVE  Overlap(a1, a2, b1, b2) \in Nat
  BY DEF Overlap, Least, Most

(* ... and can be measured along the first interval ...                    *)
LEMMA OverlapAlongFirst ==
  ASSUME NEW a1 \in Nat, NEW a2 \in Nat, NEW b1 \in Nat, NEW b2 \in Nat,
         a1 <= a2, b1 <= b2
  PROVE  Overlap(a1, a2, b1, b2) = Least(Most(a2, b1), b2) - Least(Most(a1, b1), b2)
  BY DEF Overlap, Least, Most

(* ... or along the second.                                                *)
LEMMA OverlapAlongSecond ==
  ASSUME NEW a1 \in Nat, NEW a2 \in Nat, NEW b1 \in Nat, NEW b2 \in Nat,
         a1 <= a2, b1 <= b2
  PROVE  Overlap(a1, a2, b1, b2) = Least(Most(b2, a1), a2) - Least(Most(b1, a1), a2)
  BY DEF Overlap, Least, Most

-----------------------------------------------------------------------------
(* A finite set has a numbering, and it meets every element once.          *)
LEMMA NumberingIs ==
  ASSUME NEW S, IsFiniteSet(S)
  PROVE  /\ Cardinality(S) \in Nat
         /\ Numbering(S) \in [1..Cardinality(S) -> S]
         /\ \A x \in S : \E i \in 1..Cardinality(S) :
              \A j \in 1..Cardinality(S) : Numbering(S)[j] = x <=> j = i
<1> DEFINE n == Cardinality(S)
           Onto(e) == \A x \in S : \E i \in 1..n : e[i] = x
<1>1. n \in Nat /\ ExistsBijection(1..n, S)
  BY FS_CardinalityType
<1>2. PICK b : b \in Bijection(1..n, S)
  BY <1>1 DEF ExistsBijection
<1>3. b \in [1..n -> S] /\ Onto(b)
  BY <1>2 DEF Bijection, Surjection, Injection
<1>4. Numbering(S) \in [1..n -> S] /\ Onto(Numbering(S))
  BY <1>3 DEF Numbering
<1>5. IsFiniteSet(1..n) /\ Cardinality(1..n) = n
  BY <1>1, FS_Interval
<1>6. Numbering(S) \in Surjection(1..n, S)
  BY <1>4 DEF Surjection
<1>7. Numbering(S) \in Injection(1..n, S)
  BY <1>1, <1>5, <1>6, FS_Surjection DEF Bijection
<1> HIDE DEF n
<1>8. \A i, j \in 1..n : Numbering(S)[i] = Numbering(S)[j] => i = j
  BY <1>7 DEF Injection, IsInjective
<1> QED BY <1>1, <1>4, <1>8 DEF n

(* Along the numbering of S a sum over S is a total.                       *)
LEMMA AlongIs ==
  ASSUME NEW S, IsFiniteSet(S), NEW f \in [S -> Int]
  PROVE  /\ Along(f, S) \in [1..Cardinality(S) -> Int]
         /\ \A i \in 1..Cardinality(S) : /\ Numbering(S)[i] \in S
                                         /\ Along(f, S)[i] = f[Numbering(S)[i]]
<1>1. Numbering(S) \in [1..Cardinality(S) -> S]
  BY NumberingIs
<1> QED BY <1>1 DEF Along

(* The sum over a set is a number.                                         *)
LEMMA SumOverType ==
  ASSUME NEW S, IsFiniteSet(S), NEW f \in [S -> Int]
  PROVE  SumOver(f, S) \in Int
BY AlongIs, NumberingIs, CumType DEF SumOver

(* A sum of sums ...                                                       *)
LEMMA SumOverPlus ==
  ASSUME NEW S, IsFiniteSet(S), NEW f \in [S -> Int], NEW g \in [S -> Int],
         NEW h \in [S -> Int], \A x \in S : h[x] = f[x] + g[x]
  PROVE  SumOver(h, S) = SumOver(f, S) + SumOver(g, S)
<1>1. Cardinality(S) \in Nat
  BY NumberingIs
<1>2. /\ Along(f, S) \in [1..Cardinality(S) -> Int]
      /\ Along(g, S) \in [1..Cardinality(S) -> Int]
      /\ \A i \in 1..Cardinality(S) : Along(h, S)[i] = Along(f, S)[i] + Along(g, S)[i]
  <2>1. ASSUME NEW k \in [S -> Int]
        PROVE  /\ Along(k, S) \in [1..Cardinality(S) -> Int]
               /\ \A i \in 1..Cardinality(S) : Along(k, S)[i] = k[Numbering(S)[i]]
    BY AlongIs
  <2>2. \A i \in 1..Cardinality(S) : Numbering(S)[i] \in S
    BY AlongIs
  <2> QED BY <2>1, <2>2
<1> QED BY <1>1, <1>2, TotalPlus DEF SumOver

(* ... a sum of nothing ...                                                *)
LEMMA SumOverZero ==
  ASSUME NEW S, IsFiniteSet(S), NEW f \in [S -> Int], \A x \in S : f[x] = 0
  PROVE  SumOver(f, S) = 0
<1>1. Cardinality(S) \in Nat /\ \A i \in 1..Cardinality(S) : Along(f, S)[i] = 0
  BY AlongIs, NumberingIs
<1> QED BY <1>1, TotalZero DEF SumOver

(* ... and the change of one summand.                                      *)
LEMMA SumOverBump ==
  ASSUME NEW S, IsFiniteSet(S), NEW f \in [S -> Int], NEW x \in S, NEW d \in Int,
         NEW h \in [S -> Int], \A y \in S : h[y] = IF y = x THEN f[y] + d ELSE f[y]
  PROVE  SumOver(h, S) = SumOver(f, S) + d
<1>1. Cardinality(S) \in Nat
  BY NumberingIs
<1>2. PICK k \in 1..Cardinality(S) :
         \A j \in 1..Cardinality(S) : Numbering(S)[j] = x <=> j = k
  BY NumberingIs
<1>3. Along(f, S) \in [1..Cardinality(S) -> Int]
  BY AlongIs
<1>4. \A i \in 1..Cardinality(S) :
         Along(h, S)[i] = IF i = k THEN Along(f, S)[i] + d ELSE Along(f, S)[i]
  BY <1>2, AlongIs
<1> QED BY <1>1, <1>2, <1>3, <1>4, TotalBump DEF SumOver

(* A sum of naturals is a natural number, and no summand exceeds it.       *)
LEMMA SumOverNat ==
  ASSUME NEW S, IsFiniteSet(S), NEW f \in [S -> Nat]
  PROVE  SumOver(f, S) \in Nat /\ \A x \in S : f[x] <= SumOver(f, S)
<1>1. Cardinality(S) \in Nat /\ Cardinality(S) \in 0..Cardinality(S)
  BY NumberingIs
<1>2. f \in [S -> Int]
  OBVIOUS
<1>3. Along(f, S) \in [1..Cardinality(S) -> Nat]
  <2>1. \A i \in 1..Cardinality(S) : Numbering(S)[i] \in S /\ Along(f, S)[i] = f[Numbering(S)[i]]
    BY <1>2, AlongIs
  <2>2. Along(f, S) \in [1..Cardinality(S) -> Int]
    BY <1>2, AlongIs
  <2>3. \A i \in 1..Cardinality(S) : Along(f, S)[i] \in Nat
    BY <2>1
  <2> QED BY <2>2, <2>3
<1>4. SumOver(f, S) \in Int /\ SumOver(f, S) >= 0
  <2>1. Cum(Along(f, S), Cardinality(S))[Cardinality(S)] >= 0
    BY <1>1, <1>3, CumMonotone
  <2> QED BY <1>2, <2>1, SumOverType DEF SumOver, Total
<1>5. ASSUME NEW x \in S PROVE f[x] <= SumOver(f, S)
  <2>1. PICK i \in 1..Cardinality(S) : Numbering(S)[i] = x
    BY NumberingIs
  <2>2. Along(f, S)[i] <= Total(Along(f, S), Cardinality(S))
    BY <1>1, <1>3, CumMonotone
  <2>3. Along(f, S)[i] = f[x]
    BY <1>2, <2>1, AlongIs
  <2> QED BY <2>2, <2>3 DEF SumOver
<1> QED BY <1>4, <1>5

(* Two functions that agree but at s ...                                   *)
LEMMA SumOverChange ==
  ASSUME NEW S, IsFiniteSet(S), NEW f \in [S -> Int], NEW h \in [S -> Int], NEW s \in S,
         \A x \in S \ {s} : h[x] = f[x]
  PROVE  SumOver(h, S) = SumOver(f, S) + (h[s] - f[s])
<1>1. PICK d \in Int : d = h[s] - f[s]
  OBVIOUS
<1>2. \A x \in S : h[x] = IF x = s THEN f[x] + d ELSE f[x]
  BY <1>1
<1>3. SumOver(h, S) = SumOver(f, S) + d
  BY <1>2, SumOverBump
<1> QED BY <1>1, <1>3

(* ... or but at s and t.                                                  *)
LEMMA SumOverExchange ==
  ASSUME NEW S, IsFiniteSet(S), NEW f \in [S -> Int], NEW h \in [S -> Int],
         NEW s \in S, NEW t \in S, s # t, \A x \in S \ {s, t} : h[x] = f[x]
  PROVE  SumOver(h, S) = SumOver(f, S) + (h[s] - f[s]) + (h[t] - f[t])
<1> DEFINE g == [f EXCEPT ![s] = h[s]]
<1>1. /\ g \in [S -> Int] /\ g[s] = h[s] /\ g[t] = f[t]
      /\ \A x \in S \ {s} : g[x] = f[x]
      /\ \A x \in S \ {t} : h[x] = g[x]
  OBVIOUS
<1> HIDE DEF g
<1>2. SumOver(g, S) = SumOver(f, S) + (h[s] - f[s])
  BY <1>1, SumOverChange
<1>3. SumOver(h, S) = SumOver(g, S) + (h[t] - f[t])
  BY <1>1, SumOverChange
<1>4. SumOver(f, S) \in Int /\ h[s] \in Int /\ f[s] \in Int /\ h[t] \in Int /\ f[t] \in Int
  BY SumOverType
<1> QED BY <1>2, <1>3, <1>4

-----------------------------------------------------------------------------
(* Table a of N rows and M columns, its transpose b, and what rows and     *)
(* columns sum to.                                                         *)
TableSums(N, M, a, b, rows, cols) ==
    /\ a \in [1..N -> [1..M -> Int]] /\ b \in [1..M -> [1..N -> Int]]
    /\ \A n \in 1..N, m \in 1..M : b[m][n] = a[n][m]
    /\ \A n \in 1..N : rows[n] = Total(a[n], M)
    /\ cols \in [1..M -> Int] /\ \A m \in 1..M : cols[m] = Total(b[m], N)

(* The totals of the rows sum to the totals of the columns.                *)
LEMMA TotalExchange ==
  ASSUME NEW N \in Nat, NEW M \in Nat, NEW a, NEW b, NEW rows, NEW cols,
         TableSums(N, M, a, b, rows, cols)
  PROVE  Total(rows, N) = Total(cols, M)
<1> USE DEF TableSums
<1> DEFINE col(m) == b[m]
           upto(k) == [m \in 1..M |-> Cum(col(m), N)[k]]
           g == [k \in 0..N |-> Total(upto(k), M)]
<1>1. ASSUME NEW m \in 1..M
      PROVE  /\ col(m) \in [1..N -> Int]
             /\ Cum(col(m), N)[0] = 0
             /\ \A k \in 1..N : Cum(col(m), N)[k] = Cum(col(m), N)[k - 1] + a[k][m]
             /\ \A k \in 0..N : Cum(col(m), N)[k] \in Int
             /\ Cum(col(m), N)[N] = cols[m]
  <2>1. col(m) \in [1..N -> Int] /\ \A k \in 1..N : col(m)[k] = a[k][m]
    OBVIOUS
  <2>2. cols[m] = Total(col(m), N)
    OBVIOUS
  <2> HIDE DEF col
  <2>3. /\ Cum(col(m), N)[0] = 0
        /\ \A k \in 1..N : Cum(col(m), N)[k] = Cum(col(m), N)[k - 1] + col(m)[k]
    BY CumDef
  <2>4. \A k \in 0..N : Cum(col(m), N)[k] \in Int
    BY <2>1, CumType
  <2>5. Cum(col(m), N)[N] = cols[m]
    BY <2>2 DEF Total
  <2> QED BY <2>1, <2>3, <2>4, <2>5
<1> HIDE DEF col
<1>2. \A k \in 0..N : upto(k) \in [1..M -> Int]
  BY <1>1
<1>3. g \in [0..N -> Int]
  <2>1. ASSUME NEW k \in 0..N PROVE Total(upto(k), M) \in Int
    <3>1. upto(k) \in [1..M -> Int]
      BY <1>2
    <3> HIDE DEF upto
    <3> QED BY <3>1, CumType
  <2> QED BY <2>1
<1>4. ASSUME NEW n \in 1..N PROVE rows[n] = g[n] - g[n - 1]
  <2>1. n \in 0..N /\ n - 1 \in 0..N /\ a[n] \in [1..M -> Int]
    OBVIOUS
  <2>2. upto(n) \in [1..M -> Int] /\ upto(n - 1) \in [1..M -> Int]
    BY <1>2, <2>1
  <2>3. \A m \in 1..M : upto(n)[m] = upto(n - 1)[m] + a[n][m]
    BY <1>1
  <2>4. g[n] = Total(upto(n), M) /\ g[n - 1] = Total(upto(n - 1), M)
    BY <2>1
  <2> HIDE DEF upto, g
  <2>5. Total(upto(n), M) = Total(upto(n - 1), M) + Total(a[n], M)
    BY <2>1, <2>2, <2>3, TotalPlus
  <2>6. Total(upto(n - 1), M) \in Int /\ Total(a[n], M) \in Int
    BY <2>1, <2>2, CumType
  <2> QED BY <2>4, <2>5, <2>6
<1>5. g[0] = 0
  <2>1. \A m \in 1..M : upto(0)[m] = 0
    BY <1>1
  <2>2. g[0] = Total(upto(0), M)
    OBVIOUS
  <2> HIDE DEF upto, g
  <2> QED BY <2>1, <2>2, TotalZero
<1>6. g[N] = Total(cols, M)
  <2>1. \A m \in 1..M : upto(N)[m] = cols[m]
    BY <1>1
  <2>2. g[N] = Total(upto(N), M)
    OBVIOUS
  <2> HIDE DEF upto, g
  <2> QED BY <2>1, <2>2, TotalEqual
<1> HIDE DEF g
<1>7. Total(rows, N) = g[N] - g[0]
  BY <1>3, <1>4, CumTelescope
<1>8. Total(cols, M) \in Int
  BY CumType
<1> QED BY <1>5, <1>6, <1>7, <1>8
=============================================================================
