-------------------------- MODULE Recursion_proofs --------------------------
(***************************************************************************)
(* What a sum is, and how it changes.  Total is a function defined by      *)
(* recursion, so that every fact about it needs an induction.  The         *)
(* library's induction theorems take a predicate as a parameter, which the *)
(* provers cannot instantiate; here induction is over a set: the numbers   *)
(* of which the fact holds.  That a set with 0 and with the successor of   *)
(* each of its elements holds every natural number follows from the        *)
(* library's theorem that < is well founded.                               *)
(***************************************************************************)
EXTENDS Sums, Loops, WellFoundedInduction, TLAPS

----------------------------------------------------------------------------
(* Induction.                                                              *)

\* The order of the natural numbers is well founded.
LEMMA LessThanIsWellFounded ==
  IsWellFoundedOn({ss \in Nat \X Nat : ss[1] < ss[2]}, Nat)
BY NatLessThanWellFounded DEF OpToRel

\* Every non-empty set of natural numbers has a smallest element.
LEMMA Smallest ==
  ASSUME NEW T \in SUBSET Nat, T # {}
  PROVE  \E x \in T : \A y \in T : x <= y
<1> DEFINE R == {ss \in Nat \X Nat : ss[1] < ss[2]}
<1>1. IsWellFoundedOn(R, Nat)
  BY LessThanIsWellFounded
<1>2. \E x \in T : \A y \in T : <<y, x>> \notin R
  <2> HIDE DEF R
  <2> QED BY <1>1, WFMin
<1>3. ASSUME NEW x \in T, NEW y \in T, <<y, x>> \notin R
      PROVE  x <= y
  BY <1>3
<1> QED
  BY <1>2, <1>3

\* A set that holds 0, and with every number the next one, holds them all.
LEMMA InductionOverNat ==
  ASSUME NEW S, 0 \in S, \A n \in Nat : n \in S => n + 1 \in S
  PROVE  Nat \subseteq S
<1> SUFFICES ASSUME ~ (Nat \subseteq S) PROVE FALSE
  OBVIOUS
<1>1. PICK x \in Nat \ S : \A y \in Nat \ S : x <= y
  BY Smallest
<1>2. x # 0 /\ x - 1 \in Nat /\ x - 1 \in S
  BY <1>1
<1> QED
  BY <1>1, <1>2

Agree(f, g, n) == \A k \in 1 .. n : f[k] = g[k]

\* sum is the function of partial sums of f up to n.
IsPartialSums(sum, f, n) ==
  /\ DOMAIN sum = 0 .. n
  /\ sum[0] = 0
  /\ \A k \in 1 .. n : sum[k] = sum[k - 1] + f[k]

Summable(f, n) == \A k \in 1 .. n : f[k] \in Int

LEMMA PartialSumsExist ==
  ASSUME NEW f, NEW n \in Nat, Summable(f, n)
  PROVE  \E sum \in [0 .. n -> Int] : IsPartialSums(sum, f, n)
<1> DEFINE Good(m) == m <= n => \E sum \in [0 .. m -> Int] : IsPartialSums(sum, f, m)
           S == {m \in Nat : Good(m)}
<1>1. 0 \in S
  <2>1. /\ [k \in 0 .. 0 |-> 0] \in [0 .. 0 -> Int]
        /\ IsPartialSums([k \in 0 .. 0 |-> 0], f, 0)
    BY DEF IsPartialSums
  <2> QED
    BY <2>1
<1>2. ASSUME NEW m \in Nat, Good(m), m + 1 <= n
      PROVE  \E sum \in [0 .. m + 1 -> Int] : IsPartialSums(sum, f, m + 1)
  <2>1. PICK sum \in [0 .. m -> Int] : IsPartialSums(sum, f, m)
    BY <1>2
  <2>2. f[m + 1] \in Int
    BY <1>2 DEF Summable
  <2> DEFINE next == [k \in 0 .. m + 1 |-> IF k = m + 1 THEN sum[m] + f[m + 1] ELSE sum[k]]
  <2>3. next \in [0 .. m + 1 -> Int]
    BY <2>2
  <2>4. ASSUME NEW k \in 1 .. m + 1
        PROVE  next[k] = next[k - 1] + f[k]
    <3>1. k - 1 \in 0 .. m /\ k \in 0 .. m + 1 /\ next[k - 1] = sum[k - 1]
      OBVIOUS
    <3>2. CASE k = m + 1
      BY <3>1, <3>2
    <3>3. CASE k # m + 1
      <4>1. k \in 1 .. m /\ next[k] = sum[k]
        BY <3>1, <3>3
      <4>2. sum[k] = sum[k - 1] + f[k]
        BY <2>1, <4>1 DEF IsPartialSums
      <4> QED
        BY <3>1, <4>1, <4>2
    <3> QED
      BY <3>2, <3>3
  <2>5. next[0] = 0
    BY <2>1 DEF IsPartialSums
  <2>6. IsPartialSums(next, f, m + 1)
    BY <2>3, <2>4, <2>5 DEF IsPartialSums
  <2> QED
    BY <2>3, <2>6
<1>3. \A m \in Nat : m \in S => m + 1 \in S
  <2>1. \A m \in Nat : Good(m) => Good(m + 1)
    BY <1>2
  <2> HIDE DEF Good
  <2> QED
    BY <2>1
<1>4. n \in S
  <2> HIDE DEF S
  <2> QED
    BY <1>1, <1>3, InductionOverNat
<1> QED
  BY <1>4

\* Partial sums of functions that agree agree.
LEMMA PartialSumsUnique ==
  ASSUME NEW f, NEW g, NEW m \in Nat, NEW n \in Nat, m <= n,
         Agree(f, g, m),
         NEW s, IsPartialSums(s, f, m), NEW t, IsPartialSums(t, g, n)
  PROVE  s[m] = t[m]
<1> DEFINE S == {k \in Nat : k <= m => s[k] = t[k]}
<1>1. 0 \in S
  BY DEF IsPartialSums
<1>2. ASSUME NEW k \in Nat, k \in S
      PROVE  k + 1 \in S
  <2> SUFFICES ASSUME k + 1 <= m PROVE s[k + 1] = t[k + 1]
    OBVIOUS
  <2>1. k + 1 \in 1 .. m /\ k + 1 \in 1 .. n /\ (k + 1) - 1 = k
    OBVIOUS
  <2>2. s[k + 1] = s[k] + f[k + 1] /\ t[k + 1] = t[k] + g[k + 1]
    BY <2>1 DEF IsPartialSums
  <2> QED
    BY <1>2, <2>1, <2>2 DEF Agree
<1>3. m \in S
  <2> HIDE DEF S
  <2> QED
    BY <1>1, <1>2, InductionOverNat
<1> QED
  BY <1>3

\* Total is a value of the function of partial sums.
LEMMA TotalIsPartialSum ==
  ASSUME NEW f, NEW n \in Nat, Summable(f, n)
  PROVE  \E sum \in [0 .. n -> Int] : IsPartialSums(sum, f, n) /\ Total(f, n) = sum[n]
<1> DEFINE total == CHOOSE sum :
             sum = [k \in 0 .. n |-> IF k = 0 THEN 0 ELSE sum[k - 1] + f[k]]
<1>1. PICK s \in [0 .. n -> Int] : IsPartialSums(s, f, n)
  BY PartialSumsExist
<1>2. s = [k \in 0 .. n |-> IF k = 0 THEN 0 ELSE s[k - 1] + f[k]]
  <2>1. ASSUME NEW k \in 0 .. n
        PROVE  s[k] = IF k = 0 THEN 0 ELSE s[k - 1] + f[k]
    BY <1>1 DEF IsPartialSums
  <2> QED
    BY <2>1
<1>3. total = [k \in 0 .. n |-> IF k = 0 THEN 0 ELSE total[k - 1] + f[k]]
  BY <1>2
<1>4. Total(f, n) = total[n]
  BY DEF Total
<1>5. IsPartialSums(total, f, n)
  <2> HIDE DEF total
  <2> QED
    BY <1>3 DEF IsPartialSums
<1>6. total \in [0 .. n -> Int]
  <2> DEFINE S == {k \in Nat : k <= n => total[k] \in Int}
  <2> HIDE DEF total
  <2>1. 0 \in S
    BY <1>5 DEF IsPartialSums
  <2>2. ASSUME NEW k \in Nat, k \in S, k + 1 <= n
        PROVE  total[k + 1] \in Int
    <3>1. k + 1 \in 1 .. n /\ (k + 1) - 1 = k
      BY <2>2
    <3>2. total[k + 1] = total[k] + f[k + 1]
      BY <1>5, <3>1 DEF IsPartialSums
    <3> QED
      BY <2>2, <3>1, <3>2 DEF Summable
  <2>3. Nat \subseteq S
    <3>1. \A k \in Nat : k \in S => k + 1 \in S
      BY <2>2
    <3> HIDE DEF S
    <3> QED
      BY <2>1, <3>1, InductionOverNat
  <2>4. \A k \in 0 .. n : total[k] \in Int
    BY <2>3
  <2> QED
    BY <1>3, <2>4
<1> QED
  BY <1>4, <1>5, <1>6

LEMMA TotalOfNone ==
  ASSUME NEW f
  PROVE  Total(f, 0) = 0
<1>1. Summable(f, 0)
  BY DEF Summable
<1> QED
  BY <1>1, TotalIsPartialSum DEF IsPartialSums

LEMMA TotalOfMore ==
  ASSUME NEW f, NEW n \in Nat, Summable(f, n + 1)
  PROVE  /\ Total(f, n) \in Int
         /\ Total(f, n + 1) = Total(f, n) + f[n + 1]
<1>1. n + 1 \in Nat /\ (n + 1) - 1 = n /\ Summable(f, n)
  BY DEF Summable
<1>2. PICK s \in [0 .. n -> Int] : IsPartialSums(s, f, n) /\ Total(f, n) = s[n]
  BY <1>1, TotalIsPartialSum
<1>3. PICK t \in [0 .. n + 1 -> Int] : IsPartialSums(t, f, n + 1) /\ Total(f, n + 1) = t[n + 1]
  BY <1>1, TotalIsPartialSum
<1>4. t[n + 1] = t[n] + f[n + 1]
  BY <1>1, <1>3 DEF IsPartialSums
<1>5. s[n] = t[n]
  <2>1. n <= n + 1 /\ Agree(f, f, n)
    BY DEF Agree
  <2> QED
    BY <1>1, <1>2, <1>3, <2>1, PartialSumsUnique
<1> QED
  BY <1>2, <1>3, <1>4, <1>5

LEMMA TotalOfEqual ==
  ASSUME NEW f, NEW g, NEW n \in Nat, Summable(f, n),
         Agree(f, g, n)
  PROVE  Total(f, n) = Total(g, n)
<1>1. Summable(g, n)
  BY DEF Summable, Agree
<1>2. PICK s \in [0 .. n -> Int] : IsPartialSums(s, f, n) /\ Total(f, n) = s[n]
  BY TotalIsPartialSum
<1>3. PICK t \in [0 .. n -> Int] : IsPartialSums(t, g, n) /\ Total(g, n) = t[n]
  BY <1>1, TotalIsPartialSum
<1>4. s[n] = t[n]
  <2>1. n <= n
    OBVIOUS
  <2> QED
    BY <1>2, <1>3, <2>1, PartialSumsUnique
<1> QED
  BY <1>2, <1>3, <1>4

\* A sum of sums: h adds up f and g.
LEMMA TotalOfSums ==
  ASSUME NEW f, NEW g, NEW h, NEW n \in Nat, Summable(f, n), Summable(g, n),
         \A k \in 1 .. n : h[k] = f[k] + g[k]
  PROVE  /\ Summable(h, n)
         /\ Total(h, n) = Total(f, n) + Total(g, n)
<1> DEFINE Good(m) == m <= n => Total(h, m) = Total(f, m) + Total(g, m)
           S == {m \in Nat : Good(m)}
<1>1. 0 \in S
  BY TotalOfNone
<1>2. ASSUME NEW m \in Nat, Good(m), m + 1 <= n
      PROVE  Good(m + 1)
  <2>1. m + 1 \in 1 .. n /\ h[m + 1] = f[m + 1] + g[m + 1]
    BY <1>2
  <2>2. Summable(f, m + 1) /\ Summable(g, m + 1) /\ Summable(h, m + 1)
    BY <1>2 DEF Summable
  <2>3. /\ Total(f, m) \in Int /\ Total(f, m + 1) = Total(f, m) + f[m + 1]
        /\ Total(g, m) \in Int /\ Total(g, m + 1) = Total(g, m) + g[m + 1]
        /\ Total(h, m) \in Int /\ Total(h, m + 1) = Total(h, m) + h[m + 1]
    BY <2>2, TotalOfMore
  <2>4. f[m + 1] \in Int /\ g[m + 1] \in Int
    BY <2>1 DEF Summable
  <2> QED
    BY <1>2, <2>1, <2>3, <2>4
<1>3. n \in S
  <2>1. \A m \in Nat : Good(m) => Good(m + 1)
    BY <1>2
  <2>2. \A m \in Nat : m \in S => m + 1 \in S
    <3> HIDE DEF Good
    <3> QED
      BY <2>1
  <2> HIDE DEF S
  <2> QED
    BY <1>1, <2>2, InductionOverNat
<1>4. Summable(h, n)
  BY DEF Summable
<1> QED
  BY <1>3, <1>4

\* The sum of natural numbers is one, and no less than any of them.
LEMMA TotalOfNaturals ==
  ASSUME NEW f, NEW n \in Nat, \A k \in 1 .. n : f[k] \in Nat
  PROVE  /\ Summable(f, n)
         /\ Total(f, n) \in Nat
         /\ \A k \in 1 .. n : f[k] <= Total(f, n)
<1> DEFINE Good(m) == m <= n => Total(f, m) \in Nat /\ \A k \in 1 .. m : f[k] <= Total(f, m)
           S == {m \in Nat : Good(m)}
<1>1. 0 \in S
  BY TotalOfNone
<1>2. ASSUME NEW m \in Nat, Good(m), m + 1 <= n
      PROVE  Good(m + 1)
  <2>1. m + 1 \in 1 .. n /\ f[m + 1] \in Nat
    BY <1>2
  <2>2. Summable(f, m + 1)
    BY <1>2 DEF Summable
  <2>3. Total(f, m + 1) = Total(f, m) + f[m + 1]
    BY <2>2, TotalOfMore
  <2>4. \A k \in 1 .. m + 1 : k \in 1 .. m \/ k = m + 1
    OBVIOUS
  <2>5. \A k \in 1 .. m : f[k] \in Nat
    BY <1>2
  <2> QED
    BY <1>2, <2>1, <2>3, <2>4, <2>5
<1>3. n \in S
  <2>1. \A m \in Nat : Good(m) => Good(m + 1)
    BY <1>2
  <2>2. \A m \in Nat : m \in S => m + 1 \in S
    <3> HIDE DEF Good
    <3> QED
      BY <2>1
  <2> HIDE DEF S
  <2> QED
    BY <1>1, <2>2, InductionOverNat
<1>4. Summable(f, n)
  BY DEF Summable
<1> QED
  BY <1>3, <1>4

\* A sum without its first summand.
LEMMA TotalOfRest ==
  ASSUME NEW f, NEW g, NEW n \in Nat, Summable(f, n + 1),
         \A k \in 1 .. n : g[k] = f[k + 1]
  PROVE  /\ Summable(g, n)
         /\ Total(f, n + 1) = f[1] + Total(g, n)
<1> DEFINE Good(m) == m <= n => Total(f, m + 1) = f[1] + Total(g, m)
           S == {m \in Nat : Good(m)}
<1>1. 0 \in S
  <2>1. Summable(f, 0 + 1)
    BY DEF Summable
  <2>2. Total(f, 0 + 1) = Total(f, 0) + f[0 + 1]
    BY <2>1, TotalOfMore
  <2>3. f[1] \in Int
    BY DEF Summable
  <2>4. Total(f, 0) = 0 /\ Total(g, 0) = 0
    BY TotalOfNone
  <2> QED
    BY <2>2, <2>3, <2>4
<1>2. ASSUME NEW m \in Nat, Good(m), m + 1 <= n
      PROVE  Good(m + 1)
  <2>1. m + 1 \in 1 .. n /\ g[m + 1] = f[(m + 1) + 1] /\ f[1] \in Int
    BY <1>2 DEF Summable
  <2>2. Summable(f, (m + 1) + 1) /\ Summable(g, m + 1)
    <3>1. \A k \in 1 .. m + 1 : k \in 1 .. n /\ k + 1 \in 1 .. n + 1
      BY <1>2
    <3>2. \A k \in 1 .. (m + 1) + 1 : k \in 1 .. n + 1
      BY <1>2
    <3> QED
      BY <3>1, <3>2 DEF Summable
  <2>3. /\ Total(f, (m + 1) + 1) = Total(f, m + 1) + f[(m + 1) + 1]
        /\ Total(g, m) \in Int
        /\ Total(g, m + 1) = Total(g, m) + g[m + 1]
    <3>1. m + 1 \in Nat
      OBVIOUS
    <3> QED
      BY <2>2, <3>1, TotalOfMore
  <2>4. f[(m + 1) + 1] \in Int
    BY <2>2 DEF Summable
  <2> QED
    BY <1>2, <2>1, <2>3, <2>4
<1>3. n \in S
  <2>1. \A m \in Nat : Good(m) => Good(m + 1)
    BY <1>2
  <2>2. \A m \in Nat : m \in S => m + 1 \in S
    <3> HIDE DEF Good
    <3> QED
      BY <2>1
  <2> HIDE DEF S
  <2> QED
    BY <1>1, <2>2, InductionOverNat
<1>4. Summable(g, n)
  BY DEF Summable
<1> QED
  BY <1>3, <1>4

\* A sum of which one summand changes.
LEMMA TotalOfChanged ==
  ASSUME NEW f, NEW g, NEW n \in Nat, Summable(f, n), NEW j \in 1 .. n, g[j] \in Int,
         \A k \in 1 .. n : k # j => g[k] = f[k]
  PROVE  /\ Summable(g, n)
         /\ Total(g, n) = Total(f, n) + g[j] - f[j]
<1> DEFINE Good(m) == m <= n => Total(g, m) = Total(f, m) + (IF j <= m THEN g[j] - f[j] ELSE 0)
           S == {m \in Nat : Good(m)}
<1>1. 0 \in S
  BY TotalOfNone
<1>2. ASSUME NEW m \in Nat, Good(m), m + 1 <= n
      PROVE  Good(m + 1)
  <2>1. m + 1 \in 1 .. n /\ (m + 1 # j => g[m + 1] = f[m + 1])
    BY <1>2
  <2>2. Summable(f, m + 1) /\ Summable(g, m + 1)
    BY <1>2 DEF Summable
  <2>3. /\ Total(f, m) \in Int /\ Total(f, m + 1) = Total(f, m) + f[m + 1]
        /\ Total(g, m) \in Int /\ Total(g, m + 1) = Total(g, m) + g[m + 1]
    BY <2>2, TotalOfMore
  <2>4. f[m + 1] \in Int /\ f[j] \in Int
    BY <2>1 DEF Summable
  <2>5. CASE m + 1 = j
    BY <1>2, <2>1, <2>3, <2>4, <2>5
  <2>6. CASE m + 1 # j
    BY <1>2, <2>1, <2>3, <2>4, <2>6
  <2> QED
    BY <2>5, <2>6
<1>3. n \in S
  <2>1. \A m \in Nat : Good(m) => Good(m + 1)
    BY <1>2
  <2>2. \A m \in Nat : m \in S => m + 1 \in S
    <3> HIDE DEF Good
    <3> QED
      BY <2>1
  <2> HIDE DEF S
  <2> QED
    BY <1>1, <2>2, InductionOverNat
<1>4. Summable(g, n)
  BY DEF Summable
<1>5. Total(f, n) \in Int /\ f[j] \in Int
  BY TotalIsPartialSum DEF Summable
<1> QED
  BY <1>3, <1>4, <1>5

\* A sum with one more summand.
LEMMA TotalOfLonger ==
  ASSUME NEW f, NEW g, NEW n \in Nat, Summable(f, n), Agree(f, g, n), g[n + 1] \in Int
  PROVE  /\ Summable(g, n + 1)
         /\ Total(g, n + 1) = Total(f, n) + g[n + 1]
         /\ \A k \in 0 .. n : Total(g, k) = Total(f, k)
<1>1. Summable(g, n + 1)
  <2>1. \A k \in 1 .. n + 1 : k \in 1 .. n \/ k = n + 1
    OBVIOUS
  <2> QED
    BY <2>1 DEF Summable, Agree
<1>2. ASSUME NEW k \in 0 .. n
      PROVE  Total(g, k) = Total(f, k)
  <2>1. Summable(f, k) /\ Agree(f, g, k) /\ k \in Nat
    BY DEF Summable, Agree
  <2> QED
    BY <2>1, TotalOfEqual
<1>3. Total(g, n + 1) = Total(g, n) + g[n + 1]
  BY <1>1, TotalOfMore
<1> QED
  BY <1>1, <1>2, <1>3

\* A sum of zeros is zero.
LEMMA TotalOfZeros ==
  ASSUME NEW f, NEW n \in Nat, \A k \in 1 .. n : f[k] = 0
  PROVE  Total(f, n) = 0
<1> DEFINE Good(m) == m <= n => Total(f, m) = 0
           S == {m \in Nat : Good(m)}
<1>1. 0 \in S
  BY TotalOfNone
<1>2. ASSUME NEW m \in Nat, m \in S
      PROVE  m + 1 \in S
  <2> SUFFICES ASSUME m + 1 <= n PROVE Total(f, m + 1) = 0
    OBVIOUS
  <2>1. Total(f, m) = 0 /\ f[m + 1] = 0
    BY <1>2
  <2>2. Summable(f, m + 1)
    BY DEF Summable
  <2>3. Total(f, m + 1) = Total(f, m) + f[m + 1]
    BY <2>2, TotalOfMore
  <2> QED
    BY <2>1, <2>3
<1>3. n \in S
  <2> HIDE DEF S
  <2> QED BY <1>1, <1>2, InductionOverNat
<1> QED
  BY <1>3

\* A sum of zeros and ones is at most the number of its terms.
LEMMA TotalOfBits ==
  ASSUME NEW f, NEW n \in Nat, \A k \in 1 .. n : f[k] \in {0, 1}
  PROVE  Total(f, n) \in 0 .. n
<1> DEFINE Good(m) == m <= n => Total(f, m) \in 0 .. m
           S == {m \in Nat : Good(m)}
<1>1. 0 \in S
  BY TotalOfNone
<1>2. ASSUME NEW m \in Nat, m \in S
      PROVE  m + 1 \in S
  <2> SUFFICES ASSUME m + 1 <= n PROVE Total(f, m + 1) \in 0 .. m + 1
    OBVIOUS
  <2>1. m \in Nat /\ Total(f, m) \in 0 .. m /\ f[m + 1] \in {0, 1}
    BY <1>2
  <2>2. Summable(f, m + 1)
    BY DEF Summable
  <2>3. Total(f, m + 1) = Total(f, m) + f[m + 1]
    BY <2>2, TotalOfMore
  <2> QED
    BY <2>1, <2>3
<1>3. n \in S
  <2> HIDE DEF S
  <2> QED BY <1>1, <1>2, InductionOverNat
<1> QED
  BY <1>3

----------------------------------------------------------------------------
(* Loops.  A loop is its n-th turn, and what every turn keeps, the loop    *)
(* keeps.  The turns are a function and not an operator, so that one lemma *)
(* serves every loop: "step" and the sets a turn leads to are values to    *)
(* the provers.                                                            *)

\* after is the function of what the turns up to n make of x.

IsRun(after, step, x, n) ==
  /\ DOMAIN after = 0 .. n
  /\ after[0] = x
  /\ \A k \in 1 .. n : after[k] = step[k][after[k - 1]]

\* The turns of a loop define a function, by induction on their number.
LEMMA RunExists ==
  ASSUME NEW step, NEW x, NEW n \in Nat
  PROVE  \E after : IsRun(after, step, x, n)
<1> DEFINE Good(m) == \E after : IsRun(after, step, x, m)
           S == {m \in Nat : Good(m)}
<1>1. 0 \in S
  <2>1. IsRun([k \in 0 .. 0 |-> x], step, x, 0)
    BY DEF IsRun
  <2> QED
    BY <2>1
<1>2. ASSUME NEW m \in Nat, Good(m)
      PROVE  Good(m + 1)
  <2>1. PICK after : IsRun(after, step, x, m)
    BY <1>2
  <2> DEFINE next == [k \in 0 .. m + 1 |-> IF k = m + 1 THEN step[k][after[m]] ELSE after[k]]
  <2>2. DOMAIN next = 0 .. m + 1 /\ next[0] = x
    BY <2>1 DEF IsRun
  <2>3. ASSUME NEW k \in 1 .. m + 1
        PROVE  next[k] = step[k][next[k - 1]]
    <3>1. CASE k = m + 1
      <4>1. next[k] = step[k][after[m]] /\ next[k - 1] = after[m]
        BY <3>1
      <4> HIDE DEF next
      <4> QED
        BY <3>1, <4>1
    <3>2. CASE k # m + 1
      <4>1. k \in 1 .. m /\ next[k] = after[k] /\ next[k - 1] = after[k - 1]
        BY <3>2
      <4>2. after[k] = step[k][after[k - 1]]
        BY <4>1, <2>1 DEF IsRun
      <4> HIDE DEF next
      <4> QED
        BY <4>1, <4>2
    <3> QED
      BY <3>1, <3>2
  <2>4. IsRun(next, step, x, m + 1)
    <3> HIDE DEF next
    <3> QED
      BY <2>2, <2>3 DEF IsRun
  <2> QED
    BY <2>4
<1>3. Nat \subseteq S
  <2>1. \A m \in Nat : m \in S => m + 1 \in S
    BY <1>2
  <2> HIDE DEF S
  <2> QED
    BY <1>1, <2>1, InductionOverNat
<1> QED
  BY <1>3

\* Loop is a value of the function of its turns.
LEMMA LoopIsRun ==
  ASSUME NEW step, NEW x, NEW n \in Nat
  PROVE  \E after : IsRun(after, step, x, n) /\ Loop(step, x, n) = after[n]
<1> DEFINE run == CHOOSE after :
             after = [k \in 0 .. n |-> IF k = 0 THEN x ELSE step[k][after[k - 1]]]
<1>1. PICK a : IsRun(a, step, x, n)
  BY RunExists
<1> DEFINE b == [k \in 0 .. n |-> a[k]]
<1>2. b = [k \in 0 .. n |-> IF k = 0 THEN x ELSE step[k][b[k - 1]]]
  <2>1. ASSUME NEW k \in 0 .. n
        PROVE  b[k] = IF k = 0 THEN x ELSE step[k][b[k - 1]]
    <3>1. CASE k = 0
      BY <1>1, <3>1 DEF IsRun
    <3>2. CASE k # 0
      <4>1. k \in 1 .. n /\ b[k] = a[k] /\ b[k - 1] = a[k - 1]
        BY <3>2
      <4>2. a[k] = step[k][a[k - 1]]
        BY <1>1, <4>1 DEF IsRun
      <4> HIDE DEF b
      <4> QED
        BY <3>2, <4>1, <4>2
    <3> QED
      BY <3>1, <3>2
  <2> QED
    BY <2>1
<1>3. run = [k \in 0 .. n |-> IF k = 0 THEN x ELSE step[k][run[k - 1]]]
  <2> HIDE DEF b
  <2> QED
    BY <1>2
<1>4. Loop(step, x, n) = run[n]
  BY DEF Loop
<1>5. IsRun(run, step, x, n)
  <2> HIDE DEF run
  <2>1. DOMAIN run = 0 .. n /\ run[0] = x
    BY <1>3
  <2>2. ASSUME NEW k \in 1 .. n
        PROVE  run[k] = step[k][run[k - 1]]
    <3>1. k \in 0 .. n /\ k # 0
      OBVIOUS
    <3> QED
      BY <1>3, <3>1
  <2> QED
    BY <2>1, <2>2 DEF IsRun
<1> HIDE DEF run
<1> QED
  BY <1>4, <1>5

\* Every turn k leads from good[k - 1] to good[k].
Leads(step, good, n) ==
  \A k \in 1 .. n : \A y \in good[k - 1] : step[k][y] \in good[k]

\* A loop whose turns lead from good[k - 1] to good[k] ends in good[n].
LEMMA LoopLeads ==
  ASSUME NEW step, NEW x, NEW n \in Nat, NEW good, x \in good[0], Leads(step, good, n)
  PROVE  Loop(step, x, n) \in good[n]
<1>1. PICK after : IsRun(after, step, x, n) /\ Loop(step, x, n) = after[n]
  BY LoopIsRun
<1> DEFINE S == {m \in Nat : m <= n => after[m] \in good[m]}
<1>2. 0 \in S
  BY <1>1 DEF IsRun
<1>3. ASSUME NEW m \in Nat, m \in S
      PROVE  m + 1 \in S
  <2> SUFFICES ASSUME m + 1 <= n PROVE after[m + 1] \in good[m + 1]
    OBVIOUS
  <2>1. m + 1 \in 1 .. n /\ (m + 1) - 1 = m /\ after[m] \in good[m]
    BY <1>3
  <2>2. after[m + 1] = step[m + 1][after[m]]
    BY <1>1, <2>1 DEF IsRun
  <2> QED
    BY <2>1, <2>2 DEF Leads
<1>4. n \in S
  <2> HIDE DEF S
  <2> QED
    BY <1>2, <1>3, InductionOverNat
<1> QED
  BY <1>1, <1>4

\* A loop none of whose turns leaves a set stays in it.
LEMMA LoopStays ==
  ASSUME NEW step, NEW x, NEW n \in Nat, NEW S, x \in S,
         \A k \in 1 .. n : \A y \in S : step[k][y] \in S
  PROVE  Loop(step, x, n) \in S
<1> DEFINE good == [k \in 0 .. n |-> S]
<1>1. x \in good[0] /\ good[n] = S
  OBVIOUS
<1>2. Leads(step, good, n)
  <2>1. ASSUME NEW k \in 1 .. n
        PROVE  good[k - 1] = S /\ good[k] = S
    OBVIOUS
  <2> HIDE DEF good
  <2> QED
    BY <2>1 DEF Leads
<1> HIDE DEF good
<1> QED
  BY <1>1, <1>2, LoopLeads

=============================================================================
