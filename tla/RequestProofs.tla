--------------------------- MODULE RequestProofs ---------------------------
(***************************************************************************)
(* What a request to a model costs and carries.                            *)
(*                                                                         *)
(* Pricing: whatever tokens, tiers and cache shares the attempts of a run  *)
(* report within their bounds, the price of all of them fits what was      *)
(* held.  ContextPlan: whatever facts, memory, turns and findings a reply  *)
(* has, its plan fits the budget and is one the planner keeps, and what is *)
(* sent shows nothing twice.                                               *)
(***************************************************************************)
EXTENDS Pricing, ContextPlan, FiniteSetTheorems, TLAPS

-----------------------------------------------------------------------------
(* Totals.                                                                 *)

\* Induction up to a bound, for a set of numbers in place of a predicate.
LEMMA BoundedInduction ==
  ASSUME NEW n \in Nat, NEW P \in SUBSET (0..n), 0 \in P, \A i \in P : i < n => i + 1 \in P
  PROVE  P = 0..n
<1> DEFINE F == {i..n : i \in {k \in P : 0..k \subseteq P}}
<1>1. IsWellFoundedOn(StrictSubsetOrdering(0..n), SUBSET (0..n))
  <2>1. IsFiniteSet(0..n)
    BY FS_Interval
  <2> QED
    BY <2>1, FS_StrictSubsetOrderingWellFounded, FS_FiniteSubsetsOfFinite
<1>2. F \subseteq SUBSET (0..n) /\ F # {}
  <2>1. 0..0 \subseteq P /\ 0 \in {k \in P : 0..k \subseteq P}
    OBVIOUS
  <2> QED
    BY <2>1
<1>3. PICK A \in F : \A B \in F : <<B, A>> \notin StrictSubsetOrdering(0..n)
  BY <1>1, <1>2, WFMin
<1>4. PICK k \in P : A = k..n /\ 0..k \subseteq P
  BY <1>3
<1>5. CASE k < n
  <2>1. k + 1 \in P /\ 0..(k + 1) \subseteq P
    BY <1>4, <1>5
  <2>2. (k + 1)..n \in F
    BY <2>1
  <2>3. (k + 1)..n \subseteq A /\ k \in A /\ k \notin (k + 1)..n
    BY <1>4, <1>5
  <2>4. <<(k + 1)..n, A>> \in StrictSubsetOrdering(0..n)
    BY <1>2, <1>3, <2>2, <2>3 DEF StrictSubsetOrdering
  <2> QED
    BY <1>3, <2>2, <2>4
<1>6. CASE k = n
  BY <1>4, <1>6
<1> QED
  BY <1>4, <1>5, <1>6

\* The partial sums of some numbers, and their last one.
LEMMA TotalSteps ==
  ASSUME NEW n \in Nat, NEW s \in [1..n -> Int]
  PROVE  \E f \in [0..n -> Int] :
           f[0] = 0 /\ (\A k \in 1..n : f[k] = f[k - 1] + s[k]) /\ Total(s) = f[n]
<1> DEFINE P == {m \in 0..n : \E f \in [0..m -> Int] :
                    f = [k \in 0..m |-> IF k = 0 THEN 0 ELSE f[k - 1] + s[k]]}
<1>1. 0 \in P
  <2>1. [k \in 0..0 |-> 0] \in [0..0 -> Int]
    OBVIOUS
  <2> DEFINE g == [k \in 0..0 |-> 0]
  <2>2. g = [k \in 0..0 |-> IF k = 0 THEN 0 ELSE g[k - 1] + s[k]] /\ 0 \in 0..n
    OBVIOUS
  <2> HIDE DEF g
  <2>3. \E f \in [0..0 -> Int] : f = [k \in 0..0 |-> IF k = 0 THEN 0 ELSE f[k - 1] + s[k]]
    BY <2>1, <2>2 DEF g
  <2> QED
    BY <2>2, <2>3
<1>2. ASSUME NEW m \in P, m < n PROVE m + 1 \in P
  <2>1. PICK f \in [0..m -> Int] : f = [k \in 0..m |-> IF k = 0 THEN 0 ELSE f[k - 1] + s[k]]
    OBVIOUS
  <2> DEFINE g == [k \in 0..(m + 1) |-> IF k = m + 1 THEN f[m] + s[m + 1] ELSE f[k]]
  <2>2. g \in [0..(m + 1) -> Int]
    BY <1>2
  <2>3. \A k \in 0..(m + 1) : g[k] = IF k = 0 THEN 0 ELSE g[k - 1] + s[k]
    <3>1. ASSUME NEW k \in 0..m PROVE g[k] = IF k = 0 THEN 0 ELSE g[k - 1] + s[k]
      <4>1. f[k] = IF k = 0 THEN 0 ELSE f[k - 1] + s[k]
        BY <2>1
      <4> QED
        BY <4>1
    <3>2. g[m + 1] = g[m] + s[m + 1] /\ (m + 1) - 1 = m /\ m + 1 # 0
      OBVIOUS
    <3>3. \A k \in 0..(m + 1) : k \in 0..m \/ k = m + 1
      OBVIOUS
    <3> HIDE DEF g
    <3> QED
      BY <3>1, <3>2, <3>3
  <2>4. g = [k \in 0..(m + 1) |-> IF k = 0 THEN 0 ELSE g[k - 1] + s[k]]
    BY <2>2, <2>3
  <2> HIDE DEF g
  <2>5. \E h \in [0..(m + 1) -> Int] : h = [k \in 0..(m + 1) |-> IF k = 0 THEN 0 ELSE h[k - 1] + s[k]]
    BY <2>2, <2>4
  <2>6. m + 1 \in 0..n
    BY <1>2
  <2> QED
    BY <2>5, <2>6, Zenon
<1>3. P = 0..n
  <2> HIDE DEF P
  <2>1. P \in SUBSET (0..n)
    BY DEF P
  <2> QED
    BY <1>1, <1>2, <2>1, BoundedInduction
<1>a. n \in P
  <2> HIDE DEF P
  <2> QED
    BY <1>3
<1> DEFINE sum[k \in 0..Len(s)] == IF k = 0 THEN 0 ELSE sum[k - 1] + s[k]
<1>4. Len(s) = n
  OBVIOUS
<1>5. PICK f \in [0..n -> Int] : f = [k \in 0..n |-> IF k = 0 THEN 0 ELSE f[k - 1] + s[k]]
  BY <1>a
<1>6. sum = [k \in 0..Len(s) |-> IF k = 0 THEN 0 ELSE sum[k - 1] + s[k]]
  BY <1>4, <1>5
<1>7. Total(s) = sum[n]
  BY <1>4 DEF Total
<1> HIDE DEF sum
<1>8. \A k \in 0..n : sum[k] = IF k = 0 THEN 0 ELSE sum[k - 1] + s[k]
  BY <1>4, <1>6
<1>9. \A k \in 0..n : sum[k] = f[k]
  <2> DEFINE Q == {k \in 0..n : sum[k] = f[k]}
  <2>1. 0 \in Q
    BY <1>5, <1>8
  <2>2. \A k \in Q : k < n => k + 1 \in Q
    <3> SUFFICES ASSUME NEW k \in Q, k < n PROVE k + 1 \in Q
      OBVIOUS
    <3>1. sum[k + 1] = sum[k] + s[k + 1] /\ f[k + 1] = f[k] + s[k + 1]
      <4>1. k + 1 \in 0..n /\ k + 1 # 0 /\ (k + 1) - 1 = k
        OBVIOUS
      <4> QED
        BY <4>1, <1>5, <1>8
    <3> QED
      BY <3>1
  <2>3. Q \in SUBSET (0..n)
    OBVIOUS
  <2> HIDE DEF Q
  <2>4. Q = 0..n
    BY <2>1, <2>2, <2>3, BoundedInduction
  <2> QED
    BY <2>4 DEF Q
<1>10. f[0] = 0 /\ \A k \in 1..n : f[k] = f[k - 1] + s[k]
  BY <1>5
<1>11. Total(s) = f[n]
  BY <1>7, <1>9
<1> HIDE DEF P
<1> QED
  BY <1>10, <1>11

\* Numbers that grow by the members of a sequence end with their total.
LEMMA TotalIs ==
  ASSUME NEW n \in Nat, NEW s \in [1..n -> Int], NEW g \in [0..n -> Int],
         g[0] = 0, \A k \in 1..n : g[k] = g[k - 1] + s[k]
  PROVE  Total(s) = g[n]
<1>1. PICK f \in [0..n -> Int] :
        f[0] = 0 /\ (\A k \in 1..n : f[k] = f[k - 1] + s[k]) /\ Total(s) = f[n]
  BY TotalSteps
<1> DEFINE Q == {k \in 0..n : g[k] = f[k]}
<1>2. 0 \in Q
  BY <1>1
<1>3. \A k \in Q : k < n => k + 1 \in Q
  <2> SUFFICES ASSUME NEW k \in Q, k < n PROVE k + 1 \in Q
    OBVIOUS
  <2>1. k + 1 \in 1..n /\ (k + 1) - 1 = k
    OBVIOUS
  <2>2. g[k + 1] = g[k] + s[k + 1] /\ f[k + 1] = f[k] + s[k + 1]
    BY <1>1, <2>1
  <2> QED
    BY <2>1, <2>2
<1>4. Q \in SUBSET (0..n)
  OBVIOUS
<1> HIDE DEF Q
<1>5. Q = 0..n
  BY <1>2, <1>3, <1>4, BoundedInduction
<1>6. n \in Q
  BY <1>5
<1>7. g[n] = f[n]
  BY <1>6 DEF Q
<1> QED
  BY <1>1, <1>7

LEMMA TotalType ==
  ASSUME NEW n \in Nat, NEW s \in [1..n -> Int]
  PROVE  Total(s) \in Int
<1>1. PICK f \in [0..n -> Int] :
        f[0] = 0 /\ (\A k \in 1..n : f[k] = f[k - 1] + s[k]) /\ Total(s) = f[n]
  BY TotalSteps
<1> QED
  BY <1>1

\* A total of numbers each at most another's is at most the other's.
LEMMA TotalMonotone ==
  ASSUME NEW n \in Nat, NEW s \in [1..n -> Int], NEW t \in [1..n -> Int], \A k \in 1..n : s[k] <= t[k]
  PROVE  Total(s) <= Total(t)
<1>1. PICK f \in [0..n -> Int] :
        f[0] = 0 /\ (\A k \in 1..n : f[k] = f[k - 1] + s[k]) /\ Total(s) = f[n]
  BY TotalSteps
<1>2. PICK g \in [0..n -> Int] :
        g[0] = 0 /\ (\A k \in 1..n : g[k] = g[k - 1] + t[k]) /\ Total(t) = g[n]
  BY TotalSteps
<1> DEFINE Q == {k \in 0..n : f[k] <= g[k]}
<1>3. 0 \in Q
  BY <1>1, <1>2
<1>4. \A k \in Q : k < n => k + 1 \in Q
  <2> SUFFICES ASSUME NEW k \in Q, k < n PROVE k + 1 \in Q
    OBVIOUS
  <2>1. k + 1 \in 1..n /\ (k + 1) - 1 = k /\ k + 1 \in 0..n /\ k \in 0..n
    OBVIOUS
  <2>2. f[k + 1] = f[k] + s[k + 1] /\ g[k + 1] = g[k] + t[k + 1]
    BY <1>1, <1>2, <2>1
  <2>3. f[k] \in Int /\ g[k] \in Int /\ s[k + 1] \in Int /\ t[k + 1] \in Int
    BY <2>1
  <2>4. s[k + 1] <= t[k + 1] /\ f[k] <= g[k]
    BY <2>1
  <2> QED
    BY <2>1, <2>2, <2>3, <2>4
<1>5. Q \in SUBSET (0..n)
  OBVIOUS
<1> HIDE DEF Q
<1>6. Q = 0..n
  BY <1>3, <1>4, <1>5, BoundedInduction
<1>7. n \in Q
  BY <1>6
<1>8. f[n] <= g[n]
  BY <1>7 DEF Q
<1> QED
  BY <1>1, <1>2, <1>8

LEMMA TotalOfConstant ==
  ASSUME NEW n \in Nat, NEW c \in Int
  PROVE  Total([k \in 1..n |-> c]) = n * c
<1> DEFINE s == [k \in 1..n |-> c]
           g == [k \in 0..n |-> k * c]
<1>1. s \in [1..n -> Int] /\ g \in [0..n -> Int]
  OBVIOUS
<1>2. g[0] = 0 /\ g[n] = n * c
  OBVIOUS
<1>3. \A k \in 1..n : g[k] = g[k - 1] + s[k]
  <2> SUFFICES ASSUME NEW k \in 1..n PROVE g[k] = g[k - 1] + s[k]
    OBVIOUS
  <2>1. g[k] = k * c /\ g[k - 1] = (k - 1) * c /\ s[k] = c
    OBVIOUS
  <2> QED
    BY <2>1
<1> HIDE DEF s, g
<1>4. Total(s) = g[n]
  BY <1>1, <1>2, <1>3, TotalIs
<1> QED
  BY <1>2, <1>4 DEF s

LEMMA TotalNat ==
  ASSUME NEW n \in Nat, NEW s \in [1..n -> Nat]
  PROVE  Total(s) \in Nat
<1> DEFINE z == [k \in 1..n |-> 0]
<1>1. s \in [1..n -> Int] /\ z \in [1..n -> Int] /\ \A k \in 1..n : z[k] <= s[k]
  OBVIOUS
<1>2. Total(z) = n * 0
  <2>1. 0 \in Int
    OBVIOUS
  <2> QED
    BY <2>1, TotalOfConstant, Zenon
<1> HIDE DEF z
<1>3. Total(z) <= Total(s) /\ Total(s) \in Int
  BY <1>1, TotalMonotone, TotalType
<1> QED
  BY <1>2, <1>3

\* Totals add up, member by member.
MakesUp(u, d, s, t, n) == \A k \in 1..n : u[k] = d * s[k] + t[k]

LEMMA TotalOfSums ==
  ASSUME NEW n \in Nat, NEW s \in [1..n -> Int], NEW t \in [1..n -> Int], NEW u \in [1..n -> Int],
         NEW d \in Int, MakesUp(u, d, s, t, n)
  PROVE  Total(u) = d * Total(s) + Total(t)
<1>1. PICK f \in [0..n -> Int] :
        f[0] = 0 /\ (\A k \in 1..n : f[k] = f[k - 1] + s[k]) /\ Total(s) = f[n]
  BY TotalSteps
<1>2. PICK g \in [0..n -> Int] :
        g[0] = 0 /\ (\A k \in 1..n : g[k] = g[k - 1] + t[k]) /\ Total(t) = g[n]
  BY TotalSteps
<1> DEFINE h == [k \in 0..n |-> d * f[k] + g[k]]
<1>3. h \in [0..n -> Int] /\ h[0] = 0 /\ h[n] = d * f[n] + g[n]
  BY <1>1, <1>2
<1>4. \A k \in 1..n : h[k] = h[k - 1] + u[k]
  <2> SUFFICES ASSUME NEW k \in 1..n PROVE h[k] = h[k - 1] + u[k]
    OBVIOUS
  <2>1. f[k] = f[k - 1] + s[k] /\ g[k] = g[k - 1] + t[k] /\ u[k] = d * s[k] + t[k]
    BY <1>1, <1>2 DEF MakesUp
  <2>2. k \in 0..n /\ k - 1 \in 0..n
    OBVIOUS
  <2>3. f[k - 1] \in Int /\ g[k - 1] \in Int /\ s[k] \in Int /\ t[k] \in Int
    BY <2>2
  <2>4. h[k] = d * f[k] + g[k] /\ h[k - 1] = d * f[k - 1] + g[k - 1]
    BY <2>2
  <2> HIDE DEF h
  <2>5. PICK a \in Int, b \in Int, c \in Int, e \in Int :
          a = f[k - 1] /\ b = s[k] /\ c = g[k - 1] /\ e = t[k]
    BY <2>3
  <2>6. f[k] = a + b /\ g[k] = c + e /\ u[k] = d * b + e
    BY <2>1, <2>5, Zenon
  <2>7. h[k] = d * (a + b) + (c + e) /\ h[k - 1] = d * a + c
    BY <2>4, <2>5, <2>6, Zenon
  <2>8. d * (a + b) + (c + e) = (d * a + c) + (d * b + e)
    OBVIOUS
  <2> QED
    BY <2>6, <2>7, <2>8, Zenon
<1> HIDE DEF h
<1>5. Total(u) = h[n]
  BY <1>3, <1>4, TotalIs
<1> QED
  BY <1>1, <1>2, <1>3, <1>5

\* The total of what comes after some numbers is added to theirs.
Joins(u, s, t, m, n) == (\A k \in 1..m : u[k] = s[k]) /\ (\A k \in 1..n : u[m + k] = t[k])

LEMMA TotalOfConcatenation ==
  ASSUME NEW m \in Nat, NEW n \in Nat, NEW s \in [1..m -> Int], NEW t \in [1..n -> Int],
         NEW u \in [1..(m + n) -> Int], Joins(u, s, t, m, n)
  PROVE  Total(u) = Total(s) + Total(t)
<1> USE DEF Joins
<1>1. PICK f \in [0..m -> Int] :
        f[0] = 0 /\ (\A k \in 1..m : f[k] = f[k - 1] + s[k]) /\ Total(s) = f[m]
  BY TotalSteps
<1>2. PICK g \in [0..n -> Int] :
        g[0] = 0 /\ (\A k \in 1..n : g[k] = g[k - 1] + t[k]) /\ Total(t) = g[n]
  BY TotalSteps
<1> DEFINE h == [k \in 0..(m + n) |-> IF k <= m THEN f[k] ELSE f[m] + g[k - m]]
<1>3. h \in [0..(m + n) -> Int] /\ h[0] = 0
  BY <1>1
<1>4. h[m + n] = f[m] + g[n]
  <2>1. CASE n = 0
    BY <1>1, <1>2, <2>1
  <2>2. CASE n # 0
    BY <1>1, <1>2, <2>2
  <2> QED
    BY <2>1, <2>2
<1>5. \A k \in 1..(m + n) : h[k] = h[k - 1] + u[k]
  <2> SUFFICES ASSUME NEW k \in 1..(m + n) PROVE h[k] = h[k - 1] + u[k]
    OBVIOUS
  <2>1. CASE k <= m
    <3>1. k \in 1..m /\ k \in 0..(m + n) /\ k - 1 \in 0..(m + n) /\ k - 1 <= m
      BY <2>1
    <3>2. h[k] = f[k] /\ h[k - 1] = f[k - 1]
      BY <2>1, <3>1
    <3> QED
      BY <1>1, <3>1, <3>2
  <2>2. CASE k = m + 1
    <3>1. 1 \in 1..n /\ k \in 0..(m + n) /\ k - 1 = m /\ k - m = 1 /\ m \in 0..(m + n) /\ 1 - 1 = 0
      BY <2>2
    <3>2. h[k] = f[m] + g[1] /\ h[k - 1] = f[m] /\ u[k] = t[1]
      BY <2>2, <3>1
    <3>3. g[1] = g[0] + t[1] /\ t[1] \in Int
      BY <1>2, <3>1
    <3> QED
      BY <1>2, <3>2, <3>3
  <2>3. CASE k > m + 1
    <3>1. k - m \in 1..n /\ (k - m) - 1 = (k - 1) - m /\ k \in 0..(m + n) /\ k - 1 \in 0..(m + n)
          /\ m + (k - m) = k /\ ~(k - 1 <= m)
      BY <2>3
    <3>2. h[k] = f[m] + g[k - m] /\ h[k - 1] = f[m] + g[(k - 1) - m]
      BY <2>3, <3>1
    <3>3. u[k] = t[k - m] /\ g[k - m] = g[(k - 1) - m] + t[k - m]
      BY <1>2, <3>1
    <3>4. t[k - m] \in Int /\ g[(k - 1) - m] \in Int /\ f[m] \in Int
      BY <3>1
    <3> HIDE DEF h
    <3>5. PICK a \in Int, b \in Int, c \in Int : a = f[m] /\ b = g[(k - 1) - m] /\ c = t[k - m]
      BY <3>4
    <3>6. h[k] = a + (b + c) /\ h[k - 1] = a + b /\ u[k] = c
      BY <3>2, <3>3, <3>5, Zenon
    <3>7. a + (b + c) = (a + b) + c
      OBVIOUS
    <3> QED
      BY <3>6, <3>7, Zenon
  <2>4. k <= m \/ k = m + 1 \/ k > m + 1
    OBVIOUS
  <2> HIDE DEF h
  <2> QED
    BY <2>1, <2>2, <2>3, <2>4
<1>6. m + n \in Nat
  OBVIOUS
<1> HIDE DEF h
<1>7. Total(u) = h[m + n]
  BY <1>3, <1>5, <1>6, TotalIs
<1> QED
  BY <1>1, <1>2, <1>4, <1>7

\* Counting is adding up ones.
LEMMA TotalOfChosen ==
  ASSUME NEW n \in Nat, NEW T \in SUBSET (1..n)
  PROVE  Total([k \in 1..n |-> IF k \in T THEN 1 ELSE 0]) = Cardinality(T)
<1> DEFINE s == [k \in 1..n |-> IF k \in T THEN 1 ELSE 0]
           g == [k \in 0..n |-> Cardinality(T \cap (1..k))]
<1>1. \A k \in 0..n : IsFiniteSet(T \cap (1..k)) /\ Cardinality(T \cap (1..k)) \in Nat
  <2> SUFFICES ASSUME NEW k \in 0..n
               PROVE  IsFiniteSet(T \cap (1..k)) /\ Cardinality(T \cap (1..k)) \in Nat
    OBVIOUS
  <2>1. IsFiniteSet(1..k) /\ T \cap (1..k) \in SUBSET (1..k)
    BY FS_Interval
  <2> QED
    BY <2>1, FS_Subset, FS_CardinalityType
<1>2. s \in [1..n -> Int] /\ g \in [0..n -> Int]
  BY <1>1
<1>3. g[0] = 0
  <2>1. T \cap (1..0) = {}
    OBVIOUS
  <2> QED
    BY <2>1, FS_EmptySet
<1>4. g[n] = Cardinality(T)
  <2>1. T \cap (1..n) = T
    OBVIOUS
  <2> QED
    BY <2>1
<1>5. \A k \in 1..n : g[k] = g[k - 1] + s[k]
  <2> SUFFICES ASSUME NEW k \in 1..n PROVE g[k] = g[k - 1] + s[k]
    OBVIOUS
  <2>1. g[k] = Cardinality(T \cap (1..k)) /\ g[k - 1] = Cardinality(T \cap (1..(k - 1)))
    OBVIOUS
  <2>2. IsFiniteSet(T \cap (1..(k - 1))) /\ Cardinality(T \cap (1..(k - 1))) \in Nat
    BY <1>1
  <2>3. CASE k \in T
    <3>1. T \cap (1..k) = (T \cap (1..(k - 1))) \cup {k} /\ k \notin T \cap (1..(k - 1))
      BY <2>3
    <3>2. Cardinality(T \cap (1..k)) = Cardinality(T \cap (1..(k - 1))) + 1
      BY <2>2, <3>1, FS_AddElement
    <3> QED
      BY <2>1, <2>3, <3>2
  <2>4. CASE k \notin T
    <3>1. T \cap (1..k) = T \cap (1..(k - 1))
      BY <2>4
    <3>2. s[k] = 0 /\ Cardinality(T \cap (1..k)) = Cardinality(T \cap (1..(k - 1)))
      BY <2>4, <3>1
    <3> QED
      BY <2>1, <2>2, <3>2
  <2> QED
    BY <2>3, <2>4
<1> HIDE DEF s, g
<1>6. Total(s) = g[n]
  BY <1>2, <1>3, <1>5, TotalIs
<1> QED
  BY <1>4, <1>6 DEF s

-----------------------------------------------------------------------------
(* Rounding.                                                               *)

LEMMA Products ==
  ASSUME NEW d \in Nat, NEW a \in Int, NEW b \in Int
  PROVE  /\ d * (a + b) = d * a + d * b /\ d * (a - b) = d * a - d * b
         /\ d * a \in Int
         /\ a <= b => d * a <= d * b
         /\ d > 0 /\ d * a < d * b => a < b
         /\ a \in Nat => d * a \in Nat
<1>1. d * (a + b) = d * a + d * b /\ d * (a - b) = d * a - d * b /\ d * a \in Int /\ d * b \in Int
  OBVIOUS
<1>2. \A c \in Nat : d * c >= 0 /\ d * c \in Nat
  OBVIOUS
<1>3. ASSUME a <= b PROVE d * a <= d * b
  <2>1. PICK c \in Nat : c = b - a
    BY <1>3
  <2>2. b = a + c /\ d * (a + c) = d * a + d * c
    BY <2>1
  <2>3. d * c >= 0 /\ d * c \in Int
    BY <1>2
  <2> QED
    BY <1>1, <2>2, <2>3
<1>4. ASSUME d > 0, d * a < d * b PROVE a < b
  <2> SUFFICES ASSUME b <= a PROVE FALSE
    OBVIOUS
  <2>1. PICK c \in Nat : c = a - b
    OBVIOUS
  <2>2. a = b + c /\ d * (b + c) = d * b + d * c
    BY <2>1
  <2>3. d * c >= 0 /\ d * c \in Int
    BY <1>2
  <2> QED
    BY <1>1, <1>4, <2>2, <2>3
<1> QED
  BY <1>1, <1>2, <1>3, <1>4

LEMMA Division ==
  ASSUME NEW n \in Nat, NEW d \in Nat, d # 0
  PROVE  \E q \in Nat, r \in 0..(d - 1) : q = n \div d /\ r = n % d /\ n = d * q + r
<1>1. n \div d \in Int
  OBVIOUS
<1>2. n % d \in 0..(d - 1)
  OBVIOUS
<1>3. n % d = n - d * (n \div d)
  OBVIOUS
<1>4. PICK q \in Int, r \in 0..(d - 1) : q = n \div d /\ r = n % d
  BY <1>1, <1>2
<1>5. r = n - d * q
  BY <1>3, <1>4, Zenon
<1>6. n = d * q + r
  BY <1>5
<1>7. q >= 0
  <2> SUFFICES ASSUME q < 0 PROVE FALSE
    OBVIOUS
  <2>1. q <= 0 - 1 /\ d * (0 - 1) = 0 - d
    OBVIOUS
  <2>2. d * q <= d * (0 - 1) /\ d * q \in Int
    BY <2>1, Products
  <2> QED
    BY <1>6, <2>1, <2>2
<1>8. q \in Nat
  BY <1>7
<1> QED
  BY <1>4, <1>6, <1>8, Zenon

LEMMA RoundUpBounds ==
  ASSUME Denominator \in Nat \ {0}, NEW n \in Nat
  PROVE  /\ RoundUp(n) \in Nat
         /\ n <= Denominator * RoundUp(n) /\ Denominator * RoundUp(n) < n + Denominator
<1>1. PICK d \in Nat : d # 0 /\ d = Denominator
  OBVIOUS
<1>2. PICK m \in Nat : m = n + d - 1
  BY <1>1
<1>3. PICK q \in Nat, r \in 0..(d - 1) : q = m \div d /\ m = d * q + r
  BY <1>1, Division
<1>4. RoundUp(n) = q
  BY <1>1, <1>2, <1>3 DEF RoundUp
<1>5. PICK p \in Int : p = d * q
  OBVIOUS
<1>6. n <= p /\ p < n + d
  BY <1>2, <1>3, <1>5
<1> QED
  BY <1>1, <1>4, <1>5, <1>6

\* What covers an exact value covers its rounding.
LEMMA RoundUpIsLeast ==
  ASSUME Denominator \in Nat \ {0}, NEW n \in Nat, NEW m \in Nat, n <= Denominator * m
  PROVE  RoundUp(n) <= m
<1>1. PICK d \in Nat, r \in Nat :
        d # 0 /\ d = Denominator /\ r = RoundUp(n) /\ n <= d * r /\ d * r < n + d /\ n <= d * m
  BY RoundUpBounds
<1>2. d * (m + 1) = d * m + d * 1 /\ d * 1 = d /\ d * m \in Int /\ d * r \in Int
  BY Products
<1>3. d * r < d * (m + 1)
  BY <1>1, <1>2
<1>4. r < m + 1
  BY <1>3, Products
<1> QED
  BY <1>1, <1>4

\* One rounding of a sum is at most the sum of the roundings.
LEMMA RoundedOnce ==
  ASSUME Denominator \in Nat \ {0}, NEW a \in Nat, NEW b \in Nat, NEW c \in Nat, a <= b + c
  PROVE  RoundUp(a) <= RoundUp(b) + RoundUp(c)
<1>1. PICK d \in Nat, q \in Nat, r \in Nat :
        d # 0 /\ d = Denominator /\ q = RoundUp(b) /\ r = RoundUp(c) /\ b <= d * q /\ c <= d * r
  BY RoundUpBounds
<1>2. d * (q + r) = d * q + d * r /\ d * q \in Int /\ d * r \in Int
  BY Products
<1>3. a <= d * (q + r) /\ q + r \in Nat
  BY <1>1, <1>2
<1> QED
  BY <1>1, <1>3, RoundUpIsLeast

LEMMA RoundUpMonotone ==
  ASSUME Denominator \in Nat \ {0}, NEW a \in Nat, NEW b \in Nat, a <= b
  PROVE  RoundUp(a) <= RoundUp(b)
<1>1. b <= Denominator * RoundUp(b) /\ RoundUp(b) \in Nat
  BY RoundUpBounds
<1>2. PICK p \in Int : p = Denominator * RoundUp(b)
  BY <1>1
<1>3. a <= Denominator * RoundUp(b)
  BY <1>1, <1>2
<1> QED
  BY <1>1, <1>3, RoundUpIsLeast

-----------------------------------------------------------------------------
(* Ranks and shares.                                                       *)

\* In a strict order the number of those before a member is its place.
LEMMA Places ==
  ASSUME NEW S, IsFiniteSet(S), NEW before \in [S -> SUBSET S],
         \A i \in S : i \notin before[i],
         \A i, j \in S : j \in before[i] => before[j] \subseteq before[i],
         \A i, j \in S : i # j => i \in before[j] \/ j \in before[i]
  PROVE  [i \in S |-> Cardinality(before[i])] \in Bijection(S, 0..(Cardinality(S) - 1))
<1> DEFINE place == [i \in S |-> Cardinality(before[i])]
           T == 0..(Cardinality(S) - 1)
<1>1. Cardinality(S) \in Nat
  BY FS_CardinalityType
<1>2. \A i \in S : IsFiniteSet(before[i]) /\ Cardinality(before[i]) \in Nat
  BY FS_Subset, FS_CardinalityType
<1>3. ASSUME NEW i \in S, NEW j \in S, i \in before[j]
      PROVE  Cardinality(before[i]) < Cardinality(before[j])
  <2>1. before[i] \subseteq before[j] \ {i}
    BY <1>3
  <2>2. IsFiniteSet(before[j] \ {i}) /\ Cardinality(before[j] \ {i}) = Cardinality(before[j]) - 1
    BY <1>2, <1>3, FS_RemoveElement
  <2>3. Cardinality(before[i]) <= Cardinality(before[j] \ {i})
    BY <2>1, <2>2, FS_Subset
  <2> QED
    BY <1>2, <2>2, <2>3
<1>4. ASSUME NEW i \in S PROVE Cardinality(before[i]) \in T
  <2>1. before[i] \subseteq S \ {i}
    OBVIOUS
  <2>2. IsFiniteSet(S \ {i}) /\ Cardinality(S \ {i}) = Cardinality(S) - 1
    BY FS_RemoveElement
  <2>3. Cardinality(before[i]) <= Cardinality(S \ {i})
    BY <2>1, <2>2, FS_Subset
  <2> QED
    BY <1>1, <1>2, <2>2, <2>3
<1>5. place \in [S -> T]
  BY <1>4
<1>6. \A i, j \in S : place[i] = place[j] => i = j
  <2> SUFFICES ASSUME NEW i \in S, NEW j \in S, i # j PROVE place[i] # place[j]
    OBVIOUS
  <2>1. Cardinality(before[i]) < Cardinality(before[j]) \/ Cardinality(before[j]) < Cardinality(before[i])
    BY <1>3
  <2> QED
    BY <1>2, <2>1
<1> HIDE DEF place
<1>7. place \in Injection(S, T)
  BY <1>5, <1>6 DEF Injection, IsInjective
<1>8. IsFiniteSet(T) /\ Cardinality(T) = Cardinality(S)
  <2>1. IsFiniteSet(T) /\ Cardinality(T) = IF 0 > Cardinality(S) - 1 THEN 0 ELSE (Cardinality(S) - 1) - 0 + 1
    BY <1>1, FS_Interval
  <2> QED
    BY <1>1, <2>1
<1> HIDE DEF T
<1>9. place \in Surjection(S, T)
  BY <1>7, <1>8, FS_Injection
<1> QED
  BY <1>7, <1>9 DEF Bijection, place, T

LEMMA FirstPlaces ==
  ASSUME NEW S, IsFiniteSet(S), NEW place \in Bijection(S, 0..(Cardinality(S) - 1)),
         NEW k \in 0..Cardinality(S)
  PROVE  Cardinality({i \in S : place[i] < k}) = k
<1> DEFINE T == {i \in S : place[i] < k}
           f == [i \in T |-> place[i]]
<1>1. Cardinality(S) \in Nat /\ IsFiniteSet(T)
  BY FS_CardinalityType, FS_Subset
<1>2. place \in [S -> 0..(Cardinality(S) - 1)]
      /\ (\A i, j \in S : place[i] = place[j] => i = j)
      /\ \A m \in 0..(Cardinality(S) - 1) : \E i \in S : place[i] = m
  BY DEF Bijection, Injection, Surjection, IsInjective
<1>3. f \in [T -> 0..(k - 1)]
  BY <1>1, <1>2
<1>4. \A i, j \in T : f[i] = f[j] => i = j
  BY <1>2
<1>5. \A m \in 0..(k - 1) : \E i \in T : f[i] = m
  <2> SUFFICES ASSUME NEW m \in 0..(k - 1) PROVE \E i \in T : f[i] = m
    OBVIOUS
  <2>1. PICK i \in S : place[i] = m
    BY <1>1, <1>2
  <2>2. i \in T
    BY <2>1
  <2> QED
    BY <2>1, <2>2
<1> HIDE DEF f
<1>6. f \in Bijection(T, 0..(k - 1))
  BY <1>3, <1>4, <1>5 DEF Bijection, Injection, Surjection, IsInjective
<1>7. ExistsBijection(T, 0..(k - 1))
  BY <1>6 DEF ExistsBijection
<1> HIDE DEF T
<1>8. Cardinality(0..(k - 1)) = Cardinality(T)
  BY <1>1, <1>7, FS_Bijection
<1>9. Cardinality(0..(k - 1)) = IF 0 > k - 1 THEN 0 ELSE (k - 1) - 0 + 1
  BY <1>1, FS_Interval
<1>10. Cardinality(0..(k - 1)) = k
  BY <1>1, <1>9
<1> QED
  BY <1>8, <1>10 DEF T

\* The shares of an amount sum up to it, and none is off its exact value by a
\* unit (allocate).
LEMMA Shares ==
  ASSUME Denominator \in Nat \ {0}, NEW n \in Nat, NEW values \in [1..n -> Nat],
         NEW amount, amount = RoundUp(Total(values)), NEW items, items = Allocate(values, amount)
  PROVE  /\ items \in [1..n -> Nat] /\ Total(items) = amount
         /\ \A i \in 1..n : /\ items[i] * Denominator < values[i] + Denominator
                            /\ values[i] < (items[i] + 1) * Denominator
<1>1. PICK D \in Nat : D # 0 /\ D = Denominator
  OBVIOUS
<1> DEFINE floors == [i \in 1..n |-> values[i] \div D]
           rests == [i \in 1..n |-> values[i] % D]
           V == Total(values)
           F == Total(floors)
           R == Total(rests)
           before == [i \in 1..n |-> {j \in 1..n : rests[j] > rests[i] \/ (rests[j] = rests[i] /\ j < i)}]
           P == {i \in 1..n : rests[i] > 0}
           left == amount - F
           extra == {i \in 1..n : Cardinality(before[i]) < left}
           more == [i \in 1..n |-> IF i \in extra THEN 1 ELSE 0]
<1>2. ASSUME NEW i \in 1..n
      PROVE  floors[i] \in Nat /\ rests[i] \in 0..(D - 1) /\ values[i] = D * floors[i] + rests[i]
  <2>1. PICK q \in Nat, r \in 0..(D - 1) :
          q = values[i] \div D /\ r = values[i] % D /\ values[i] = D * q + r
    <3>1. values[i] \in Nat
      OBVIOUS
    <3> QED
      BY <1>1, <3>1, Division
  <2>2. floors[i] = q /\ rests[i] = r
    BY <2>1
  <2> HIDE DEF floors, rests
  <2> QED
    BY <2>1, <2>2
<1>3. items = [i \in 1..n |-> floors[i] + IF Cardinality(before[i]) < left THEN 1 ELSE 0]
  <2>1. DOMAIN values = 1..n
    OBVIOUS
  <2>2. floors = [i \in DOMAIN values |-> values[i] \div Denominator]
    BY <1>1, <2>1
  <2>3. \A i \in 1..n : before[i] = {j \in 1..n : values[j] % Denominator > values[i] % Denominator
                                       \/ (values[j] % Denominator = values[i] % Denominator /\ j < i)}
    BY <1>1
  <2> QED
    BY <1>1, <2>1, <2>2, <2>3 DEF Allocate
<1>4. floors \in [1..n -> Int] /\ rests \in [1..n -> Int] /\ values \in [1..n -> Int]
      /\ floors \in [1..n -> Nat] /\ rests \in [1..n -> Nat]
  <2>1. DOMAIN floors = 1..n /\ DOMAIN rests = 1..n
    OBVIOUS
  <2>2. \A i \in 1..n : floors[i] \in Nat /\ rests[i] \in Nat
    BY <1>1, <1>2
  <2>3. floors \in [1..n -> Nat] /\ rests \in [1..n -> Nat]
    BY <2>2
  <2> HIDE DEF floors, rests
  <2> QED
    BY <2>3
<1>5. IsFiniteSet(1..n) /\ Cardinality(1..n) = n
  BY FS_Interval
<1>6. P \in SUBSET (1..n) /\ IsFiniteSet(P) /\ Cardinality(P) \in Nat /\ Cardinality(P) <= n
  <2>1. P \in SUBSET (1..n)
    OBVIOUS
  <2> HIDE DEF P
  <2>2. IsFiniteSet(P) /\ Cardinality(P) <= Cardinality(1..n)
    BY <1>5, <2>1, FS_Subset
  <2> QED
    BY <1>5, <2>1, <2>2, FS_CardinalityType
<1> HIDE DEF floors, rests
<1>7. V \in Nat /\ F \in Nat /\ R \in Nat /\ V = D * F + R
  <2>1. V \in Nat /\ F \in Nat /\ R \in Nat
    BY <1>4, TotalNat
  <2>2. D \in Int /\ \A i \in 1..n : values[i] = D * floors[i] + rests[i]
    BY <1>1, <1>2
  <2>3. MakesUp(values, D, floors, rests, n)
    BY <2>2, Zenon DEF MakesUp
  <2>4. Total(values) = D * Total(floors) + Total(rests)
    <3>1. n \in Nat /\ floors \in [1..n -> Int] /\ rests \in [1..n -> Int] /\ values \in [1..n -> Int]
      BY <1>4
    <3>2. D \in Int
      OBVIOUS
    <3> QED
      BY ONLY <2>3, <3>1, <3>2, TotalOfSums
  <2> QED
    BY <2>1, <2>4
<1>8. R <= D * Cardinality(P)
  <2> DEFINE ones == [i \in 1..n |-> IF i \in P THEN 1 ELSE 0]
             zeros == [i \in 1..n |-> 0]
             most == [i \in 1..n |-> IF i \in P THEN D ELSE 0]
  <2>1. Total(ones) = Cardinality(P)
    BY <1>6, TotalOfChosen
  <2>2. Total(zeros) = 0
    <3>1. 0 \in Int /\ n * 0 = 0
      OBVIOUS
    <3>2. Total(zeros) = n * 0
      BY <3>1, TotalOfConstant, Zenon
    <3> QED
      BY <3>1, <3>2
  <2>3. ones \in [1..n -> Int] /\ zeros \in [1..n -> Int] /\ most \in [1..n -> Int]
    BY <1>1
  <2>4. \A i \in 1..n : most[i] = D * ones[i] + zeros[i]
    <3> SUFFICES ASSUME NEW i \in 1..n PROVE most[i] = D * ones[i] + zeros[i]
      OBVIOUS
    <3>1. D * 1 = D /\ D * 0 = 0
      BY <1>1
    <3>2. CASE i \in P
      BY <1>1, <3>1, <3>2
    <3>3. CASE i \notin P
      BY <1>1, <3>1, <3>3
    <3> QED
      BY <3>2, <3>3
  <2>5. \A i \in 1..n : rests[i] <= most[i]
    <3> SUFFICES ASSUME NEW i \in 1..n PROVE rests[i] <= most[i]
      OBVIOUS
    <3>1. rests[i] \in 0..(D - 1)
      BY <1>2
    <3> QED
      BY <1>1, <3>1
  <2> HIDE DEF ones, zeros, most
  <2>6. Total(most) = D * Total(ones) + Total(zeros)
    <3>1. D \in Int
      BY <1>1
    <3>2. MakesUp(most, D, ones, zeros, n)
      BY <2>4, Zenon DEF MakesUp
    <3>3. n \in Nat
      OBVIOUS
    <3> QED
      BY ONLY <2>3, <3>1, <3>2, <3>3, TotalOfSums
  <2>7. R <= Total(most)
    BY <1>4, <2>3, <2>5, TotalMonotone
  <2>8. D * Cardinality(P) \in Int
    BY <1>1, <1>6, Products
  <2> QED
    BY <2>1, <2>2, <2>6, <2>7, <2>8
<1>9. amount \in Nat /\ left \in Nat /\ left <= Cardinality(P)
  <2> HIDE DEF V, F, R
  <2>1. PICK d \in Nat, p \in Nat : d # 0 /\ d = Denominator /\ p = Cardinality(P)
    BY <1>1, <1>6
  <2>2. amount = RoundUp(V) /\ d = D
    BY <1>1, <2>1 DEF V
  <2>3. amount \in Nat /\ V <= d * amount
    BY <1>7, <2>1, <2>2, RoundUpBounds
  <2>4. d * F \in Int /\ d * p \in Int /\ d * amount \in Int /\ d * (F + p) = d * F + d * p
    BY <1>7, <2>1, <2>3, Products
  <2>5. V <= d * (F + p)
    BY <1>7, <1>8, <2>1, <2>2, <2>4
  <2>6. amount <= F + p
    BY <1>7, <2>1, <2>2, <2>5, RoundUpIsLeast
  <2>7. F <= amount
    <3> SUFFICES ASSUME amount <= F - 1 PROVE FALSE
      BY <1>7, <2>3
    <3>1. RoundUp(V) <= F - 1 /\ d * amount <= d * (F - 1) /\ d * (F - 1) = d * F - d * 1 /\ d * 1 = d
      BY <1>7, <2>1, <2>2, <2>3, Products
    <3> QED
      BY <1>7, <2>1, <2>2, <2>3, <2>4, <3>1
  <2> QED
    BY <1>7, <2>1, <2>3, <2>6, <2>7
<1> HIDE DEF V, R
<1>10. [i \in 1..n |-> Cardinality(before[i])] \in Bijection(1..n, 0..(Cardinality(1..n) - 1))
  <2>1. before \in [1..n -> SUBSET (1..n)]
    OBVIOUS
  <2>2. \A i \in 1..n : rests[i] \in Int
    BY <1>4
  <2>3. \A i \in 1..n : i \notin before[i]
    BY <2>2
  <2>4. \A i, j \in 1..n : j \in before[i] => before[j] \subseteq before[i]
    <3> SUFFICES ASSUME NEW i \in 1..n, NEW j \in 1..n, j \in before[i], NEW m \in before[j]
                 PROVE  m \in before[i]
      OBVIOUS
    <3>1. rests[j] > rests[i] \/ (rests[j] = rests[i] /\ j < i)
      OBVIOUS
    <3>2. m \in 1..n /\ (rests[m] > rests[j] \/ (rests[m] = rests[j] /\ m < j))
      OBVIOUS
    <3>3. rests[i] \in Int /\ rests[j] \in Int /\ rests[m] \in Int
      BY <2>2, <3>2
    <3>4. rests[m] > rests[i] \/ (rests[m] = rests[i] /\ m < i)
      BY <3>1, <3>2, <3>3
    <3> QED
      BY <3>2, <3>4
  <2>5. \A i, j \in 1..n : i # j => i \in before[j] \/ j \in before[i]
    BY <2>2
  <2> HIDE DEF before
  <2> QED
    BY <1>5, <2>1, <2>3, <2>4, <2>5, Places
<1>11. Cardinality(extra) = left
  <2> DEFINE place == [i \in 1..n |-> Cardinality(before[i])]
  <2>1. left \in 0..Cardinality(1..n)
    BY <1>5, <1>6, <1>9
  <2>2. extra = {i \in 1..n : place[i] < left}
    OBVIOUS
  <2> HIDE DEF place, left, extra
  <2>3. place \in Bijection(1..n, 0..(Cardinality(1..n) - 1))
    BY <1>10 DEF place
  <2> QED
    BY <1>5, <2>1, <2>2, <2>3, FirstPlaces
<1>12. \A i \in extra : rests[i] > 0
  <2> SUFFICES ASSUME NEW i \in extra, ~(rests[i] > 0) PROVE FALSE
    OBVIOUS
  <2>1. i \in 1..n /\ rests[i] = 0
    BY <1>1, <1>2
  <2>2. P \subseteq before[i]
    BY <1>4, <2>1
  <2>3. before[i] \in SUBSET (1..n)
    BY <2>1
  <2>4. IsFiniteSet(before[i]) /\ Cardinality(before[i]) \in Nat
    BY <1>5, <2>3, FS_Subset, FS_CardinalityType
  <2>5. Cardinality(P) <= Cardinality(before[i])
    BY <2>2, <2>4, FS_Subset
  <2>6. Cardinality(before[i]) < left
    OBVIOUS
  <2> HIDE DEF P, left, before, extra
  <2> QED
    BY <1>6, <1>9, <2>4, <2>5, <2>6
<1>13. extra \in SUBSET (1..n)
  OBVIOUS
<1>14. \A i \in 1..n : items[i] = floors[i] + IF i \in extra THEN 1 ELSE 0
  BY <1>3
<1>15. items \in [1..n -> Nat]
  <2>1. DOMAIN items = 1..n /\ items = [i \in 1..n |-> items[i]]
    BY <1>3
  <2>2. \A i \in 1..n : items[i] \in Nat
    <3> SUFFICES ASSUME NEW i \in 1..n PROVE items[i] \in Nat
      OBVIOUS
    <3>1. floors[i] \in Nat
      BY <1>4
    <3> HIDE DEF extra
    <3> QED
      BY <1>14, <3>1
  <2> QED
    BY <2>1, <2>2
<1>16. Total(items) = amount
  <2> HIDE DEF F, extra, left
  <2>1. Total(more) = Cardinality(extra)
    BY <1>13, TotalOfChosen
  <2>2. more \in [1..n -> Int] /\ items \in [1..n -> Int]
    BY <1>15
  <2>3. \A i \in 1..n : items[i] = 1 * floors[i] + more[i]
    BY <1>4, <1>14
  <2> HIDE DEF more
  <2>4. Total(items) = 1 * Total(floors) + Total(more)
    <3>1. 1 \in Int
      OBVIOUS
    <3>2. MakesUp(items, 1, floors, more, n)
      BY <2>3, Zenon DEF MakesUp
    <3>3. n \in Nat /\ floors \in [1..n -> Int]
      BY <1>4
    <3> QED
      BY ONLY <2>2, <3>1, <3>2, <3>3, TotalOfSums
  <2> QED
    BY <1>7, <1>9, <1>11, <2>1, <2>4 DEF left, F
<1>17. ASSUME NEW i \in 1..n
       PROVE  /\ items[i] * Denominator < values[i] + Denominator
              /\ values[i] < (items[i] + 1) * Denominator
  <2>1. PICK d \in Nat, q \in Nat, r \in Nat, v \in Nat, m \in Nat :
          d # 0 /\ d = D /\ q = floors[i] /\ r = rests[i] /\ v = values[i] /\ m = items[i]
    BY <1>1, <1>4, <1>15
  <2>2. rests[i] \in 0..(D - 1)
    BY <1>2
  <2>3. r < d
    BY <2>1, <2>2
  <2>4. v = d * q + r
    BY <1>2, <2>1, Zenon
  <2>5. m = q \/ (m = q + 1 /\ r > 0)
    <3>1. CASE i \in extra
      BY <1>12, <1>14, <2>1, <3>1
    <3>2. CASE i \notin extra
      <4>1. items[i] = floors[i] + 0
        BY <1>14, <3>2
      <4> QED
        BY <2>1, <4>1
    <3> QED
      BY <3>1, <3>2
  <2>6. m * d = d * m /\ (m + 1) * d = d * m + d
    OBVIOUS
  <2>7. d * (q + 1) = d * q + d * 1 /\ d * 1 = d /\ d * q \in Int
    BY Products
  <2>8. d * m < v + d /\ v < d * m + d
    <3>1. CASE m = q
      BY <2>3, <2>4, <2>7, <3>1
    <3>2. CASE m = q + 1 /\ r > 0
      <4>1. d * m = d * q + d
        BY <2>7, <3>2
      <4> QED
        BY <2>3, <2>4, <2>7, <3>2, <4>1
    <3> QED
      BY <2>5, <3>1, <3>2
  <2>9. m * d < v + d /\ v < (m + 1) * d
    BY <2>6, <2>8
  <2> QED
    BY <1>1, <2>1, <2>9, Zenon
<1> QED
  BY <1>15, <1>16, <1>17

\* Floors plus the largest remainders: nothing is lost, nothing is off by a unit.
Shared(items, values, n, amount) ==
  /\ items \in [1..n -> Nat] /\ Total(items) = amount
  /\ \A i \in 1..n : /\ items[i] * Denominator < values[i] + Denominator
                     /\ values[i] < (items[i] + 1) * Denominator

LEMMA SharesFit ==
  ASSUME Denominator \in Nat \ {0}, NEW n \in Nat, NEW values \in [1..n -> Nat],
         NEW amount, amount = RoundUp(Total(values)), NEW items, items = Allocate(values, amount)
  PROVE  Shared(items, values, n, amount)
BY Shares DEF Shared

-----------------------------------------------------------------------------
(* The dearest rate.                                                       *)

LEMMA FiniteMaximum ==
  ASSUME NEW S, IsFiniteSet(S), S # {}, NEW w \in [S -> Int]
  PROVE  \E x \in S : \A y \in S : w[y] <= w[x]
<1>1. PICK n \in Nat : ExistsBijection(1..n, S)
  BY FS_CardinalityType
<1>2. PICK f \in [1..n -> S] : \A y \in S : \E i \in 1..n : f[i] = y
  BY <1>1 DEF ExistsBijection, Bijection, Surjection
<1> DEFINE P == {m \in 0..n : m = 0 \/ \E j \in 1..m : \A i \in 1..m : w[f[i]] <= w[f[j]]}
<1>3. 0 \in P
  OBVIOUS
<1>4. \A m \in P : m < n => m + 1 \in P
  <2> SUFFICES ASSUME NEW m \in P, m < n PROVE m + 1 \in P
    OBVIOUS
  <2>1. \A i \in 1..n : w[f[i]] \in Int
    BY <1>2
  <2>2. m + 1 \in 0..n /\ m + 1 \in 1..(m + 1) /\ m + 1 \in 1..n /\ m \in 0..n
    OBVIOUS
  <2>3. CASE m = 0
    <3>1. \A i \in 1..(m + 1) : i = m + 1
      BY <2>3
    <3>2. \A i \in 1..(m + 1) : w[f[i]] <= w[f[m + 1]]
      BY <2>1, <2>2, <3>1
    <3> QED
      BY <2>2, <3>2
  <2>4. CASE m # 0
    <3>1. PICK j \in 1..m : \A i \in 1..m : w[f[i]] <= w[f[j]]
      BY <2>4
    <3>2. \A i \in 1..(m + 1) : i \in 1..m \/ i = m + 1
      BY <2>2
    <3>3. j \in 1..(m + 1) /\ j \in 1..n
      BY <2>2
    <3>4. CASE w[f[m + 1]] <= w[f[j]]
      <4>1. \A i \in 1..(m + 1) : w[f[i]] <= w[f[j]]
        BY <3>1, <3>2, <3>4
      <4> QED
        BY <2>2, <3>3, <4>1
    <3>5. CASE w[f[j]] <= w[f[m + 1]]
      <4>1. ASSUME NEW i \in 1..(m + 1) PROVE w[f[i]] <= w[f[m + 1]]
        <5>1. i \in 1..n
          BY <2>2
        <5>2. w[f[i]] \in Int /\ w[f[j]] \in Int /\ w[f[m + 1]] \in Int
          BY <2>1, <2>2, <3>3, <5>1
        <5>3. CASE i \in 1..m
          BY <3>1, <3>5, <5>2, <5>3
        <5>4. CASE i = m + 1
          BY <5>2, <5>4
        <5> QED
          BY <3>2, <5>3, <5>4
      <4> QED
        BY <2>2, <4>1
    <3> QED
      BY <2>1, <2>2, <3>3, <3>4, <3>5
  <2> QED
    BY <2>3, <2>4
<1>5. P \in SUBSET (0..n)
  OBVIOUS
<1> HIDE DEF P
<1>6. P = 0..n
  BY <1>3, <1>4, <1>5, BoundedInduction
<1>7. n \in P /\ n # 0
  BY <1>2, <1>6
<1>8. PICK j \in 1..n : \A i \in 1..n : w[f[i]] <= w[f[j]]
  BY <1>7 DEF P
<1> QED
  BY <1>2, <1>8

\* Prices per unit compare as their crosswise products do.
LEMMA Crosswise ==
  ASSUME NEW p \in Nat, NEW q \in Nat, NEW a \in Nat, NEW b \in Nat, NEW i \in Nat, NEW j \in Nat,
         a * i > 0, a * i = b * j
  PROVE  q * j <= p * i <=> q * a <= p * b
<1>1. \A x, y, z \in Nat : (x * y) * z = x * (y * z) /\ x * y = y * x /\ x * y \in Nat
  OBVIOUS
<1>2. PICK c \in Nat : c = a * i /\ c = b * j /\ c > 0
  BY <1>1
<1>3. ASSUME q * j <= p * i PROVE q * a <= p * b
  <2>1. (a * b) * (q * j) <= (a * b) * (p * i)
    BY <1>1, <1>3, Products
  <2>2. (a * b) * (q * j) = (b * j) * (q * a) /\ (a * b) * (p * i) = (a * i) * (p * b)
    OBVIOUS
  <2>3. c * (q * a) <= c * (p * b)
    BY <1>2, <2>1, <2>2
  <2> QED
    <3> SUFFICES ASSUME p * b < q * a PROVE FALSE
      BY <1>1
    <3>1. PICK x \in Nat, y \in Nat : x = p * b /\ y = q * a /\ x < y
      BY <1>1
    <3>2. x + 1 <= y /\ c * (x + 1) = c * x + c * 1 /\ c * 1 = c /\ c * (x + 1) <= c * y
      BY <3>1, Products
    <3>3. c * y <= c * x /\ c * x \in Int /\ c * y \in Int
      BY <2>3, <3>1, Products
    <3> QED
      BY <1>2, <3>2, <3>3
<1>4. ASSUME q * a <= p * b PROVE q * j <= p * i
  <2>1. (i * j) * (q * a) <= (i * j) * (p * b)
    BY <1>1, <1>4, Products
  <2>2. (i * j) * (q * a) = (a * i) * (q * j) /\ (i * j) * (p * b) = (b * j) * (p * i)
    OBVIOUS
  <2>3. c * (q * j) <= c * (p * i)
    BY <1>2, <2>1, <2>2
  <2> QED
    <3> SUFFICES ASSUME p * i < q * j PROVE FALSE
      BY <1>1
    <3>1. PICK x \in Nat, y \in Nat : x = p * i /\ y = q * j /\ x < y
      BY <1>1
    <3>2. x + 1 <= y /\ c * (x + 1) = c * x + c * 1 /\ c * 1 = c /\ c * (x + 1) <= c * y
      BY <3>1, Products
    <3>3. c * y <= c * x /\ c * x \in Int /\ c * y \in Int
      BY <2>3, <3>1, Products
    <3> QED
      BY <1>2, <3>2, <3>3
<1> QED
  BY <1>3, <1>4

LEMMA BookFacts ==
  ASSUME book \in Books, multiplier \in Multipliers
  PROVE  /\ Denominator \in Nat \ {0} /\ multiplier \in Nat
         /\ IsFiniteSet(Rates) /\ book.threshold \in Nat
         /\ \A r \in Rates :
              /\ r.price \in Nat /\ r.scale \in Nat /\ book.scale \div r.scale \in Nat
              /\ r.scale * (book.scale \div r.scale) = book.scale /\ book.scale \in Nat /\ book.scale > 0
<1>1. book.scale \in Nat /\ book.scale > 0 /\ MultiplierScale \in Nat /\ MultiplierScale > 0
  BY PricingAssumption
<1>2. Denominator \in Nat \ {0}
  <2>1. PICK a \in Nat, b \in Nat : a = MultiplierScale /\ b = book.scale /\ a > 0 /\ b > 0
    BY <1>1
  <2>2. a * b \in Nat
    BY Products
  <2>3. a * b > 0
    <3>1. a * 1 <= a * b /\ a * 1 = a /\ a * b \in Int
      BY <2>1, Products
    <3> QED
      BY <2>1, <3>1
  <2>4. Denominator = a * b
    BY <2>1 DEF Denominator
  <2> QED
    BY <2>2, <2>3, <2>4
<1>3. ASSUME NEW r \in Rates
      PROVE  /\ r.price \in Nat /\ r.scale \in Nat /\ book.scale \div r.scale \in Nat
             /\ r.scale * (book.scale \div r.scale) = book.scale
  <2>1. r.price \in Nat /\ r.scale \in Nat /\ r.scale # 0 /\ book.scale % r.scale = 0
    BY PricingAssumption DEF Rates
  <2>2. PICK n \in Nat, d \in Nat : d # 0 /\ n = book.scale /\ d = r.scale
    BY <1>1, <2>1
  <2>3. PICK q \in Nat, s \in 0..(d - 1) : q = n \div d /\ s = n % d /\ n = d * q + s
    BY <2>2, Division
  <2>4. s = 0
    BY <2>1, <2>2, <2>3, Zenon
  <2>5. n = d * q /\ q \in Nat
    <3>1. d * q \in Int
      BY Products
    <3> QED
      BY <2>3, <2>4, <3>1
  <2>6. q = book.scale \div r.scale
    BY <2>2, <2>3, Zenon
  <2> QED
    BY <2>1, <2>2, <2>5, <2>6, Zenon
<1>4. multiplier \in Nat /\ IsFiniteSet(Rates) /\ book.threshold \in Nat
  BY PricingAssumption DEF Rates
<1> QED
  BY <1>1, <1>2, <1>3, <1>4

\* What a token costs at a rate, in parts of the denominator.
Worth(r) == multiplier * (r.price * (book.scale \div r.scale))

LEMMA ValueIs ==
  ASSUME book \in Books, multiplier \in Multipliers, NEW r \in Rates,
         NEW line, line.quantity \in Nat
  PROVE  Worth(r) \in Nat /\ Value(line, r) = line.quantity * Worth(r) /\ Value(line, r) \in Nat
<1>1. PICK m \in Nat, p \in Nat, k \in Nat, q \in Nat :
        m = multiplier /\ p = r.price /\ k = book.scale \div r.scale /\ q = line.quantity
  BY BookFacts
<1>2. Worth(r) = m * (p * k) /\ Value(line, r) = ((q * p) * m) * k
  BY <1>1, Zenon DEF Worth, Value
<1>3. ((q * p) * m) * k = q * (m * (p * k)) /\ m * (p * k) \in Nat /\ q * (m * (p * k)) \in Nat
  OBVIOUS
<1>4. line.quantity * Worth(r) = q * (m * (p * k))
  BY <1>1, <1>2, Zenon
<1> QED
  BY <1>2, <1>3, <1>4, Zenon

\* mostExpensive finds a rate that no other of them exceeds.
LEMMA Dearest ==
  ASSUME book \in Books, multiplier \in Multipliers, NEW R, R \subseteq Rates, R # {}
  PROVE  MostExpensive(R) \in R /\ \A r \in R : Worth(r) <= Worth(MostExpensive(R))
<1> DEFINE Unit(r) == r.price * (book.scale \div r.scale)
<1>1. \A r \in R : Unit(r) \in Nat
  BY BookFacts
<1>2. ASSUME NEW r \in R, NEW s \in R
      PROVE  Unit(s) <= Unit(r) <=> s.price * r.scale <= r.price * s.scale
  <2>1. PICK p \in Nat, q \in Nat, a \in Nat, b \in Nat, i \in Nat, j \in Nat :
          /\ p = r.price /\ a = r.scale /\ i = book.scale \div r.scale
          /\ q = s.price /\ b = s.scale /\ j = book.scale \div s.scale
    BY BookFacts
  <2>2. a * i > 0 /\ a * i = b * j
    <3>1. r.scale * (book.scale \div r.scale) = book.scale /\ book.scale \in Nat /\ book.scale > 0
          /\ s.scale * (book.scale \div s.scale) = book.scale
      BY BookFacts
    <3>2. a * i = book.scale /\ b * j = book.scale
      BY <2>1, <3>1, Zenon
    <3> QED
      BY <3>1, <3>2
  <2>3. q * j <= p * i <=> q * a <= p * b
    BY <2>2, Crosswise
  <2> QED
    BY <2>1, <2>3, Zenon
<1>3. \E r \in R : \A s \in R : Unit(s) <= Unit(r)
  <2>1. PICK S, w : S = R /\ w = [r \in R |-> Unit(r)]
    OBVIOUS
  <2>2. IsFiniteSet(S) /\ S # {} /\ w \in [S -> Int]
    BY <1>1, <2>1, BookFacts, FS_Subset
  <2>3. \E x \in S : \A y \in S : w[y] <= w[x]
    BY <2>2, FiniteMaximum
  <2> HIDE DEF Unit
  <2> QED
    BY <2>1, <2>3
<1>4. \E r \in R : \A s \in R : s.price * r.scale <= r.price * s.scale
  BY <1>2, <1>3, Zenon
<1>5. MostExpensive(R) \in R /\ \A s \in R : s.price * MostExpensive(R).scale <= MostExpensive(R).price * s.scale
  BY <1>4, Zenon DEF MostExpensive
<1>6. \A s \in R : Unit(s) <= Unit(MostExpensive(R))
  BY <1>2, <1>5, Zenon
<1>7. ASSUME NEW s \in R PROVE Worth(s) <= Worth(MostExpensive(R))
  <2>1. PICK m \in Nat, x \in Nat, y \in Nat :
          m = multiplier /\ x = Unit(s) /\ y = Unit(MostExpensive(R)) /\ x <= y
    BY <1>1, <1>5, <1>6, BookFacts
  <2>2. m * x <= m * y
    BY <2>1, Products
  <2> QED
    BY <2>1, <2>2, Zenon DEF Worth
<1> QED
  BY <1>5, <1>7

-----------------------------------------------------------------------------
(* The lines of the usage.                                                 *)

\* Sequences put one after the other, step by step.
LEMMA FlattenSteps ==
  ASSUME NEW S, NEW n \in Nat, NEW ss \in [1..n -> Seq(S)]
  PROVE  \E f \in [0..n -> Seq(S)] :
           f[0] = <<>> /\ (\A k \in 1..n : f[k] = f[k - 1] \o ss[k]) /\ FlattenSeq(ss) = f[n]
<1> DEFINE P == {m \in 0..n : \E f \in [0..m -> Seq(S)] :
                    f[0] = <<>> /\ \A k \in 1..m : f[k] = f[k - 1] \o ss[k]}
<1>1. 0 \in P
  <2> DEFINE g == [k \in 0..0 |-> <<>>]
  <2>1. g \in [0..0 -> Seq(S)] /\ g[0] = <<>> /\ \A k \in 1..0 : g[k] = g[k - 1] \o ss[k]
    OBVIOUS
  <2> HIDE DEF g
  <2>2. \E f \in [0..0 -> Seq(S)] : f[0] = <<>> /\ \A k \in 1..0 : f[k] = f[k - 1] \o ss[k]
    BY <2>1
  <2>3. 0 \in 0..n
    OBVIOUS
  <2> QED
    BY <2>2, <2>3, Zenon
<1>2. ASSUME NEW m \in P, m < n PROVE m + 1 \in P
  <2>1. PICK f \in [0..m -> Seq(S)] : f[0] = <<>> /\ \A k \in 1..m : f[k] = f[k - 1] \o ss[k]
    OBVIOUS
  <2>2. m + 1 \in 0..n /\ m + 1 \in 1..n /\ m \in 0..m
    BY <1>2
  <2> DEFINE g == [k \in 0..(m + 1) |-> IF k = m + 1 THEN f[m] \o ss[m + 1] ELSE f[k]]
  <2>3. f[m] \o ss[m + 1] \in Seq(S)
    <3>1. f[m] \in Seq(S) /\ ss[m + 1] \in Seq(S)
      BY <2>2
    <3> QED
      BY <3>1
  <2>4. g \in [0..(m + 1) -> Seq(S)]
    BY <2>3
  <2>5. g[0] = <<>>
    BY <2>1
  <2>6. ASSUME NEW k \in 1..(m + 1) PROVE g[k] = g[k - 1] \o ss[k]
    <3>1. CASE k = m + 1
      <4>1. g[m + 1] = f[m] \o ss[m + 1] /\ g[m] = f[m] /\ k - 1 = m
        BY <2>2, <3>1
      <4> QED
        BY <3>1, <4>1
    <3>2. CASE k # m + 1
      <4>1. k \in 1..m /\ k \in 0..(m + 1) /\ k - 1 \in 0..(m + 1) /\ k - 1 # m + 1
        BY <3>2
      <4> QED
        BY <2>1, <3>2, <4>1
    <3> QED
      BY <3>1, <3>2
  <2> HIDE DEF g
  <2>7. \E h \in [0..(m + 1) -> Seq(S)] : h[0] = <<>> /\ \A k \in 1..(m + 1) : h[k] = h[k - 1] \o ss[k]
    BY <2>4, <2>5, <2>6
  <2> QED
    BY <2>2, <2>7, Zenon
<1>3. P \in SUBSET (0..n)
  OBVIOUS
<1>4. n \in P
  <2> HIDE DEF P
  <2>1. P = 0..n
    BY <1>1, <1>2, <1>3, BoundedInduction
  <2> QED
    BY <2>1
<1>5. PICK f \in [0..n -> Seq(S)] : f[0] = <<>> /\ \A k \in 1..n : f[k] = f[k - 1] \o ss[k]
  BY <1>4
<1> HIDE DEF P
<1>6. Len(ss) = n
  OBVIOUS
<1>7. FlattenSeq(ss) = f[n]
  <2>1. CASE n = 0
    <3>1. ss = <<>>
      BY <1>6, <2>1
    <3> QED
      BY <1>5, <1>6, <2>1, <3>1 DEF FlattenSeq
  <2>2. CASE n # 0
    <3> DEFINE flatten[i \in 1..Len(ss)] == IF i = 1 THEN ss[i] ELSE flatten[i - 1] \o ss[i]
               g == [i \in 1..n |-> f[i]]
    <3>1. \A i \in 1..n : g[i] = IF i = 1 THEN ss[i] ELSE g[i - 1] \o ss[i]
      <4> SUFFICES ASSUME NEW i \in 1..n PROVE g[i] = IF i = 1 THEN ss[i] ELSE g[i - 1] \o ss[i]
        OBVIOUS
      <4>1. f[i] = f[i - 1] \o ss[i] /\ g[i] = f[i]
        BY <1>5
      <4>2. CASE i = 1
        <5>1. ss[1] \in Seq(S) /\ f[0] = <<>> /\ i - 1 = 0
          BY <1>5, <2>2, <4>2
        <5>2. <<>> \o ss[1] = ss[1]
          BY <5>1
        <5> QED
          BY <4>1, <4>2, <5>1, <5>2
      <4>3. CASE i # 1
        <5>1. i - 1 \in 1..n
          BY <4>3
        <5> QED
          BY <4>1, <4>3, <5>1
      <4> QED
        BY <4>2, <4>3
    <3>2. g = [i \in 1..n |-> IF i = 1 THEN ss[i] ELSE g[i - 1] \o ss[i]]
      BY <3>1
    <3>3. flatten = [i \in 1..Len(ss) |-> IF i = 1 THEN ss[i] ELSE flatten[i - 1] \o ss[i]]
      <4> HIDE DEF g
      <4> QED
        BY <1>6, <3>2
    <3>4. FlattenSeq(ss) = flatten[n]
      BY <1>6, <2>2 DEF FlattenSeq
    <3> HIDE DEF flatten, g
    <3>5. \A i \in 1..n : flatten[i] = IF i = 1 THEN ss[i] ELSE flatten[i - 1] \o ss[i]
      BY <1>6, <3>3
    <3> DEFINE Q == {m \in 0..n : m = 0 \/ flatten[m] = g[m]}
    <3>6. 0 \in Q
      OBVIOUS
    <3>7. \A m \in Q : m < n => m + 1 \in Q
      <4> SUFFICES ASSUME NEW m \in Q, m < n PROVE m + 1 \in Q
        OBVIOUS
      <4>1. m + 1 \in 1..n /\ (m + 1) - 1 = m /\ m + 1 \in 0..n
        OBVIOUS
      <4>2. CASE m = 0
        BY <3>1, <3>5, <4>1, <4>2
      <4>3. CASE m # 0
        <5>1. flatten[m] = g[m] /\ m + 1 # 1
          BY <4>3
        <5> QED
          BY <3>1, <3>5, <4>1, <5>1
      <4> QED
        BY <4>2, <4>3
    <3>8. Q \in SUBSET (0..n)
      OBVIOUS
    <3> HIDE DEF Q
    <3>9. Q = 0..n
      BY <3>6, <3>7, <3>8, BoundedInduction
    <3>10. flatten[n] = g[n]
      <4>1. n \in Q
        BY <3>9
      <4> QED
        BY <2>2, <4>1 DEF Q
    <3> QED
      BY <2>2, <3>4, <3>10 DEF g
  <2> QED
    BY <2>1, <2>2
<1> QED
  BY <1>5, <1>7

\* One more sequence comes after the others.
LEMMA FlattenGrows ==
  ASSUME NEW S, NEW n \in Nat, NEW ss \in [1..n -> Seq(S)], NEW tt \in [1..(n + 1) -> Seq(S)],
         \A k \in 1..n : tt[k] = ss[k]
  PROVE  FlattenSeq(ss) \in Seq(S) /\ FlattenSeq(tt) = FlattenSeq(ss) \o tt[n + 1]
<1>1. PICK f \in [0..n -> Seq(S)] :
        f[0] = <<>> /\ (\A k \in 1..n : f[k] = f[k - 1] \o ss[k]) /\ FlattenSeq(ss) = f[n]
  BY FlattenSteps
<1>2. PICK g \in [0..(n + 1) -> Seq(S)] :
        g[0] = <<>> /\ (\A k \in 1..(n + 1) : g[k] = g[k - 1] \o tt[k]) /\ FlattenSeq(tt) = g[n + 1]
  <2>1. n + 1 \in Nat
    OBVIOUS
  <2> QED
    BY <2>1, FlattenSteps
<1> DEFINE Q == {k \in 0..n : f[k] = g[k]}
<1>3. 0 \in Q
  BY <1>1, <1>2
<1>4. \A k \in Q : k < n => k + 1 \in Q
  <2> SUFFICES ASSUME NEW k \in Q, k < n PROVE k + 1 \in Q
    OBVIOUS
  <2>1. k + 1 \in 1..n /\ k + 1 \in 1..(n + 1) /\ (k + 1) - 1 = k /\ k + 1 \in 0..n
    OBVIOUS
  <2>2. f[k + 1] = f[k] \o ss[k + 1] /\ g[k + 1] = g[k] \o tt[k + 1] /\ tt[k + 1] = ss[k + 1]
    BY <1>1, <1>2, <2>1
  <2> QED
    BY <2>1, <2>2
<1>5. Q \in SUBSET (0..n)
  OBVIOUS
<1> HIDE DEF Q
<1>6. Q = 0..n
  BY <1>3, <1>4, <1>5, BoundedInduction
<1>7. f[n] = g[n]
  <2>1. n \in Q
    BY <1>6
  <2> QED
    BY <2>1 DEF Q
<1>8. g[n + 1] = g[n] \o tt[n + 1]
  <2>1. n + 1 \in 1..(n + 1) /\ (n + 1) - 1 = n
    OBVIOUS
  <2> QED
    BY <1>2, <2>1
<1> QED
  BY <1>1, <1>2, <1>7, <1>8

\* Usage as it is recorded, and its lines.
Recorded == [cache_read : Nat, cache_write : Nat, input : Nat, output : Nat]
LinesOf(n) == [attempt : 1..n, category : Categories, quantity : Nat]

LEMMA LineType ==
  ASSUME NEW n \in Nat, NEW k \in 1..n, NEW c \in Categories, NEW q \in Nat
  PROVE  Line(k, c, q) \in Seq(LinesOf(n)) /\ \A i \in DOMAIN Line(k, c, q) : Line(k, c, q)[i].attempt = k
<1>1. CASE q = 0
  BY <1>1 DEF Line
<1>2. CASE q # 0
  <2> DEFINE l == [attempt |-> k, category |-> c, quantity |-> q]
  <2>1. l \in LinesOf(n) /\ l.attempt = k
    BY DEF LinesOf
  <2>2. Line(k, c, q) = <<l>>
    BY <1>2 DEF Line
  <2> HIDE DEF l
  <2> QED
    BY <2>1, <2>2
<1> QED
  BY <1>1, <1>2

LEMMA AttemptLinesType ==
  ASSUME NEW n \in Nat, NEW k \in 1..n, NEW u \in Recorded
  PROVE  /\ AttemptLines(k, u) \in Seq(LinesOf(n))
         /\ \A i \in DOMAIN AttemptLines(k, u) : AttemptLines(k, u)[i].attempt = k
<1> DEFINE A == Line(k, "cache_read", u.cache_read)
           B == Line(k, "cache_write", u.cache_write)
           C == Line(k, "input", u.input)
           D == Line(k, "output", u.output)
<1>1. u.cache_read \in Nat /\ u.cache_write \in Nat /\ u.input \in Nat /\ u.output \in Nat
  BY DEF Recorded
<1>2. /\ "cache_read" \in Categories /\ "cache_write" \in Categories
      /\ "input" \in Categories /\ "output" \in Categories
  BY DEF Categories
<1>3. /\ A \in Seq(LinesOf(n)) /\ B \in Seq(LinesOf(n)) /\ C \in Seq(LinesOf(n)) /\ D \in Seq(LinesOf(n))
      /\ \A i \in DOMAIN A : A[i].attempt = k
      /\ \A i \in DOMAIN B : B[i].attempt = k
      /\ \A i \in DOMAIN C : C[i].attempt = k
      /\ \A i \in DOMAIN D : D[i].attempt = k
  <2>1. \A c \in Categories, q \in Nat :
          /\ Line(k, c, q) \in Seq(LinesOf(n))
          /\ \A i \in DOMAIN Line(k, c, q) : Line(k, c, q)[i].attempt = k
    BY LineType
  <2> QED
    BY <1>1, <1>2, <2>1, Zenon
<1>4. AttemptLines(k, u) = A \o B \o C \o D
  BY DEF AttemptLines
<1> HIDE DEF A, B, C, D
<1>5. ASSUME NEW s \in Seq(LinesOf(n)), NEW t \in Seq(LinesOf(n)),
             \A i \in DOMAIN s : s[i].attempt = k, \A i \in DOMAIN t : t[i].attempt = k
      PROVE  s \o t \in Seq(LinesOf(n)) /\ \A i \in DOMAIN (s \o t) : (s \o t)[i].attempt = k
  <2>1. s \o t \in Seq(LinesOf(n)) /\ DOMAIN (s \o t) = 1..(Len(s) + Len(t))
    OBVIOUS
  <2>2. ASSUME NEW i \in DOMAIN (s \o t) PROVE (s \o t)[i].attempt = k
    <3>1. CASE i <= Len(s)
      <4>1. i \in DOMAIN s /\ (s \o t)[i] = s[i]
        BY <3>1
      <4> QED
        BY <1>5, <4>1
    <3>2. CASE ~(i <= Len(s))
      <4>1. i - Len(s) \in DOMAIN t /\ (s \o t)[i] = t[i - Len(s)]
        BY <3>2
      <4> QED
        BY <1>5, <4>1
    <3> QED
      BY <3>1, <3>2
  <2> QED
    BY <2>1, <2>2
<1>6. A \o B \in Seq(LinesOf(n)) /\ \A i \in DOMAIN (A \o B) : (A \o B)[i].attempt = k
  BY <1>3, <1>5
<1>7. A \o B \o C \in Seq(LinesOf(n)) /\ \A i \in DOMAIN (A \o B \o C) : (A \o B \o C)[i].attempt = k
  BY <1>3, <1>5, <1>6
<1>8. A \o B \o C \o D \in Seq(LinesOf(n)) /\ \A i \in DOMAIN (A \o B \o C \o D) : (A \o B \o C \o D)[i].attempt = k
  BY <1>3, <1>5, <1>7
<1> QED
  BY <1>4, <1>8, Zenon

\* The lines of one more attempt come after those of the attempts before.
LEMMA UsageGrows ==
  ASSUME NEW n \in Nat, NEW recorded \in [1..n -> Recorded], NEW u \in Recorded
  PROVE  /\ UsageLines(recorded) \in Seq(LinesOf(n))
         /\ UsageLines(Append(recorded, u)) = UsageLines(recorded) \o AttemptLines(n + 1, u)
<1> DEFINE more == Append(recorded, u)
           ss == [k \in DOMAIN recorded |-> AttemptLines(k, recorded[k])]
           tt == [k \in DOMAIN more |-> AttemptLines(k, more[k])]
<1>1. DOMAIN recorded = 1..n /\ Len(recorded) = n /\ DOMAIN more = 1..(n + 1) /\ more[n + 1] = u
      /\ \A k \in 1..n : more[k] = recorded[k] /\ k \in 1..(n + 1)
  OBVIOUS
<1>2. n + 1 \in Nat /\ n + 1 \in 1..(n + 1)
  OBVIOUS
<1>3. ss \in [1..n -> Seq(LinesOf(n))]
  BY <1>1, AttemptLinesType
<1>4. tt \in [1..(n + 1) -> Seq(LinesOf(n + 1))]
  <2>1. \A k \in 1..(n + 1) : more[k] \in Recorded
    <3> SUFFICES ASSUME NEW k \in 1..(n + 1) PROVE more[k] \in Recorded
      OBVIOUS
    <3>1. k \in 1..n \/ k = n + 1
      OBVIOUS
    <3> HIDE DEF more
    <3> QED
      BY <1>1, <3>1
  <2> HIDE DEF more
  <2> QED
    BY <1>1, <1>2, <2>1, AttemptLinesType
<1>5. ss \in [1..n -> Seq(LinesOf(n + 1))]
  <2>1. \A k \in 1..n : recorded[k] \in Recorded /\ k \in 1..(n + 1)
    BY <1>1
  <2> QED
    BY <1>1, <1>2, <2>1, AttemptLinesType
<1>6. \A k \in 1..n : tt[k] = ss[k]
  <2> HIDE DEF more
  <2> QED
    BY <1>1
<1>7. tt[n + 1] = AttemptLines(n + 1, u)
  <2> HIDE DEF more
  <2> QED
    BY <1>1, <1>2
<1>8. UsageLines(recorded) = FlattenSeq(ss) /\ UsageLines(more) = FlattenSeq(tt)
  BY DEF UsageLines
<1> HIDE DEF ss, tt, more
<1>9. FlattenSeq(tt) = FlattenSeq(ss) \o tt[n + 1]
  <2>1. PICK S : S = LinesOf(n + 1)
    OBVIOUS
  <2>2. ss \in [1..n -> Seq(S)] /\ tt \in [1..(n + 1) -> Seq(S)] /\ n \in Nat
    BY <1>4, <1>5, <2>1
  <2> QED
    BY <1>6, <2>2, FlattenGrows, Zenon
<1>10. FlattenSeq(ss) \in Seq(LinesOf(n))
  <2>1. PICK S : S = LinesOf(n)
    OBVIOUS
  <2>2. ss \in [1..n -> Seq(S)]
    BY <1>3, <2>1
  <2>3. PICK f \in [0..n -> Seq(S)] :
          f[0] = <<>> /\ (\A k \in 1..n : f[k] = f[k - 1] \o ss[k]) /\ FlattenSeq(ss) = f[n]
    BY <2>2, FlattenSteps
  <2> QED
    BY <2>1, <2>3
<1> QED
  BY <1>7, <1>8, <1>9, <1>10 DEF more

-----------------------------------------------------------------------------
(* The price of one more attempt.                                          *)

\* What a later attempt reports moves no earlier attempt to another tier.
LEMMA PromptKept ==
  ASSUME NEW n \in Nat, NEW L \in Seq(LinesOf(n)), NEW A \in Seq(LinesOf(n + 1)),
         \A i \in DOMAIN A : A[i].attempt = n + 1, NEW k \in 1..n
  PROVE  PromptOf(L \o A, k) = PromptOf(L, k)
<1> DEFINE B == L \o A
           In(lines) == [i \in DOMAIN lines |->
                           IF lines[i].attempt = k /\ lines[i].category \in Prompt
                           THEN lines[i].quantity ELSE 0]
<1>1. PICK m \in Nat, a \in Nat : m = Len(L) /\ a = Len(A)
  OBVIOUS
<1>2. /\ DOMAIN L = 1..m /\ DOMAIN A = 1..a /\ DOMAIN B = 1..(m + a)
      /\ \A i \in 1..m : B[i] = L[i]
      /\ \A i \in 1..a : B[m + i] = A[i]
  BY <1>1
<1>3. \A i \in 1..m : L[i].quantity \in Nat
  <2>1. \A i \in 1..m : L[i] \in LinesOf(n)
    BY <1>1
  <2> QED
    BY <2>1 DEF LinesOf
<1>4. \A i \in 1..a : A[i].attempt # k
  BY <1>2
<1> HIDE DEF B
<1>5. In(L) \in [1..m -> Int]
  BY <1>2, <1>3
<1>6. In(A) = [i \in 1..a |-> 0]
  BY <1>2, <1>4
<1>7. \A i \in 1..m : In(B)[i] = In(L)[i]
  <2> SUFFICES ASSUME NEW i \in 1..m PROVE In(B)[i] = In(L)[i]
    OBVIOUS
  <2>1. i \in DOMAIN L /\ i \in DOMAIN B /\ B[i] = L[i]
    BY <1>2
  <2> QED
    BY <2>1
<1>8. \A i \in 1..a : In(B)[m + i] = 0
  <2> SUFFICES ASSUME NEW i \in 1..a PROVE In(B)[m + i] = 0
    OBVIOUS
  <2>1. m + i \in DOMAIN B /\ B[m + i] = A[i] /\ A[i].attempt # k
    BY <1>2, <1>4
  <2> QED
    BY <2>1
<1>9. In(B) \in [1..(m + a) -> Int]
  <2>1. In(B) = [i \in 1..(m + a) |-> In(B)[i]]
    BY <1>2
  <2>2. \A i \in 1..(m + a) : In(B)[i] \in Int
    <3> SUFFICES ASSUME NEW i \in 1..(m + a) PROVE In(B)[i] \in Int
      OBVIOUS
    <3>1. CASE i <= m
      <4>1. i \in 1..m
        BY <3>1
      <4> QED
        BY <1>5, <1>7, <4>1
    <3>2. CASE ~(i <= m)
      <4>1. i - m \in 1..a /\ m + (i - m) = i
        BY <3>2
      <4>2. In(B)[m + (i - m)] = 0
        BY <1>8, <4>1
      <4> QED
        BY <4>1, <4>2
    <3> QED
      BY <3>1, <3>2
  <2> HIDE DEF In
  <2> QED
    BY <2>1, <2>2
<1>10. PromptOf(B, k) = Total(In(B)) /\ PromptOf(L, k) = Total(In(L))
  BY DEF PromptOf
<1> DEFINE z == [i \in 1..a |-> 0]
<1> HIDE DEF In
<1>11. z \in [1..a -> Int] /\ \A i \in 1..a : In(B)[m + i] = z[i]
  <2>1. \A i \in 1..a : z[i] = 0
    OBVIOUS
  <2> QED
    BY <1>8, <2>1
<1>12. Total(z) = 0
  <2>1. Total(z) = a * 0
    <3>1. 0 \in Int
      OBVIOUS
    <3> QED
      BY <3>1, TotalOfConstant, Zenon
  <2> QED
    BY <2>1
<1>13. Total(In(L)) \in Int
  BY <1>5, TotalType
<1> HIDE DEF z
<1>14. Total(In(B)) = Total(In(L)) + Total(z)
  <2>1. Joins(In(B), In(L), z, m, a)
    BY <1>7, <1>11 DEF Joins
  <2> QED
    BY <1>5, <1>9, <1>11, <2>1, TotalOfConcatenation
<1> QED
  BY <1>10, <1>12, <1>13, <1>14 DEF B

LEMMA SettlementKept ==
  ASSUME NEW n \in Nat, NEW L \in Seq(LinesOf(n)), NEW A \in Seq(LinesOf(n + 1)),
         \A i \in DOMAIN A : A[i].attempt = n + 1, NEW i \in DOMAIN L
  PROVE  SettlementLines(L \o A)[i] = SettlementLines(L)[i]
<1>1. i \in DOMAIN (L \o A) /\ (L \o A)[i] = L[i] /\ L[i] \in LinesOf(n)
  OBVIOUS
<1>2. L[i].attempt \in 1..n
  BY <1>1 DEF LinesOf
<1>3. PromptOf(L \o A, L[i].attempt) = PromptOf(L, L[i].attempt)
  BY <1>2, PromptKept
<1>4. PICK B : B = L \o A
  OBVIOUS
<1>5. PromptOf(B, B[i].attempt) = PromptOf(L, L[i].attempt) /\ B[i].category = L[i].category /\ i \in DOMAIN B
  BY <1>1, <1>3, <1>4
<1>6. SettlementLines(B)[i] = SettlementLines(L)[i]
  BY <1>5 DEF SettlementLines
<1> QED
  BY <1>4, <1>6

LEMMA SettlementRates ==
  ASSUME NEW lines, NEW i \in DOMAIN lines
  PROVE  /\ SettlementLines(lines)[i] \subseteq RatesFor(lines[i].category)
         /\ SettlementLines(lines)[i] \subseteq Rates
BY DEF SettlementLines, RatesFor

\* The exact values of some lines at the rates selected for them.
Prices(lines, selected) == [i \in DOMAIN lines |-> Value(lines[i], CHOOSE r \in selected[i] : TRUE)]

LEMMA PricesType ==
  ASSUME book \in Books, multiplier \in Multipliers,
         NEW n \in Nat, NEW lines \in Seq(LinesOf(n)), NEW selected,
         \A i \in DOMAIN lines : selected[i] # {} /\ selected[i] \subseteq Rates
  PROVE  Prices(lines, selected) \in [1..Len(lines) -> Nat]
<1>1. DOMAIN lines = 1..Len(lines)
  OBVIOUS
<1>2. ASSUME NEW i \in DOMAIN lines PROVE Value(lines[i], CHOOSE r \in selected[i] : TRUE) \in Nat
  <2>1. lines[i] \in LinesOf(n)
    OBVIOUS
  <2>2. PICK r \in selected[i], l \in LinesOf(n) : l = lines[i] /\ r = (CHOOSE s \in selected[i] : TRUE)
    <3>1. (CHOOSE s \in selected[i] : TRUE) \in selected[i]
      BY Zenon
    <3> QED
      BY <2>1, <3>1, Zenon
  <2>3. r \in Rates /\ l.quantity \in Nat
    BY <2>1, <2>2 DEF LinesOf
  <2>4. Value(l, r) \in Nat
    BY <2>3, ValueIs
  <2> QED
    BY <2>2, <2>4, Zenon
<1> QED
  BY <1>1, <1>2 DEF Prices

\* A quote is the exact value of the lines rounded up once, with its shares, or
\* none: for want of a rate or above the largest price.
LEMMA QuoteIs ==
  ASSUME book \in Books, multiplier \in Multipliers,
         NEW n \in Nat, NEW lines \in Seq(LinesOf(n)), NEW selected,
         \A i \in DOMAIN lines : selected[i] \subseteq Rates
  PROVE  /\ \/ Quote(lines, selected) = NoQuote
            \/ /\ Quote(lines, selected).ok = TRUE /\ \A i \in DOMAIN lines : selected[i] # {}
               /\ Quote(lines, selected).units = RoundUp(Total(Prices(lines, selected)))
               /\ Quote(lines, selected).units \in 0..MaxPrice
               /\ Quote(lines, selected).items \in [1..Len(lines) -> Nat]
               /\ Total(Quote(lines, selected).items) = Quote(lines, selected).units
               /\ \A i \in 1..Len(lines) :
                    /\ Quote(lines, selected).items[i] * Denominator < Prices(lines, selected)[i] + Denominator
                    /\ Prices(lines, selected)[i] < (Quote(lines, selected).items[i] + 1) * Denominator
         /\ (\A i \in DOMAIN lines : selected[i] # {}) =>
              /\ Total(Prices(lines, selected)) \in Nat
              /\ RoundUp(Total(Prices(lines, selected))) <= MaxPrice => Quote(lines, selected).ok
<1>1. CASE \E i \in DOMAIN lines : selected[i] = {}
  BY <1>1 DEF Quote
<1>2. CASE ~\E i \in DOMAIN lines : selected[i] = {}
  <2>1. PICK D \in Nat : D # 0 /\ D = Denominator
    BY BookFacts
  <2>a. PICK m \in Nat : m = Len(lines)
    OBVIOUS
  <2>b. PICK v \in [1..m -> Nat] : v = Prices(lines, selected)
    BY <1>2, <2>a, PricesType
  <2>c. PICK x \in Nat, top \in Nat : x = Total(v) /\ top = MaxPrice
    BY TotalNat, PricingAssumption
  <2>d. PICK amount \in Nat : amount = RoundUp(x)
    BY <2>1, RoundUpBounds
  <2>2. m = Len(lines) /\ v = Prices(lines, selected) /\ x = Total(v) /\ amount = RoundUp(x) /\ top = MaxPrice
    BY <2>a, <2>b, <2>c, <2>d
  <2>3. PICK items : items = Allocate(v, amount)
    OBVIOUS
  <2>4. /\ items \in [1..m -> Nat] /\ Total(items) = amount
        /\ \A i \in 1..m : items[i] * Denominator < v[i] + Denominator /\ v[i] < (items[i] + 1) * Denominator
    <3>1. Denominator \in Nat \ {0} /\ amount = RoundUp(Total(v))
      BY <2>1, <2>2
    <3>2. Shared(items, v, m, amount)
      BY <2>3, <3>1, SharesFit
    <3> QED
      BY <3>2 DEF Shared
  <2>5. Quote(lines, selected) =
          IF amount > top THEN NoQuote ELSE [ok |-> TRUE, units |-> amount, items |-> items]
    <3>1. Prices(lines, selected) = [i \in DOMAIN lines |-> Value(lines[i], CHOOSE r \in selected[i] : TRUE)]
      BY DEF Prices
    <3>2. v = [i \in DOMAIN lines |-> Value(lines[i], CHOOSE r \in selected[i] : TRUE)]
          /\ amount = RoundUp(Total(v)) /\ items = Allocate(v, amount) /\ top = MaxPrice
      BY <2>2, <2>3, <3>1, Zenon
    <3> QED
      BY <1>2, <3>2, Zenon DEF Quote
  <2>6. amount = RoundUp(Total(Prices(lines, selected))) /\ Total(Prices(lines, selected)) \in Nat
        /\ m = Len(lines) /\ v = Prices(lines, selected) /\ top = MaxPrice
    BY <2>2
  <2>7. CASE amount > top
    BY <1>2, <2>5, <2>6, <2>7
  <2>8. CASE ~(amount > top)
    <3>1. PICK q : q = Quote(lines, selected)
      OBVIOUS
    <3>2. q = [ok |-> TRUE, units |-> amount, items |-> items]
      BY <2>5, <2>8, <3>1, Zenon
    <3>3. q.ok = TRUE /\ q.units = amount /\ q.items = items /\ amount \in 0..top
      BY <2>8, <3>2
    <3>4. /\ q.ok = TRUE /\ q.units = RoundUp(Total(Prices(lines, selected))) /\ q.units \in 0..MaxPrice
          /\ q.items \in [1..Len(lines) -> Nat] /\ Total(q.items) = q.units
          /\ \A i \in 1..Len(lines) :
               /\ q.items[i] * Denominator < Prices(lines, selected)[i] + Denominator
               /\ Prices(lines, selected)[i] < (q.items[i] + 1) * Denominator
      BY <2>4, <2>6, <3>3, Zenon
    <3> QED
      BY <1>2, <2>6, <3>1, <3>4, Zenon
  <2> QED
    BY <2>7, <2>8
<1> QED
  BY <1>1, <1>2

\* The bounds of a request, and what they reserve.
Bound == [input : Nat, output : Nat]
Dear(category) == Worth(MostExpensive(UpperRates(category)))

LEMMA BoundsPrice ==
  ASSUME book \in Books, multiplier \in Multipliers, NEW b \in Bound
  PROVE  /\ QuoteBounds(b).ok \in BOOLEAN /\ QuoteBounds(b).units \in 0..MaxPrice
         /\ QuoteBounds(b).ok =>
              /\ RatesFor("input") # {} /\ RatesFor("output") # {}
              /\ Dear("input") \in Nat /\ Dear("output") \in Nat
              /\ QuoteBounds(b).units = RoundUp(b.input * Dear("input") + b.output * Dear("output"))
<1>1. b.input \in Nat /\ b.output \in Nat
  BY DEF Bound
<1> DEFINE first == [attempt |-> 1, category |-> "input", quantity |-> b.input]
           second == [attempt |-> 2, category |-> "output", quantity |-> b.output]
<1>2. first \in LinesOf(2) /\ second \in LinesOf(2)
  BY <1>1 DEF LinesOf, Categories
<1>3. PICK lines : lines = <<first, second>>
  OBVIOUS
<1>4. lines = BoundLines(b)
  BY <1>3 DEF BoundLines
<1>5. first.category = "input" /\ second.category = "output"
      /\ first.quantity = b.input /\ second.quantity = b.output
  OBVIOUS
<1> HIDE DEF first, second
<1>6. lines \in Seq(LinesOf(2)) /\ DOMAIN lines = 1..2 /\ Len(lines) = 2 /\ lines[1] = first /\ lines[2] = second
  BY <1>2, <1>3
<1>7. PICK selected : selected = UpperBoundLines(lines)
  OBVIOUS
<1>8. QuoteBounds(b) = Quote(lines, selected)
  BY <1>4, <1>7 DEF QuoteBounds
<1>9. selected = [i \in 1..2 |-> IF RatesFor(lines[i].category) = {} THEN {}
                                 ELSE {MostExpensive(UpperRates(lines[i].category))}]
  BY <1>6, <1>7 DEF UpperBoundLines
<1>10. ASSUME NEW c \in {"input", "output"}, RatesFor(c) # {}
       PROVE  MostExpensive(UpperRates(c)) \in Rates /\ Dear(c) \in Nat
  <2>1. UpperRates(c) \subseteq Rates /\ UpperRates(c) # {}
    BY <1>10 DEF UpperRates, RatesFor, Prompt
  <2>2. PICK R : R = UpperRates(c) /\ R \subseteq Rates /\ R # {}
    BY <2>1
  <2>3. MostExpensive(R) \in R
    BY <2>2, Dearest
  <2>4. PICK r \in Rates : r = MostExpensive(R)
    BY <2>2, <2>3
  <2>5. Worth(r) \in Nat
    <3> DEFINE l == [quantity |-> 0]
    <3>1. l.quantity \in Nat
      OBVIOUS
    <3> HIDE DEF l
    <3> QED
      BY <3>1, ValueIs
  <2> QED
    BY <2>2, <2>4, <2>5, Zenon DEF Dear
<1>11. \A i \in DOMAIN lines : selected[i] \subseteq Rates
  <2> SUFFICES ASSUME NEW i \in 1..2 PROVE selected[i] \subseteq Rates
    BY <1>6
  <2>1. lines[i].category \in {"input", "output"}
    BY <1>5, <1>6
  <2>2. selected[i] = IF RatesFor(lines[i].category) = {} THEN {}
                      ELSE {MostExpensive(UpperRates(lines[i].category))}
    BY <1>9
  <2> QED
    BY <1>10, <2>1, <2>2
<1>12. 2 \in Nat
  OBVIOUS
<1>a. PICK n \in Nat : lines \in Seq(LinesOf(n))
  BY <1>6, <1>12
<1>b. /\ \/ Quote(lines, selected) = NoQuote
         \/ /\ Quote(lines, selected).ok = TRUE /\ \A i \in DOMAIN lines : selected[i] # {}
            /\ Quote(lines, selected).units = RoundUp(Total(Prices(lines, selected)))
            /\ Quote(lines, selected).units \in 0..MaxPrice
            /\ Quote(lines, selected).items \in [1..Len(lines) -> Nat]
            /\ Total(Quote(lines, selected).items) = Quote(lines, selected).units
            /\ \A i \in 1..Len(lines) :
                 /\ Quote(lines, selected).items[i] * Denominator < Prices(lines, selected)[i] + Denominator
                 /\ Prices(lines, selected)[i] < (Quote(lines, selected).items[i] + 1) * Denominator
      /\ (\A i \in DOMAIN lines : selected[i] # {}) =>
           /\ Total(Prices(lines, selected)) \in Nat
           /\ RoundUp(Total(Prices(lines, selected))) <= MaxPrice => Quote(lines, selected).ok
  BY <1>a, <1>11, QuoteIs, Zenon
<1>13. \/ Quote(lines, selected) = NoQuote
       \/ /\ Quote(lines, selected).ok = TRUE /\ \A i \in DOMAIN lines : selected[i] # {}
          /\ Quote(lines, selected).units = RoundUp(Total(Prices(lines, selected)))
          /\ Quote(lines, selected).units \in 0..MaxPrice
  BY <1>b, Zenon
<1>14. NoQuote.ok = FALSE /\ NoQuote.units = 0 /\ MaxPrice \in Nat
  BY PricingAssumption DEF NoQuote
<1>15. QuoteBounds(b).ok \in BOOLEAN /\ QuoteBounds(b).units \in 0..MaxPrice
  <2>1. CASE Quote(lines, selected) = NoQuote
    <3>1. 0 \in 0..MaxPrice
      BY <1>14
    <3> QED
      BY <1>8, <1>14, <2>1, <3>1, Zenon
  <2>2. CASE Quote(lines, selected).ok = TRUE /\ Quote(lines, selected).units \in 0..MaxPrice
    BY <1>8, <2>2, Zenon
  <2> QED
    BY <1>13, <2>1, <2>2, Zenon
<1>16. ASSUME QuoteBounds(b).ok
       PROVE  /\ RatesFor("input") # {} /\ RatesFor("output") # {}
              /\ Dear("input") \in Nat /\ Dear("output") \in Nat
              /\ QuoteBounds(b).units = RoundUp(b.input * Dear("input") + b.output * Dear("output"))
  <2>1. /\ \A i \in 1..2 : selected[i] # {}
        /\ QuoteBounds(b).units = RoundUp(Total(Prices(lines, selected)))
    BY <1>6, <1>8, <1>13, <1>14, <1>16
  <2>2. RatesFor("input") # {} /\ RatesFor("output") # {}
    BY <1>5, <1>6, <1>9, <2>1
  <2>3. PICK in \in Nat, out \in Nat, x \in Nat, y \in Nat :
          in = Dear("input") /\ out = Dear("output") /\ x = b.input /\ y = b.output
    BY <1>1, <1>10, <2>2
  <2>4. ASSUME NEW i \in 1..2, NEW c \in {"input", "output"}, lines[i].category = c
        PROVE  Prices(lines, selected)[i] = lines[i].quantity * Dear(c)
    <3>1. PICK r : r = MostExpensive(UpperRates(c))
      OBVIOUS
    <3>2. RatesFor(c) # {} /\ r \in Rates
      BY <1>10, <2>2, <3>1
    <3>3. selected[i] = {r}
      BY <1>9, <2>4, <3>1, <3>2
    <3>4. (CHOOSE s \in selected[i] : TRUE) = r
      BY <3>3
    <3>5. PICK l : l = lines[i]
      OBVIOUS
    <3>6. Prices(lines, selected)[i] = Value(l, r)
      BY <1>6, <3>4, <3>5 DEF Prices
    <3>7. l.quantity \in Nat
      BY <1>1, <1>5, <1>6, <3>5
    <3>8. Value(l, r) = l.quantity * Worth(r)
      BY <3>2, <3>7, ValueIs
    <3> QED
      BY <3>1, <3>5, <3>6, <3>8, Zenon DEF Dear
  <2>5. Prices(lines, selected)[1] = x * in /\ Prices(lines, selected)[2] = y * out
    <3>1. /\ Prices(lines, selected)[1] = lines[1].quantity * Dear("input")
          /\ Prices(lines, selected)[2] = lines[2].quantity * Dear("output")
      BY <1>5, <1>6, <2>4
    <3> QED
      BY <1>5, <1>6, <2>3, <3>1, Zenon
  <2>6. PICK p \in Nat, q \in Nat : p = x * in /\ q = y * out
    OBVIOUS
  <2>7. Prices(lines, selected) = [i \in 1..2 |-> IF i = 1 THEN p ELSE q]
    <3>1. Prices(lines, selected) = [i \in 1..2 |-> Prices(lines, selected)[i]]
      BY <1>6 DEF Prices
    <3>2. Prices(lines, selected)[1] = p /\ Prices(lines, selected)[2] = q
      BY <2>5, <2>6
    <3>3. \A i \in 1..2 : i = 1 \/ i = 2
      OBVIOUS
    <3> QED
      BY <3>1, <3>2, <3>3
  <2>8. PICK v : v = Prices(lines, selected)
    OBVIOUS
  <2>9. Total(v) = p + q
    <3>1. v \in [1..2 -> Int] /\ v[1] = p /\ v[2] = q
      BY <2>7, <2>8
    <3>2. PICK f \in [0..2 -> Int] : f[0] = 0 /\ (\A k \in 1..2 : f[k] = f[k - 1] + v[k]) /\ Total(v) = f[2]
      BY <1>12, <3>1, TotalSteps
    <3>3. f[1] = f[0] + v[1] /\ f[2] = f[1] + v[2]
      BY <3>2
    <3> QED
      BY <3>1, <3>2, <3>3
  <2>10. QuoteBounds(b).units = RoundUp(p + q)
    BY <2>1, <2>8, <2>9
  <2>11. p + q = b.input * Dear("input") + b.output * Dear("output")
    BY <2>3, <2>6, Zenon
  <2> QED
    BY <2>2, <2>3, <2>10, <2>11
<1> QED
  BY <1>15, <1>16

\* What the tokens of some lines cost when those of a prompt cost one amount and
\* those of the answer another.
Weighed(lines, in, out) ==
  [i \in DOMAIN lines |-> lines[i].quantity * IF lines[i].category = "output" THEN out ELSE in]

LEMMA WeighedType ==
  ASSUME NEW n \in Nat, NEW lines \in Seq(LinesOf(n)), NEW in \in Nat, NEW out \in Nat
  PROVE  Weighed(lines, in, out) \in [1..Len(lines) -> Nat]
<1>1. \A i \in DOMAIN lines : lines[i].quantity * (IF lines[i].category = "output" THEN out ELSE in) \in Nat
  <2> SUFFICES ASSUME NEW i \in DOMAIN lines
               PROVE  lines[i].quantity * (IF lines[i].category = "output" THEN out ELSE in) \in Nat
    OBVIOUS
  <2>1. lines[i] \in LinesOf(n)
    OBVIOUS
  <2>2. PICK q \in Nat : q = lines[i].quantity
    BY <2>1 DEF LinesOf
  <2>3. q * (IF lines[i].category = "output" THEN out ELSE in) \in Nat
    OBVIOUS
  <2> QED
    BY <2>2, <2>3
<1>2. DOMAIN lines = 1..Len(lines)
  OBVIOUS
<1> QED
  BY <1>1, <1>2 DEF Weighed

LEMMA WeighedTogether ==
  ASSUME NEW n \in Nat, NEW s \in Seq(LinesOf(n)), NEW t \in Seq(LinesOf(n)), NEW in \in Nat, NEW out \in Nat
  PROVE  Total(Weighed(s \o t, in, out)) = Total(Weighed(s, in, out)) + Total(Weighed(t, in, out))
<1>1. PICK u : u = s \o t
  OBVIOUS
<1>2. u \in Seq(LinesOf(n)) /\ Len(u) = Len(s) + Len(t)
  BY <1>1
<1>3. PICK k \in Nat, m \in Nat : k = Len(s) /\ m = Len(t)
  OBVIOUS
<1>4. /\ \A i \in 1..k : u[i] = s[i] /\ i \in DOMAIN u /\ i \in DOMAIN s
      /\ \A i \in 1..m : u[k + i] = t[i] /\ k + i \in DOMAIN u /\ i \in DOMAIN t
  BY <1>1, <1>3
<1>5. PICK a, b, c :
        /\ a = Weighed(s, in, out) /\ b = Weighed(t, in, out) /\ c = Weighed(u, in, out)
        /\ a \in [1..k -> Nat] /\ b \in [1..m -> Nat] /\ c \in [1..(k + m) -> Nat]
  BY <1>2, <1>3, WeighedType
<1>6. \A i \in 1..k : c[i] = a[i]
  BY <1>4, <1>5 DEF Weighed
<1>7. \A i \in 1..m : c[k + i] = b[i]
  BY <1>4, <1>5 DEF Weighed
<1>8. Total(c) = Total(a) + Total(b)
  <2>1. a \in [1..k -> Int] /\ b \in [1..m -> Int] /\ c \in [1..(k + m) -> Int]
    BY <1>5
  <2>2. Joins(c, a, b, k, m)
    BY <1>6, <1>7 DEF Joins
  <2> QED
    BY <2>1, <2>2, TotalOfConcatenation
<1> QED
  BY <1>1, <1>5, <1>8

LEMMA WeighedLine ==
  ASSUME NEW n \in Nat, NEW k \in 1..n, NEW c \in Categories, NEW q \in Nat, NEW in \in Nat, NEW out \in Nat
  PROVE  Total(Weighed(Line(k, c, q), in, out)) = q * IF c = "output" THEN out ELSE in
<1>1. PICK w \in Nat : w = IF c = "output" THEN out ELSE in
  OBVIOUS
<1>2. PICK l : l = Line(k, c, q)
  OBVIOUS
<1>3. PICK v : v = Weighed(l, in, out)
  OBVIOUS
<1>4. CASE q = 0
  <2>1. l = <<>>
    BY <1>2, <1>4 DEF Line
  <2>2. v \in [1..0 -> Int]
    BY <1>3, <2>1 DEF Weighed
  <2>3. PICK f \in [0..0 -> Int] : f[0] = 0 /\ (\A j \in 1..0 : f[j] = f[j - 1] + v[j]) /\ Total(v) = f[0]
    <3>1. 0 \in Nat
      OBVIOUS
    <3> QED
      BY <2>2, <3>1, TotalSteps
  <2> QED
    BY <1>1, <1>2, <1>3, <1>4, <2>3
<1>5. CASE q # 0
  <2>1. l = <<[attempt |-> k, category |-> c, quantity |-> q]>>
    BY <1>2, <1>5 DEF Line
  <2>2. DOMAIN l = 1..1 /\ l[1].quantity = q /\ l[1].category = c
    BY <2>1
  <2>3. q * w \in Int
    OBVIOUS
  <2>4. v = [i \in 1..1 |-> q * w]
    <3>1. \A i \in 1..1 : i = 1
      OBVIOUS
    <3>2. v = [i \in 1..1 |-> l[i].quantity * IF l[i].category = "output" THEN out ELSE in]
      BY <1>3, <2>2 DEF Weighed
    <3>3. l[1].quantity * (IF l[1].category = "output" THEN out ELSE in) = q * w
      BY <1>1, <2>2
    <3> QED
      BY <3>1, <3>2, <3>3
  <2>5. PICK p \in Int : p = q * w
    BY <2>3
  <2>6. v = [i \in 1..1 |-> p]
    BY <2>4, <2>5
  <2>7. Total([i \in 1..1 |-> p]) = 1 * p
    <3>1. 1 \in Nat
      OBVIOUS
    <3> QED
      BY <3>1, TotalOfConstant, Zenon
  <2>8. Total(v) = p
    BY <2>6, <2>7
  <2> QED
    BY <1>1, <1>2, <1>3, <2>5, <2>8
<1> QED
  BY <1>4, <1>5

LEMMA WeighedAttempt ==
  ASSUME NEW n \in Nat, NEW k \in 1..n, NEW u \in Recorded, NEW in \in Nat, NEW out \in Nat
  PROVE  Total(Weighed(AttemptLines(k, u), in, out)) =
           (u.input + u.cache_read + u.cache_write) * in + u.output * out
<1>1. PICK a \in Nat, b \in Nat, c \in Nat, d \in Nat :
        a = u.cache_read /\ b = u.cache_write /\ c = u.input /\ d = u.output
  BY DEF Recorded
<1>2. /\ "cache_read" \in Categories /\ "cache_write" \in Categories
      /\ "input" \in Categories /\ "output" \in Categories
      /\ "cache_read" # "output" /\ "cache_write" # "output" /\ "input" # "output"
  BY DEF Categories
<1>3. \A e \in Categories, q \in Nat :
        /\ Line(k, e, q) \in Seq(LinesOf(n))
        /\ Total(Weighed(Line(k, e, q), in, out)) = q * IF e = "output" THEN out ELSE in
  <2>1. \A e \in Categories, q \in Nat : Line(k, e, q) \in Seq(LinesOf(n))
    BY LineType
  <2>2. ASSUME NEW e \in Categories, NEW q \in Nat
        PROVE  Total(Weighed(Line(k, e, q), in, out)) = q * IF e = "output" THEN out ELSE in
    BY WeighedLine
  <2> QED
    BY <2>1, <2>2
<1>4. PICK A \in Seq(LinesOf(n)), B \in Seq(LinesOf(n)), C \in Seq(LinesOf(n)), D \in Seq(LinesOf(n)) :
        /\ A = Line(k, "cache_read", a) /\ B = Line(k, "cache_write", b)
        /\ C = Line(k, "input", c) /\ D = Line(k, "output", d)
  BY <1>2, <1>3
<1>5. /\ Total(Weighed(A, in, out)) = a * in /\ Total(Weighed(B, in, out)) = b * in
      /\ Total(Weighed(C, in, out)) = c * in /\ Total(Weighed(D, in, out)) = d * out
  BY <1>2, <1>3, <1>4
<1>6. A \o B \in Seq(LinesOf(n)) /\ (A \o B) \o C \in Seq(LinesOf(n))
  OBVIOUS
<1>7. PICK E \in Seq(LinesOf(n)), F \in Seq(LinesOf(n)) : E = A \o B /\ F = E \o C
  BY <1>6
<1>8. /\ Total(Weighed(E, in, out)) = Total(Weighed(A, in, out)) + Total(Weighed(B, in, out))
      /\ Total(Weighed(F, in, out)) = Total(Weighed(E, in, out)) + Total(Weighed(C, in, out))
      /\ Total(Weighed(F \o D, in, out)) = Total(Weighed(F, in, out)) + Total(Weighed(D, in, out))
  <2>1. \A s, t \in Seq(LinesOf(n)) :
          Total(Weighed(s \o t, in, out)) = Total(Weighed(s, in, out)) + Total(Weighed(t, in, out))
    BY WeighedTogether
  <2> QED
    BY <1>7, <2>1, Zenon
<1>9. AttemptLines(k, u) = F \o D
  BY <1>1, <1>4, <1>7 DEF AttemptLines
<1>10. Total(Weighed(AttemptLines(k, u), in, out)) = ((a * in + b * in) + c * in) + d * out
  BY <1>5, <1>8, <1>9, Zenon
<1>11. ((a * in + b * in) + c * in) + d * out = (c + a + b) * in + d * out
  OBVIOUS
<1> QED
  BY <1>1, <1>10, <1>11, Zenon

\* No token of a category costs more than it was reserved at.
LEMMA RatePrice ==
  ASSUME book \in Books, multiplier \in Multipliers, RatesFor("input") # {}, RatesFor("output") # {},
         NEW c \in Categories, NEW r \in RatesFor(c)
  PROVE  r \in Rates /\ Worth(r) <= IF c = "output" THEN Dear("output") ELSE Dear("input")
<1>1. r \in Rates
  BY DEF RatesFor
<1>2. CASE c = "output"
  <2>1. PICK R : R = UpperRates("output")
    OBVIOUS
  <2>2. R \subseteq Rates /\ r \in R
    BY <1>2, <2>1 DEF UpperRates, RatesFor
  <2>3. Worth(r) <= Worth(MostExpensive(R))
    BY <2>2, Dearest
  <2> QED
    BY <1>1, <1>2, <2>1, <2>3 DEF Dear
<1>3. CASE c # "output"
  <2>1. PICK R : R = UpperRates("input")
    OBVIOUS
  <2>2. R \subseteq Rates /\ r \in R
    BY <1>3, <2>1 DEF UpperRates, RatesFor, Prompt, Categories
  <2>3. Worth(r) <= Worth(MostExpensive(R))
    BY <2>2, Dearest
  <2> QED
    BY <1>1, <1>3, <2>1, <2>3 DEF Dear
<1> QED
  BY <1>2, <1>3

\* The rate of every line of some usage can be told.
Chosen(recorded) ==
  \A i \in DOMAIN UsageLines(recorded) : SettlementLines(UsageLines(recorded))[i] # {}

LEMMA UsagePrice ==
  ASSUME book \in Books, multiplier \in Multipliers, NEW n \in Nat, NEW recorded \in [1..n -> Recorded]
  PROVE  LET lines == UsageLines(recorded)
             values == Prices(lines, SettlementLines(lines))
             price == PriceUsage(recorded)
         IN /\ \/ price = NoQuote
               \/ /\ price.ok = TRUE /\ Chosen(recorded) /\ price.units = RoundUp(Total(values))
                  /\ price.units \in 0..MaxPrice
                  /\ price.items \in [1..Len(lines) -> Nat] /\ Total(price.items) = price.units
                  /\ \A i \in 1..Len(lines) :
                       /\ price.items[i] * Denominator < values[i] + Denominator
                       /\ values[i] < (price.items[i] + 1) * Denominator
            /\ Chosen(recorded) =>
                 /\ Total(values) \in Nat
                 /\ RoundUp(Total(values)) <= MaxPrice => price.ok
<1>1. PICK lines, selected : lines = UsageLines(recorded) /\ selected = SettlementLines(lines)
  OBVIOUS
<1>2. lines \in Seq(LinesOf(n))
  <2> DEFINE u == [cache_read |-> 0, cache_write |-> 0, input |-> 0, output |-> 0]
  <2>1. u \in Recorded
    BY DEF Recorded
  <2> HIDE DEF u
  <2> QED
    BY <1>1, <2>1, UsageGrows
<1>3. \A i \in DOMAIN lines : selected[i] \subseteq Rates
  BY <1>1, SettlementRates
<1>4. PriceUsage(recorded) = Quote(lines, selected)
  BY <1>1, Zenon DEF PriceUsage
<1>5. Chosen(recorded) <=> \A i \in DOMAIN lines : selected[i] # {}
  BY <1>1, Zenon DEF Chosen
<1>6. PICK values : values = Prices(lines, selected)
  OBVIOUS
<1>7. /\ \/ Quote(lines, selected) = NoQuote
         \/ /\ Quote(lines, selected).ok = TRUE /\ \A i \in DOMAIN lines : selected[i] # {}
            /\ Quote(lines, selected).units = RoundUp(Total(Prices(lines, selected)))
            /\ Quote(lines, selected).units \in 0..MaxPrice
            /\ Quote(lines, selected).items \in [1..Len(lines) -> Nat]
            /\ Total(Quote(lines, selected).items) = Quote(lines, selected).units
            /\ \A i \in 1..Len(lines) :
                 /\ Quote(lines, selected).items[i] * Denominator < Prices(lines, selected)[i] + Denominator
                 /\ Prices(lines, selected)[i] < (Quote(lines, selected).items[i] + 1) * Denominator
      /\ (\A i \in DOMAIN lines : selected[i] # {}) =>
           /\ Total(Prices(lines, selected)) \in Nat
           /\ RoundUp(Total(Prices(lines, selected))) <= MaxPrice => Quote(lines, selected).ok
  BY <1>2, <1>3, QuoteIs, Zenon
<1> QED
  BY <1>1, <1>4, <1>5, <1>7, Zenon

\* What one more attempt adds to the price of the usage is within what its
\* bounds reserved, however the tokens of its prompt divide.
LEMMA MoreUsageFits ==
  ASSUME book \in Books, multiplier \in Multipliers,
         NEW n \in Nat, NEW recorded \in [1..n -> Recorded], NEW u \in Recorded, NEW b \in Bound,
         PriceUsage(recorded).ok, QuoteBounds(b).ok,
         u.input + u.cache_read + u.cache_write <= b.input, u.output <= b.output
  PROVE  LET more == Append(recorded, u)
             sum == PriceUsage(recorded).units + QuoteBounds(b).units
         IN /\ PriceUsage(more).units <= sum
            /\ Chosen(more) /\ sum <= MaxPrice => PriceUsage(more).ok
<1>1. PICK more : more = Append(recorded, u)
  OBVIOUS
<1>2. more \in [1..(n + 1) -> Recorded] /\ n + 1 \in Nat
  <2>1. Len(recorded) = n /\ recorded \in Seq(Recorded)
    OBVIOUS
  <2>2. more \in Seq(Recorded) /\ Len(more) = n + 1
    BY <1>1, <2>1
  <2> QED
    BY <2>2
<1>3. PICK L, A, B : L = UsageLines(recorded) /\ A = AttemptLines(n + 1, u) /\ B = UsageLines(more)
  OBVIOUS
<1>4. L \in Seq(LinesOf(n)) /\ B = L \o A
  BY <1>1, <1>3, UsageGrows
<1>5. A \in Seq(LinesOf(n + 1)) /\ \A i \in DOMAIN A : A[i].attempt = n + 1
  <2>1. n + 1 \in 1..(n + 1)
    OBVIOUS
  <2> QED
    BY <1>2, <1>3, <2>1, AttemptLinesType
<1>6. PICK x, y : x = Prices(L, SettlementLines(L)) /\ y = Prices(B, SettlementLines(B))
  OBVIOUS
<1>7. PICK p, q, r : p = PriceUsage(recorded) /\ q = PriceUsage(more) /\ r = QuoteBounds(b)
  OBVIOUS
<1>8. NoQuote.ok = FALSE /\ NoQuote.units = 0
  BY DEF NoQuote
<1>9. Chosen(recorded) /\ p.units = RoundUp(Total(x)) /\ p.units \in 0..MaxPrice /\ Total(x) \in Nat
  <2>1. /\ \/ p = NoQuote
           \/ Chosen(recorded) /\ p.units = RoundUp(Total(x)) /\ p.units \in 0..MaxPrice
        /\ Chosen(recorded) => Total(x) \in Nat
    BY <1>3, <1>6, <1>7, UsagePrice
  <2> QED
    BY <1>7, <1>8, <2>1
<1>10. /\ \/ q = NoQuote
          \/ Chosen(more) /\ q.units = RoundUp(Total(y)) /\ q.units \in 0..MaxPrice
       /\ Chosen(more) => Total(y) \in Nat /\ (RoundUp(Total(y)) <= MaxPrice => q.ok)
  BY <1>2, <1>3, <1>6, <1>7, UsagePrice
<1>11. /\ RatesFor("input") # {} /\ RatesFor("output") # {}
       /\ Dear("input") \in Nat /\ Dear("output") \in Nat
       /\ r.units = RoundUp(b.input * Dear("input") + b.output * Dear("output"))
       /\ r.units \in 0..MaxPrice
  BY <1>7, BoundsPrice
<1>12. MaxPrice \in Nat
  BY PricingAssumption
<1>13. ASSUME Chosen(more) PROVE RoundUp(Total(y)) <= p.units + r.units
  <2>1. PICK in \in Nat, out \in Nat : in = Dear("input") /\ out = Dear("output")
    BY <1>11
  <2>2. PICK i1 \in Nat, o1 \in Nat, i2 \in Nat, o2 \in Nat :
          /\ i1 = u.input + u.cache_read + u.cache_write /\ o1 = u.output
          /\ i2 = b.input /\ o2 = b.output
    BY DEF Recorded, Bound
  <2>3. i1 <= i2 /\ o1 <= o2
    BY <2>2
  <2>4. PICK e \in Nat, f \in Nat : e = i1 * in + o1 * out /\ f = i2 * in + o2 * out
    OBVIOUS
  <2>5. e <= f
    <3>1. i1 * in = in * i1 /\ i2 * in = in * i2 /\ o1 * out = out * o1 /\ o2 * out = out * o2
      OBVIOUS
    <3>2. in * i1 <= in * i2 /\ out * o1 <= out * o2
      BY <2>3, Products
    <3>3. PICK a1 \in Nat, a2 \in Nat, c1 \in Nat, c2 \in Nat :
            a1 = in * i1 /\ a2 = in * i2 /\ c1 = out * o1 /\ c2 = out * o2
      OBVIOUS
    <3>4. e = a1 + c1 /\ f = a2 + c2
      BY <2>4, <3>1, <3>3, Zenon
    <3> QED
      BY <3>2, <3>3, <3>4
  <2>6. r.units = RoundUp(f)
    BY <1>11, <2>1, <2>2, <2>4, Zenon
  <2>7. PICK w : w = Weighed(A, in, out)
    OBVIOUS
  <2>8. PICK m \in Nat, a \in Nat : m = Len(L) /\ a = Len(A)
    BY <1>4, <1>5
  <2>9. w \in [1..a -> Nat] /\ Total(w) = e
    <3>1. w \in [1..a -> Nat]
      BY <1>2, <1>5, <2>7, <2>8, WeighedType
    <3>2. n + 1 \in 1..(n + 1)
      OBVIOUS
    <3>3. Total(Weighed(AttemptLines(n + 1, u), in, out)) =
            (u.input + u.cache_read + u.cache_write) * in + u.output * out
      BY <1>2, <3>2, WeighedAttempt
    <3> QED
      BY <1>3, <2>2, <2>4, <2>7, <3>1, <3>3, Zenon
  <2>10. /\ DOMAIN L = 1..m /\ DOMAIN A = 1..a /\ DOMAIN B = 1..(m + a)
         /\ \A i \in 1..m : B[i] = L[i] /\ i \in DOMAIN B
         /\ \A i \in 1..a : B[m + i] = A[i] /\ m + i \in DOMAIN B
    BY <1>4, <1>5, <2>8
  <2>11. x \in [1..m -> Nat]
    <3>1. PICK selected : selected = SettlementLines(L)
      OBVIOUS
    <3>2. \A i \in DOMAIN L : selected[i] # {} /\ selected[i] \subseteq Rates
      BY <1>3, <1>9, <3>1, SettlementRates DEF Chosen
    <3> QED
      BY <1>4, <1>6, <2>8, <3>1, <3>2, PricesType
  <2>12. y \in [1..(m + a) -> Nat]
    <3>1. PICK selected : selected = SettlementLines(B)
      OBVIOUS
    <3>2. \A i \in DOMAIN B : selected[i] # {} /\ selected[i] \subseteq Rates
      BY <1>3, <1>13, <3>1, SettlementRates DEF Chosen
    <3>3. B \in Seq(LinesOf(n + 1)) /\ Len(B) = m + a
      <4>1. L \in Seq(LinesOf(n + 1))
        <5>1. LinesOf(n) \subseteq LinesOf(n + 1)
          BY DEF LinesOf
        <5> QED
          BY <1>4, <5>1
      <4> QED
        BY <1>4, <1>5, <2>8, <4>1
    <3>4. y \in [1..Len(B) -> Nat]
      BY <1>2, <1>6, <3>1, <3>2, <3>3, PricesType
    <3> QED
      BY <3>3, <3>4
  <2>13. \A i \in 1..m : y[i] = x[i]
    <3> SUFFICES ASSUME NEW i \in 1..m PROVE y[i] = x[i]
      OBVIOUS
    <3>1. B[i] = L[i] /\ i \in DOMAIN B /\ i \in DOMAIN L
      BY <2>10
    <3>2. SettlementLines(B)[i] = SettlementLines(L)[i]
      BY <1>4, <1>5, <3>1, SettlementKept
    <3> QED
      BY <1>6, <3>1, <3>2 DEF Prices
  <2>b. PICK t : t = [i \in 1..a |-> y[m + i]]
    OBVIOUS
  <2>14. t \in [1..a -> Nat]
    BY <2>12, <2>b
  <2>a. \A i \in 1..a : y[m + i] = t[i]
    BY <2>b
  <2>15. \A i \in 1..a : t[i] <= w[i]
    <3> SUFFICES ASSUME NEW i \in 1..a PROVE t[i] <= w[i]
      OBVIOUS
    <3>1. B[m + i] = A[i] /\ m + i \in DOMAIN B /\ i \in DOMAIN A
      BY <2>10
    <3>2. PICK S : S = SettlementLines(B)[m + i]
      OBVIOUS
    <3>3. S # {} /\ S \subseteq RatesFor(A[i].category)
      BY <1>3, <1>13, <3>1, <3>2, SettlementRates DEF Chosen
    <3>4. PICK s \in S : s = (CHOOSE z \in S : TRUE)
      BY <3>3
    <3>5. A[i].category \in Categories /\ A[i].quantity \in Nat
      <4>1. A[i] \in LinesOf(n + 1)
        BY <1>5, <3>1
      <4> QED
        BY <4>1 DEF LinesOf
    <3>b. A[i] \in LinesOf(n + 1)
      BY <1>5, <3>1
    <3>6. PICK c \in Categories, k \in Nat, l \in LinesOf(n + 1) : c = A[i].category /\ k = A[i].quantity /\ l = A[i]
      BY <3>5, <3>b
    <3>7. s \in Rates /\ Worth(s) <= IF c = "output" THEN out ELSE in
      <4>1. s \in RatesFor(c)
        BY <3>3, <3>6
      <4> QED
        BY <1>11, <2>1, <4>1, RatePrice
    <3>8. y[m + i] = Value(l, s)
      BY <1>6, <3>1, <3>2, <3>4, <3>6 DEF Prices
    <3>9. Worth(s) \in Nat /\ Value(l, s) = l.quantity * Worth(s)
      BY <3>5, <3>6, <3>7, ValueIs
    <3>10. PICK v \in Nat, v2 \in Nat : v = Worth(s) /\ v2 = (IF c = "output" THEN out ELSE in) /\ v <= v2
      BY <3>7, <3>9
    <3>11. k * v <= k * v2
      BY <3>10, Products
    <3>12. t[i] = k * v
      BY <2>a, <3>6, <3>8, <3>9, <3>10, Zenon
    <3>13. w[i] = k * v2
      BY <2>7, <3>1, <3>6, <3>10, Zenon DEF Weighed
    <3> QED
      BY <3>11, <3>12, <3>13
  <2>16. Total(y) = Total(x) + Total(t)
    <3>1. x \in [1..m -> Int] /\ t \in [1..a -> Int] /\ y \in [1..(m + a) -> Int]
      BY <2>11, <2>12, <2>14
    <3>2. Joins(y, x, t, m, a)
      BY <2>13, <2>a DEF Joins
    <3>3. \A s1 \in [1..m -> Int], t1 \in [1..a -> Int], u1 \in [1..(m + a) -> Int] :
            Joins(u1, s1, t1, m, a) => Total(u1) = Total(s1) + Total(t1)
      BY TotalOfConcatenation
    <3> QED
      BY <3>1, <3>2, <3>3, Zenon
  <2>17. Total(t) <= Total(w)
    <3>1. t \in [1..a -> Int] /\ w \in [1..a -> Int]
      BY <2>9, <2>14
    <3> QED
      BY <2>15, <3>1, TotalMonotone
  <2>18. PICK g \in Nat, h \in Nat, k \in Nat : g = Total(x) /\ h = Total(t) /\ k = Total(y)
    <3>a. m + a \in Nat
      OBVIOUS
    <3>1. Total(t) \in Nat /\ Total(y) \in Nat
      BY <2>12, <2>14, <3>a, TotalNat, Zenon
    <3> QED
      BY <1>9, <3>1
  <2>19. k <= g + f
    BY <2>5, <2>9, <2>16, <2>17, <2>18
  <2>20. Denominator \in Nat \ {0}
    BY BookFacts
  <2>21. RoundUp(k) <= RoundUp(g) + RoundUp(f)
    BY <2>19, <2>20, RoundedOnce
  <2> QED
    BY <1>9, <2>6, <2>18, <2>21
<1>14. q.units <= p.units + r.units
  BY <1>8, <1>9, <1>10, <1>11, <1>12, <1>13
<1>15. ASSUME Chosen(more), p.units + r.units <= MaxPrice PROVE q.ok
  <2>1. PICK d \in Nat : d # 0 /\ d = Denominator
    BY BookFacts
  <2>2. PICK k \in Nat : k = Total(y)
    BY <1>10, <1>15
  <2>3. RoundUp(k) \in Nat
    BY <2>1, RoundUpBounds
  <2>4. RoundUp(k) <= MaxPrice
    BY <1>9, <1>11, <1>12, <1>13, <1>15, <2>2, <2>3
  <2> QED
    BY <1>10, <1>15, <2>2, <2>4
<1> QED
  BY <1>1, <1>7, <1>14, <1>15, Zenon

-----------------------------------------------------------------------------
(* A request is prepared.                                                  *)

LEMMA DigitsType ==
  ASSUME NEW n \in Int
  PROVE  Digits(n) \in Nat
<1>1. {k \in 0..n : Radix ^ k <= n} \in SUBSET (0..n) /\ IsFiniteSet(0..n)
  BY FS_Interval
<1> QED
  BY <1>1, FS_Subset, FS_CardinalityType DEF Digits

\* The rounds of prepareConverged end with a number.
LEMMA ConvergeType ==
  ASSUME window \in Windows, NEW size \in Requests
  PROVE  Converge(size) \in Int
<1> DEFINE N(c) == SafeOutput(InputBound(size, c))
           c0 == MaxOutput
           c1 == N(c0)
           c2 == N(c1)
           c3 == N(c2)
           c4 == N(c3)
           g == [round \in 0..4 |-> IF round = 0 THEN c0 ELSE IF round = 1 THEN c1
                                    ELSE IF round = 2 THEN c2 ELSE IF round = 3 THEN c3 ELSE c4]
           cap[round \in 0..4] == IF round = 0 THEN MaxOutput ELSE SafeOutput(InputBound(size, cap[round - 1]))
<1>1. window \in Nat /\ MaxOutput \in Nat /\ size \in Nat
  BY PricingAssumption
<1>2. ASSUME NEW c \in Int PROVE N(c) \in Int
  <2>1. Digits(c) \in Nat
    BY DigitsType
  <2> QED
    BY <1>1, <2>1 DEF SafeOutput, InputBound
<1>3. c0 \in Int /\ c1 \in Int /\ c2 \in Int /\ c3 \in Int /\ c4 \in Int
  <2>1. c0 \in Int
    BY <1>1
  <2>2. c1 \in Int
    BY <1>2, <2>1
  <2>3. c2 \in Int
    BY <1>2, <2>2
  <2>4. c3 \in Int
    BY <1>2, <2>3
  <2>5. c4 \in Int
    BY <1>2, <2>4
  <2> QED
    BY <2>1, <2>2, <2>3, <2>4, <2>5
<1>4. g[0] = c0 /\ g[1] = c1 /\ g[2] = c2 /\ g[3] = c3 /\ g[4] = c4
  OBVIOUS
<1>5. c0 = MaxOutput /\ c1 = N(c0) /\ c2 = N(c1) /\ c3 = N(c2) /\ c4 = N(c3)
  OBVIOUS
<1>6. g = [round \in 0..4 |-> IF round = 0 THEN MaxOutput ELSE N(g[round - 1])]
  <2>1. \A round \in 0..4 : round \in {0, 1, 2, 3, 4}
    OBVIOUS
  <2>2. \A round \in 0..4 : g[round] = IF round = 0 THEN MaxOutput ELSE N(g[round - 1])
    <3> HIDE DEF g, N, c0, c1, c2, c3, c4
    <3> QED
      BY <1>4, <1>5, <2>1
  <2>3. g = [round \in 0..4 |-> g[round]]
    OBVIOUS
  <2> HIDE DEF g, N
  <2> QED
    BY <2>2, <2>3
<1> HIDE DEF g
<1>7. cap = [round \in 0..4 |-> IF round = 0 THEN MaxOutput ELSE SafeOutput(InputBound(size, cap[round - 1]))]
  BY <1>6
<1>8. Converge(size) = 0 \/ Converge(size) = cap[4]
  BY DEF Converge
<1> HIDE DEF cap
<1>9. cap[0] = MaxOutput /\ cap[1] = N(cap[0]) /\ cap[2] = N(cap[1]) /\ cap[3] = N(cap[2]) /\ cap[4] = N(cap[3])
  <2>1. \A round \in 0..4 : cap[round] = IF round = 0 THEN MaxOutput ELSE SafeOutput(InputBound(size, cap[round - 1]))
    BY <1>7, Zenon
  <2>2. 0 \in 0..4 /\ 1 \in 0..4 /\ 2 \in 0..4 /\ 3 \in 0..4 /\ 4 \in 0..4
        /\ 1 - 1 = 0 /\ 2 - 1 = 1 /\ 3 - 1 = 2 /\ 4 - 1 = 3
    OBVIOUS
  <2> QED
    BY <2>1, <2>2
<1> HIDE DEF N, c0, c1, c2, c3, c4
<1>10. cap[0] \in Int
  BY <1>1, <1>9
<1>11. cap[1] \in Int
  BY <1>2, <1>9, <1>10
<1>12. cap[2] \in Int
  BY <1>2, <1>9, <1>11
<1>13. cap[3] \in Int
  BY <1>2, <1>9, <1>12
<1>14. cap[4] \in Int
  BY <1>2, <1>9, <1>13
<1> QED
  BY <1>8, <1>14

\* What is prepared is a bound of numbers.
LEMMA PreparedBound ==
  ASSUME window \in Windows, NEW size \in Requests, Converge(size) > 0
  PROVE  [input |-> InputBound(size, Converge(size)), output |-> Converge(size)] \in Bound
<1>1. PICK c \in Int : c = Converge(size) /\ c > 0
  BY ConvergeType
<1>2. Digits(c) \in Nat /\ size \in Nat
  BY DigitsType, PricingAssumption
<1>3. InputBound(size, c) \in Nat /\ c \in Nat
  BY <1>1, <1>2 DEF InputBound
<1> QED
  BY <1>1, <1>3 DEF Bound

\* A run without usage costs nothing.
LEMMA NothingUsed ==
  ASSUME book \in Books, multiplier \in Multipliers
  PROVE  PriceUsage(<<>>).ok /\ PriceUsage(<<>>).units = 0
<1>1. PICK none : none = <<>>
  OBVIOUS
<1>2. none \in [1..0 -> Recorded] /\ 0 \in Nat
  BY <1>1
<1>3. PICK lines, values : lines = UsageLines(none) /\ values = Prices(lines, SettlementLines(lines))
  OBVIOUS
<1>4. lines \in Seq(LinesOf(0))
  <2> DEFINE u == [cache_read |-> 0, cache_write |-> 0, input |-> 0, output |-> 0]
  <2>1. u \in Recorded
    BY DEF Recorded
  <2> HIDE DEF u
  <2> QED
    BY <1>2, <1>3, <2>1, UsageGrows
<1>5. LinesOf(0) = {}
  BY DEF LinesOf
<1>6. DOMAIN lines = 1..0
  <2>1. Len(lines) \in Nat /\ \A i \in 1..Len(lines) : lines[i] \in LinesOf(0)
    BY <1>4
  <2>2. Len(lines) = 0
    BY <1>5, <2>1
  <2> QED
    BY <1>4, <2>2
<1>7. Chosen(none)
  BY <1>3, <1>6 DEF Chosen
<1>8. Total(values) = 0
  <2>1. values \in [1..0 -> Int]
    BY <1>3, <1>6 DEF Prices
  <2>2. PICK f \in [0..0 -> Int] : f[0] = 0 /\ (\A j \in 1..0 : f[j] = f[j - 1] + values[j]) /\ Total(values) = f[0]
    BY <1>2, <2>1, TotalSteps
  <2> QED
    BY <2>2
<1>9. RoundUp(0) = 0 /\ MaxPrice \in Nat
  <2>1. PICK d \in Nat : d # 0 /\ d = Denominator
    BY BookFacts
  <2>2. 0 <= d * 0 /\ 0 \in Nat
    OBVIOUS
  <2>3. RoundUp(0) <= 0 /\ RoundUp(0) \in Nat
    BY <2>1, <2>2, RoundUpBounds, RoundUpIsLeast
  <2> QED
    BY <2>3, PricingAssumption
<1>10. PICK price : price = PriceUsage(none)
  OBVIOUS
<1>11. /\ price = NoQuote \/ price.units = RoundUp(Total(values))
       /\ Chosen(none) => (RoundUp(Total(values)) <= MaxPrice => price.ok)
  BY <1>2, <1>3, <1>10, UsagePrice
<1> QED
  BY <1>1, <1>7, <1>8, <1>9, <1>10, <1>11 DEF NoQuote

-----------------------------------------------------------------------------
(* The invariant.                                                          *)

PricingTypeOK ==
  /\ book \in Books /\ multiplier \in Multipliers /\ window \in Windows
  /\ bounds \in Seq(Bound) /\ usage \in Seq(Recorded)
  /\ Len(usage) \in {Len(bounds), Len(bounds) - 1}
  /\ target \in 0..MaxPrice
  /\ bill \in [state : {"none", "unpriced", "captured", "over_hold"}, units : 0..MaxPrice, items : Seq(Nat)]

Within == \A n \in DOMAIN usage : WithinBounds(n)

\* The hold covers what was used, and on top of it the bounds of an attempt
\* that is under way.
HoldCovers ==
  Within =>
    /\ PriceUsage(usage).units <= target
    /\ Chosen(usage) => PriceUsage(usage).ok
    /\ Len(usage) < Len(bounds) =>
         /\ PriceUsage(usage).ok /\ QuoteBounds(bounds[Len(bounds)]).ok
         /\ PriceUsage(usage).units + QuoteBounds(bounds[Len(bounds)]).units <= target

\* The bill is the price of the usage, and the hold decides what becomes of it.
BillIsPrice ==
  bill.state # "none" =>
    /\ Len(bounds) = Len(usage)
    /\ \/ bill.state = "unpriced" /\ ~PriceUsage(usage).ok
       \/ /\ PriceUsage(usage).ok
          /\ bill.units = PriceUsage(usage).units /\ bill.items = PriceUsage(usage).items
          /\ bill.state = IF bill.units > target THEN "over_hold" ELSE "captured"

PricingInv == PricingTypeOK /\ HoldCovers /\ BillIsPrice

\* Prices depend on the snapshot alone.
LEMMA SamePrices ==
  ASSUME UNCHANGED <<book, multiplier>>, NEW x, NEW b
  PROVE  PriceUsage(x)' = PriceUsage(x) /\ QuoteBounds(b)' = QuoteBounds(b) /\ Chosen(x)' = Chosen(x)
<1>1. PriceUsage(x)' = PriceUsage(x)
  BY DEF PriceUsage, Quote, Value, RoundUp, Denominator, Allocate, SettlementLines, RatesFor, Rates
<1>2. QuoteBounds(b)' = QuoteBounds(b)
  BY DEF QuoteBounds, UpperBoundLines, UpperRates, MostExpensive, Quote, Value, RoundUp,
         Denominator, Allocate, RatesFor, Rates
<1>3. Chosen(x)' = Chosen(x)
  BY DEF Chosen, SettlementLines, RatesFor, Rates
<1> QED
  BY <1>1, <1>2, <1>3

\* The price of the usage is a price or none.
LEMMA PriceType ==
  ASSUME PricingTypeOK
  PROVE  /\ PriceUsage(usage).ok \in BOOLEAN /\ PriceUsage(usage).units \in 0..MaxPrice
         /\ PriceUsage(usage).items \in Seq(Nat)
         /\ PriceUsage(usage).ok => Total(PriceUsage(usage).items) = PriceUsage(usage).units
<1>1. PICK n, used : n = Len(usage) /\ used = usage
  OBVIOUS
<1>2. n \in Nat /\ used \in [1..n -> Recorded] /\ book \in Books /\ multiplier \in Multipliers
  BY <1>1 DEF PricingTypeOK
<1>3. PICK price, k : price = PriceUsage(used) /\ k = Len(UsageLines(used))
  OBVIOUS
<1>4. \/ price = NoQuote
      \/ price.ok = TRUE /\ price.units \in 0..MaxPrice /\ price.items \in [1..k -> Nat]
         /\ Total(price.items) = price.units
  BY <1>2, <1>3, UsagePrice
<1>5. k \in Nat
  <2> DEFINE u == [cache_read |-> 0, cache_write |-> 0, input |-> 0, output |-> 0]
  <2>1. u \in Recorded
    BY DEF Recorded
  <2> HIDE DEF u
  <2>2. UsageLines(used) \in Seq(LinesOf(n))
    BY <1>2, <2>1, UsageGrows
  <2> QED
    BY <1>3, <2>2
<1>6. CASE price = NoQuote
  <2>1. price.ok = FALSE /\ price.units = 0 /\ price.items = <<>>
    BY <1>6 DEF NoQuote
  <2>2. 0 \in 0..MaxPrice /\ <<>> \in Seq(Nat)
    BY PricingAssumption
  <2> QED
    BY <1>1, <1>3, <2>1, <2>2, Zenon
<1>7. CASE price.ok = TRUE /\ price.units \in 0..MaxPrice /\ price.items \in [1..k -> Nat]
           /\ Total(price.items) = price.units
  <2>1. price.items \in Seq(Nat)
    BY <1>5, <1>7
  <2> QED
    BY <1>1, <1>3, <1>7, <2>1, Zenon
<1> QED
  BY <1>4, <1>6, <1>7, Zenon

LEMMA InitInv ==
  ASSUME PricingInit
  PROVE  PricingInv
<1> USE DEF PricingInit
<1>1. PricingTypeOK
  <2>1. NoBill \in [state : {"none", "unpriced", "captured", "over_hold"}, units : 0..MaxPrice, items : Seq(Nat)]
    BY PricingAssumption DEF NoBill
  <2>2. 0 \in 0..MaxPrice
    BY PricingAssumption
  <2> QED
    BY <2>1, <2>2 DEF PricingTypeOK
<1>2. HoldCovers
  <2>1. PriceUsage(<<>>).ok /\ PriceUsage(<<>>).units = 0
    BY NothingUsed
  <2>2. PriceUsage(usage).ok /\ PriceUsage(usage).units = 0
    BY <2>1
  <2> QED
    BY <2>2 DEF HoldCovers
<1>3. BillIsPrice
  BY DEF BillIsPrice, NoBill
<1> QED
  BY <1>1, <1>2, <1>3 DEF PricingInv

\* The last bound is that of the attempt under way, a hold is never lowered.
LEMMA PrepareKeeps ==
  ASSUME PricingInv, NEW size \in Requests, Prepare(size)
  PROVE  PricingInv'
<1>1. PricingTypeOK
  BY DEF PricingInv
<1>2. PICK b : b = [input |-> InputBound(size, Converge(size)), output |-> Converge(size)]
  OBVIOUS
<1>3. PICK prior, quote : prior = PriceUsage(usage) /\ quote = QuoteBounds(b)
  OBVIOUS
<1>4. /\ bill = NoBill /\ Len(bounds) = Len(usage) /\ Converge(size) > 0 /\ quote.ok
      /\ prior.ok /\ prior.units <= target /\ prior.units + quote.units <= MaxPrice
      /\ bounds' = Append(bounds, b)
      /\ target' = IF target > prior.units + quote.units THEN target ELSE prior.units + quote.units
      /\ UNCHANGED <<book, multiplier, window, usage, bill>>
  BY <1>2, <1>3 DEF Prepare, CumulativeHoldTarget
<1>5. b \in Bound
  BY <1>1, <1>2, <1>4, PreparedBound DEF PricingTypeOK
<1>6. quote.units \in 0..MaxPrice /\ prior.units \in 0..MaxPrice /\ target \in 0..MaxPrice /\ MaxPrice \in Nat
  <2>1. quote.units \in 0..MaxPrice
    BY <1>1, <1>3, <1>5, BoundsPrice DEF PricingTypeOK
  <2>2. prior.units \in 0..MaxPrice
    BY <1>1, <1>3, PriceType
  <2> QED
    BY <1>1, <2>1, <2>2, PricingAssumption DEF PricingTypeOK
<1>7. target' \in 0..MaxPrice /\ prior.units <= target' /\ prior.units + quote.units <= target'
  BY <1>4, <1>6
<1>8. bounds' \in Seq(Bound) /\ Len(bounds') = Len(bounds) + 1 /\ bounds'[Len(bounds')] = b
      /\ Len(usage) \in Nat
  BY <1>1, <1>4, <1>5 DEF PricingTypeOK
<1>9. PricingTypeOK'
  BY <1>1, <1>4, <1>7, <1>8 DEF PricingTypeOK
<1>10. PICK used, last : used = usage /\ used = usage' /\ last = bounds[Len(bounds)]' /\ last = b
  BY <1>4, <1>8
<1>11. PriceUsage(usage)' = prior /\ QuoteBounds(bounds[Len(bounds)])' = quote
  <2>1. PriceUsage(used)' = PriceUsage(used) /\ QuoteBounds(b)' = QuoteBounds(b)
    BY <1>4, SamePrices
  <2> QED
    BY <1>3, <1>10, <2>1, Zenon
<1>12. HoldCovers'
  <2>1. PriceUsage(usage)'.units <= target' /\ PriceUsage(usage)'.ok
    BY <1>4, <1>7, <1>11, Zenon
  <2>2. QuoteBounds(bounds[Len(bounds)])'.ok
        /\ PriceUsage(usage)'.units + QuoteBounds(bounds[Len(bounds)])'.units <= target'
    BY <1>4, <1>7, <1>11, Zenon
  <2> QED
    BY <2>1, <2>2, Zenon DEF HoldCovers
<1>13. BillIsPrice'
  BY <1>4 DEF BillIsPrice, NoBill
<1> QED
  BY <1>9, <1>12, <1>13 DEF PricingInv

\* The usage of the attempt is within its bounds or the hypothesis is gone.
LEMMA RecordKeeps ==
  ASSUME PricingInv, NEW u \in Recorded,
         Record(u.cache_read, u.cache_write, u.input, u.output)
  PROVE  PricingInv'
<1>1. PricingTypeOK
  BY DEF PricingInv
<1>2. /\ bill = NoBill /\ Len(usage) < Len(bounds) /\ usage' = Append(usage, u)
      /\ UNCHANGED <<book, multiplier, window, bounds, target, bill>>
  <2>1. u = [cache_read |-> u.cache_read, cache_write |-> u.cache_write,
             input |-> u.input, output |-> u.output]
    BY DEF Recorded
  <2> QED
    BY <2>1 DEF Record
<1>3. PICK n, recorded, more, b :
        n = Len(usage) /\ recorded = usage /\ more = usage' /\ b = bounds[Len(bounds)]
  OBVIOUS
<1>4. /\ n \in Nat /\ recorded \in [1..n -> Recorded] /\ Len(bounds) = n + 1
      /\ b \in Bound /\ b = bounds[n + 1] /\ book \in Books /\ multiplier \in Multipliers
  <2>1. usage \in Seq(Recorded) /\ bounds \in Seq(Bound) /\ Len(bounds) = Len(usage) + 1
        /\ book \in Books /\ multiplier \in Multipliers
    BY <1>1, <1>2 DEF PricingTypeOK
  <2>2. bounds[Len(bounds)] \in Bound
    BY <2>1
  <2> QED
    BY <1>3, <2>1, <2>2
<1>5. more = Append(recorded, u) /\ usage' \in Seq(Recorded) /\ Len(usage') = n + 1
      /\ DOMAIN usage' = 1..(n + 1) /\ usage'[n + 1] = u /\ \A k \in 1..n : usage'[k] = usage[k]
  BY <1>1, <1>2, <1>3 DEF PricingTypeOK
<1>6. PricingTypeOK'
  BY <1>1, <1>2, <1>4, <1>5 DEF PricingTypeOK
<1>7. PriceUsage(usage)' = PriceUsage(more) /\ Chosen(usage)' = Chosen(more)
  <2>1. PriceUsage(more)' = PriceUsage(more) /\ Chosen(more)' = Chosen(more)
    BY <1>2, SamePrices
  <2> QED
    BY <1>3, <2>1, Zenon
<1>8. ASSUME Within'
      PROVE  PriceUsage(more).units <= target /\ (Chosen(more) => PriceUsage(more).ok)
  <2>1. Within
    <3>1. ASSUME NEW k \in DOMAIN usage PROVE WithinBounds(k)
      <4>1. k \in 1..n /\ k \in DOMAIN usage' /\ usage'[k] = usage[k]
        BY <1>1, <1>3, <1>5 DEF PricingTypeOK
      <4>2. WithinBounds(k)'
        BY <1>8, <4>1 DEF Within
      <4> QED
        BY <1>2, <4>1, <4>2 DEF WithinBounds
    <3> QED
      BY <3>1 DEF Within
  <2>2. u.input + u.cache_read + u.cache_write <= b.input /\ u.output <= b.output
    <3>1. n + 1 \in DOMAIN usage'
      BY <1>4, <1>5
    <3>2. WithinBounds(n + 1)'
      BY <1>8, <3>1 DEF Within
    <3> QED
      BY <1>2, <1>4, <1>5, <3>2 DEF WithinBounds
  <2>3. PriceUsage(recorded).ok /\ QuoteBounds(b).ok
        /\ PriceUsage(recorded).units + QuoteBounds(b).units <= target
    BY <1>2, <1>3, <2>1 DEF PricingInv, HoldCovers
  <2>4. /\ PriceUsage(more).units <= PriceUsage(recorded).units + QuoteBounds(b).units
        /\ Chosen(more) /\ PriceUsage(recorded).units + QuoteBounds(b).units <= MaxPrice => PriceUsage(more).ok
    BY <1>4, <1>5, <2>2, <2>3, MoreUsageFits
  <2>5. PICK p, q, r : p = PriceUsage(recorded).units /\ q = QuoteBounds(b).units /\ r = PriceUsage(more).units
    OBVIOUS
  <2>6. p \in 0..MaxPrice /\ q \in 0..MaxPrice /\ r \in 0..MaxPrice /\ target \in 0..MaxPrice
    <3>1. p \in 0..MaxPrice
      BY <1>1, <1>3, <2>5, PriceType
    <3>2. q \in 0..MaxPrice
      BY <1>4, <2>5, BoundsPrice
    <3>3. PICK price : price = PriceUsage(more)
      OBVIOUS
    <3>4. n + 1 \in Nat /\ more \in [1..(n + 1) -> Recorded]
      <4>1. more \in Seq(Recorded) /\ Len(more) = n + 1
        BY <1>3, <1>5, Zenon
      <4> QED
        BY <1>4, <4>1
    <3>5. price = NoQuote \/ price.units \in 0..MaxPrice
      BY <1>4, <3>3, <3>4, UsagePrice
    <3>6. 0 \in 0..MaxPrice
      BY PricingAssumption
    <3>7. r \in 0..MaxPrice
      BY <2>5, <3>3, <3>5, <3>6 DEF NoQuote
    <3> QED
      BY <1>1, <3>1, <3>2, <3>7 DEF PricingTypeOK
  <2>7. p + q <= target /\ r <= p + q
    BY <2>3, <2>4, <2>5, Zenon
  <2>8. r <= target /\ p + q <= MaxPrice
    <3>1. MaxPrice \in Nat
      BY PricingAssumption
    <3> QED
      BY <2>6, <2>7, <3>1
  <2> QED
    BY <2>4, <2>5, <2>8, Zenon
<1>9. HoldCovers'
  <2>1. ~(Len(usage') < Len(bounds'))
    BY <1>2, <1>4, <1>5
  <2> QED
    BY <1>2, <1>7, <1>8, <2>1 DEF HoldCovers
<1>10. BillIsPrice'
  BY <1>2 DEF BillIsPrice, NoBill
<1> QED
  BY <1>6, <1>9, <1>10 DEF PricingInv

LEMMA AbandonKeeps ==
  ASSUME PricingInv, Abandon
  PROVE  PricingInv'
<1>1. PricingTypeOK /\ bill = NoBill /\ Len(usage) < Len(bounds) /\ bounds' = Front(bounds)
      /\ UNCHANGED <<book, multiplier, window, usage, target, bill>>
  BY DEF PricingInv, Abandon
<1>2. /\ bounds' \in Seq(Bound) /\ Len(bounds') = Len(usage) /\ usage \in Seq(Recorded)
      /\ \A k \in DOMAIN usage : bounds'[k] = bounds[k]
  <2>1. bounds \in Seq(Bound) /\ usage \in Seq(Recorded) /\ Len(bounds) = Len(usage) + 1
    BY <1>1 DEF PricingTypeOK
  <2>2. bounds' = [k \in 1..Len(usage) |-> bounds[k]]
    BY <1>1, <2>1 DEF Front
  <2>3. \A k \in 1..Len(usage) : bounds[k] \in Bound
    BY <2>1
  <2> QED
    BY <2>1, <2>2, <2>3
<1>3. PricingTypeOK'
  BY <1>1, <1>2 DEF PricingTypeOK
<1>4. PriceUsage(usage)' = PriceUsage(usage) /\ Chosen(usage)' = Chosen(usage)
  <2>1. PICK used : used = usage
    OBVIOUS
  <2>2. PriceUsage(used)' = PriceUsage(used) /\ Chosen(used)' = Chosen(used)
    BY <1>1, SamePrices
  <2> QED
    BY <1>1, <2>1, <2>2, Zenon
<1>5. Within' => Within
  BY <1>1, <1>2 DEF Within, WithinBounds
<1>6. HoldCovers'
  <2>1. ~(Len(usage') < Len(bounds'))
    BY <1>1, <1>2
  <2> QED
    BY <1>1, <1>4, <1>5, <2>1 DEF HoldCovers, PricingInv
<1>7. BillIsPrice'
  BY <1>1 DEF BillIsPrice, NoBill
<1> QED
  BY <1>3, <1>6, <1>7 DEF PricingInv

LEMMA SettleKeeps ==
  ASSUME PricingInv, Settle
  PROVE  PricingInv'
<1>1. PricingTypeOK /\ Len(bounds) = Len(usage) /\ UNCHANGED <<book, multiplier, window, bounds, usage, target>>
  BY DEF PricingInv, Settle
<1>2. PICK price, used, items : price = PriceUsage(usage) /\ used = usage /\ items = price.items
  OBVIOUS
<1>3. /\ price.ok \in BOOLEAN /\ price.units \in 0..MaxPrice /\ items \in Seq(Nat)
      /\ price.ok => Total(items) = price.units
  BY <1>1, <1>2, PriceType, Zenon
<1>4. \A i \in DOMAIN items : items[i] >= 0
  BY <1>3
<1>5. bill' = CASE ~price.ok -> [state |-> "unpriced", units |-> 0, items |-> <<>>]
                [] price.ok /\ (~(\A i \in DOMAIN items : items[i] >= 0) \/ Total(items) # price.units) ->
                     [state |-> "invalid", units |-> price.units, items |-> items]
                [] OTHER -> [state |-> IF price.units > target THEN "over_hold" ELSE "captured",
                             units |-> price.units, items |-> items]
  BY <1>2 DEF Settle
<1>6. \/ ~price.ok /\ bill' = [state |-> "unpriced", units |-> 0, items |-> <<>>]
      \/ price.ok /\ bill' = [state |-> IF price.units > target THEN "over_hold" ELSE "captured",
                              units |-> price.units, items |-> items]
  <2>1. CASE ~price.ok
    BY <1>5, <2>1
  <2>2. CASE price.ok
    <3>1. Total(items) = price.units
      BY <1>3, <2>2
    <3>2. ~(~price.ok) /\ ~(price.ok /\ (~(\A i \in DOMAIN items : items[i] >= 0) \/ Total(items) # price.units))
      BY <1>4, <2>2, <3>1
    <3>3. bill' = [state |-> IF price.units > target THEN "over_hold" ELSE "captured",
                   units |-> price.units, items |-> items]
      BY <1>5, <3>2
    <3> QED
      BY <2>2, <3>3
  <2> QED
    BY <2>1, <2>2
<1>7. PricingTypeOK'
  <2>1. 0 \in 0..MaxPrice /\ <<>> \in Seq(Nat)
    BY PricingAssumption
  <2>2. bill' \in [state : {"none", "unpriced", "captured", "over_hold"}, units : 0..MaxPrice, items : Seq(Nat)]
    <3>1. CASE bill' = [state |-> "unpriced", units |-> 0, items |-> <<>>]
      BY <2>1, <3>1
    <3>2. CASE bill' = [state |-> IF price.units > target THEN "over_hold" ELSE "captured",
                        units |-> price.units, items |-> items]
      <4>1. PICK s \in {"captured", "over_hold"} : s = IF price.units > target THEN "over_hold" ELSE "captured"
        OBVIOUS
      <4>2. bill' = [state |-> s, units |-> price.units, items |-> items]
        BY <3>2, <4>1, Zenon
      <4> QED
        BY <1>3, <4>2
    <3> QED
      BY <1>6, <3>1, <3>2
  <2> QED
    BY <1>1, <2>2 DEF PricingTypeOK
<1>8. PriceUsage(usage)' = price /\ Chosen(usage)' = Chosen(usage)
  <2>1. PriceUsage(used)' = PriceUsage(used) /\ Chosen(used)' = Chosen(used)
    BY <1>1, SamePrices
  <2> QED
    BY <1>1, <1>2, <2>1, Zenon
<1>9. HoldCovers'
  <2>1. Within' => Within
    BY <1>1 DEF Within, WithinBounds
  <2>2. ~(Len(usage') < Len(bounds'))
    <3>1. Len(usage) \in Nat /\ Len(usage') = Len(usage) /\ Len(bounds') = Len(usage)
      BY <1>1 DEF PricingTypeOK
    <3> QED
      BY <3>1
  <2>3. Within => price.units <= target /\ (Chosen(usage) => price.ok)
    BY <1>2 DEF PricingInv, HoldCovers
  <2> QED
    BY <1>1, <1>8, <2>1, <2>2, <2>3 DEF HoldCovers
<1>10. BillIsPrice'
  <2>1. CASE ~price.ok /\ bill' = [state |-> "unpriced", units |-> 0, items |-> <<>>]
    <3>1. bill'.state = "unpriced" /\ ~PriceUsage(usage)'.ok /\ Len(bounds') = Len(usage')
      BY <1>1, <1>8, <2>1
    <3> QED
      BY <3>1 DEF BillIsPrice
  <2>2. CASE price.ok /\ bill' = [state |-> IF price.units > target THEN "over_hold" ELSE "captured",
                                  units |-> price.units, items |-> items]
    <3>1. /\ bill'.state = IF bill'.units > target' THEN "over_hold" ELSE "captured"
          /\ bill'.units = price.units /\ bill'.items = price.items /\ Len(bounds') = Len(usage')
      BY <1>1, <1>2, <2>2
    <3> QED
      BY <1>8, <2>2, <3>1 DEF BillIsPrice
  <2> QED
    BY <1>6, <2>1, <2>2
<1> QED
  BY <1>7, <1>9, <1>10 DEF PricingInv

LEMMA NextKeeps ==
  ASSUME PricingInv, [PricingNext]_pricingVars
  PROVE  PricingInv'
<1>1. CASE UNCHANGED pricingVars
  <2>1. /\ UNCHANGED <<book, multiplier, window, bounds, usage, target, bill>>
        /\ PricingTypeOK /\ HoldCovers /\ BillIsPrice
    BY <1>1 DEF pricingVars, PricingInv
  <2>2. PICK used, last : used = usage /\ last = bounds[Len(bounds)]
    OBVIOUS
  <2>3. PriceUsage(used)' = PriceUsage(used) /\ QuoteBounds(last)' = QuoteBounds(last) /\ Chosen(used)' = Chosen(used)
    BY <2>1, SamePrices
  <2>4. /\ PriceUsage(usage)' = PriceUsage(usage) /\ Chosen(usage)' = Chosen(usage)
        /\ QuoteBounds(bounds[Len(bounds)])' = QuoteBounds(bounds[Len(bounds)])
    BY <2>1, <2>2, <2>3, Zenon
  <2>5. Within' <=> Within
    BY <2>1 DEF Within, WithinBounds
  <2>6. PricingTypeOK'
    BY <2>1 DEF PricingTypeOK
  <2>7. HoldCovers'
    BY <2>1, <2>4, <2>5 DEF HoldCovers
  <2>8. BillIsPrice'
    BY <2>1, <2>4 DEF BillIsPrice
  <2> QED
    BY <2>6, <2>7, <2>8 DEF PricingInv
<1>2. ASSUME NEW size \in Requests, Prepare(size) PROVE PricingInv'
  BY <1>2, PrepareKeeps
<1>3. ASSUME bounds # <<>>,
             NEW sent \in {1, bounds[Len(bounds)].input} \cup {bounds[Len(bounds)].input + n : n \in Overruns},
             NEW output \in {1, bounds[Len(bounds)].output} \cup {bounds[Len(bounds)].output + n : n \in Overruns},
             NEW read \in {0, sent}, NEW written \in {0, 1}, read + written <= sent,
             Record(read, written, sent - read - written, output)
      PROVE  PricingInv'
  <2>1. bounds[Len(bounds)] \in Bound
    BY <1>3 DEF PricingInv, PricingTypeOK
  <2>2. bounds[Len(bounds)].input \in Nat /\ bounds[Len(bounds)].output \in Nat
    BY <2>1 DEF Bound
  <2>3. sent \in Nat /\ output \in Nat
    <3>1. \A n \in Overruns : n \in Nat
      BY PricingAssumption
    <3> QED
      BY <2>2, <3>1
  <2>4. read \in Nat /\ written \in Nat /\ sent - read - written \in Nat
    BY <1>3, <2>3
  <2> DEFINE u == [cache_read |-> read, cache_write |-> written,
                   input |-> sent - read - written, output |-> output]
  <2>5. u \in Recorded
    BY <2>3, <2>4 DEF Recorded
  <2>6. Record(u.cache_read, u.cache_write, u.input, u.output)
    BY <1>3
  <2> HIDE DEF u
  <2> QED
    BY <2>5, <2>6, RecordKeeps
<1>4. CASE Abandon
  BY <1>4, AbandonKeeps
<1>5. CASE Settle
  BY <1>5, SettleKeeps
<1> QED
  BY <1>1, <1>2, <1>3, <1>4, <1>5 DEF PricingNext

-----------------------------------------------------------------------------
(* The theorems.                                                           *)

LEMMA PricingInvHolds == PricingSpec => []PricingInv
<1>1. PricingInit => PricingInv
  BY InitInv
<1>2. PricingInv /\ [PricingNext]_pricingVars => PricingInv'
  BY NextKeeps
<1> QED
  BY <1>1, <1>2, PTL DEF PricingSpec

\* The bounds, the usage, the hold and the bill of a run are always well formed:
\* at most one attempt is under way, the hold stays in the range of a price
\* (ReserveAndPrepare refuses what exceeds it) and no bill is one whose items do
\* not sum up (validateSettlementQuote never has anything to object to).
THEOREM PricingTypeCorrect == PricingSpec => []PricingTypeOK
<1>1. PricingInv => PricingTypeOK
  BY DEF PricingInv
<1> QED
  BY <1>1, PricingInvHolds, PTL

\* As long as the provider keeps the bounds, whatever book of prices, whatever
\* tiers, scales and cache shares: what was used never prices above the hold, and
\* no answer is given away for it (CumulativeHoldTarget against PriceUsage).
UsageIsCovered ==
  Within => /\ PriceUsage(usage).units <= target
            /\ bill.state # "over_hold"

THEOREM UsageCovered == PricingSpec => []UsageIsCovered
<1>1. PricingInv => UsageIsCovered
  <2> SUFFICES ASSUME PricingInv, Within PROVE PriceUsage(usage).units <= target /\ bill.state # "over_hold"
    BY DEF UsageIsCovered
  <2>1. PricingTypeOK /\ PriceUsage(usage).units <= target /\ BillIsPrice
    BY DEF PricingInv, HoldCovers
  <2>2. PICK x \in 0..MaxPrice, y \in 0..MaxPrice : x = PriceUsage(usage).units /\ y = target /\ x <= y
    BY <2>1, PriceType DEF PricingTypeOK
  <2>3. ~(x > y)
    BY <2>2, PricingAssumption
  <2>4. bill.state # "over_hold"
    BY <2>1, <2>2, <2>3 DEF BillIsPrice
  <2> QED
    BY <2>1, <2>4
<1> QED
  BY <1>1, PricingInvHolds, PTL

\* A book from which the rate of every line of usage can be told: each category
\* has one rate, or one for each side of the threshold.
WholeBooks ==
  \A b \in Books, c \in Categories :
    LET rates == {r \in b.rates : r.category = c}
    IN Cardinality(rates) = 1 \/ (b.threshold > 0 /\ Tiered(rates))

LEMMA AllChosen ==
  ASSUME WholeBooks, PricingTypeOK
  PROVE  Chosen(usage)
<1>1. PICK n, used, lines : n = Len(usage) /\ used = usage /\ lines = UsageLines(used)
  OBVIOUS
<1>2. n \in Nat /\ used \in [1..n -> Recorded] /\ book \in Books
  BY <1>1 DEF PricingTypeOK
<1>3. lines \in Seq(LinesOf(n))
  <2> DEFINE u == [cache_read |-> 0, cache_write |-> 0, input |-> 0, output |-> 0]
  <2>1. u \in Recorded
    BY DEF Recorded
  <2> HIDE DEF u
  <2> QED
    BY <1>1, <1>2, <2>1, UsageGrows
<1>4. ASSUME NEW i \in DOMAIN lines PROVE SettlementLines(lines)[i] # {}
  <2>1. lines[i] \in LinesOf(n)
    BY <1>3
  <2>2. lines[i].category \in Categories
    BY <2>1 DEF LinesOf
  <2>3. PICK rates : rates = RatesFor(lines[i].category)
    OBVIOUS
  <2>4. Cardinality(rates) = 1 \/ (book.threshold > 0 /\ Tiered(rates))
    <3>1. rates = {r \in book.rates : r.category = lines[i].category}
      BY <2>3 DEF RatesFor, Rates
    <3> QED
      BY <1>2, <2>2, <3>1 DEF WholeBooks
  <2>5. PICK tier : tier = IF PromptOf(lines, lines[i].attempt) > book.threshold
                           THEN "long_context" ELSE "short_context"
    OBVIOUS
  <2>6. SettlementLines(lines)[i] = IF book.threshold > 0 /\ Tiered(rates) THEN {r \in rates : r.tier = tier}
                                    ELSE IF Cardinality(rates) = 1 THEN rates ELSE {}
    BY <2>3, <2>5, Zenon DEF SettlementLines
  <2>7. CASE book.threshold > 0 /\ Tiered(rates)
    BY <2>5, <2>6, <2>7 DEF Tiered, HasTier
  <2>8. CASE ~(book.threshold > 0 /\ Tiered(rates))
    <3>1. SettlementLines(lines)[i] = rates /\ Cardinality(rates) = 1
      BY <2>4, <2>6, <2>8
    <3>2. rates # {}
      BY <3>1, FS_EmptySet
    <3> QED
      BY <3>1, <3>2
  <2> QED
    BY <2>7, <2>8
<1> QED
  BY <1>1, <1>4 DEF Chosen

\* With whole books a run whose provider keeps its bounds is always paid for in
\* full from its hold, and the items of the settlement are its exact shares.
THEOREM BillsFit ==
  ASSUME WholeBooks
  PROVE  PricingSpec => []BillFitsHold
<1>1. PricingInv => BillFitsHold
  <2> SUFFICES ASSUME PricingInv PROVE BillFitsHold
    OBVIOUS
  <2>1. PricingTypeOK /\ HoldCovers /\ BillIsPrice
    BY DEF PricingInv
  <2>2. PICK n, used, price, lines, values :
          /\ n = Len(usage) /\ used = usage /\ price = PriceUsage(used) /\ lines = UsageLines(used)
          /\ values = Prices(lines, SettlementLines(lines))
    OBVIOUS
  <2>3. n \in Nat /\ used \in [1..n -> Recorded] /\ book \in Books /\ multiplier \in Multipliers
    BY <2>1, <2>2 DEF PricingTypeOK
  <2>4. \/ price = NoQuote
        \/ /\ price.ok = TRUE /\ Total(price.items) = price.units
           /\ \A i \in 1..Len(lines) : /\ price.items[i] * Denominator < values[i] + Denominator
                                       /\ values[i] < (price.items[i] + 1) * Denominator
    BY <2>2, <2>3, UsagePrice
  <2>5. ASSUME Within PROVE price.ok /\ price.units <= target
    BY <2>1, <2>2, <2>5, AllChosen DEF HoldCovers
  <2>6. ASSUME Within PROVE bill.state \in {"none", "captured"}
    <3>1. PICK x \in 0..MaxPrice, y \in 0..MaxPrice : x = price.units /\ y = target /\ x <= y
      BY <2>1, <2>2, <2>5, <2>6, PriceType DEF PricingTypeOK
    <3>2. ~(x > y)
      BY <3>1, PricingAssumption
    <3> QED
      BY <2>1, <2>2, <2>5, <2>6, <3>1, <3>2 DEF BillIsPrice
  <2>7. ASSUME bill.state = "captured"
        PROVE  /\ Total(bill.items) = bill.units
               /\ \A i \in DOMAIN lines :
                    /\ bill.items[i] * Denominator < values[i] + Denominator
                    /\ values[i] < (bill.items[i] + 1) * Denominator
    <3>1. price.ok /\ bill.units = price.units /\ bill.items = price.items
      BY <2>1, <2>2, <2>7 DEF BillIsPrice
    <3>2. price # NoQuote
      BY <3>1 DEF NoQuote
    <3>3. DOMAIN lines = 1..Len(lines)
      <4> DEFINE u == [cache_read |-> 0, cache_write |-> 0, input |-> 0, output |-> 0]
      <4>1. u \in Recorded
        BY DEF Recorded
      <4> HIDE DEF u
      <4>2. lines \in Seq(LinesOf(n))
        BY <2>2, <2>3, <4>1, UsageGrows
      <4> QED
        BY <4>2
    <3> QED
      BY <2>4, <3>1, <3>2, <3>3, Zenon
  <2>8. \A i \in DOMAIN lines : values[i] = Value(lines[i], CHOOSE r \in SettlementLines(lines)[i] : TRUE)
    BY <2>2 DEF Prices
  <2>9. ASSUME \A k \in DOMAIN usage : WithinBounds(k) PROVE Within
    BY <2>9 DEF Within
  <2> QED
    BY <2>2, <2>5, <2>6, <2>7, <2>8, <2>9, Zenon DEF BillFitsHold
<1> QED
  BY <1>1, PricingInvHolds, PTL

-----------------------------------------------------------------------------
(* Orders, and the elements at some places of a sequence.                  *)

IsOrder(R, S) ==
  /\ R \subseteq S \X S
  /\ \A x \in S : <<x, x>> \notin R
  /\ \A x, y, z \in S : <<x, y>> \in R /\ <<y, z>> \in R => <<x, z>> \in R
  /\ \A x, y \in S : x # y => <<x, y>> \in R \/ <<y, x>> \in R

Ranks(o, R, S, N) ==
  /\ o = [n \in 1..N |-> o[n]]
  /\ \A n \in 1..N : o[n] = CHOOSE x \in S : Cardinality({y \in S : <<y, x>> \in R}) = n - 1

\* Whoever has n elements below is the n + 1st of a finite order.
LEMMA OrderIs ==
  ASSUME NEW S, IsFiniteSet(S), NEW R, IsOrder(R, S), NEW N, N = Cardinality(S), NEW o, Ranks(o, R, S, N)
  PROVE  /\ N \in Nat /\ o \in [1..N -> S]
         /\ \A x \in S : \E n \in 1..N : o[n] = x
         /\ \A m, n \in 1..N : m < n <=> <<o[m], o[n]>> \in R
<1> DEFINE below(x) == {y \in S : <<y, x>> \in R}
           rank == [x \in S |-> Cardinality(below(x))]
<1>1. N \in Nat
  BY FS_CardinalityType
<1>2. ASSUME NEW x \in S PROVE rank[x] \in 0..(N - 1)
  <2>a. below(x) \in SUBSET (S \ {x})
    BY DEF IsOrder
  <2>b. IsFiniteSet(S \ {x}) /\ Cardinality(S \ {x}) = N - 1
    BY FS_RemoveElement
  <2>1. below(x) \in SUBSET (S \ {x}) /\ IsFiniteSet(S \ {x}) /\ Cardinality(S \ {x}) = N - 1
    BY <2>a, <2>b
  <2>2. IsFiniteSet(below(x)) /\ Cardinality(below(x)) <= N - 1
    <3>1. PICK T : T = below(x)
      OBVIOUS
    <3>2. T \in SUBSET (S \ {x})
      BY <2>1, <3>1
    <3> HIDE DEF below
    <3>3. IsFiniteSet(T) /\ Cardinality(T) <= Cardinality(S \ {x})
      BY <2>b, <3>2, FS_Subset
    <3> QED
      BY <2>b, <3>1, <3>3
  <2>3. Cardinality(below(x)) \in Nat
    BY <2>2, FS_CardinalityType
  <2> QED
    BY <1>1, <2>2, <2>3
<1>3. ASSUME NEW x \in S, NEW y \in S, <<x, y>> \in R PROVE rank[x] < rank[y]
  <2>1. below(x) \subseteq below(y) \ {x} /\ x \in below(y)
    BY <1>3 DEF IsOrder
  <2>2. IsFiniteSet(below(y))
    <3>1. below(y) \in SUBSET S
      OBVIOUS
    <3> QED
      BY <3>1, FS_Subset
  <2>3. Cardinality(below(y) \ {x}) = Cardinality(below(y)) - 1 /\ IsFiniteSet(below(y) \ {x})
    BY <2>1, <2>2, FS_RemoveElement
  <2>4. Cardinality(below(x)) <= Cardinality(below(y) \ {x})
    BY <2>1, <2>3, FS_Subset
  <2>5. rank[x] \in Int /\ rank[y] \in Int
    BY <1>1, <1>2
  <2> QED
    BY <2>3, <2>4, <2>5
<1>4. rank \in Injection(S, 0..(N - 1))
  <2>1. rank \in [S -> 0..(N - 1)]
    BY <1>2
  <2>2. ASSUME NEW x \in S, NEW y \in S, rank[x] = rank[y] PROVE x = y
    <3>1. rank[x] \in Int /\ rank[y] \in Int
      BY <1>1, <1>2
    <3>2. ~(rank[x] < rank[y]) /\ ~(rank[y] < rank[x])
      BY <2>2, <3>1
    <3> QED
      BY <1>3, <3>2 DEF IsOrder
  <2> HIDE DEF rank
  <2> QED
    BY <2>1, <2>2 DEF Injection, IsInjective
<1>5. rank \in Surjection(S, 0..(N - 1))
  <2>1. IsFiniteSet(0..(N - 1)) /\ Cardinality(0..(N - 1)) = N
    <3>1. 0 \in Int /\ N - 1 \in Int
      BY <1>1
    <3>2. IsFiniteSet(0..(N - 1)) /\ Cardinality(0..(N - 1)) = IF 0 > N - 1 THEN 0 ELSE (N - 1) - 0 + 1
      BY <3>1, FS_Interval
    <3> QED
      BY <1>1, <3>2
  <2> HIDE DEF rank
  <2> QED
    BY <1>4, <2>1, FS_Injection
<1>6. ASSUME NEW n \in 1..N PROVE o[n] \in S /\ rank[o[n]] = n - 1
  <2>1. n - 1 \in 0..(N - 1)
    BY <1>1
  <2>2. \E x \in S : rank[x] = n - 1
    <3> HIDE DEF rank
    <3> QED
      BY <1>5, <2>1 DEF Surjection
  <2>3. \E x \in S : Cardinality({y \in S : <<y, x>> \in R}) = n - 1
    BY <2>2
  <2>4. o[n] = CHOOSE x \in S : Cardinality({y \in S : <<y, x>> \in R}) = n - 1
    BY DEF Ranks
  <2>5. o[n] \in S /\ Cardinality({y \in S : <<y, o[n]>> \in R}) = n - 1
    BY <2>3, <2>4
  <2> QED
    BY <2>5
<1>7. o \in [1..N -> S]
  <2> HIDE DEF rank
  <2> QED
    BY <1>6 DEF Ranks
<1>8. ASSUME NEW x \in S PROVE \E n \in 1..N : o[n] = x
  <2>1. rank[x] \in 0..(N - 1) /\ rank[x] + 1 \in 1..N /\ (rank[x] + 1) - 1 = rank[x]
    BY <1>1, <1>2
  <2>2. o[rank[x] + 1] \in S /\ rank[o[rank[x] + 1]] = rank[x]
    BY <1>6, <2>1
  <2>3. o[rank[x] + 1] = x
    <3> HIDE DEF rank
    <3> QED
      BY <1>4, <2>2 DEF Injection, IsInjective
  <2> QED
    BY <2>1, <2>3
<1>9. ASSUME NEW m \in 1..N, NEW n \in 1..N PROVE m < n <=> <<o[m], o[n]>> \in R
  <2>1. o[m] \in S /\ o[n] \in S /\ rank[o[m]] = m - 1 /\ rank[o[n]] = n - 1
    BY <1>6
  <2>2. CASE <<o[m], o[n]>> \in R
    <3>1. rank[o[m]] < rank[o[n]]
      BY <1>3, <2>1, <2>2
    <3> QED
      BY <2>1, <2>2, <3>1
  <2>3. CASE <<o[n], o[m]>> \in R
    <3>1. rank[o[n]] < rank[o[m]]
      BY <1>3, <2>1, <2>3
    <3>2. <<o[m], o[n]>> \notin R
      BY <2>1, <2>3 DEF IsOrder
    <3> QED
      BY <2>1, <3>1, <3>2
  <2>4. CASE o[m] = o[n]
    <3> HIDE DEF rank
    <3>3. m - 1 = n - 1
      BY <2>1, <2>4, Zenon
    <3>1. m = n
      BY <1>1, <3>3
    <3>2. <<o[m], o[n]>> \notin R
      BY <2>1, <2>4 DEF IsOrder
    <3> QED
      BY <3>1, <3>2
  <2> QED
    BY <2>1, <2>2, <2>3, <2>4 DEF IsOrder
<1> QED
  BY <1>1, <1>7, <1>8, <1>9

\* The places of a part of a sequence, from the first.
Enumerates(e, m, K) ==
  /\ e \in [1..m -> K]
  /\ \A k \in K : \E j \in 1..m : e[j] = k
  /\ \A i, j \in 1..m : i < j <=> e[i] < e[j]

Listing(K) == [n \in 1..Cardinality(K) |-> CHOOSE x \in K : Cardinality({y \in K : y < x}) = n - 1]

LEMMA ListingIs ==
  ASSUME NEW K \in SUBSET Nat, IsFiniteSet(K)
  PROVE  /\ Cardinality(K) \in Nat /\ Enumerates(Listing(K), Cardinality(K), K)
         /\ \A s : Picked(s, K) = [j \in 1..Cardinality(K) |-> s[Listing(K)[j]]]
<1> DEFINE R == {p \in K \X K : p[1] < p[2]}
           N == Cardinality(K)
<1>1. IsOrder(R, K)
  <2>1. \A x, y \in K : <<x, y>> \in R <=> x < y
    OBVIOUS
  <2>2. R \subseteq K \X K
    OBVIOUS
  <2> HIDE DEF R
  <2> QED
    BY <2>1, <2>2 DEF IsOrder
<1>2. \A x, y \in K : <<x, y>> \in R <=> x < y
  OBVIOUS
<1>3. PICK e : e = [n \in 1..N |-> CHOOSE x \in K : Cardinality({y \in K : y < x}) = n - 1]
  OBVIOUS
<1>4. Ranks(e, R, K, N)
  <2> HIDE DEF N
  <2>1. e = [n \in 1..N |-> e[n]]
    BY <1>3
  <2>2. ASSUME NEW n \in 1..N
        PROVE  e[n] = CHOOSE x \in K : Cardinality({y \in K : <<y, x>> \in R}) = n - 1
    <3>1. e[n] = CHOOSE x \in K : Cardinality({y \in K : y < x}) = n - 1
      BY <1>3
    <3>2. \A x \in K : {y \in K : y < x} = {y \in K : <<y, x>> \in R}
      BY <1>2
    <3> HIDE DEF R
    <3>3. \A x : (x \in K /\ Cardinality({y \in K : y < x}) = n - 1)
                 <=> (x \in K /\ Cardinality({y \in K : <<y, x>> \in R}) = n - 1)
      BY <3>2
    <3>4. (CHOOSE x \in K : Cardinality({y \in K : y < x}) = n - 1)
          = (CHOOSE x \in K : Cardinality({y \in K : <<y, x>> \in R}) = n - 1)
      BY <3>3
    <3> QED
      BY <3>1, <3>4, Zenon
  <2> HIDE DEF R
  <2> QED
    BY <2>1, <2>2, Zenon DEF Ranks
<1>5. /\ N \in Nat /\ e \in [1..N -> K]
      /\ \A x \in K : \E n \in 1..N : e[n] = x
      /\ \A m, n \in 1..N : m < n <=> <<e[m], e[n]>> \in R
  <2>1. N = Cardinality(K)
    OBVIOUS
  <2> HIDE DEF R, N
  <2> QED
    BY <1>1, <1>4, <2>1, OrderIs
<1>6. Enumerates(e, N, K)
  <2>1. \A m, n \in 1..N : m < n <=> e[m] < e[n]
    <3> SUFFICES ASSUME NEW m \in 1..N, NEW n \in 1..N PROVE m < n <=> e[m] < e[n]
      OBVIOUS
    <3>1. e[m] \in K /\ e[n] \in K
      BY <1>5
    <3> HIDE DEF R
    <3> QED
      BY <1>2, <1>5, <3>1, Zenon
  <2> QED
    BY <1>5, <2>1, Zenon DEF Enumerates
<1>7. Listing(K) = e
  BY <1>3 DEF Listing
<1>8. \A s : Picked(s, K) = [j \in 1..N |-> s[e[j]]]
  <2>1. Ordered(K, <) = e
    BY <1>3 DEF Ordered
  <2>2. DOMAIN e = 1..N
    BY <1>5
  <2> QED
    BY <2>1, <2>2 DEF Picked
<1> HIDE DEF N
<1> QED
  BY <1>5, <1>6, <1>7, <1>8 DEF N

LEMMA PickedIs ==
  ASSUME NEW s, NEW K \in SUBSET Nat, IsFiniteSet(K)
  PROVE  \E m \in Nat : \E e :
           /\ m = Cardinality(K) /\ Enumerates(e, m, K)
           /\ Picked(s, K) = [j \in 1..m |-> s[e[j]]]
BY ListingIs

-----------------------------------------------------------------------------
(* Tokens at places.                                                       *)

Spots(P, w) == UNION {{p} \X (1..w[p]) : p \in P}

LEMMA SpotsFinite ==
  ASSUME NEW P, IsFiniteSet(P), NEW w, \A p \in P : w[p] \in Nat
  PROVE  IsFiniteSet(Spots(P, w)) /\ Weight(P, w) = Cardinality(Spots(P, w)) /\ Weight(P, w) \in Nat
<1> DEFINE f == [p \in P |-> {p} \X (1..w[p])]
           U == {{p} \X (1..w[p]) : p \in P}
<1>1. f \in Surjection(P, U)
  BY DEF Surjection
<1>2. IsFiniteSet(U)
  <2> HIDE DEF f, U
  <2> QED
    BY <1>1, FS_Surjection
<1>3. ASSUME NEW p \in P PROVE IsFiniteSet({p} \X (1..w[p]))
  <2>1. IsFiniteSet({p}) /\ IsFiniteSet(1..w[p])
    <3>1. 1 \in Int /\ w[p] \in Int
      OBVIOUS
    <3>2. IsFiniteSet(1..w[p])
      BY <3>1, FS_Interval
    <3> QED
      BY <3>2, FS_Singleton
  <2> QED
    BY <2>1, FS_Product
<1>4. \A T \in U : IsFiniteSet(T)
  BY <1>3
<1>5. IsFiniteSet(UNION U)
  <2> HIDE DEF U
  <2> QED
    BY <1>2, <1>4, FS_UNION
<1>6. Spots(P, w) = UNION U /\ Weight(P, w) = Cardinality(UNION U)
  BY DEF Spots, Weight
<1> HIDE DEF U
<1> QED
  BY <1>5, <1>6, FS_CardinalityType

LEMMA SpotIs ==
  ASSUME NEW P, NEW w, NEW x
  PROVE  x \in Spots(P, w) <=> \E p \in P : \E k \in 1..w[p] : x = <<p, k>>
BY DEF Spots

LEMMA WeightJoins ==
  ASSUME NEW P, IsFiniteSet(P), NEW Q, IsFiniteSet(Q), P \cap Q = {}, NEW w, \A p \in P \cup Q : w[p] \in Nat
  PROVE  Weight(P \cup Q, w) = Weight(P, w) + Weight(Q, w)
<1>1. IsFiniteSet(P \cup Q)
  BY FS_Union
<1>2. /\ IsFiniteSet(Spots(P, w)) /\ IsFiniteSet(Spots(Q, w))
      /\ Weight(P, w) = Cardinality(Spots(P, w)) /\ Weight(Q, w) = Cardinality(Spots(Q, w))
      /\ Weight(P \cup Q, w) = Cardinality(Spots(P \cup Q, w))
      /\ Weight(P, w) \in Nat /\ Weight(Q, w) \in Nat
  BY <1>1, SpotsFinite
<1>3. Spots(P \cup Q, w) = Spots(P, w) \cup Spots(Q, w)
  BY SpotIs
<1>4. Spots(P, w) \cap Spots(Q, w) = {}
  BY SpotIs
<1>5. Cardinality(Spots(P, w) \cup Spots(Q, w))
      = Cardinality(Spots(P, w)) + Cardinality(Spots(Q, w)) - Cardinality({})
  BY <1>2, <1>4, FS_Union
<1>6. Cardinality({}) = 0
  BY FS_EmptySet
<1>7. Weight(P \cup Q, w) = Weight(P, w) + Weight(Q, w) - 0
  BY <1>2, <1>3, <1>5, <1>6
<1> QED
  BY <1>2, <1>7

LEMMA WeightOfNone ==
  ASSUME NEW w
  PROVE  Weight({}, w) = 0
<1>1. UNION {{p} \X (1..w[p]) : p \in {}} = {}
  OBVIOUS
<1> QED
  BY <1>1, FS_EmptySet DEF Weight

LEMMA WeightOfOne ==
  ASSUME NEW p, NEW w, w[p] \in Nat
  PROVE  Weight({p}, w) = w[p]
<1>1. UNION {{q} \X (1..w[q]) : q \in {p}} = {p} \X (1..w[p])
  OBVIOUS
<1>2. IsFiniteSet({p}) /\ Cardinality({p}) = 1
  BY FS_Singleton
<1>3. IsFiniteSet(1..w[p]) /\ Cardinality(1..w[p]) = w[p]
  <2>1. 1 \in Int /\ w[p] \in Int
    OBVIOUS
  <2>2. IsFiniteSet(1..w[p]) /\ Cardinality(1..w[p]) = IF 1 > w[p] THEN 0 ELSE w[p] - 1 + 1
    BY <2>1, FS_Interval
  <2> QED
    BY <2>2
<1>4. Cardinality({p} \X (1..w[p])) = Cardinality({p}) * Cardinality(1..w[p])
  BY <1>2, <1>3, FS_Product
<1>5. Cardinality({p} \X (1..w[p])) = 1 * w[p]
  BY <1>2, <1>3, <1>4
<1>6. Weight({p}, w) = Cardinality({p} \X (1..w[p]))
  BY <1>1, Zenon DEF Weight
<1> QED
  BY <1>5, <1>6

LEMMA WeightMoves ==
  ASSUME NEW P, IsFiniteSet(P), NEW Q, NEW e \in [P -> Q],
         \A p, q \in P : e[p] = e[q] => p = q, \A q \in Q : \E p \in P : e[p] = q,
         NEW v, NEW w, \A p \in P : v[p] \in Nat /\ v[p] = w[e[p]]
  PROVE  Weight(P, v) = Weight(Q, w)
<1> DEFINE S == Spots(P, v)
           T == Spots(Q, w)
           f == [x \in S |-> <<e[x[1]], x[2]>>]
<1>1. \A x : x \in S <=> \E p \in P : \E k \in 1..v[p] : x = <<p, k>>
  BY SpotIs
<1>2. \A x : x \in T <=> \E p \in Q : \E k \in 1..w[p] : x = <<p, k>>
  BY SpotIs
<1>3. IsFiniteSet(S) /\ Weight(P, v) = Cardinality(S)
  BY SpotsFinite
<1> HIDE DEF S, T
<1>4. f \in [S -> T]
  <2> SUFFICES ASSUME NEW x \in S PROVE f[x] \in T
    OBVIOUS
  <2>1. PICK p \in P, k \in Int : k \in 1..v[p] /\ x = <<p, k>>
    BY <1>1
  <2>2. f[x] = <<e[p], k>> /\ e[p] \in Q /\ k \in 1..w[e[p]]
    BY <2>1
  <2> QED
    BY <1>2, <2>2
<1>5. \A t \in T : \E x \in S : f[x] = t
  <2> SUFFICES ASSUME NEW t \in T PROVE \E x \in S : f[x] = t
    OBVIOUS
  <2>1. PICK q \in Q, k \in Int : k \in 1..w[q] /\ t = <<q, k>>
    BY <1>2
  <2>2. PICK p \in P : e[p] = q
    OBVIOUS
  <2>3. <<p, k>> \in S
    BY <1>1, <2>1, <2>2
  <2>4. f[<<p, k>>] = t
    BY <2>1, <2>2, <2>3
  <2> QED
    BY <2>3, <2>4
<1>6. ASSUME NEW x \in S, NEW y \in S, f[x] = f[y] PROVE x = y
  <2>1. PICK p \in P, k \in Int : k \in 1..v[p] /\ x = <<p, k>>
    BY <1>1
  <2>2. PICK q \in P, l \in Int : l \in 1..v[q] /\ y = <<q, l>>
    BY <1>1
  <2>3. f[x] = <<e[p], k>> /\ f[y] = <<e[q], l>>
    BY <2>1, <2>2
  <2>4. e[p] = e[q] /\ k = l
    BY <1>6, <2>3
  <2> QED
    BY <2>1, <2>2, <2>4
<1> HIDE DEF f
<1>7. f \in Surjection(S, T) /\ f \in Injection(S, T)
  BY <1>4, <1>5, <1>6 DEF Surjection, Injection, IsInjective
<1>8. Cardinality(S) = Cardinality(T)
  BY <1>3, <1>7, FS_Surjection
<1>9. Weight(Q, w) = Cardinality(T)
  BY DEF T, Spots, Weight
<1> QED
  BY <1>3, <1>8, <1>9

-----------------------------------------------------------------------------
(* Sequences one after the other: whose element each one is.               *)

Lays(F, a, b, ss, m) ==
  /\ a \in [1..Len(F) -> 1..m] /\ b \in [1..Len(F) -> Nat]
  /\ \A j \in 1..Len(F) : b[j] \in DOMAIN ss[a[j]] /\ F[j] = ss[a[j]][b[j]]
  /\ \A k \in 1..m : \A i \in DOMAIN ss[k] : \E j \in 1..Len(F) : a[j] = k /\ b[j] = i
  /\ \A i, j \in 1..Len(F) : i < j => a[i] < a[j] \/ (a[i] = a[j] /\ b[i] < b[j])

LEMMA LaysMore ==
  ASSUME NEW S, NEW m \in Nat, NEW ss, NEW F \in Seq(S), NEW G \in Seq(S), G = F \o ss[m + 1],
         ss[m + 1] \in Seq(S), NEW a, NEW b, Lays(F, a, b, ss, m)
  PROVE  \E c, d : Lays(G, c, d, ss, m + 1)
<1>1. PICK L \in Nat, K \in Nat, t \in Seq(S) : L = Len(F) /\ t = ss[m + 1] /\ K = Len(t)
  OBVIOUS
<1>2. Len(G) = L + K /\ DOMAIN ss[m + 1] = 1..K
  BY <1>1
<1> DEFINE c == [j \in 1..(L + K) |-> IF j <= L THEN a[j] ELSE m + 1]
           d == [j \in 1..(L + K) |-> IF j <= L THEN b[j] ELSE j - L]
<1>3. /\ a \in [1..L -> 1..m] /\ b \in [1..L -> Nat]
      /\ \A j \in 1..L : b[j] \in DOMAIN ss[a[j]] /\ F[j] = ss[a[j]][b[j]]
      /\ \A k \in 1..m : \A i \in DOMAIN ss[k] : \E j \in 1..L : a[j] = k /\ b[j] = i
      /\ \A i, j \in 1..L : i < j => a[i] < a[j] \/ (a[i] = a[j] /\ b[i] < b[j])
  BY <1>1 DEF Lays
<1>4. \A j \in 1..L : j \in 1..(L + K) /\ c[j] = a[j] /\ d[j] = b[j] /\ G[j] = F[j]
  BY <1>1
<1>5. \A i \in 1..K : L + i \in 1..(L + K) /\ c[L + i] = m + 1 /\ d[L + i] = i /\ G[L + i] = t[i]
  BY <1>1
<1>6. \A j \in 1..(L + K) : j \in 1..L \/ (j - L \in 1..K /\ j = L + (j - L))
  OBVIOUS
<1>7. c \in [1..(L + K) -> 1..(m + 1)] /\ d \in [1..(L + K) -> Nat]
  BY <1>3
<1> HIDE DEF c, d
<1>8. ASSUME NEW j \in 1..(L + K) PROVE d[j] \in DOMAIN ss[c[j]] /\ G[j] = ss[c[j]][d[j]]
  <2>1. CASE j \in 1..L
    BY <1>3, <1>4, <2>1
  <2>2. CASE j - L \in 1..K /\ j = L + (j - L)
    <3>1. c[j] = m + 1 /\ d[j] = j - L /\ G[j] = t[j - L]
      BY <1>5, <2>2
    <3> QED
      BY <1>1, <1>2, <2>2, <3>1
  <2> QED
    BY <1>6, <2>1, <2>2
<1>9. ASSUME NEW k \in 1..(m + 1), NEW i \in DOMAIN ss[k]
      PROVE  \E j \in 1..(L + K) : c[j] = k /\ d[j] = i
  <2>1. CASE k \in 1..m
    <3>1. PICK j \in 1..L : a[j] = k /\ b[j] = i
      BY <1>3, <2>1
    <3> QED
      BY <1>4, <3>1
  <2>2. CASE k = m + 1
    <3>1. i \in 1..K
      BY <1>2, <2>2
    <3> QED
      BY <1>5, <2>2, <3>1
  <2> QED
    BY <2>1, <2>2
<1>10. ASSUME NEW i \in 1..(L + K), NEW j \in 1..(L + K), i < j
       PROVE  c[i] < c[j] \/ (c[i] = c[j] /\ d[i] < d[j])
  <2>1. CASE j \in 1..L
    <3>1. i \in 1..L
      BY <1>10, <2>1
    <3> QED
      BY <1>3, <1>4, <1>10, <2>1, <3>1
  <2>2. CASE j - L \in 1..K /\ j = L + (j - L)
    <3>1. c[j] = m + 1 /\ d[j] = j - L
      BY <1>5, <2>2
    <3>2. CASE i \in 1..L
      <4>1. c[i] = a[i] /\ a[i] \in 1..m
        BY <1>3, <1>4, <3>2
      <4> QED
        BY <3>1, <4>1
    <3>3. CASE i - L \in 1..K /\ i = L + (i - L)
      <4>1. c[i] = m + 1 /\ d[i] = i - L
        BY <1>5, <3>3
      <4> QED
        BY <1>10, <3>1, <4>1
    <3> QED
      BY <1>6, <3>2, <3>3
  <2> QED
    BY <1>6, <2>1, <2>2
<1>11. Lays(G, c, d, ss, m + 1)
  BY <1>2, <1>7, <1>8, <1>9, <1>10 DEF Lays
<1> QED
  BY <1>11

LEMMA FlattenLays ==
  ASSUME NEW S, NEW n \in Nat, NEW ss \in [1..n -> Seq(S)]
  PROVE  FlattenSeq(ss) \in Seq(S) /\ \E a, b : Lays(FlattenSeq(ss), a, b, ss, n)
<1>1. PICK f \in [0..n -> Seq(S)] :
        f[0] = <<>> /\ (\A k \in 1..n : f[k] = f[k - 1] \o ss[k]) /\ FlattenSeq(ss) = f[n]
  BY FlattenSteps
<1> DEFINE Q == {m \in 0..n : \E a, b : Lays(f[m], a, b, ss, m)}
<1>2. 0 \in Q
  <2>1. PICK a : a = [j \in 1..0 |-> 0]
    OBVIOUS
  <2>2. Lays(<<>>, a, a, ss, 0)
    BY <2>1 DEF Lays
  <2> QED
    BY <1>1, <2>2
<1>3. \A m \in Q : m < n => m + 1 \in Q
  <2> SUFFICES ASSUME NEW m \in Q, m < n PROVE m + 1 \in Q
    OBVIOUS
  <2>1. m \in 0..n /\ m + 1 \in 0..n /\ m + 1 \in 1..n /\ (m + 1) - 1 = m
    OBVIOUS
  <2>2. PICK F \in Seq(S), G \in Seq(S) : F = f[m] /\ G = f[m + 1]
    BY <2>1
  <2>3. G = F \o ss[m + 1] /\ ss[m + 1] \in Seq(S)
    BY <1>1, <2>1, <2>2
  <2>4. PICK a, b : Lays(F, a, b, ss, m)
    BY <2>2
  <2>5. \E c, d : Lays(G, c, d, ss, m + 1)
    <3>1. m \in Nat
      BY <2>1
    <3> QED
      BY <2>3, <2>4, <3>1, LaysMore, Zenon
  <2> QED
    BY <2>1, <2>2, <2>5
<1>4. Q \in SUBSET (0..n)
  OBVIOUS
<1> HIDE DEF Q
<1>5. Q = 0..n
  BY <1>2, <1>3, <1>4, BoundedInduction
<1>6. n \in Q
  BY <1>5
<1> QED
  BY <1>1, <1>6 DEF Q

-----------------------------------------------------------------------------
(* The groups of a plan.                                                   *)

Kinds == {"instruction", "user", "attachment", "tool", "memory", "recent", "history_attachment",
          "evidence", "recalled"}
BlockType == [kind : Kinds, tokens : Nat, shows : SUBSET Nat]
Reasons == {"none", "superseded_memory", "duplicate_content"}
GroupType ==
  [id : Nat, required : BOOLEAN, priority : Nat, relevance : Int, order : Nat, reason : Reasons,
   blocks : Seq(BlockType)]
Candidates ==
  [kind : {"passage", "turn"}, document : Nat, last : Nat, shows : SUBSET Nat, score : Nat, tokens : Nat]
Outcomes == {"skipped", "no_hit", "hit", "degraded"}
FoundType == [outcome : Outcomes, candidates : Seq(Candidates)]

\* Groups of their own names, none empty, and none left out that is required.
Family(gs, ids) ==
  /\ IsFiniteSet(gs) /\ gs \subseteq GroupType
  /\ \A g \in gs : g.id \in ids /\ g.blocks # <<>> /\ (g.required => g.reason = "none")
  /\ \A g, h \in gs : g.id = h.id => g = h

LEMMA FamiliesJoin ==
  ASSUME NEW A, NEW I, NEW B, NEW J, Family(A, I), Family(B, J), I \cap J = {}
  PROVE  Family(A \cup B, I \cup J)
<1>1. IsFiniteSet(A \cup B)
  BY FS_Union DEF Family
<1>2. \A g \in A \cup B : g \in GroupType /\ g.id \in I \cup J /\ g.blocks # <<>> /\ (g.required => g.reason = "none")
  BY DEF Family
<1>3. \A g, h \in A \cup B : g.id = h.id => g = h
  BY DEF Family
<1> QED
  BY <1>1, <1>2, <1>3 DEF Family

LEMMA FamilyOfNone ==
  ASSUME NEW I
  PROVE  Family({}, I)
BY FS_EmptySet DEF Family

LEMMA FamilyOfOne ==
  ASSUME NEW g \in GroupType, NEW I, g.id \in I, g.blocks # <<>>, g.required => g.reason = "none"
  PROVE  Family({g}, I)
BY FS_Singleton DEF Family

LEMMA FamilyPart ==
  ASSUME NEW A, NEW I, Family(A, I), NEW B \in SUBSET A
  PROVE  Family(B, I)
BY FS_Subset DEF Family

LEMMA BlockIs ==
  ASSUME NEW kind \in Kinds, NEW tokens \in Nat, NEW shows \in SUBSET Nat
  PROVE  LET b == Block(kind, tokens, shows) IN
         b \in BlockType /\ b.kind = kind /\ b.tokens = tokens /\ b.shows = shows /\ <<b>> \in Seq(BlockType)
BY DEF Block, BlockType

LEMMA TwoBlocks ==
  ASSUME NEW S, NEW u \in S, NEW v \in S
  PROVE  <<u>> \o <<v>> = <<u, v>> /\ <<u, v>> \in Seq(S)
<1>1. PICK s, t : s = <<u>> \o <<v>> /\ t = <<u, v>>
  OBVIOUS
<1>2. s \in Seq(S) /\ t \in Seq(S) /\ Len(s) = 2 /\ Len(t) = 2 /\ s[1] = t[1] /\ s[2] = t[2]
  BY <1>1
<1>3. DOMAIN s = 1..2 /\ DOMAIN t = 1..2 /\ \A i \in 1..2 : s[i] = t[i]
  BY <1>2
<1>4. s = [i \in DOMAIN s |-> s[i]] /\ t = [i \in DOMAIN t |-> t[i]]
  BY <1>2
<1> QED
  BY <1>1, <1>2, <1>3, <1>4

CoreIds == {AgentRef, MessageRef, ToolRef}
TurnIds == {TurnRef(n) : n \in Nat \ {0}}
FoundIds == {FoundRef(n) : n \in Nat \ {0}}

MessageBlocks ==
  (IF facts.text = 0 THEN <<>> ELSE <<Block("user", facts.text, {})>>)
    \o (IF facts.attached THEN <<Block("attachment", 0, {})>> ELSE <<>>)
MessageGroup == Group(MessageRef, TRUE, 2, NoScore, 100, MessageBlocks)

LEMMA FactsType ==
  ASSUME facts \in PlanRequests
  PROVE  /\ facts.budget \in Nat /\ facts.instruction \in Nat /\ facts.tools \in Nat /\ facts.text \in Nat
         /\ facts.attached \in BOOLEAN /\ facts.profile \in BOOLEAN /\ facts.sources \in BOOLEAN
         /\ facts.text > 0 \/ facts.attached
         /\ facts.memory.state \in {"none", "off", "missing", "ready"}
         /\ facts.memory.tokens \in Nat /\ facts.memory.through \in Nat
         /\ facts.turns \in Seq([id : Nat \ {0}, tokens : Nat, attached : BOOLEAN])
         /\ \A i \in DOMAIN facts.turns :
              facts.turns[i].id \in Nat \ {0} /\ facts.turns[i].tokens \in Nat
         /\ \A i, j \in DOMAIN facts.turns : i < j => facts.turns[j].id < facts.turns[i].id
<1>1. PICK q \in PlanRequests : q = facts
  OBVIOUS
<1>2. q.turns \in Seq([id : Nat \ {0}, tokens : Nat, attached : BOOLEAN])
  BY PlanAssumption
<1>3. \A i \in DOMAIN q.turns : q.turns[i] \in [id : Nat \ {0}, tokens : Nat, attached : BOOLEAN]
  <2>1. PICK T : T = [id : Nat \ {0}, tokens : Nat, attached : BOOLEAN]
    OBVIOUS
  <2>2. q.turns \in Seq(T)
    BY <1>2, <2>1
  <2>3. \A i \in DOMAIN q.turns : q.turns[i] \in T
    BY <2>2
  <2> QED
    BY <2>1, <2>3
<1>4. \A i \in DOMAIN q.turns : q.turns[i].id \in Nat \ {0} /\ q.turns[i].tokens \in Nat
  BY <1>3
<1> QED
  BY <1>1, <1>2, <1>4, PlanAssumption

LEMMA MessageBlocksAre ==
  ASSUME facts \in PlanRequests
  PROVE  /\ MessageBlocks \in Seq(BlockType) /\ MessageBlocks # <<>>
         /\ facts.attached => \E i \in DOMAIN MessageBlocks : MessageBlocks[i].kind = "attachment"
         /\ \A i \in DOMAIN MessageBlocks :
              /\ MessageBlocks[i].kind \in {"user", "attachment"} /\ MessageBlocks[i].shows = {}
              /\ MessageBlocks[i].kind = "attachment" => facts.attached
<1>1. facts.text \in Nat /\ (facts.text > 0 \/ facts.attached) /\ facts.attached \in BOOLEAN
  BY FactsType
<1> DEFINE u == Block("user", facts.text, {})
           v == Block("attachment", 0, {})
<1>2. u \in BlockType /\ u.kind = "user" /\ u.shows = {}
  BY <1>1 DEF BlockType, Block, Kinds
<1>3. v \in BlockType /\ v.kind = "attachment" /\ v.shows = {}
  BY DEF BlockType, Block, Kinds
<1> HIDE DEF u, v
<1>4. CASE facts.text = 0
  <2>1. facts.attached
    BY <1>1, <1>4
  <2>2. MessageBlocks = <<>> \o <<v>>
    BY <1>4, <2>1 DEF MessageBlocks, v
  <2>3. MessageBlocks = <<v>>
    BY <1>3, <2>2
  <2> QED
    BY <1>3, <2>1, <2>3
<1>5. CASE facts.text # 0 /\ facts.attached
  <2>1. MessageBlocks = <<u>> \o <<v>>
    BY <1>5 DEF MessageBlocks, u, v
  <2>2. MessageBlocks = <<u, v>>
    BY <1>2, <1>3, <2>1, TwoBlocks
  <2> QED
    BY <1>2, <1>3, <1>5, <2>2
<1>6. CASE facts.text # 0 /\ ~facts.attached
  <2>1. MessageBlocks = <<u>> \o <<>>
    BY <1>6 DEF MessageBlocks, u
  <2>2. MessageBlocks = <<u>>
    BY <1>2, <2>1
  <2> QED
    BY <1>2, <1>6, <2>2
<1> QED
  BY <1>1, <1>4, <1>5, <1>6

LEMMA CoreFamily ==
  ASSUME facts \in PlanRequests
  PROVE  /\ Family(CoreGroups, CoreIds) /\ MessageGroup \in CoreGroups /\ MessageGroup.blocks = MessageBlocks
         /\ MessageGroup \in GroupType /\ MessageGroup.required
         /\ \A g \in CoreGroups : g.required
<1>1. facts.instruction \in Nat /\ facts.tools \in Nat
  BY FactsType
<1> DEFINE A == Group(AgentRef, TRUE, 1, NoScore, 0, <<Block("instruction", facts.instruction, {})>>)
           T == Group(ToolRef, TRUE, 3, NoScore, 0, <<Block("tool", facts.tools, {})>>)
           As == IF facts.instruction = 0 THEN {} ELSE {A}
           Ts == IF facts.tools = 0 THEN {} ELSE {T}
<1>2. <<Block("instruction", facts.instruction, {})>> \in Seq(BlockType)
      /\ <<Block("tool", facts.tools, {})>> \in Seq(BlockType)
  BY <1>1, BlockIs DEF Kinds
<1>3. NoScore \in Int /\ AgentRef \in Nat /\ ToolRef \in Nat /\ MessageRef \in Nat /\ 0 \in Nat /\ 1 \in Nat
      /\ 2 \in Nat /\ 3 \in Nat /\ 100 \in Nat /\ TRUE \in BOOLEAN
  BY DEF NoScore, AgentRef, ToolRef, MessageRef
<1>4. A \in GroupType /\ A.id = AgentRef /\ A.required = TRUE /\ A.reason = "none"
      /\ A.blocks = <<Block("instruction", facts.instruction, {})>>
  BY <1>2, <1>3 DEF Group, GroupType, Reasons
<1>5. T \in GroupType /\ T.id = ToolRef /\ T.required = TRUE /\ T.reason = "none"
      /\ T.blocks = <<Block("tool", facts.tools, {})>>
  BY <1>2, <1>3 DEF Group, GroupType, Reasons
<1>6. MessageGroup \in GroupType /\ MessageGroup.id = MessageRef /\ MessageGroup.required = TRUE
      /\ MessageGroup.reason = "none" /\ MessageGroup.blocks = MessageBlocks
  BY <1>3, MessageBlocksAre DEF MessageGroup, Group, GroupType, Reasons
<1>7. CoreGroups = (As \cup {MessageGroup}) \cup Ts
  BY DEF CoreGroups, MessageGroup, MessageBlocks
<1>a. \A x : <<x>> # <<>>
  OBVIOUS
<1>8. A.blocks # <<>> /\ T.blocks # <<>> /\ MessageGroup.blocks # <<>>
  BY <1>a, <1>2, <1>4, <1>5, <1>6, MessageBlocksAre
<1> HIDE DEF A, T
<1>9. Family(As, {AgentRef}) /\ Family(Ts, {ToolRef}) /\ Family({MessageGroup}, {MessageRef})
  BY <1>4, <1>5, <1>6, <1>8, FamilyOfNone, FamilyOfOne
<1>10. \A g \in As \cup Ts \cup {MessageGroup} : g.required
  BY <1>4, <1>5, <1>6
<1> HIDE DEF As, Ts
<1>11. Family(As \cup {MessageGroup}, {AgentRef} \cup {MessageRef})
  BY <1>9, FamiliesJoin DEF AgentRef, MessageRef
<1>12. Family((As \cup {MessageGroup}) \cup Ts, ({AgentRef} \cup {MessageRef}) \cup {ToolRef})
  BY <1>9, <1>11, FamiliesJoin DEF AgentRef, MessageRef, ToolRef
<1>13. ({AgentRef} \cup {MessageRef}) \cup {ToolRef} = CoreIds
  BY DEF CoreIds
<1> QED
  BY <1>6, <1>7, <1>10, <1>12, <1>13

LEMMA MemoryFamily ==
  ASSUME facts \in PlanRequests
  PROVE  Family(MemoryGroups, {MemoryRef})
<1>1. facts.memory.tokens \in Nat /\ MemoryBoundary \in Nat
  BY FactsType DEF MemoryBoundary
<1> DEFINE M == Group(MemoryRef, FALSE, 6, NoScore, MemoryBoundary,
                      <<Block("memory", facts.memory.tokens, {Summary})>>)
<1>2. <<Block("memory", facts.memory.tokens, {Summary})>> \in Seq(BlockType)
  BY <1>1, BlockIs DEF Kinds, Summary
<1>3. NoScore \in Int /\ MemoryRef \in Nat /\ 6 \in Nat /\ FALSE \in BOOLEAN
  BY DEF NoScore, MemoryRef
<1>4. M \in GroupType /\ M.id = MemoryRef /\ M.required = FALSE
      /\ M.blocks = <<Block("memory", facts.memory.tokens, {Summary})>>
  BY <1>1, <1>2, <1>3 DEF Group, GroupType, Reasons
<1>5. M.blocks # <<>>
  <2>1. \A x : <<x>> # <<>>
    OBVIOUS
  <2> QED
    BY <1>4, <2>1
<1>6. MemoryGroups = {} \/ MemoryGroups = {M}
  BY DEF MemoryGroups
<1> HIDE DEF M
<1> QED
  BY <1>4, <1>5, <1>6, FamilyOfNone, FamilyOfOne

\* A turn of the history, with or without its files.
TurnBlocks(i) ==
  <<Block("recent", facts.turns[i].tokens, {facts.turns[i].id})>>
    \o (IF facts.turns[i].attached /\ i <= HistoryPage THEN <<Block("history_attachment", 0, {})>> ELSE <<>>)
TurnGroup(i) ==
  Group(TurnRef(facts.turns[i].id), FALSE, IF i = 1 THEN 4 ELSE 7, NoScore, facts.turns[i].id, TurnBlocks(i))

LEMMA TurnBlocksAre ==
  ASSUME facts \in PlanRequests, NEW i \in DOMAIN facts.turns
  PROVE  /\ TurnBlocks(i) \in Seq(BlockType) /\ Len(TurnBlocks(i)) \in {1, 2}
         /\ TurnBlocks(i)[1].kind = "recent" /\ TurnBlocks(i)[1].shows = {facts.turns[i].id}
         /\ Len(TurnBlocks(i)) = 2 => TurnBlocks(i)[2].kind = "history_attachment" /\ TurnBlocks(i)[2].shows = {}
<1>2. facts.turns[i].id \in Nat \ {0} /\ facts.turns[i].tokens \in Nat
  BY FactsType
<1> DEFINE u == Block("recent", facts.turns[i].tokens, {facts.turns[i].id})
           v == Block("history_attachment", 0, {})
<1>3. u \in BlockType /\ u.kind = "recent" /\ u.shows = {facts.turns[i].id}
  BY <1>2 DEF BlockType, Block, Kinds
<1>4. v \in BlockType /\ v.kind = "history_attachment" /\ v.shows = {}
  BY DEF BlockType, Block, Kinds
<1>5. TurnBlocks(i) = <<u>> \o <<v>> \/ TurnBlocks(i) = <<u>> \o <<>>
  BY DEF TurnBlocks
<1> HIDE DEF u, v
<1>6. <<u>> \o <<v>> = <<u, v>> /\ <<u, v>> \in Seq(BlockType) /\ <<u>> \o <<>> = <<u>>
  BY <1>3, <1>4, TwoBlocks
<1>7. CASE TurnBlocks(i) = <<u>>
  BY <1>3, <1>7
<1>8. CASE TurnBlocks(i) = <<u, v>>
  BY <1>3, <1>4, <1>8
<1> QED
  BY <1>5, <1>6, <1>7, <1>8

LEMMA TurnGroupIs ==
  ASSUME facts \in PlanRequests, NEW i \in DOMAIN facts.turns
  PROVE  /\ TurnGroup(i) \in GroupType /\ TurnGroup(i).id = TurnRef(facts.turns[i].id) /\ ~TurnGroup(i).required
         /\ TurnGroup(i).reason = "none" /\ TurnGroup(i).blocks = TurnBlocks(i) /\ TurnGroup(i).blocks # <<>>
         /\ TurnGroup(i).id \in TurnIds /\ facts.turns[i].id \in Nat \ {0}
         /\ TurnGroup(i).priority \in {4, 7}
<1>1. facts.turns[i].id \in Nat \ {0}
  BY FactsType
<1>2. TurnBlocks(i) \in Seq(BlockType) /\ TurnBlocks(i) # <<>>
  BY TurnBlocksAre
<1>3. NoScore \in Int /\ TurnRef(facts.turns[i].id) \in Nat /\ (IF i = 1 THEN 4 ELSE 7) \in Nat /\ FALSE \in BOOLEAN
      /\ (IF i = 1 THEN 4 ELSE 7) \in {4, 7}
  BY <1>1 DEF NoScore, TurnRef
<1>4. TurnRef(facts.turns[i].id) \in TurnIds
  BY <1>1 DEF TurnIds
<1> QED
  BY <1>1, <1>2, <1>3, <1>4 DEF TurnGroup, Group, GroupType, Reasons

LEMMA HistoryFamily ==
  ASSUME facts \in PlanRequests
  PROVE  /\ Family(HistoryGroups, TurnIds)
         /\ \A g \in HistoryGroups : \E i \in Read : g = TurnGroup(i)
         /\ Read \subseteq DOMAIN facts.turns
<1>1. Read \subseteq DOMAIN facts.turns /\ DOMAIN facts.turns = 1..Len(facts.turns) /\ Len(facts.turns) \in Nat
  BY FactsType DEF Read
<1>2. IsFiniteSet(Read)
  <2>1. IsFiniteSet(1..Len(facts.turns))
    BY <1>1, FS_Interval
  <2> QED
    BY <1>1, <2>1, FS_Subset
<1>3. HistoryGroups = {TurnGroup(i) : i \in Read}
  BY DEF HistoryGroups, TurnGroup, TurnBlocks
<1>4. IsFiniteSet(HistoryGroups)
  <2> DEFINE f == [i \in Read |-> TurnGroup(i)]
  <2>1. f \in Surjection(Read, HistoryGroups)
    BY <1>3 DEF Surjection
  <2> HIDE DEF f
  <2> QED
    BY <1>2, <2>1, FS_Surjection
<1>5. ASSUME NEW i \in Read, NEW j \in Read, TurnGroup(i).id = TurnGroup(j).id PROVE i = j
  <2>1. TurnGroup(i).id = TurnRef(facts.turns[i].id) /\ TurnGroup(j).id = TurnRef(facts.turns[j].id)
        /\ facts.turns[i].id \in Nat /\ facts.turns[j].id \in Nat
    BY <1>1, TurnGroupIs
  <2>2. PICK x \in Nat, y \in Nat : x = facts.turns[i].id /\ y = facts.turns[j].id
    BY <2>1
  <2>3. 10 + 2 * x = 10 + 2 * y
    BY <1>5, <2>1, <2>2 DEF TurnRef
  <2>4. x = y
    BY <2>3
  <2>5. i \in DOMAIN facts.turns /\ j \in DOMAIN facts.turns /\ i \in Nat /\ j \in Nat
    BY <1>1
  <2>a. (i < j => facts.turns[j].id < facts.turns[i].id) /\ (j < i => facts.turns[i].id < facts.turns[j].id)
    BY <2>5, FactsType
  <2>6. ~(i < j) /\ ~(j < i)
    BY <2>2, <2>4, <2>a
  <2> QED
    BY <2>5, <2>6
<1>6. \A g \in HistoryGroups : \E i \in Read : g = TurnGroup(i)
  BY <1>3
<1>7. \A g \in HistoryGroups :
        g \in GroupType /\ g.id \in TurnIds /\ g.blocks # <<>> /\ (g.required => g.reason = "none")
  BY <1>1, <1>6, TurnGroupIs
<1>8. \A g, h \in HistoryGroups : g.id = h.id => g = h
  BY <1>5, <1>6
<1> QED
  BY <1>1, <1>4, <1>6, <1>7, <1>8 DEF Family

LEMMA ElementOf ==
  ASSUME NEW S, NEW s \in Seq(S)
  PROVE  DOMAIN s = 1..Len(s) /\ Len(s) \in Nat /\ \A i \in DOMAIN s : s[i] \in S
OBVIOUS

FoundGroup(i) == Recalled(EvidenceGroup(found.candidates, i))

LEMMA FoundGroupIs ==
  ASSUME found.candidates \in Seq(Candidates), NEW i \in DOMAIN found.candidates
  PROVE  LET g == FoundGroup(i)
             c == found.candidates[i]
         IN /\ g \in GroupType /\ g.id = FoundRef(i) /\ g.id \in FoundIds /\ ~g.required
            /\ g.priority \in {5, 8} /\ g.order = i
            /\ Len(g.blocks) = 1 /\ g.blocks # <<>>
            /\ g.blocks[1].kind = (IF c.kind = "passage" THEN "evidence" ELSE "recalled")
            /\ g.blocks[1].shows = c.shows /\ c.shows \in SUBSET Nat
            /\ g.priority = 8 <=> c.kind # "passage"
            /\ g.priority = 8 /\ g.reason = "none" =>
                 /\ MemoryBoundary > 0 => \A t \in c.shows : ~(t <= MemoryBoundary)
                 /\ \A h \in HistoryGroups : ~(c.shows \subseteq h.blocks[1].shows)
<1>1. /\ found.candidates[i] \in Candidates /\ i \in Nat \ {0}
      /\ DOMAIN found.candidates = 1..Len(found.candidates)
  BY ElementOf
<1> DEFINE c == found.candidates[i]
           b == Block(IF IsPassage(c) THEN "evidence" ELSE "recalled", c.tokens, c.shows)
           e == EvidenceGroup(found.candidates, i)
<1>2. c.tokens \in Nat /\ c.shows \in SUBSET Nat /\ c.score \in Nat
  BY <1>1 DEF Candidates
<1>3. b \in BlockType /\ b.kind = (IF c.kind = "passage" THEN "evidence" ELSE "recalled") /\ b.shows = c.shows
  BY <1>2 DEF BlockType, Block, Kinds, IsPassage
<1>4. e = Group(FoundRef(i), FALSE, IF IsPassage(c) THEN 5 ELSE 8, c.score, i, <<b>>)
  BY DEF EvidenceGroup
<1> HIDE DEF b, e
<1>5. <<b>> \in Seq(BlockType) /\ Len(<<b>>) = 1 /\ <<b>>[1] = b /\ <<b>> # <<>>
  BY <1>3
<1>6. FoundRef(i) \in Nat /\ FoundRef(i) \in FoundIds
  BY <1>1 DEF FoundRef, FoundIds
<1>7. /\ e \in GroupType /\ e.id = FoundRef(i) /\ e.required = FALSE
      /\ e.priority = (IF IsPassage(c) THEN 5 ELSE 8) /\ e.order = i /\ e.blocks = <<b>> /\ e.relevance = c.score
  BY <1>1, <1>2, <1>4, <1>5, <1>6 DEF Group, GroupType, Reasons
<1>8. FoundGroup(i) = Recalled(e)
  BY DEF FoundGroup, e
<1> DEFINE g == FoundGroup(i)
<1>9. \E reason \in Reasons :
         /\ g = [e EXCEPT !.reason = reason]
         /\ e.priority = 8 /\ reason = "none" =>
              /\ MemoryBoundary > 0 => \A t \in e.blocks[1].shows : ~(t <= MemoryBoundary)
              /\ \A h \in HistoryGroups : ~(e.blocks[1].shows \subseteq h.blocks[1].shows)
  <2>1. CASE e.priority # 8
    <3>1. g = [e EXCEPT !.reason = "none"]
      BY <1>8, <2>1 DEF Recalled
    <3> QED
      BY <2>1, <3>1 DEF Reasons
  <2>2. CASE e.priority = 8 /\ MemoryBoundary > 0 /\ (\E t \in e.blocks[1].shows : t <= MemoryBoundary)
    <3>1. g = [e EXCEPT !.reason = "superseded_memory"]
      BY <1>8, <2>2 DEF Recalled
    <3> QED
      BY <3>1 DEF Reasons
  <2>3. CASE /\ e.priority = 8 /\ ~(MemoryBoundary > 0 /\ (\E t \in e.blocks[1].shows : t <= MemoryBoundary))
             /\ \E h \in HistoryGroups : e.blocks[1].shows \subseteq h.blocks[1].shows
    <3>1. g = [e EXCEPT !.reason = "duplicate_content"]
      BY <1>8, <2>3 DEF Recalled
    <3> QED
      BY <3>1 DEF Reasons
  <2>4. CASE /\ e.priority = 8 /\ ~(MemoryBoundary > 0 /\ (\E t \in e.blocks[1].shows : t <= MemoryBoundary))
             /\ ~\E h \in HistoryGroups : e.blocks[1].shows \subseteq h.blocks[1].shows
    <3>1. g = [e EXCEPT !.reason = "none"]
      BY <1>8, <2>4 DEF Recalled
    <3> QED
      BY <2>4, <3>1 DEF Reasons
  <2> QED
    BY <2>1, <2>2, <2>3, <2>4
<1> HIDE DEF g
<1>10. PICK reason \in Reasons :
         /\ g = [e EXCEPT !.reason = reason]
         /\ e.priority = 8 /\ reason = "none" =>
              /\ MemoryBoundary > 0 => \A t \in e.blocks[1].shows : ~(t <= MemoryBoundary)
              /\ \A h \in HistoryGroups : ~(e.blocks[1].shows \subseteq h.blocks[1].shows)
  BY <1>9
<1>11. /\ g \in GroupType /\ g.id = e.id /\ g.required = FALSE /\ g.priority = e.priority /\ g.order = e.order
       /\ g.blocks = e.blocks /\ g.reason = reason
  BY <1>7, <1>10 DEF GroupType
<1>12. e.blocks[1] = b /\ (e.priority = 8 <=> c.kind # "passage") /\ e.priority \in {5, 8}
  BY <1>5, <1>7 DEF IsPassage
<1> QED
  BY <1>2, <1>3, <1>5, <1>6, <1>7, <1>10, <1>11, <1>12 DEF g

LEMMA EvidenceFamily ==
  ASSUME found.candidates \in Seq(Candidates)
  PROVE  /\ Family(EvidenceGroups, FoundIds)
         /\ \A g \in EvidenceGroups : ~g.required /\ \E i \in DOMAIN found.candidates : g = FoundGroup(i)
<1>1. DOMAIN found.candidates = 1..Len(found.candidates) /\ Len(found.candidates) \in Nat
  BY ElementOf
<1>2. EvidenceGroups = {FoundGroup(i) : i \in DOMAIN found.candidates}
  BY DEF EvidenceGroups, FoundGroup
<1>3. IsFiniteSet(EvidenceGroups)
  <2> DEFINE f == [i \in DOMAIN found.candidates |-> FoundGroup(i)]
  <2>1. f \in Surjection(DOMAIN found.candidates, EvidenceGroups)
    BY <1>2 DEF Surjection
  <2>2. IsFiniteSet(DOMAIN found.candidates)
    BY <1>1, FS_Interval
  <2> HIDE DEF f
  <2> QED
    BY <2>1, <2>2, FS_Surjection
<1>4. \A g \in EvidenceGroups : \E i \in DOMAIN found.candidates : g = FoundGroup(i)
  BY <1>2
<1>5. \A g \in EvidenceGroups : g \in GroupType /\ g.id \in FoundIds /\ g.blocks # <<>> /\ ~g.required
  BY <1>4, FoundGroupIs
<1>6. ASSUME NEW g \in EvidenceGroups, NEW h \in EvidenceGroups, g.id = h.id PROVE g = h
  <2>1. PICK i \in DOMAIN found.candidates, j \in DOMAIN found.candidates : g = FoundGroup(i) /\ h = FoundGroup(j)
    BY <1>4
  <2>2. g.id = FoundRef(i) /\ h.id = FoundRef(j) /\ i \in Nat /\ j \in Nat
    BY <1>1, <2>1, FoundGroupIs
  <2>3. 11 + 2 * i = 11 + 2 * j
    BY <1>6, <2>2 DEF FoundRef
  <2> QED
    BY <2>1, <2>2, <2>3
<1> QED
  BY <1>3, <1>4, <1>5, <1>6 DEF Family

LEMMA PolicyIs ==
  /\ Policy \in GroupType /\ Policy.id = PolicyRef /\ Policy.required /\ Policy.reason = "none"
  /\ Policy.blocks # <<>> /\ Len(Policy.blocks) = 1
  /\ Policy.blocks[1].kind = "instruction" /\ Policy.blocks[1].shows = {}
<1>1. PolicyTokens \in Nat
  BY PlanAssumption
<1> DEFINE b == Block("instruction", PolicyTokens, {})
<1>2. b \in BlockType /\ b.kind = "instruction" /\ b.shows = {}
  BY <1>1 DEF BlockType, Block, Kinds
<1> HIDE DEF b
<1>3. <<b>> \in Seq(BlockType) /\ Len(<<b>>) = 1 /\ <<b>>[1] = b /\ <<b>> # <<>>
  BY <1>2
<1>4. Policy = Group(PolicyRef, TRUE, 1, NoScore, 0, <<b>>)
  BY DEF Policy, b
<1>5. Policy \in GroupType /\ Policy.id = PolicyRef /\ Policy.required = TRUE /\ Policy.reason = "none"
      /\ Policy.blocks = <<b>>
  BY <1>3, <1>4 DEF Group, GroupType, Reasons, PolicyRef, NoScore
<1> QED
  BY <1>2, <1>3, <1>5

BaseGroups == (CoreGroups \cup MemoryGroups) \cup HistoryGroups
BaseIds == (CoreIds \cup {MemoryRef}) \cup TurnIds
PlanIds == BaseIds \cup ({PolicyRef} \cup FoundIds)

\* The groups of a plan, whether it is degraded or not.
LEMMA PlanFamily ==
  ASSUME facts \in PlanRequests, found \in FoundType
  PROVE  /\ Family(PlanGroups, PlanIds) /\ MessageGroup \in PlanGroups
         /\ found.outcome = "degraded" =>
              \A g \in PlanGroups : g = Policy \/ (g \in BaseGroups /\ \A i \in DOMAIN g.blocks : g.blocks[i].kind \in KeptWhenDegraded)
         /\ \A g \in PlanGroups : g = Policy \/ g \in BaseGroups \/ (g \in EvidenceGroups /\ found.outcome # "degraded")
<1>1. Family(CoreGroups \cup MemoryGroups, CoreIds \cup {MemoryRef})
  BY CoreFamily, MemoryFamily, FamiliesJoin DEF CoreIds, MemoryRef, AgentRef, MessageRef, ToolRef
<1>2. (CoreIds \cup {MemoryRef}) \cap TurnIds = {}
  BY DEF CoreIds, MemoryRef, AgentRef, MessageRef, ToolRef, TurnIds, TurnRef
<1>3. Family(BaseGroups, BaseIds)
  BY <1>1, <1>2, HistoryFamily, FamiliesJoin DEF BaseGroups, BaseIds
<1>4. BaseIds \cap {PolicyRef} = {} /\ BaseIds \cap FoundIds = {}
  <2>1. ASSUME NEW n \in Nat, NEW m \in Nat PROVE 11 + 2 * n # 10 + 2 * m
    OBVIOUS
  <2> QED
    BY <2>1 DEF BaseIds, CoreIds, MemoryRef, AgentRef, MessageRef, ToolRef, TurnIds, TurnRef, FoundIds, FoundRef, PolicyRef
<1>5. MessageGroup \in BaseGroups
  BY CoreFamily DEF BaseGroups
<1>6. CASE found.outcome = "degraded"
  <2> DEFINE kept == {g \in BaseGroups : \A i \in DOMAIN g.blocks : g.blocks[i].kind \in KeptWhenDegraded}
  <2>1. PlanGroups = kept \cup {Policy}
    BY <1>6 DEF PlanGroups, Degraded, BaseGroups
  <2>2. Family(kept, BaseIds)
    BY <1>3, FamilyPart
  <2>3. Family({Policy}, {PolicyRef})
    BY PolicyIs, FamilyOfOne
  <2>4. MessageGroup \in kept
    <3>1. MessageGroup.blocks = MessageBlocks
      BY CoreFamily
    <3>2. \A i \in DOMAIN MessageBlocks : MessageBlocks[i].kind \in {"user", "attachment"}
      BY MessageBlocksAre
    <3> QED
      BY <1>5, <3>1, <3>2 DEF KeptWhenDegraded
  <2>5. Family(kept \cup {Policy}, BaseIds \cup {PolicyRef})
    <3> HIDE DEF kept
    <3> QED
      BY <1>4, <2>2, <2>3, FamiliesJoin
  <2>6. Family(PlanGroups, PlanIds)
    BY <2>1, <2>5 DEF Family, PlanIds
  <2> QED
    BY <2>1, <2>4, <2>6
<1>7. CASE found.outcome # "degraded"
  <2>1. PlanGroups = BaseGroups \cup EvidenceGroups
    BY <1>7 DEF PlanGroups, BaseGroups
  <2>2. found.candidates \in Seq(Candidates)
    BY DEF FoundType
  <2>3. Family(BaseGroups \cup EvidenceGroups, BaseIds \cup FoundIds)
    BY <1>3, <1>4, <2>2, EvidenceFamily, FamiliesJoin
  <2>4. Family(PlanGroups, PlanIds)
    BY <2>1, <2>3 DEF Family, PlanIds
  <2> QED
    BY <1>5, <1>7, <2>1, <2>4
<1> QED
  BY <1>6, <1>7

-----------------------------------------------------------------------------
(* The order of a plan, and what is selected in it.                        *)

\* The groups of a plan from the first to the last.
Ranking(o, N, gs) ==
  /\ N \in Nat /\ N = Cardinality(gs) /\ o \in [1..N -> gs]
  /\ \A g \in gs : \E n \in 1..N : o[n] = g
  /\ \A m, n \in 1..N : m < n <=> Before(o[m], o[n])

LEMMA BeforeIsOrder ==
  ASSUME NEW gs, NEW ids, Family(gs, ids), NEW R, R = {p \in gs \X gs : Before(p[1], p[2])}
  PROVE  IsOrder(R, gs) /\ \A x, y \in gs : <<x, y>> \in R <=> Before(x, y)
<1>1. /\ \A x, y \in gs : <<x, y>> \in R <=> Before(x, y)
      /\ R \subseteq gs \X gs
  OBVIOUS
<1>2. \A x \in gs : x.priority \in Nat /\ x.relevance \in Int /\ x.order \in Nat /\ x.id \in Nat
  BY DEF Family, GroupType
<1>3. \A x, y \in gs : x.id = y.id => x = y
  BY DEF Family
<1>4. \A x \in gs : ~Before(x, x)
  BY <1>2 DEF Before
<1>5. \A x, y, z \in gs : Before(x, y) /\ Before(y, z) => Before(x, z)
  <2> SUFFICES ASSUME NEW x \in gs, NEW y \in gs, NEW z \in gs, Before(x, y), Before(y, z) PROVE Before(x, z)
    OBVIOUS
  <2>1. PICK xp \in Nat, yp \in Nat, zp \in Nat : xp = x.priority /\ yp = y.priority /\ zp = z.priority
    BY <1>2
  <2>2. PICK xr \in Int, yr \in Int, zr \in Int : xr = x.relevance /\ yr = y.relevance /\ zr = z.relevance
    BY <1>2
  <2>3. PICK xo \in Nat, yo \in Nat, zo \in Nat : xo = x.order /\ yo = y.order /\ zo = z.order
    BY <1>2
  <2>4. PICK xi \in Nat, yi \in Nat, zi \in Nat : xi = x.id /\ yi = y.id /\ zi = z.id
    BY <1>2
  <2>5. xp < yp \/ (xp = yp /\ (xr > yr \/ (xr = yr /\ (xo > yo \/ (xo = yo /\ xi < yi)))))
    BY <2>1, <2>2, <2>3, <2>4 DEF Before
  <2>6. yp < zp \/ (yp = zp /\ (yr > zr \/ (yr = zr /\ (yo > zo \/ (yo = zo /\ yi < zi)))))
    BY <2>1, <2>2, <2>3, <2>4 DEF Before
  <2>7. xp < zp \/ (xp = zp /\ (xr > zr \/ (xr = zr /\ (xo > zo \/ (xo = zo /\ xi < zi)))))
    BY <2>5, <2>6
  <2> QED
    BY <2>1, <2>2, <2>3, <2>4, <2>7 DEF Before
<1>6. \A x, y \in gs : x # y => Before(x, y) \/ Before(y, x)
  BY <1>2, <1>3 DEF Before
<1> QED
  BY <1>1, <1>4, <1>5, <1>6 DEF IsOrder

\* The group with n - 1 groups before it.
Placed(gs, n) == CHOOSE x \in gs : Cardinality({y \in gs : Before(y, x)}) = n - 1

LEMMA RankingIs ==
  ASSUME NEW gs, NEW ids, Family(gs, ids)
  PROVE  \E N \in Nat : \E o : o = Ordered(gs, Before) /\ Ranking(o, N, gs)
<1> DEFINE R == {p \in gs \X gs : Before(p[1], p[2])}
           N == Cardinality(gs)
<1>1. IsOrder(R, gs) /\ \A x, y \in gs : <<x, y>> \in R <=> Before(x, y)
  BY BeforeIsOrder
<1>2. IsFiniteSet(gs)
  BY DEF Family
<1>3. PICK e : e = [n \in 1..N |-> Placed(gs, n)]
  OBVIOUS
<1>4. Ranks(e, R, gs, N)
  <2> HIDE DEF N
  <2>1. e = [n \in 1..N |-> e[n]]
    BY <1>3
  <2>2. ASSUME NEW n \in 1..N
        PROVE  e[n] = CHOOSE x \in gs : Cardinality({y \in gs : <<y, x>> \in R}) = n - 1
    <3>1. e[n] = CHOOSE x \in gs : Cardinality({y \in gs : Before(y, x)}) = n - 1
      <4>1. e[n] = Placed(gs, n)
        BY <1>3
      <4> QED
        BY <4>1 DEF Placed
    <3> HIDE DEF R
    <3>2. \A x \in gs : {y \in gs : Before(y, x)} = {y \in gs : <<y, x>> \in R}
      BY <1>1
    <3>3. \A x : (x \in gs /\ Cardinality({y \in gs : Before(y, x)}) = n - 1)
                 <=> (x \in gs /\ Cardinality({y \in gs : <<y, x>> \in R}) = n - 1)
      BY <3>2
    <3>4. (CHOOSE x \in gs : Cardinality({y \in gs : Before(y, x)}) = n - 1)
          = (CHOOSE x \in gs : Cardinality({y \in gs : <<y, x>> \in R}) = n - 1)
      BY <3>3
    <3> QED
      BY <3>1, <3>4, Zenon
  <2> HIDE DEF R
  <2> QED
    BY <2>1, <2>2, Zenon DEF Ranks
<1>5. /\ N \in Nat /\ e \in [1..N -> gs]
      /\ \A x \in gs : \E n \in 1..N : e[n] = x
      /\ \A m, n \in 1..N : m < n <=> <<e[m], e[n]>> \in R
  <2>1. N = Cardinality(gs)
    OBVIOUS
  <2> HIDE DEF R, N
  <2> QED
    BY <1>1, <1>2, <1>4, <2>1, OrderIs
<1>6. \A m, n \in 1..N : m < n <=> Before(e[m], e[n])
  <2> SUFFICES ASSUME NEW m \in 1..N, NEW n \in 1..N PROVE m < n <=> Before(e[m], e[n])
    OBVIOUS
  <2>1. e[m] \in gs /\ e[n] \in gs
    BY <1>5
  <2> HIDE DEF R
  <2> QED
    BY <1>1, <1>5, <2>1, Zenon
<1>7. e = Ordered(gs, Before)
  BY <1>3 DEF Ordered, Placed
<1>8. N = Cardinality(gs)
  OBVIOUS
<1> HIDE DEF N, R
<1>9. Ranking(e, N, gs)
  BY <1>5, <1>6, <1>8 DEF Ranking
<1> QED
  BY <1>5, <1>7, <1>9

\* Nothing is before itself, and of two groups one is before the other.
LEMMA RankingOrders ==
  ASSUME NEW gs, NEW o, NEW N, Ranking(o, N, gs), NEW m \in 1..N, NEW n \in 1..N
  PROVE  (o[m] = o[n] => m = n) /\ (m < n \/ m = n \/ Before(o[n], o[m]))
<1>1. N \in Nat /\ (m < n <=> Before(o[m], o[n])) /\ (n < m <=> Before(o[n], o[m]))
  BY DEF Ranking
<1>2. (m < m <=> Before(o[m], o[m]))
  BY DEF Ranking
<1>3. m \in Nat /\ n \in Nat /\ (m < n \/ n < m \/ m = n) /\ ~(m < m)
  BY <1>1
<1> QED
  BY <1>1, <1>2, <1>3

-----------------------------------------------------------------------------
(* Tokens of groups.                                                       *)

LEMMA WeightAgrees ==
  ASSUME NEW P, IsFiniteSet(P), NEW v, NEW w, \A p \in P : v[p] \in Nat /\ v[p] = w[p]
  PROVE  Weight(P, v) = Weight(P, w)
<1>1. PICK e : e = [p \in P |-> p]
  OBVIOUS
<1>2. /\ e \in [P -> P]
      /\ \A p, q \in P : e[p] = e[q] => p = q
      /\ \A q \in P : \E p \in P : e[p] = q
      /\ \A p \in P : v[p] \in Nat /\ v[p] = w[e[p]]
  BY <1>1
<1> QED
  BY <1>2, WeightMoves

BlockTokens(A) == [p \in BlocksOf(A) |-> p[1].blocks[p[2]].tokens]

LEMMA BlocksAre ==
  ASSUME NEW g \in GroupType
  PROVE  /\ Len(g.blocks) \in Nat /\ DOMAIN g.blocks = 1..Len(g.blocks) /\ IsFiniteSet(DOMAIN g.blocks)
         /\ \A i \in DOMAIN g.blocks :
              /\ g.blocks[i] \in BlockType /\ g.blocks[i].tokens \in Nat /\ g.blocks[i].kind \in Kinds
              /\ g.blocks[i].shows \in SUBSET Nat
<1>1. g.blocks \in Seq(BlockType)
  BY DEF GroupType
<1>2. /\ DOMAIN g.blocks = 1..Len(g.blocks) /\ Len(g.blocks) \in Nat
      /\ \A i \in DOMAIN g.blocks : g.blocks[i] \in BlockType
  BY <1>1, ElementOf
<1>3. IsFiniteSet(DOMAIN g.blocks)
  BY <1>2, FS_Interval
<1>4. \A b \in BlockType : b.tokens \in Nat /\ b.kind \in Kinds /\ b.shows \in SUBSET Nat
  BY DEF BlockType
<1> QED
  BY <1>2, <1>3, <1>4

LEMMA BlockOf ==
  ASSUME NEW A, NEW p
  PROVE  p \in BlocksOf(A) <=> \E g \in A : \E i \in DOMAIN g.blocks : p = <<g, i>>
BY DEF BlocksOf

LEMMA BlocksFinite ==
  ASSUME NEW A, IsFiniteSet(A), A \subseteq GroupType
  PROVE  /\ IsFiniteSet(BlocksOf(A)) /\ CoverageOf(A) = Weight(BlocksOf(A), BlockTokens(A))
         /\ \A p \in BlocksOf(A) : BlockTokens(A)[p] \in Nat /\ BlockTokens(A)[p] = p[1].blocks[p[2]].tokens
         /\ CoverageOf(A) \in Nat
<1> DEFINE f == [g \in A |-> {g} \X DOMAIN g.blocks]
           U == {{g} \X DOMAIN g.blocks : g \in A}
<1>1. f \in Surjection(A, U)
  BY DEF Surjection
<1>2. IsFiniteSet(U)
  <2> HIDE DEF f, U
  <2> QED
    BY <1>1, FS_Surjection
<1>3. ASSUME NEW g \in A PROVE IsFiniteSet({g} \X DOMAIN g.blocks)
  <2>1. IsFiniteSet({g}) /\ IsFiniteSet(DOMAIN g.blocks)
    BY BlocksAre, FS_Singleton
  <2> QED
    BY <2>1, FS_Product
<1>4. \A T \in U : IsFiniteSet(T)
  BY <1>3
<1>5. IsFiniteSet(UNION U)
  <2> HIDE DEF U
  <2> QED
    BY <1>2, <1>4, FS_UNION
<1>6. BlocksOf(A) = UNION U
  BY DEF BlocksOf
<1>7. ASSUME NEW p \in BlocksOf(A)
      PROVE  BlockTokens(A)[p] \in Nat /\ BlockTokens(A)[p] = p[1].blocks[p[2]].tokens
  <2>1. PICK g \in A : \E i \in DOMAIN g.blocks : p = <<g, i>>
    BY <1>7, BlockOf
  <2>2. PICK i \in DOMAIN g.blocks : p = <<g, i>>
    BY <2>1
  <2>3. g.blocks[i].tokens \in Nat
    BY <2>2, BlocksAre
  <2> QED
    BY <1>7, <2>2, <2>3 DEF BlockTokens
<1>8. CoverageOf(A) = Weight(BlocksOf(A), BlockTokens(A))
  BY Zenon DEF CoverageOf, BlockTokens
<1> HIDE DEF U
<1>9. IsFiniteSet(BlocksOf(A))
  BY <1>5, <1>6
<1>10. Weight(BlocksOf(A), BlockTokens(A)) \in Nat
  BY <1>7, <1>9, SpotsFinite
<1> QED
  BY <1>7, <1>8, <1>9, <1>10

LEMMA CoverageJoins ==
  ASSUME NEW A, NEW B, IsFiniteSet(A), IsFiniteSet(B), A \subseteq GroupType, B \subseteq GroupType, A \cap B = {}
  PROVE  /\ CoverageOf(A \cup B) = CoverageOf(A) + CoverageOf(B)
         /\ CoverageOf(A) \in Nat /\ CoverageOf(B) \in Nat /\ CoverageOf(A \cup B) \in Nat
<1>1. IsFiniteSet(A \cup B) /\ A \cup B \subseteq GroupType
  BY FS_Union
<1>2. PICK C : C = A \cup B
  OBVIOUS
<1>3. /\ IsFiniteSet(BlocksOf(C)) /\ CoverageOf(C) = Weight(BlocksOf(C), BlockTokens(C))
      /\ \A p \in BlocksOf(C) : BlockTokens(C)[p] \in Nat /\ BlockTokens(C)[p] = p[1].blocks[p[2]].tokens
      /\ CoverageOf(C) \in Nat
  BY <1>1, <1>2, BlocksFinite
<1>4. /\ IsFiniteSet(BlocksOf(A)) /\ CoverageOf(A) = Weight(BlocksOf(A), BlockTokens(A))
      /\ \A p \in BlocksOf(A) : BlockTokens(A)[p] \in Nat /\ BlockTokens(A)[p] = p[1].blocks[p[2]].tokens
      /\ CoverageOf(A) \in Nat
  BY BlocksFinite
<1>5. /\ IsFiniteSet(BlocksOf(B)) /\ CoverageOf(B) = Weight(BlocksOf(B), BlockTokens(B))
      /\ \A p \in BlocksOf(B) : BlockTokens(B)[p] \in Nat /\ BlockTokens(B)[p] = p[1].blocks[p[2]].tokens
      /\ CoverageOf(B) \in Nat
  BY BlocksFinite
<1>6. BlocksOf(C) = BlocksOf(A) \cup BlocksOf(B)
  BY <1>2 DEF BlocksOf
<1>7. BlocksOf(A) \cap BlocksOf(B) = {}
  <2>1. \A p \in BlocksOf(A) : p[1] \in A
    BY BlockOf
  <2>2. \A p \in BlocksOf(B) : p[1] \in B
    BY BlockOf
  <2> QED
    BY <2>1, <2>2
<1>8. Weight(BlocksOf(C), BlockTokens(C)) = Weight(BlocksOf(A), BlockTokens(C)) + Weight(BlocksOf(B), BlockTokens(C))
  <2>1. \A p \in BlocksOf(A) \cup BlocksOf(B) : BlockTokens(C)[p] \in Nat
    BY <1>3, <1>6
  <2> QED
    BY <1>4, <1>5, <1>6, <1>7, <2>1, WeightJoins
<1>9. Weight(BlocksOf(A), BlockTokens(A)) = Weight(BlocksOf(A), BlockTokens(C))
  <2>1. \A p \in BlocksOf(A) : BlockTokens(A)[p] \in Nat /\ BlockTokens(A)[p] = BlockTokens(C)[p]
    BY <1>3, <1>4, <1>6
  <2> QED
    BY <1>4, <2>1, WeightAgrees
<1>10. Weight(BlocksOf(B), BlockTokens(B)) = Weight(BlocksOf(B), BlockTokens(C))
  <2>1. \A p \in BlocksOf(B) : BlockTokens(B)[p] \in Nat /\ BlockTokens(B)[p] = BlockTokens(C)[p]
    BY <1>3, <1>5, <1>6
  <2> QED
    BY <1>5, <2>1, WeightAgrees
<1>11. CoverageOf(C) = CoverageOf(A) + CoverageOf(B)
  BY <1>3, <1>4, <1>5, <1>8, <1>9, <1>10
<1> QED
  BY <1>2, <1>3, <1>4, <1>5, <1>11

LEMMA CoverageWithin ==
  ASSUME NEW B, IsFiniteSet(B), B \subseteq GroupType, NEW A \in SUBSET B
  PROVE  CoverageOf(A) <= CoverageOf(B) /\ CoverageOf(A) \in Nat /\ CoverageOf(B) \in Nat
<1>1. IsFiniteSet(A) /\ IsFiniteSet(B \ A) /\ A \subseteq GroupType /\ B \ A \subseteq GroupType
  BY FS_Subset
<1>2. A \cap (B \ A) = {} /\ A \cup (B \ A) = B
  OBVIOUS
<1>3. /\ CoverageOf(A \cup (B \ A)) = CoverageOf(A) + CoverageOf(B \ A)
      /\ CoverageOf(A) \in Nat /\ CoverageOf(B \ A) \in Nat
  BY <1>1, <1>2, CoverageJoins
<1>4. PICK x \in Nat, y \in Nat : x = CoverageOf(A) /\ y = CoverageOf(B \ A)
  BY <1>3
<1>5. CoverageOf(B) = x + y
  BY <1>2, <1>3, <1>4
<1> QED
  BY <1>4, <1>5

LEMMA CoverageOfOne ==
  ASSUME NEW g \in GroupType
  PROVE  CoverageOf({g}) = TokensOf(g.blocks) /\ TokensOf(g.blocks) \in Nat
<1>1. PICK P, v, D, w : /\ P = BlocksOf({g}) /\ v = BlockTokens({g}) /\ D = DOMAIN g.blocks
                        /\ w = [i \in DOMAIN g.blocks |-> g.blocks[i].tokens]
  OBVIOUS
<1>2. /\ IsFiniteSet(P) /\ CoverageOf({g}) = Weight(P, v)
      /\ \A p \in P : v[p] \in Nat /\ v[p] = p[1].blocks[p[2]].tokens
      /\ CoverageOf({g}) \in Nat
  BY <1>1, FS_Singleton, BlocksFinite
<1>3. \A p : p \in P <=> \E i \in D : p = <<g, i>>
  BY <1>1, BlockOf
<1>4. PICK e : e = [p \in P |-> p[2]]
  OBVIOUS
<1>5. \A i \in D : <<g, i>> \in P /\ e[<<g, i>>] = i
  BY <1>3, <1>4
<1>6. \A p \in P : \E i \in D : p = <<g, i>> /\ e[p] = i
  BY <1>3, <1>5
<1>7. \A p \in P : e[p] \in D /\ p = <<g, e[p]>>
  BY <1>6
<1>8. e \in [P -> D]
  BY <1>4, <1>7
<1>9. \A p, q \in P : e[p] = e[q] => p = q
  BY <1>7
<1>10. \A i \in D : \E p \in P : e[p] = i
  BY <1>5
<1>11. \A p \in P : v[p] \in Nat /\ v[p] = w[e[p]]
  <2> SUFFICES ASSUME NEW p \in P PROVE v[p] = w[e[p]]
    BY <1>2
  <2>1. PICK i \in D : p = <<g, i>> /\ e[p] = i
    BY <1>6
  <2>2. w[i] = g.blocks[i].tokens /\ p[1] = g /\ p[2] = i
    BY <1>1, <2>1
  <2> QED
    BY <1>2, <2>1, <2>2
<1>12. Weight(P, v) = Weight(D, w)
  BY <1>2, <1>8, <1>9, <1>10, <1>11, WeightMoves
<1>13. TokensOf(g.blocks) = Weight(D, w)
  BY <1>1 DEF TokensOf
<1> QED
  BY <1>2, <1>12, <1>13

-----------------------------------------------------------------------------
(* What a plan selects.                                                    *)

\* A function defined step by step from its first value.
Closed(G, n, T) == \A k \in 1..n : \A t \in T : G[k][t] \in T
Steps(f, b, G, n, T) == f \in [0..n -> T] /\ f[0] = b /\ \A k \in 1..n : f[k] = G[k][f[k - 1]]

LEMMA StepsExist ==
  ASSUME NEW n \in Nat, NEW T, NEW b \in T, NEW G, Closed(G, n, T)
  PROVE  \E f : Steps(f, b, G, n, T)
<1> DEFINE P == {m \in 0..n : \E f \in [0..m -> T] : f[0] = b /\ \A k \in 1..m : f[k] = G[k][f[k - 1]]}
<1>1. 0 \in P
  <2>1. PICK g : g = [k \in 0..0 |-> b]
    OBVIOUS
  <2>2. g \in [0..0 -> T] /\ g[0] = b /\ \A k \in 1..0 : g[k] = G[k][g[k - 1]]
    BY <2>1
  <2>3. 0 \in 0..n
    OBVIOUS
  <2> QED
    BY <2>2, <2>3
<1>2. ASSUME NEW m \in P, m < n PROVE m + 1 \in P
  <2>1. m \in 0..n /\ m + 1 \in 0..n /\ m + 1 \in 1..n
    BY <1>2
  <2>2. PICK f \in [0..m -> T] : f[0] = b /\ \A k \in 1..m : f[k] = G[k][f[k - 1]]
    OBVIOUS
  <2>3. PICK v \in T : v = G[m + 1][f[m]]
    <3>1. f[m] \in T
      BY <2>1
    <3> QED
      BY <2>1, <3>1 DEF Closed
  <2>4. PICK g : g = [k \in 0..(m + 1) |-> IF k = m + 1 THEN v ELSE f[k]]
    OBVIOUS
  <2>5. g \in [0..(m + 1) -> T] /\ g[m + 1] = v /\ \A k \in 0..m : g[k] = f[k]
    BY <2>1, <2>4
  <2>6. ASSUME NEW k \in 1..(m + 1) PROVE g[k] = G[k][g[k - 1]]
    <3>1. CASE k = m + 1
      <4>1. k - 1 = m /\ m \in 0..m
        BY <2>1, <3>1
      <4> QED
        BY <2>3, <2>5, <3>1, <4>1
    <3>2. CASE k \in 1..m
      <4>1. k \in 0..m /\ k - 1 \in 0..m
        BY <2>1, <3>2
      <4> QED
        BY <2>2, <2>5, <3>2, <4>1
    <3> QED
      BY <2>1, <3>1, <3>2
  <2>7. g[0] = b
    BY <2>1, <2>2, <2>5
  <2> QED
    BY <2>1, <2>5, <2>6, <2>7
<1>3. P \in SUBSET (0..n)
  OBVIOUS
<1> HIDE DEF P
<1>4. P = 0..n
  BY <1>1, <1>2, <1>3, BoundedInduction
<1>5. n \in P
  BY <1>4
<1>6. PICK f \in [0..n -> T] : f[0] = b /\ \A k \in 1..n : f[k] = G[k][f[k - 1]]
  BY <1>5 DEF P
<1> QED
  BY <1>6, Zenon DEF Steps

RequiredIds(gs) == {g.id : g \in {h \in gs : h.required}}

\* The names chosen and the tokens left after each group.
Chooses(c, l, o, N, gs) ==
  /\ c \in [0..N -> SUBSET Nat] /\ l \in [0..N -> Int]
  /\ c[0] = RequiredIds(gs) /\ l[0] = facts.budget - RequiredTokens(gs)
  /\ \A n \in 1..N : Choose(c[n - 1], l[n - 1], o[n]) = [chosen |-> c[n], left |-> l[n]]
  /\ Selection(gs, facts.budget) = [chosen |-> c[N], left |-> l[N]]

LEMMA RequiredIs ==
  ASSUME NEW gs, NEW ids, Family(gs, ids)
  PROVE  RequiredTokens(gs) \in Nat /\ RequiredIds(gs) \in SUBSET Nat
<1>1. IsFiniteSet({g \in gs : g.required}) /\ {g \in gs : g.required} \subseteq GroupType
  BY FS_Subset DEF Family
<1>2. \A g \in gs : g.id \in Nat
  BY DEF Family, GroupType
<1> QED
  BY <1>1, <1>2, BlocksFinite DEF RequiredTokens, RequiredIds

LEMMA SelectionSteps ==
  ASSUME NEW gs, NEW ids, Family(gs, ids), facts.budget \in Nat,
         NEW N \in Nat, NEW o, o = Ordered(gs, Before), Ranking(o, N, gs)
  PROVE  \E c, l : Chooses(c, l, o, N, gs)
<1>1. o \in [1..N -> gs] /\ Len(o) = N
  BY DEF Ranking
<1>2. PICK T : T = [chosen : SUBSET Nat, left : Int]
  OBVIOUS
<1>3. PICK b \in T : b = [chosen |-> RequiredIds(gs), left |-> facts.budget - RequiredTokens(gs)]
  <2>1. RequiredTokens(gs) \in Nat /\ RequiredIds(gs) \in SUBSET Nat
    BY RequiredIs
  <2>2. facts.budget - RequiredTokens(gs) \in Int
    BY <2>1
  <2> QED
    BY <1>2, <2>1, <2>2
<1>4. PICK G : G = [k \in 1..N |-> [t \in T |-> Choose(t.chosen, t.left, o[k])]]
  OBVIOUS
<1>5. \A k \in 1..N : \A t \in T : G[k][t] = Choose(t.chosen, t.left, o[k])
  BY <1>4
<1>6. ASSUME NEW k \in 1..N, NEW t \in T PROVE G[k][t] \in T
  <2>1. o[k] \in gs /\ o[k] \in GroupType
    BY <1>1 DEF Family
  <2>2. o[k].id \in Nat /\ TokensOf(o[k].blocks) \in Nat
    BY <2>1, CoverageOfOne DEF GroupType
  <2>3. t.chosen \in SUBSET Nat /\ t.left \in Int
    BY <1>2
  <2>4. t.chosen \cup {o[k].id} \in SUBSET Nat /\ t.left - TokensOf(o[k].blocks) \in Int
    BY <2>2, <2>3
  <2>5. Choose(t.chosen, t.left, o[k]) \in [chosen : SUBSET Nat, left : Int]
    BY <2>3, <2>4 DEF Choose
  <2> QED
    BY <1>2, <1>5, <2>5
<1>7. PICK f \in [0..N -> T] : f[0] = b /\ \A k \in 1..N : f[k] = G[k][f[k - 1]]
  <2>1. Closed(G, N, T)
    BY <1>6 DEF Closed
  <2>2. PICK f : Steps(f, b, G, N, T)
    BY <2>1, StepsExist
  <2> QED
    BY <2>2 DEF Steps
<1> DEFINE taken[n \in 0..Len(o)] == IF n = 0 THEN b ELSE Choose(taken[n - 1].chosen, taken[n - 1].left, o[n])
<1>8. f = [n \in 0..N |-> IF n = 0 THEN b ELSE Choose(f[n - 1].chosen, f[n - 1].left, o[n])]
  <2>1. ASSUME NEW n \in 0..N
        PROVE  f[n] = IF n = 0 THEN b ELSE Choose(f[n - 1].chosen, f[n - 1].left, o[n])
    <3>1. CASE n = 0
      BY <1>7, <3>1
    <3>2. CASE n # 0
      <4>1. n \in 1..N /\ n - 1 \in 0..N
        BY <3>2
      <4>2. f[n - 1] \in T
        BY <1>7, <4>1
      <4> QED
        BY <1>5, <1>7, <3>2, <4>1, <4>2
    <3> QED
      BY <3>1, <3>2
  <2> QED
    BY <1>7, <2>1
<1>9. taken = [n \in 0..Len(o) |-> IF n = 0 THEN b ELSE Choose(taken[n - 1].chosen, taken[n - 1].left, o[n])]
  BY <1>1, <1>8
<1>10. Selection(gs, facts.budget) = taken[Len(o)]
  BY <1>3 DEF Selection, RequiredIds
<1> HIDE DEF taken
<1>11. \A n \in 0..N : taken[n] = IF n = 0 THEN b ELSE Choose(taken[n - 1].chosen, taken[n - 1].left, o[n])
  BY <1>1, <1>9
<1>12. \A n \in 0..N : taken[n] = f[n]
  <2> DEFINE Q == {k \in 0..N : taken[k] = f[k]}
  <2>1. 0 \in Q
    BY <1>7, <1>11
  <2>2. ASSUME NEW k \in Q, k < N PROVE k + 1 \in Q
    <3>1. k + 1 \in 0..N /\ k + 1 # 0 /\ (k + 1) - 1 = k /\ k \in 0..N /\ taken[k] = f[k]
      BY <2>2
    <3>2. taken[k + 1] = Choose(taken[k].chosen, taken[k].left, o[k + 1])
      BY <1>11, <3>1
    <3>3. f[k + 1] = Choose(f[k].chosen, f[k].left, o[k + 1])
      BY <1>8, <3>1
    <3> QED
      BY <3>1, <3>2, <3>3
  <2>3. Q \in SUBSET (0..N)
    OBVIOUS
  <2> HIDE DEF Q
  <2>4. Q = 0..N
    BY <2>1, <2>2, <2>3, BoundedInduction
  <2> QED
    BY <2>4 DEF Q
<1>13. PICK c, l : c = [n \in 0..N |-> f[n].chosen] /\ l = [n \in 0..N |-> f[n].left]
  OBVIOUS
<1>14. ASSUME NEW n \in 0..N PROVE f[n].chosen \in SUBSET Nat /\ f[n].left \in Int
                                  /\ f[n] = [chosen |-> c[n], left |-> l[n]]
  <2>1. f[n] \in [chosen : SUBSET Nat, left : Int]
    BY <1>2, <1>7
  <2> QED
    BY <1>13, <2>1
<1>15. c \in [0..N -> SUBSET Nat] /\ l \in [0..N -> Int]
  BY <1>13, <1>14
<1>16. c[0] = RequiredIds(gs) /\ l[0] = facts.budget - RequiredTokens(gs)
  BY <1>3, <1>7, <1>13
<1>17. ASSUME NEW n \in 1..N PROVE Choose(c[n - 1], l[n - 1], o[n]) = [chosen |-> c[n], left |-> l[n]]
  <2>1. n \in 0..N /\ n - 1 \in 0..N /\ n # 0
    OBVIOUS
  <2>2. f[n] = Choose(f[n - 1].chosen, f[n - 1].left, o[n])
    BY <1>8, <2>1
  <2>3. c[n - 1] = f[n - 1].chosen /\ l[n - 1] = f[n - 1].left
    BY <1>13, <2>1
  <2> QED
    BY <1>14, <2>1, <2>2, <2>3
<1>18. Selection(gs, facts.budget) = [chosen |-> c[N], left |-> l[N]]
  BY <1>1, <1>10, <1>12, <1>14
<1> QED
  BY <1>15, <1>16, <1>17, <1>18 DEF Chooses

\* The groups some names stand for.
Named(gs, names) == {g \in gs : g.id \in names}

\* What is chosen up to a group, and what is given up there.
Greedy(c, l, o, n, gs) ==
  /\ l[n] = facts.budget - CoverageOf(Named(gs, c[n]))
  /\ {g \in gs : g.required} \subseteq Named(gs, c[n])
  /\ \A g \in Named(gs, c[n]) : g.required \/ (g.reason = "none" /\ \E m \in 1..n : o[m] = g)
  /\ RequiredTokens(gs) <= facts.budget => l[n] >= 0
  /\ \A m \in 0..n : c[m] \subseteq c[n]
  /\ \A m \in 1..n : o[m].id \notin c[n] /\ o[m].reason = "none" => TokensOf(o[m].blocks) > l[m - 1]

LEMMA GreedyStarts ==
  ASSUME NEW gs, NEW ids, Family(gs, ids), facts.budget \in Nat,
         NEW N \in Nat, NEW o, NEW c, NEW l, Ranking(o, N, gs), Chooses(c, l, o, N, gs)
  PROVE  Greedy(c, l, o, 0, gs)
<1>1. Named(gs, c[0]) = {g \in gs : g.required}
  <2>1. \A g, h \in gs : g.id = h.id => g = h
    BY DEF Family
  <2>2. c[0] = RequiredIds(gs)
    BY DEF Chooses
  <2> QED
    BY <2>1, <2>2 DEF Named, RequiredIds
<1>2. l[0] = facts.budget - RequiredTokens(gs) /\ RequiredTokens(gs) \in Nat
  BY RequiredIs DEF Chooses
<1>3. CoverageOf(Named(gs, c[0])) = RequiredTokens(gs)
  BY <1>1 DEF RequiredTokens
<1>4. RequiredTokens(gs) <= facts.budget => l[0] >= 0
  BY <1>2
<1>5. \A m \in 0..0 : c[m] \subseteq c[0]
  OBVIOUS
<1>6. \A m \in 1..0 : FALSE
  OBVIOUS
<1>7. \A g \in Named(gs, c[0]) : g.required
  BY <1>1
<1> QED
  BY <1>1, <1>2, <1>3, <1>4, <1>5, <1>6, <1>7 DEF Greedy

LEMMA GreedyStep ==
  ASSUME NEW gs, NEW ids, Family(gs, ids), facts.budget \in Nat,
         NEW N \in Nat, NEW o, NEW c, NEW l, Ranking(o, N, gs), Chooses(c, l, o, N, gs),
         NEW n \in 0..N, n < N, Greedy(c, l, o, n, gs)
  PROVE  Greedy(c, l, o, n + 1, gs)
<1>1. n + 1 \in 1..N /\ n + 1 \in 0..N /\ (n + 1) - 1 = n /\ n \in Nat
  OBVIOUS
<1>2. PICK g \in gs : g = o[n + 1]
  BY <1>1 DEF Ranking
<1>3. PICK K, L : K = Named(gs, c[n]) /\ L = Named(gs, c[n + 1])
  OBVIOUS
<1>4. Choose(c[n], l[n], g) = [chosen |-> c[n + 1], left |-> l[n + 1]]
  BY <1>1, <1>2 DEF Chooses
<1>5. /\ l[n] = facts.budget - CoverageOf(K) /\ {h \in gs : h.required} \subseteq K
      /\ \A h \in K : h.required \/ (h.reason = "none" /\ \E m \in 1..n : o[m] = h)
      /\ RequiredTokens(gs) <= facts.budget => l[n] >= 0
      /\ \A m \in 0..n : c[m] \subseteq c[n]
      /\ \A m \in 1..n : o[m].id \notin c[n] /\ o[m].reason = "none" => TokensOf(o[m].blocks) > l[m - 1]
  BY <1>3 DEF Greedy
<1>6. g \in GroupType /\ IsFiniteSet(gs) /\ gs \subseteq GroupType
  BY DEF Family
<1>7. TokensOf(g.blocks) \in Nat /\ CoverageOf({g}) = TokensOf(g.blocks)
  BY <1>6, CoverageOfOne
<1>8. IsFiniteSet(K) /\ K \subseteq GroupType /\ CoverageOf(K) \in Nat
  <2>1. K \subseteq gs
    BY <1>3 DEF Named
  <2>2. IsFiniteSet(K) /\ K \subseteq GroupType
    BY <1>6, <2>1, FS_Subset
  <2> QED
    BY <2>2, BlocksFinite
<1>9. PICK t \in Nat, k \in Nat, b \in Nat : t = TokensOf(g.blocks) /\ k = CoverageOf(K) /\ b = facts.budget
  BY <1>7, <1>8
<1>10. CASE g.required \/ g.reason # "none" \/ t > l[n]
  <2>1. c[n + 1] = c[n] /\ l[n + 1] = l[n]
    <3>1. Choose(c[n], l[n], g) = [chosen |-> c[n], left |-> l[n]]
      BY <1>9, <1>10 DEF Choose
    <3> QED
      BY <1>4, <3>1
  <2>2. L = K
    BY <1>3, <2>1
  <2>3. g.required => g.id \in c[n + 1]
    BY <1>3, <1>5, <2>2 DEF Named
  <2>4. ASSUME NEW m \in 1..(n + 1), o[m].id \notin c[n + 1], o[m].reason = "none" PROVE TokensOf(o[m].blocks) > l[m - 1]
    <3>1. CASE m = n + 1
      BY <1>1, <1>2, <1>9, <1>10, <2>3, <2>4, <3>1
    <3>2. CASE m # n + 1
      <4>1. m \in 1..n
        BY <1>1, <3>2
      <4> QED
        BY <1>5, <2>1, <2>4, <4>1
    <3> QED
      BY <3>1, <3>2
  <2>5. \A m \in 0..(n + 1) : c[m] \subseteq c[n + 1]
    BY <1>1, <1>5, <2>1
  <2>6. \A h \in L : h.required \/ (h.reason = "none" /\ \E m \in 1..(n + 1) : o[m] = h)
    BY <1>1, <1>5, <2>2
  <2>7. Named(gs, c[n + 1]) = K
    BY <1>3, <2>2
  <2> QED
    BY <1>5, <2>1, <2>2, <2>4, <2>5, <2>6, <2>7 DEF Greedy
<1>11. CASE ~(g.required \/ g.reason # "none" \/ t > l[n])
  <2>1. c[n + 1] = c[n] \cup {g.id} /\ l[n + 1] = l[n] - t
    <3>1. Choose(c[n], l[n], g) = [chosen |-> c[n] \cup {g.id}, left |-> l[n] - TokensOf(g.blocks)]
      BY <1>9, <1>11 DEF Choose
    <3> QED
      BY <1>4, <1>9, <3>1
  <2>2. L = K \cup {g}
    <3>1. \A h \in gs : h.id = g.id => h = g
      BY DEF Family
    <3> QED
      BY <1>3, <2>1, <3>1 DEF Named
  <2>3. g \notin K
    <3>1. ASSUME NEW m \in 1..n, o[m] = g PROVE FALSE
      <4>1. m \in 1..N /\ o[m] = o[n + 1] /\ m # n + 1
        BY <1>1, <1>2, <3>1
      <4> QED
        BY <1>1, <4>1, RankingOrders
    <3> QED
      BY <1>5, <1>11, <3>1
  <2>4. CoverageOf(L) = k + t
    <3>1. IsFiniteSet({g}) /\ {g} \subseteq GroupType /\ K \cap {g} = {}
      BY <1>6, <2>3, FS_Singleton
    <3>2. CoverageOf(K \cup {g}) = CoverageOf(K) + CoverageOf({g})
      BY <1>8, <3>1, CoverageJoins
    <3> QED
      BY <1>7, <1>9, <2>2, <3>2
  <2>5. l[n] = b - k
    BY <1>5, <1>9
  <2>6. t <= l[n]
    BY <1>9, <1>11, <2>5
  <2>7. l[n + 1] = b - CoverageOf(L) /\ l[n + 1] >= 0
    BY <1>9, <2>1, <2>4, <2>5, <2>6
  <2>8. \A m \in 0..(n + 1) : c[m] \subseteq c[n + 1]
    <3>1. \A m \in 0..(n + 1) : m \in 0..n \/ m = n + 1
      BY <1>1
    <3> QED
      BY <1>5, <2>1, <3>1
  <2>9. \A h \in L : h.required \/ (h.reason = "none" /\ \E m \in 1..(n + 1) : o[m] = h)
    <3>1. g.reason = "none" /\ n + 1 \in 1..(n + 1) /\ o[n + 1] = g /\ \A m \in 1..n : m \in 1..(n + 1)
      BY <1>1, <1>2, <1>11
    <3> QED
      BY <1>5, <2>2, <3>1
  <2>10. ASSUME NEW m \in 1..(n + 1), o[m].id \notin c[n + 1], o[m].reason = "none" PROVE TokensOf(o[m].blocks) > l[m - 1]
    <3>1. m # n + 1
      BY <1>2, <2>1, <2>10
    <3>2. m \in 1..n
      BY <1>1, <3>1
    <3>3. o[m].id \notin c[n]
      BY <2>1, <2>10
    <3> QED
      BY <1>5, <2>10, <3>2, <3>3
  <2>11. {h \in gs : h.required} \subseteq L
    BY <1>5, <2>2
  <2> QED
    BY <1>3, <1>9, <2>7, <2>8, <2>9, <2>10, <2>11 DEF Greedy
<1> QED
  BY <1>10, <1>11

LEMMA GreedyAll ==
  ASSUME NEW gs, NEW ids, Family(gs, ids), facts.budget \in Nat,
         NEW N \in Nat, NEW o, NEW c, NEW l, Ranking(o, N, gs), Chooses(c, l, o, N, gs)
  PROVE  \A n \in 0..N : Greedy(c, l, o, n, gs)
<1> DEFINE P == {n \in 0..N : Greedy(c, l, o, n, gs)}
<1>1. 0 \in P
  BY GreedyStarts
<1>2. ASSUME NEW n \in P, n < N PROVE n + 1 \in P
  <2>1. n \in 0..N /\ n + 1 \in 0..N /\ Greedy(c, l, o, n, gs)
    BY <1>2
  <2>2. Greedy(c, l, o, n + 1, gs)
    BY <1>2, <2>1, GreedyStep
  <2> QED
    BY <2>1, <2>2
<1>3. P \in SUBSET (0..N)
  OBVIOUS
<1> HIDE DEF P
<1>4. P = 0..N
  BY <1>1, <1>2, <1>3, BoundedInduction
<1> QED
  BY <1>4 DEF P

\* Whoever is left out for the budget did not fit.
LEMMA SelectionIs ==
  ASSUME NEW gs, NEW ids, Family(gs, ids), facts.budget \in Nat
  PROVE  \E inside \in SUBSET gs :
           /\ inside = Named(gs, Selection(gs, facts.budget).chosen) /\ IsFiniteSet(inside) /\ inside \subseteq GroupType
           /\ Selection(gs, facts.budget).chosen \in SUBSET Nat
           /\ CoverageOf(inside) \in Nat /\ facts.budget - Selection(gs, facts.budget).left = CoverageOf(inside)
           /\ RequiredTokens(gs) <= facts.budget => CoverageOf(inside) <= facts.budget
           /\ {g \in gs : g.required} \subseteq inside
           /\ \A g \in inside : g.reason = "none"
           /\ \A g \in gs : g \notin inside /\ g.reason = "none" =>
                TokensOf(g.blocks) + CoverageOf({h \in inside : h.required \/ Before(h, g)}) > facts.budget
<1>0. PICK N \in Nat : \E o : o = Ordered(gs, Before) /\ Ranking(o, N, gs)
  BY RankingIs
<1>1. PICK o : N \in Nat /\ o = Ordered(gs, Before) /\ Ranking(o, N, gs)
  BY <1>0
<1>2. PICK c, l : Chooses(c, l, o, N, gs)
  BY <1>1, SelectionSteps
<1>3. \A n \in 0..N : Greedy(c, l, o, n, gs)
  BY <1>1, <1>2, GreedyAll
<1>4. PICK inside \in SUBSET gs : inside = Named(gs, c[N])
  BY DEF Named
<1>5. N \in 0..N /\ c[N] \in SUBSET Nat /\ Selection(gs, facts.budget).chosen = c[N] /\ Selection(gs, facts.budget).left = l[N]
  BY <1>2 DEF Chooses
<1>6. Greedy(c, l, o, N, gs)
  BY <1>3, <1>5
<1>7. IsFiniteSet(inside) /\ inside \subseteq GroupType /\ IsFiniteSet(gs) /\ gs \subseteq GroupType
  BY FS_Subset DEF Family
<1>8. CoverageOf(inside) \in Nat
  BY <1>7, BlocksFinite
<1>9. l[N] = facts.budget - CoverageOf(inside) /\ (RequiredTokens(gs) <= facts.budget => l[N] >= 0)
      /\ {g \in gs : g.required} \subseteq inside
      /\ \A g \in inside : g.required \/ (g.reason = "none" /\ \E m \in 1..N : o[m] = g)
  BY <1>4, <1>6 DEF Greedy
<1>10. facts.budget - l[N] = CoverageOf(inside) /\ (RequiredTokens(gs) <= facts.budget => CoverageOf(inside) <= facts.budget)
  BY <1>8, <1>9
<1>11. \A g \in inside : g.reason = "none"
  BY <1>9 DEF Family
<1>12. ASSUME NEW g \in gs, g \notin inside, g.reason = "none"
       PROVE  TokensOf(g.blocks) + CoverageOf({h \in inside : h.required \/ Before(h, g)}) > facts.budget
  <2>1. PICK m \in 1..N : o[m] = g
    BY <1>1 DEF Ranking
  <2>2. m - 1 \in 0..N /\ m \in Nat
    OBVIOUS
  <2>3. o[m].id \notin c[N]
    BY <1>4, <1>12, <2>1 DEF Named
  <2>4. TokensOf(g.blocks) > l[m - 1]
    BY <1>6, <1>12, <2>1, <2>3 DEF Greedy
  <2>5. Greedy(c, l, o, m - 1, gs)
    BY <1>3, <2>2
  <2>6. PICK K, B : K = Named(gs, c[m - 1]) /\ B = {h \in inside : h.required \/ Before(h, g)}
    OBVIOUS
  <2>7. l[m - 1] = facts.budget - CoverageOf(K)
        /\ \A h \in K : h.required \/ (h.reason = "none" /\ \E k \in 1..(m - 1) : o[k] = h)
    BY <2>5, <2>6 DEF Greedy
  <2>8. K \in SUBSET B
    <3>1. c[m - 1] \subseteq c[N]
      BY <1>6, <2>2 DEF Greedy
    <3>2. K \subseteq inside
      BY <1>4, <2>6, <3>1 DEF Named
    <3>3. ASSUME NEW k \in 1..(m - 1) PROVE Before(o[k], g)
      <4>1. k \in 1..N /\ k < m
        BY <2>2
      <4> QED
        BY <1>1, <2>1, <4>1 DEF Ranking
    <3>4. \A h \in K : h.required \/ Before(h, g)
      BY <2>7, <3>3
    <3> QED
      BY <2>6, <3>2, <3>4
  <2>9. B \subseteq inside /\ IsFiniteSet(B) /\ B \subseteq GroupType
    <3>1. B \subseteq inside
      BY <2>6
    <3> QED
      BY <1>7, <3>1, FS_Subset
  <2>10. CoverageOf(K) <= CoverageOf(B) /\ CoverageOf(K) \in Nat /\ CoverageOf(B) \in Nat
    BY <2>8, <2>9, CoverageWithin
  <2>11. TokensOf(g.blocks) \in Nat
    BY <1>7, CoverageOfOne
  <2>12. PICK t \in Nat, x \in Nat, y \in Nat, b \in Nat :
           t = TokensOf(g.blocks) /\ x = CoverageOf(K) /\ y = CoverageOf(B) /\ b = facts.budget
    BY <2>10, <2>11
  <2>13. t > b - x /\ x <= y
    BY <2>4, <2>7, <2>10, <2>12
  <2>14. t + y > b
    BY <2>13
  <2> QED
    BY <2>6, <2>12, <2>14
<1> QED
  BY <1>4, <1>5, <1>7, <1>8, <1>9, <1>10, <1>11, <1>12

-----------------------------------------------------------------------------
(* The items of a plan.                                                    *)

ReasonIn(g, chosen) ==
  IF g.id \in chosen THEN "none" ELSE IF g.reason # "none" THEN g.reason ELSE "budget_exceeded"
ItemType ==
  [group : Nat, kind : Kinds, tokens : Nat, shows : SUBSET Nat, cite : Nat,
   reason : Reasons \cup {"budget_exceeded"}]

\* Which block of which group each item is.
Items(items, M, p, b, gs, chosen) ==
  /\ M \in Nat /\ DOMAIN items = 1..M
  /\ p \in [1..M -> gs] /\ b \in [1..M -> Nat]
  /\ \A j \in 1..M :
       /\ b[j] \in DOMAIN p[j].blocks
       /\ items[j].group = p[j].id /\ items[j].reason = ReasonIn(p[j], chosen)
       /\ items[j].kind = p[j].blocks[b[j]].kind /\ items[j].tokens = p[j].blocks[b[j]].tokens
       /\ items[j].shows = p[j].blocks[b[j]].shows
       /\ items[j].cite > 0 => items[j].kind = "evidence"
  /\ \A g \in gs : \A i \in DOMAIN g.blocks : \E j \in 1..M : p[j] = g /\ b[j] = i
  /\ \A i, j \in 1..M : p[i] = p[j] /\ b[i] = b[j] => i = j

LEMMA ItemsOfAre ==
  ASSUME NEW g \in GroupType, NEW chosen
  PROVE  /\ ItemsOf(g, chosen) \in Seq(ItemType) /\ DOMAIN ItemsOf(g, chosen) = DOMAIN g.blocks
         /\ \A i \in DOMAIN g.blocks :
              /\ ItemsOf(g, chosen)[i] \in ItemType
              /\ ItemsOf(g, chosen)[i].group = g.id /\ ItemsOf(g, chosen)[i].reason = ReasonIn(g, chosen)
              /\ ItemsOf(g, chosen)[i].kind = g.blocks[i].kind /\ ItemsOf(g, chosen)[i].tokens = g.blocks[i].tokens
              /\ ItemsOf(g, chosen)[i].shows = g.blocks[i].shows
<1>1. PICK s : s = ItemsOf(g, chosen)
  OBVIOUS
<1>2. Len(g.blocks) \in Nat /\ DOMAIN g.blocks = 1..Len(g.blocks)
  BY BlocksAre
<1>3. DOMAIN s = DOMAIN g.blocks
      /\ s = [i \in DOMAIN g.blocks |->
               [group |-> g.id, kind |-> g.blocks[i].kind, tokens |-> g.blocks[i].tokens,
                shows |-> g.blocks[i].shows, cite |-> 0, reason |-> ReasonIn(g, chosen)]]
  BY <1>1 DEF ItemsOf, ReasonIn
<1>4. g.id \in Nat /\ ReasonIn(g, chosen) \in Reasons \cup {"budget_exceeded"}
  BY DEF GroupType, ReasonIn, Reasons
<1>5. ASSUME NEW i \in DOMAIN g.blocks
      PROVE  /\ s[i] \in ItemType /\ s[i].group = g.id /\ s[i].reason = ReasonIn(g, chosen)
             /\ s[i].kind = g.blocks[i].kind /\ s[i].tokens = g.blocks[i].tokens
             /\ s[i].shows = g.blocks[i].shows
  <2>1. g.blocks[i].tokens \in Nat /\ g.blocks[i].kind \in Kinds /\ g.blocks[i].shows \in SUBSET Nat
    BY BlocksAre
  <2>2. s[i] = [group |-> g.id, kind |-> g.blocks[i].kind, tokens |-> g.blocks[i].tokens,
                shows |-> g.blocks[i].shows, cite |-> 0, reason |-> ReasonIn(g, chosen)]
    BY <1>3
  <2> QED
    BY <1>4, <2>1, <2>2 DEF ItemType
<1>6. PICK T : T = ItemType
  OBVIOUS
<1>7. PICK k \in Nat : k = Len(g.blocks)
  BY <1>2
<1>8. s \in [1..k -> T]
  BY <1>2, <1>3, <1>5, <1>6, <1>7
<1>9. s \in Seq(T)
  BY <1>8
<1> QED
  BY <1>1, <1>3, <1>5, <1>6, <1>9

\* A selected passage is cited by its number among them.
IsEvidence(item) == IsSelected(item) /\ item.kind = "evidence"
EvidenceUpTo(items, j) == {i \in 1..j : IsEvidence(items[i])}
Counted(items) == \A j \in DOMAIN items : IsEvidence(items[j]) => items[j].cite = Cardinality(EvidenceUpTo(items, j))

LEMMA CitedIs ==
  ASSUME NEW s \in Seq(ItemType)
  PROVE  /\ DOMAIN Cited(s) = DOMAIN s
         /\ \A j \in DOMAIN s :
              /\ Cited(s)[j].group = s[j].group /\ Cited(s)[j].kind = s[j].kind /\ Cited(s)[j].tokens = s[j].tokens
              /\ Cited(s)[j].reason = s[j].reason /\ (Cited(s)[j].cite > 0 => s[j].kind = "evidence")
              /\ Cited(s)[j].shows = s[j].shows
<1>1. \A j \in DOMAIN s : s[j] \in ItemType
  BY ElementOf
<1>2. DOMAIN Cited(s) = DOMAIN s
  BY DEF Cited
<1>3. ASSUME NEW j \in DOMAIN s
      PROVE  \E n : /\ Cited(s)[j] = [s[j] EXCEPT !.cite = n]
                    /\ s[j].kind # "evidence" => n = 0
  <2>1. PICK n : n = IF IsSelected(s[j]) /\ s[j].kind = "evidence"
                     THEN Cardinality({i \in 1..j : IsSelected(s[i]) /\ s[i].kind = "evidence"})
                     ELSE 0
    OBVIOUS
  <2>2. Cited(s)[j] = [s[j] EXCEPT !.cite = n]
    BY <2>1 DEF Cited
  <2> QED
    BY <2>1, <2>2
<1>4. ASSUME NEW j \in DOMAIN s
      PROVE  /\ Cited(s)[j].group = s[j].group /\ Cited(s)[j].kind = s[j].kind /\ Cited(s)[j].tokens = s[j].tokens
             /\ Cited(s)[j].reason = s[j].reason /\ (Cited(s)[j].cite > 0 => s[j].kind = "evidence")
             /\ Cited(s)[j].shows = s[j].shows
  <2>1. PICK x \in ItemType : x = s[j]
    BY <1>1
  <2>2. PICK n : Cited(s)[j] = [x EXCEPT !.cite = n] /\ (x.kind # "evidence" => n = 0)
    BY <1>3, <2>1
  <2>3. PICK y : y = [x EXCEPT !.cite = n]
    OBVIOUS
  <2>4. y.group = x.group /\ y.kind = x.kind /\ y.tokens = x.tokens /\ y.reason = x.reason /\ y.cite = n
        /\ y.shows = x.shows
    BY <2>3 DEF ItemType
  <2>5. ~(0 > 0)
    OBVIOUS
  <2> QED
    BY <2>1, <2>2, <2>3, <2>4, <2>5
<1> QED
  BY <1>2, <1>4

LEMMA CitedCounts ==
  ASSUME NEW s \in Seq(ItemType)
  PROVE  Counted(Cited(s))
<1>1. PICK t : t = Cited(s)
  OBVIOUS
<1>2. /\ DOMAIN t = DOMAIN s /\ DOMAIN s = 1..Len(s) /\ Len(s) \in Nat
      /\ \A j \in DOMAIN s : t[j].kind = s[j].kind /\ t[j].reason = s[j].reason /\ s[j] \in ItemType
  BY <1>1, CitedIs, ElementOf
<1>3. \A j \in DOMAIN s : IsEvidence(t[j]) <=> IsEvidence(s[j])
  BY <1>2 DEF IsEvidence, IsSelected
<1>4. ASSUME NEW j \in DOMAIN s PROVE EvidenceUpTo(t, j) = EvidenceUpTo(s, j)
  <2>1. 1..j \subseteq DOMAIN s
    BY <1>2
  <2> QED
    BY <1>3, <2>1 DEF EvidenceUpTo
<1>5. ASSUME NEW j \in DOMAIN s, IsEvidence(s[j])
      PROVE  t[j].cite = Cardinality(EvidenceUpTo(s, j))
  <2>1. PICK n : n = Cardinality(EvidenceUpTo(s, j))
    OBVIOUS
  <2>2. n = Cardinality({i \in 1..j : IsSelected(s[i]) /\ s[i].kind = "evidence"})
    BY <2>1 DEF EvidenceUpTo, IsEvidence
  <2>3. IsSelected(s[j]) /\ s[j].kind = "evidence"
    BY <1>5 DEF IsEvidence
  <2>4. t[j] = [s[j] EXCEPT !.cite = n]
    BY <1>1, <2>2, <2>3 DEF Cited
  <2>5. PICK x \in ItemType : x = s[j]
    BY <1>2
  <2> QED
    BY <2>1, <2>4, <2>5 DEF ItemType
<1> QED
  BY <1>1, <1>2, <1>3, <1>4, <1>5 DEF Counted

LEMMA PackedIs ==
  ASSUME NEW gs, NEW ids, Family(gs, ids)
  PROVE  /\ \E M, p, b : Items(Packed(gs, facts.budget), M, p, b, gs, Selection(gs, facts.budget).chosen)
         /\ Counted(Packed(gs, facts.budget))
<1>0. PICK N \in Nat : \E o : o = Ordered(gs, Before) /\ Ranking(o, N, gs)
  BY RankingIs
<1>1. PICK o : N \in Nat /\ o = Ordered(gs, Before) /\ Ranking(o, N, gs)
  BY <1>0
<1>2. PICK chosen : chosen = Selection(gs, facts.budget).chosen
  OBVIOUS
<1>3. o \in [1..N -> gs] /\ gs \subseteq GroupType /\ DOMAIN o = 1..N
      /\ \A g \in gs : \E n \in 1..N : o[n] = g
  BY <1>1 DEF Ranking, Family
<1>4. PICK ss : ss = [n \in 1..N |-> ItemsOf(o[n], chosen)]
  OBVIOUS
<1>5. PICK T : T = ItemType
  OBVIOUS
<1>6. \A n \in 1..N : o[n] \in GroupType /\ ss[n] = ItemsOf(o[n], chosen) /\ ss[n] \in Seq(T)
  BY <1>3, <1>4, <1>5, ItemsOfAre
<1>7. ss \in [1..N -> Seq(T)]
  BY <1>4, <1>6
<1>8. FlattenSeq(ss) \in Seq(T) /\ \E a, b : Lays(FlattenSeq(ss), a, b, ss, N)
  BY <1>7, FlattenLays
<1>9. PICK F \in Seq(T) : F = FlattenSeq(ss)
  BY <1>8
<1>10. PICK a, b : Lays(F, a, b, ss, N)
  BY <1>8, <1>9
<1>11. Packed(gs, facts.budget) = Cited(F)
  BY <1>1, <1>2, <1>3, <1>4, <1>9 DEF Packed
<1>12. PICK M \in Nat : M = Len(F) /\ DOMAIN F = 1..M
  BY <1>9
<1>13. PICK items : items = Packed(gs, facts.budget)
  OBVIOUS
<1>14. /\ DOMAIN items = 1..M
       /\ \A j \in 1..M :
            /\ items[j].group = F[j].group /\ items[j].kind = F[j].kind /\ items[j].tokens = F[j].tokens
            /\ items[j].reason = F[j].reason /\ (items[j].cite > 0 => F[j].kind = "evidence")
            /\ items[j].shows = F[j].shows
  BY <1>5, <1>9, <1>11, <1>12, <1>13, CitedIs
<1>15. /\ a \in [1..M -> 1..N] /\ b \in [1..M -> Nat]
       /\ \A j \in 1..M : b[j] \in DOMAIN ss[a[j]] /\ F[j] = ss[a[j]][b[j]]
       /\ \A k \in 1..N : \A i \in DOMAIN ss[k] : \E j \in 1..M : a[j] = k /\ b[j] = i
       /\ \A i, j \in 1..M : i < j => a[i] < a[j] \/ (a[i] = a[j] /\ b[i] < b[j])
  BY <1>10, <1>12 DEF Lays
<1>16. PICK p \in [1..M -> gs] : p = [j \in 1..M |-> o[a[j]]]
  <2>1. [j \in 1..M |-> o[a[j]]] \in [1..M -> gs]
    BY <1>3, <1>15
  <2> QED
    BY <2>1
<1>17. ASSUME NEW j \in 1..M
       PROVE  /\ b[j] \in DOMAIN p[j].blocks
              /\ items[j].group = p[j].id /\ items[j].reason = ReasonIn(p[j], chosen)
              /\ items[j].kind = p[j].blocks[b[j]].kind /\ items[j].tokens = p[j].blocks[b[j]].tokens
              /\ items[j].shows = p[j].blocks[b[j]].shows
              /\ items[j].cite > 0 => items[j].kind = "evidence"
  <2>1. PICK k \in 1..N : k = a[j] /\ p[j] = o[k]
    BY <1>15, <1>16
  <2>2. PICK g \in GroupType : g = p[j] /\ ss[k] = ItemsOf(g, chosen)
    BY <1>6, <2>1
  <2>3. PICK i : i = b[j] /\ i \in DOMAIN ss[k] /\ F[j] = ss[k][i]
    BY <1>15, <2>1
  <2>4. i \in DOMAIN g.blocks
    BY <2>2, <2>3, ItemsOfAre
  <2>5. F[j].group = g.id /\ F[j].reason = ReasonIn(g, chosen)
        /\ F[j].kind = g.blocks[i].kind /\ F[j].tokens = g.blocks[i].tokens
        /\ F[j].shows = g.blocks[i].shows
    BY <2>2, <2>3, <2>4, ItemsOfAre
  <2> QED
    BY <1>14, <2>2, <2>3, <2>4, <2>5
<1>18. ASSUME NEW g \in gs, NEW i \in DOMAIN g.blocks PROVE \E j \in 1..M : p[j] = g /\ b[j] = i
  <2>1. PICK k \in 1..N : o[k] = g
    BY <1>3
  <2>2. i \in DOMAIN ss[k]
    <3>1. g \in GroupType /\ ss[k] = ItemsOf(g, chosen)
      BY <1>6, <2>1
    <3> QED
      BY <1>18, <3>1, ItemsOfAre
  <2>3. PICK j \in 1..M : a[j] = k /\ b[j] = i
    BY <1>15, <2>2
  <2> QED
    BY <1>16, <2>1, <2>3
<1>19. ASSUME NEW i \in 1..M, NEW j \in 1..M, p[i] = p[j], b[i] = b[j] PROVE i = j
  <2>1. o[a[i]] = o[a[j]] /\ a[i] \in 1..N /\ a[j] \in 1..N
    BY <1>15, <1>16, <1>19
  <2>2. PICK x \in 1..N, z \in 1..N : x = a[i] /\ z = a[j]
    BY <2>1
  <2>3. x = z
    <3>1. o[x] = o[z]
      BY <2>1, <2>2
    <3>2. o[x] = o[z] => x = z
      <4>1. Ranking(o, N, gs)
        BY <1>1
      <4> QED
        BY <4>1, RankingOrders, Zenon
    <3> QED
      BY <3>1, <3>2
  <2>4. PICK y \in Nat : y = b[i] /\ y = b[j]
    BY <1>15, <1>19
  <2>a. (i < j => a[i] < a[j] \/ (a[i] = a[j] /\ b[i] < b[j])) /\ (j < i => a[j] < a[i] \/ (a[j] = a[i] /\ b[j] < b[i]))
    BY <1>15
  <2>b. (i < j => x < x \/ y < y) /\ (j < i => x < x \/ y < y)
    BY <2>2, <2>3, <2>4, <2>a
  <2>5. ~(i < j) /\ ~(j < i)
    BY <2>b
  <2>6. i \in Nat /\ j \in Nat
    OBVIOUS
  <2> QED
    BY <2>5, <2>6
<1>20. Items(items, M, p, b, gs, chosen)
  BY <1>14, <1>15, <1>16, <1>17, <1>18, <1>19 DEF Items
<1>21. Counted(items)
  BY <1>5, <1>9, <1>11, <1>13, CitedCounts
<1> QED
  BY <1>2, <1>13, <1>20, <1>21

LEMMA SelectedAre ==
  ASSUME NEW gs, NEW chosen, NEW inside \in SUBSET gs, inside = Named(gs, chosen),
         NEW items, NEW M, NEW p, NEW b, Items(items, M, p, b, gs, chosen)
  PROVE  /\ \A j \in 1..M : IsSelected(items[j]) <=> p[j] \in inside
         /\ \A j \in 1..M : items[j].reason = "budget_exceeded" => p[j] \notin inside
         /\ \A j \in 1..M : items[j].reason = "budget_exceeded" /\ p[j].reason # "budget_exceeded" => p[j].reason = "none"
<1> SUFFICES ASSUME NEW j \in 1..M
             PROVE  /\ IsSelected(items[j]) <=> p[j] \in inside
                    /\ items[j].reason = "budget_exceeded" => p[j] \notin inside
                    /\ items[j].reason = "budget_exceeded" /\ p[j].reason # "budget_exceeded" => p[j].reason = "none"
  OBVIOUS
<1>1. p[j] \in gs /\ items[j].reason = ReasonIn(p[j], chosen)
  BY DEF Items
<1>2. p[j] \in inside <=> p[j].id \in chosen
  BY <1>1 DEF Named
<1> QED
  BY <1>1, <1>2 DEF ReasonIn, IsSelected

LEMMA SelectedTokens ==
  ASSUME NEW gs, NEW ids, Family(gs, ids), NEW chosen, NEW inside \in SUBSET gs, inside = Named(gs, chosen),
         NEW items, NEW M, NEW p, NEW b, Items(items, M, p, b, gs, chosen)
  PROVE  TokensOf(SelectedItems(items)) = CoverageOf(inside)
<1>1. \A j \in 1..M : IsSelected(items[j]) <=> p[j] \in inside
  BY SelectedAre
<1>2. /\ M \in Nat /\ DOMAIN items = 1..M /\ p \in [1..M -> gs] /\ b \in [1..M -> Nat]
      /\ \A j \in 1..M : b[j] \in DOMAIN p[j].blocks /\ items[j].tokens = p[j].blocks[b[j]].tokens
      /\ \A g \in gs : \A i \in DOMAIN g.blocks : \E j \in 1..M : p[j] = g /\ b[j] = i
      /\ \A i, j \in 1..M : p[i] = p[j] /\ b[i] = b[j] => i = j
  BY DEF Items
<1>3. PICK K \in SUBSET (1..M) : K = {j \in 1..M : IsSelected(items[j])}
  OBVIOUS
<1>4. IsFiniteSet(K) /\ K \in SUBSET Nat
  <2>1. IsFiniteSet(1..M)
    BY <1>2, FS_Interval
  <2> QED
    BY <1>2, <1>3, <2>1, FS_Subset
<1>5. PICK m \in Nat : \E e : Enumerates(e, m, K) /\ Picked(items, K) = [j \in 1..m |-> items[e[j]]]
  BY <1>4, PickedIs
<1>6. PICK e : Enumerates(e, m, K) /\ Picked(items, K) = [j \in 1..m |-> items[e[j]]]
  BY <1>5
<1>7. SelectedItems(items) = [j \in 1..m |-> items[e[j]]]
  BY <1>2, <1>3, <1>6 DEF SelectedItems
<1>8. PICK v : v = [j \in 1..m |-> items[e[j]].tokens]
  OBVIOUS
<1>9. TokensOf(SelectedItems(items)) = Weight(1..m, v)
  <2>1. PICK s : s = SelectedItems(items)
    OBVIOUS
  <2>2. DOMAIN s = 1..m /\ [j \in DOMAIN s |-> s[j].tokens] = v
    BY <1>7, <1>8, <2>1
  <2> QED
    BY <2>1, <2>2 DEF TokensOf
<1>10. IsFiniteSet(inside) /\ inside \subseteq GroupType
  BY FS_Subset DEF Family
<1>11. PICK Q, w : Q = BlocksOf(inside) /\ w = BlockTokens(inside)
  OBVIOUS
<1>12. /\ CoverageOf(inside) = Weight(Q, w)
       /\ \A q \in Q : w[q] \in Nat /\ w[q] = q[1].blocks[q[2]].tokens
  BY <1>10, <1>11, BlocksFinite
<1>13. \A q : q \in Q <=> \E g \in inside : \E i \in DOMAIN g.blocks : q = <<g, i>>
  BY <1>11, BlockOf
<1>14. PICK h : h = [j \in 1..m |-> <<p[e[j]], b[e[j]]>>]
  OBVIOUS
<1>15. e \in [1..m -> K] /\ (\A k \in K : \E j \in 1..m : e[j] = k)
       /\ \A i, j \in 1..m : i < j <=> e[i] < e[j]
  BY <1>6 DEF Enumerates
<1>16. ASSUME NEW j \in 1..m
       PROVE  /\ e[j] \in 1..M /\ p[e[j]] \in inside /\ b[e[j]] \in DOMAIN p[e[j]].blocks
              /\ h[j] = <<p[e[j]], b[e[j]]>> /\ h[j] \in Q
              /\ v[j] = p[e[j]].blocks[b[e[j]]].tokens
  <2>1. PICK k \in 1..M : k = e[j] /\ IsSelected(items[k])
    BY <1>3, <1>15
  <2>2. p[k] \in inside /\ b[k] \in DOMAIN p[k].blocks /\ items[k].tokens = p[k].blocks[b[k]].tokens
    BY <1>1, <1>2, <2>1
  <2>3. h[j] = <<p[k], b[k]>> /\ v[j] = items[k].tokens
    BY <1>8, <1>14, <2>1
  <2>4. h[j] \in Q
    BY <1>13, <2>2, <2>3
  <2> QED
    BY <2>1, <2>2, <2>3, <2>4
<1>17. h \in [1..m -> Q]
  BY <1>14, <1>16
<1>18. ASSUME NEW i \in 1..m, NEW j \in 1..m, h[i] = h[j] PROVE i = j
  <2>1. PICK x \in 1..M, y \in 1..M : x = e[i] /\ y = e[j]
    BY <1>16
  <2>2. p[x] = p[y] /\ b[x] = b[y]
    BY <1>16, <1>18, <2>1
  <2>3. x = y
    BY <1>2, <2>2
  <2>4. (i < j <=> x < y) /\ (j < i <=> y < x)
    BY <1>15, <2>1
  <2>5. i \in Nat /\ j \in Nat /\ x \in Nat /\ y \in Nat
    OBVIOUS
  <2> QED
    BY <2>3, <2>4, <2>5
<1>19. ASSUME NEW q \in Q PROVE \E j \in 1..m : h[j] = q
  <2>1. PICK g \in inside : \E i \in DOMAIN g.blocks : q = <<g, i>>
    BY <1>13
  <2>2. PICK i \in DOMAIN g.blocks : q = <<g, i>>
    BY <2>1
  <2>3. PICK k \in 1..M : p[k] = g /\ b[k] = i
    BY <1>2
  <2>4. k \in K
    BY <1>1, <1>3, <2>3
  <2>5. PICK j \in 1..m : e[j] = k
    BY <1>15, <2>4
  <2> QED
    BY <1>16, <2>2, <2>3, <2>5
<1>20. ASSUME NEW j \in 1..m PROVE v[j] \in Nat /\ v[j] = w[h[j]]
  <2>1. PICK g, i : g = p[e[j]] /\ i = b[e[j]] /\ h[j] = <<g, i>> /\ h[j] \in Q /\ v[j] = g.blocks[i].tokens
    <3>1. h[j] = <<p[e[j]], b[e[j]]>> /\ h[j] \in Q /\ v[j] = p[e[j]].blocks[b[e[j]]].tokens /\ p[e[j]] \in inside
      BY <1>16
    <3>2. PICK g, i : g = p[e[j]] /\ i = b[e[j]]
      OBVIOUS
    <3> QED
      BY <3>1, <3>2
  <2>2. PICK q \in Q : q = h[j] /\ q[1] = g /\ q[2] = i
    BY <2>1
  <2>3. w[q] \in Nat /\ w[q] = g.blocks[i].tokens
    BY <1>12, <2>2
  <2> QED
    BY <2>1, <2>2, <2>3
<1>21. IsFiniteSet(1..m)
  BY FS_Interval
<1>22. PICK P : P = 1..m
  OBVIOUS
<1>23. /\ IsFiniteSet(P) /\ h \in [P -> Q]
       /\ \A i, j \in P : h[i] = h[j] => i = j
       /\ \A q \in Q : \E j \in P : h[j] = q
       /\ \A j \in P : v[j] \in Nat /\ v[j] = w[h[j]]
  BY <1>17, <1>18, <1>19, <1>20, <1>21, <1>22
<1>24. Weight(P, v) = Weight(Q, w)
  BY <1>23, WeightMoves
<1> QED
  BY <1>9, <1>12, <1>22, <1>24

-----------------------------------------------------------------------------
(* The plan of a reply.                                                    *)

LEMMA DraftFailed ==
  ASSUME facts \in PlanRequests, found \in FoundType, RequiredTokens(PlanGroups) > facts.budget
  PROVE  Drafted.state = "failed" /\ (~facts.attached => Valid(Drafted))
<1>1. facts.budget \in Nat /\ facts.attached \in BOOLEAN
  BY FactsType
<1>2. PICK d : d = Drafted
  OBVIOUS
<1>3. d = [state |-> "failed", outcome |-> "failed", bound |-> 0,
           proof |-> IF facts.attached THEN "opaque" ELSE "conservative", items |-> <<>>]
  BY <1>2 DEF Drafted
<1>4. /\ d.state = "failed" /\ d.bound = 0 /\ d.items = <<>>
      /\ d.proof = IF facts.attached THEN "opaque" ELSE "conservative"
  BY <1>3
<1>5. Opaque(d.items) = FALSE
  BY <1>4 DEF Opaque
<1>6. ASSUME ~facts.attached PROVE Valid(d)
  <2>1. (d.proof = "opaque") = Opaque(d.items)
    BY <1>4, <1>5, <1>6
  <2>2. d.bound <= facts.budget
    BY <1>1, <1>4
  <2> QED
    BY <1>4, <2>1, <2>2, Zenon DEF Valid
<1> QED
  BY <1>2, <1>4, <1>6

\* A plan whose required groups fit, and where each of its items comes from.
Fits(plan, gs, inside, M, p, b) ==
  /\ plan.state = "ready" /\ inside \in SUBSET gs
  /\ CoverageOf(inside) <= facts.budget /\ {g \in gs : g.required} \subseteq inside
  /\ \A g \in gs : g \notin inside /\ g.reason = "none" =>
       TokensOf(g.blocks) + CoverageOf({h \in inside : h.required \/ Before(h, g)}) > facts.budget
  /\ inside = Named(gs, Selection(gs, facts.budget).chosen) /\ \A g \in inside : g.reason = "none"
  /\ Counted(plan.items)
  /\ Items(plan.items, M, p, b, gs, Selection(gs, facts.budget).chosen)

LEMMA DraftFits ==
  ASSUME facts \in PlanRequests, found \in FoundType, ~(RequiredTokens(PlanGroups) > facts.budget)
  PROVE  \E inside, M, p, b :
           /\ Fits(Drafted, PlanGroups, inside, M, p, b)
           /\ Drafted.outcome = found.outcome /\ Drafted.bound = CoverageOf(inside)
           /\ Drafted.proof = IF Opaque(Drafted.items) THEN "opaque"
                              ELSE IF facts.attached THEN "opaque" ELSE "conservative"
<1>1. facts.budget \in Nat
  BY FactsType
<1>2. PICK gs : gs = PlanGroups
  OBVIOUS
<1>3. Family(gs, PlanIds)
  BY <1>2, PlanFamily
<1>4. RequiredTokens(gs) \in Nat /\ RequiredTokens(gs) <= facts.budget
  BY <1>1, <1>2, <1>3, RequiredIs
<1>5. PICK inside \in SUBSET gs :
        /\ inside = Named(gs, Selection(gs, facts.budget).chosen)
        /\ facts.budget - Selection(gs, facts.budget).left = CoverageOf(inside)
        /\ RequiredTokens(gs) <= facts.budget => CoverageOf(inside) <= facts.budget
        /\ {g \in gs : g.required} \subseteq inside /\ \A g \in inside : g.reason = "none"
        /\ \A g \in gs : g \notin inside /\ g.reason = "none" =>
             TokensOf(g.blocks) + CoverageOf({h \in inside : h.required \/ Before(h, g)}) > facts.budget
  BY <1>1, <1>3, SelectionIs
<1>6. PICK M, p, b : Items(Packed(gs, facts.budget), M, p, b, gs, Selection(gs, facts.budget).chosen)
                     /\ Counted(Packed(gs, facts.budget))
  BY <1>3, PackedIs
<1>7. PICK d : d = Drafted
  OBVIOUS
<1>8. d = [state |-> "ready", outcome |-> found.outcome, bound |-> facts.budget - Selection(gs, facts.budget).left,
           proof |-> IF Opaque(Packed(gs, facts.budget)) THEN "opaque" ELSE IF facts.attached THEN "opaque" ELSE "conservative",
           items |-> Packed(gs, facts.budget)]
  BY <1>2, <1>7 DEF Drafted
<1>9. /\ d.state = "ready" /\ d.items = Packed(gs, facts.budget) /\ d.outcome = found.outcome
      /\ d.bound = CoverageOf(inside)
      /\ d.proof = IF Opaque(d.items) THEN "opaque" ELSE IF facts.attached THEN "opaque" ELSE "conservative"
  BY <1>5, <1>8
<1>10. Fits(d, gs, inside, M, p, b)
  BY <1>4, <1>5, <1>6, <1>9 DEF Fits
<1> QED
  BY <1>2, <1>7, <1>9, <1>10

\* The planner keeps every plan it makes but one: see DraftFailed.
LEMMA DraftValid ==
  ASSUME facts \in PlanRequests, found \in FoundType, ~(RequiredTokens(PlanGroups) > facts.budget)
  PROVE  Valid(Drafted)
<1>1. PICK gs, d : gs = PlanGroups /\ d = Drafted
  OBVIOUS
<1>2. PICK inside, M, p, b :
        /\ Fits(d, gs, inside, M, p, b)
        /\ d.outcome = found.outcome /\ d.bound = CoverageOf(inside)
        /\ d.proof = IF Opaque(d.items) THEN "opaque"
                     ELSE IF facts.attached THEN "opaque" ELSE "conservative"
  BY <1>1, DraftFits
<1>3. PICK items, chosen : items = d.items /\ chosen = Selection(gs, facts.budget).chosen
  OBVIOUS
<1>4. /\ d.state = "ready" /\ inside \in SUBSET gs /\ CoverageOf(inside) <= facts.budget
      /\ {g \in gs : g.required} \subseteq inside /\ inside = Named(gs, chosen)
      /\ Items(items, M, p, b, gs, chosen)
  BY <1>2, <1>3 DEF Fits
<1>5. Family(gs, PlanIds) /\ MessageGroup \in gs
  BY <1>1, PlanFamily
<1>6. /\ DOMAIN items = 1..M /\ p \in [1..M -> gs]
      /\ \A j \in 1..M : /\ b[j] \in DOMAIN p[j].blocks /\ items[j].kind = p[j].blocks[b[j]].kind
                         /\ items[j].cite > 0 => items[j].kind = "evidence"
      /\ \A g \in gs : \A i \in DOMAIN g.blocks : \E j \in 1..M : p[j] = g /\ b[j] = i
  BY <1>4 DEF Items
<1>7. \A j \in 1..M : IsSelected(items[j]) <=> p[j] \in inside
  BY <1>4, SelectedAre
<1>8. MessageGroup \in inside
  BY <1>4, <1>5, CoreFamily
<1>9. ASSUME NEW i \in DOMAIN MessageGroup.blocks
      PROVE  \E j \in DOMAIN items : IsSelected(items[j]) /\ items[j].kind = MessageGroup.blocks[i].kind
  <2>1. PICK j \in 1..M : p[j] = MessageGroup /\ b[j] = i
    BY <1>5, <1>6
  <2> QED
    BY <1>6, <1>7, <1>8, <2>1
<1>10. facts.attached => Opaque(items)
  <2>1. facts.attached => \E i \in DOMAIN MessageGroup.blocks : MessageGroup.blocks[i].kind = "attachment"
    BY MessageBlocksAre, CoreFamily
  <2> QED
    BY <1>9, <2>1 DEF Opaque, AttachmentKinds
<1>11. items # <<>>
  <2>1. MessageGroup.blocks # <<>> /\ MessageGroup \in GroupType
    BY CoreFamily, MessageBlocksAre
  <2>2. PICK i : i \in DOMAIN MessageGroup.blocks
    <3>1. MessageGroup.blocks \in Seq(BlockType)
      BY <2>1 DEF GroupType
    <3>2. \A s \in Seq(BlockType) : s # <<>> => 1 \in DOMAIN s
      <4>1. PICK T : T = BlockType
        OBVIOUS
      <4>2. \A s \in Seq(T) : s # <<>> => 1 \in DOMAIN s
        OBVIOUS
      <4> QED
        BY <4>1, <4>2
    <3> QED
      BY <2>1, <3>1, <3>2
  <2>3. \E j : j \in DOMAIN items
    BY <1>9, <2>2
  <2> QED
    BY <2>3
<1>12. found.outcome = "degraded" => ~CarriesEvidence(items)
  <2> SUFFICES ASSUME found.outcome = "degraded", NEW j \in 1..M
               PROVE  items[j].kind \notin {"history_attachment", "recalled", "evidence"}
    BY <1>6 DEF CarriesEvidence
  <2>1. PICK g, i : g \in gs /\ g = p[j] /\ i = b[j] /\ i \in DOMAIN g.blocks /\ items[j].kind = g.blocks[i].kind
    BY <1>6
  <2>2. g = Policy \/ g.blocks[i].kind \in KeptWhenDegraded
    BY <1>1, <2>1, PlanFamily
  <2>3. g = Policy => g.blocks[i].kind = "instruction"
    <3>1. Policy \in GroupType /\ Len(Policy.blocks) = 1 /\ Policy.blocks[1].kind = "instruction"
      BY PolicyIs
    <3>2. DOMAIN Policy.blocks = 1..Len(Policy.blocks)
      BY <3>1, BlocksAre
    <3>3. g = Policy => i = 1
      BY <2>1, <3>1, <3>2
    <3> QED
      BY <3>1, <3>3
  <2> QED
    BY <2>1, <2>2, <2>3 DEF KeptWhenDegraded
<1>13. d.bound = TokensOf(SelectedItems(items))
  <2>1. TokensOf(SelectedItems(items)) = CoverageOf(inside)
    BY <1>4, <1>5, SelectedTokens
  <2> QED
    BY <1>2, <2>1
<1>14. (d.proof = "opaque") = Opaque(items)
  <2>1. CASE Opaque(items)
    <3>1. Opaque(items) = TRUE
      BY <2>1 DEF Opaque
    <3> QED
      BY <1>2, <1>3, <2>1, <3>1
  <2>2. CASE ~Opaque(items)
    <3>1. Opaque(items) = FALSE
      BY <2>2 DEF Opaque
    <3>2. ~facts.attached
      BY <1>10, <2>2
    <3>3. d.proof = "conservative"
      BY <1>2, <1>3, <2>2, <3>2
    <3> QED
      BY <3>1, <3>3
  <2> QED
    BY <2>1, <2>2
<1>15. d.bound <= facts.budget /\ d.state # "failed"
  BY <1>2, <1>4
<1>16. Valid(d)
  BY <1>2, <1>3, <1>11, <1>12, <1>13, <1>14, <1>15, Zenon DEF Valid
<1> QED
  BY <1>1, <1>16

-----------------------------------------------------------------------------
(* What a search found stays a sequence of candidates.                     *)

LEMMA PickedType ==
  ASSUME NEW S, NEW s \in Seq(S), NEW K \in SUBSET DOMAIN s
  PROVE  Picked(s, K) \in Seq(S)
<1>1. DOMAIN s = 1..Len(s) /\ Len(s) \in Nat /\ \A i \in DOMAIN s : s[i] \in S
  BY ElementOf
<1>2. IsFiniteSet(K) /\ K \in SUBSET Nat
  <2>1. IsFiniteSet(1..Len(s))
    BY <1>1, FS_Interval
  <2> QED
    BY <1>1, <2>1, FS_Subset
<1>3. PICK m \in Nat : \E e : Enumerates(e, m, K) /\ Picked(s, K) = [j \in 1..m |-> s[e[j]]]
  BY <1>2, PickedIs
<1>4. PICK e : Enumerates(e, m, K) /\ Picked(s, K) = [j \in 1..m |-> s[e[j]]]
  BY <1>3
<1>5. \A j \in 1..m : e[j] \in DOMAIN s
  BY <1>4 DEF Enumerates
<1>6. [j \in 1..m |-> s[e[j]]] \in [1..m -> S]
  BY <1>1, <1>5
<1>7. [j \in 1..m |-> s[e[j]]] \in Seq(S)
  BY <1>6
<1> QED
  BY <1>4, <1>7

LEMMA MergedWithType ==
  ASSUME NEW left \in Candidates, NEW right \in Candidates
  PROVE  MergedWith(left, right) \in Candidates
<1>1. SeparatorTokens \in Nat
  BY PlanAssumption
<1>2. left.tokens + SeparatorTokens + right.tokens \in Nat /\ left.shows \cup right.shows \in SUBSET Nat
  BY <1>1 DEF Candidates
<1>3. MergedWith(left, right)
      = [left EXCEPT !.last = right.last, !.shows = left.shows \cup right.shows,
                     !.tokens = left.tokens + SeparatorTokens + right.tokens]
  BY DEF MergedWith, Candidates
<1> QED
  BY <1>2, <1>3 DEF Candidates

LEMMA MergedIntoType ==
  ASSUME NEW t \in Seq(Candidates), NEW c \in Candidates
  PROVE  MergedInto(t, c) \in Seq(Candidates)
<1>1. PICK T : T = Candidates
  OBVIOUS
<1>2. t \in Seq(T) /\ c \in T
  BY <1>1
<1>3. t # <<>> => Last(t) \in T /\ Front(t) \in Seq(T)
  BY <1>2 DEF Last, Front
<1>4. Append(t, c) \in Seq(T)
  BY <1>2
<1>5. ASSUME t # <<>> PROVE Append(Front(t), MergedWith(Last(t), c)) \in Seq(T)
  <2>1. MergedWith(Last(t), c) \in T
    BY <1>1, <1>2, <1>3, <1>5, MergedWithType
  <2>2. PICK u \in Seq(T), v \in T : u = Front(t) /\ v = MergedWith(Last(t), c)
    BY <1>3, <1>5, <2>1
  <2>3. Append(u, v) \in Seq(T)
    OBVIOUS
  <2> QED
    BY <2>2, <2>3
<1> QED
  BY <1>1, <1>4, <1>5 DEF MergedInto

LEMMA MergedSteps ==
  ASSUME NEW s \in Seq(Candidates)
  PROVE  \E done : /\ done \in [0..Len(s) -> Seq(Candidates)] /\ done[0] = <<>>
                    /\ \A n \in 1..Len(s) : done[n] = MergedInto(done[n - 1], s[n])
                    /\ Merged(s) = done[Len(s)]
<1>1. PICK N \in Nat : N = Len(s) /\ DOMAIN s = 1..N /\ \A k \in 1..N : s[k] \in Candidates
  BY ElementOf
<1>2. PICK T : T = Seq(Candidates)
  OBVIOUS
<1>3. PICK b \in T : b = <<>>
  <2>1. \A S : <<>> \in Seq(S)
    OBVIOUS
  <2> QED
    BY <1>2, <2>1
<1>4. PICK G : G = [k \in 1..N |-> [t \in T |-> MergedInto(t, s[k])]]
  OBVIOUS
<1>5. \A k \in 1..N : \A t \in T : G[k][t] = MergedInto(t, s[k]) /\ G[k][t] \in T
  BY <1>1, <1>2, <1>4, MergedIntoType
<1>6. Closed(G, N, T)
  BY <1>5 DEF Closed
<1>7. PICK f : Steps(f, b, G, N, T)
  BY <1>6, StepsExist
<1>8. f \in [0..N -> T] /\ f[0] = <<>> /\ \A k \in 1..N : f[k] = MergedInto(f[k - 1], s[k])
  <2>1. f \in [0..N -> T] /\ f[0] = <<>> /\ \A k \in 1..N : f[k] = G[k][f[k - 1]]
    BY <1>3, <1>7 DEF Steps
  <2>2. \A k \in 1..N : f[k - 1] \in T
    BY <2>1
  <2> QED
    BY <1>5, <2>1, <2>2
<1> DEFINE done[n \in 0..Len(s)] == IF n = 0 THEN <<>> ELSE MergedInto(done[n - 1], s[n])
<1>9. f = [n \in 0..N |-> IF n = 0 THEN <<>> ELSE MergedInto(f[n - 1], s[n])]
  <2>1. \A n \in 0..N : n = 0 \/ n \in 1..N
    OBVIOUS
  <2>2. \A n \in 0..N : f[n] = IF n = 0 THEN <<>> ELSE MergedInto(f[n - 1], s[n])
    BY <1>8, <2>1
  <2> QED
    BY <1>8, <2>2
<1>10. done = [n \in 0..Len(s) |-> IF n = 0 THEN <<>> ELSE MergedInto(done[n - 1], s[n])]
  BY <1>1, <1>9
<1>11. Merged(s) = done[Len(s)]
  BY DEF Merged
<1> HIDE DEF done
<1>12. \A n \in 0..N : done[n] = IF n = 0 THEN <<>> ELSE MergedInto(done[n - 1], s[n])
  BY <1>1, <1>10
<1> DEFINE P == {n \in 0..N : done[n] \in T}
<1>13. 0 \in P
  BY <1>3, <1>12
<1>14. ASSUME NEW n \in P, n < N PROVE n + 1 \in P
  <2>1. n + 1 \in 0..N /\ n + 1 \in 1..N /\ n + 1 # 0 /\ (n + 1) - 1 = n /\ done[n] \in T
    BY <1>14
  <2>2. done[n + 1] = MergedInto(done[n], s[n + 1])
    BY <1>12, <2>1
  <2>3. MergedInto(done[n], s[n + 1]) \in T
    BY <1>1, <1>2, <2>1, MergedIntoType
  <2> QED
    BY <2>1, <2>2, <2>3
<1>15. P \in SUBSET (0..N)
  OBVIOUS
<1> HIDE DEF P
<1>16. P = 0..N
  BY <1>13, <1>14, <1>15, BoundedInduction
<1>17. \A n \in 0..N : done[n] \in T
  BY <1>16 DEF P
<1>18. done \in [0..N -> T]
  BY <1>1, <1>10, <1>17
<1>19. done[0] = <<>> /\ \A n \in 1..N : done[n] = MergedInto(done[n - 1], s[n])
  BY <1>12
<1> QED
  BY <1>1, <1>2, <1>11, <1>18, <1>19

LEMMA MergedType ==
  ASSUME NEW s \in Seq(Candidates)
  PROVE  Merged(s) \in Seq(Candidates)
<1>1. PICK done, N : N \in Nat /\ N = Len(s) /\ done \in [0..N -> Seq(Candidates)] /\ Merged(s) = done[N]
  BY MergedSteps
<1> QED
  BY <1>1

\* The candidate with n - 1 better ones.
Better(score, i, j) == score[i] > score[j] \/ (score[i] = score[j] /\ i < j)
Rated(K, score, n) == CHOOSE x \in K : Cardinality({y \in K : Better(score, y, x)}) = n - 1

\* Some of the elements of a sequence, each once.
Parts(t, s, n, e) ==
  /\ n \in Nat /\ e \in [1..n -> DOMAIN s] /\ t = [j \in 1..n |-> s[e[j]]]
  /\ \A i, j \in 1..n : e[i] = e[j] => i = j

LEMMA RerankedIs ==
  ASSUME NEW S, NEW s \in Seq(S), NEW score, \A i \in DOMAIN s : score[i] \in Int
  PROVE  \E n, e : Parts(Reranked(s, score), s, n, e)
<1>1. DOMAIN s = 1..Len(s) /\ Len(s) \in Nat /\ \A i \in DOMAIN s : s[i] \in S
  BY ElementOf
<1>2. PICK K \in SUBSET DOMAIN s : K = {i \in DOMAIN s : score[i] > 0}
  OBVIOUS
<1>3. IsFiniteSet(K)
  <2>1. IsFiniteSet(1..Len(s))
    BY <1>1, FS_Interval
  <2> QED
    BY <1>1, <2>1, FS_Subset
<1> DEFINE R == {p \in K \X K : Better(score, p[1], p[2])}
           N == Cardinality(K)
<1>4. \A x, y \in K : <<x, y>> \in R <=> Better(score, x, y)
  OBVIOUS
<1>5. IsOrder(R, K)
  <2>1. R \subseteq K \X K
    OBVIOUS
  <2> HIDE DEF R
  <2>2. \A x \in K : score[x] \in Int /\ x \in Nat
    BY <1>1, <1>2
  <2>3. \A x \in K : <<x, x>> \notin R
    BY <1>4, <2>2 DEF Better
  <2>4. \A x, y, z \in K : <<x, y>> \in R /\ <<y, z>> \in R => <<x, z>> \in R
    BY <1>4, <2>2 DEF Better
  <2>5. \A x, y \in K : x # y => <<x, y>> \in R \/ <<y, x>> \in R
    BY <1>4, <2>2 DEF Better
  <2> QED
    BY <2>1, <2>3, <2>4, <2>5 DEF IsOrder
<1>6. PICK e : e = [n \in 1..N |-> Rated(K, score, n)]
  OBVIOUS
<1>7. Ranks(e, R, K, N)
  <2> HIDE DEF N
  <2>1. e = [n \in 1..N |-> e[n]]
    BY <1>6
  <2>2. ASSUME NEW n \in 1..N
        PROVE  e[n] = CHOOSE x \in K : Cardinality({y \in K : <<y, x>> \in R}) = n - 1
    <3>1. e[n] = CHOOSE x \in K : Cardinality({y \in K : Better(score, y, x)}) = n - 1
      <4>1. e[n] = Rated(K, score, n)
        BY <1>6
      <4> QED
        BY <4>1 DEF Rated
    <3> HIDE DEF R
    <3>2. \A x \in K : {y \in K : Better(score, y, x)} = {y \in K : <<y, x>> \in R}
      BY <1>4
    <3>3. \A x : (x \in K /\ Cardinality({y \in K : Better(score, y, x)}) = n - 1)
                 <=> (x \in K /\ Cardinality({y \in K : <<y, x>> \in R}) = n - 1)
      BY <3>2
    <3>4. (CHOOSE x \in K : Cardinality({y \in K : Better(score, y, x)}) = n - 1)
          = (CHOOSE x \in K : Cardinality({y \in K : <<y, x>> \in R}) = n - 1)
      BY <3>3
    <3> QED
      BY <3>1, <3>4, Zenon
  <2> HIDE DEF R
  <2> QED
    BY <2>1, <2>2, Zenon DEF Ranks
<1>8. N \in Nat /\ e \in [1..N -> K] /\ \A i, j \in 1..N : e[i] = e[j] => i = j
  <2>1. N = Cardinality(K)
    OBVIOUS
  <2> HIDE DEF R, N
  <2>2. N \in Nat /\ e \in [1..N -> K] /\ \A m, n \in 1..N : m < n <=> <<e[m], e[n]>> \in R
    BY <1>3, <1>5, <1>7, <2>1, OrderIs
  <2>3. \A x \in K : <<x, x>> \notin R
    BY <1>5 DEF IsOrder
  <2>4. ASSUME NEW i \in 1..N, NEW j \in 1..N, e[i] = e[j] PROVE i = j
    <3>1. PICK x \in K : x = e[i] /\ x = e[j]
      BY <2>2, <2>4
    <3>2. ~(i < j) /\ ~(j < i)
      BY <2>2, <2>3, <3>1
    <3> QED
      BY <3>2
  <2> QED
    BY <2>2, <2>4
<1>9. Reranked(s, score) = [n \in DOMAIN e |-> s[e[n]]]
  BY <1>2, <1>6 DEF Reranked, Ordered, Rated, Better
<1> HIDE DEF N
<1>10. Reranked(s, score) = [n \in 1..N |-> s[e[n]]] /\ e \in [1..N -> DOMAIN s]
  BY <1>2, <1>8, <1>9
<1>11. Parts(Reranked(s, score), s, N, e)
  BY <1>8, <1>10 DEF Parts
<1> QED
  BY <1>11

LEMMA RerankedType ==
  ASSUME NEW S, NEW s \in Seq(S), NEW score, \A i \in DOMAIN s : score[i] \in Int
  PROVE  Reranked(s, score) \in Seq(S)
<1>0. PICK n, e : Parts(Reranked(s, score), s, n, e)
  BY RerankedIs
<1>1. n \in Nat /\ e \in [1..n -> DOMAIN s] /\ Reranked(s, score) = [j \in 1..n |-> s[e[j]]]
  BY <1>0 DEF Parts
<1>2. \A i \in DOMAIN s : s[i] \in S
  BY ElementOf
<1>3. [j \in 1..n |-> s[e[j]]] \in [1..n -> S]
  BY <1>1, <1>2
<1> QED
  BY <1>1, <1>3

-----------------------------------------------------------------------------
(* Every plan of every reply.                                              *)

Waiting == {"facts", "searched", "unavailable", "refused"}
Made == {"planned", "compiled"}

\* What is kept is what the planner drafted from the facts and the search, and
\* it is valid; only what is not valid is refused.
PlanInv ==
  /\ facts \in PlanRequests /\ found \in FoundType /\ at \in Waiting \cup Made
  /\ at \in Waiting => contextPlan = NoContextPlan
  /\ at \in Made => contextPlan = Drafted
  /\ at = "refused" => ~Valid(Drafted)

LEMMA NoneFound ==
  /\ NoEvidence \in FoundType
  /\ [NoEvidence EXCEPT !.outcome = "degraded"] \in FoundType
  /\ [NoEvidence EXCEPT !.outcome = "no_hit"] \in FoundType
<1>1. <<>> \in Seq(Candidates)
  <2>1. \A S : <<>> \in Seq(S)
    OBVIOUS
  <2> QED
    BY <2>1
<1> QED
  BY <1>1 DEF NoEvidence, FoundType, Outcomes

LEMMA RetrievedType ==
  ASSUME NEW candidates \in Findings, NEW rerank, Retrieve(candidates, rerank)
  PROVE  found' \in FoundType
<1>1. candidates \in Seq(Candidates)
  BY PlanAssumption DEF Candidates
<1>2. PICK S : S = Candidates
  OBVIOUS
<1>3. Verified(candidates) \in Seq(Candidates)
  <2>1. candidates \in Seq(S)
    BY <1>1, <1>2
  <2> QED
    BY <1>2, <2>1, PickedType DEF Verified
<1>4. PICK v \in Seq(S) : v = Verified(candidates)
  BY <1>2, <1>3
<1>5. Deduplicated(v) \in Seq(Candidates)
  BY <1>2, PickedType DEF Deduplicated
<1>6. PICK s \in Seq(S) : s = Normalized(Verified(candidates))
  BY <1>2, <1>4, <1>5, MergedType DEF Normalized
<1>7. PICK score : score = [i \in DOMAIN s |->
                IF rerank = "reversed" THEN i ELSE IF i = 1 THEN 0 ELSE 1]
  OBVIOUS
<1>8. \A i \in DOMAIN s : score[i] \in Int
  BY <1>7
<1>9. Reranked(s, score) \in Seq(S)
  BY <1>8, RerankedType
<1>10. PICK kept \in Seq(S) : kept = IF rerank = "off" THEN s ELSE Reranked(s, score)
  BY <1>9
<1>11. found' = IF kept = <<>> \/ facts.text = 0 THEN [NoEvidence EXCEPT !.outcome = "no_hit"]
                ELSE [outcome |-> "hit", candidates |-> kept]
  BY <1>6, <1>7, <1>10 DEF Retrieve
<1>12. [outcome |-> "hit", candidates |-> kept] \in FoundType
  BY <1>2, <1>10 DEF FoundType, Outcomes
<1> QED
  BY <1>11, <1>12, NoneFound

\* A plan is drafted from the facts, the search and nothing else.
LEMMA DraftStays ==
  ASSUME facts' = facts, found' = found
  PROVE  /\ Drafted' = Drafted /\ Valid(Drafted)' = Valid(Drafted) /\ PlanGroups' = PlanGroups
<1>1. Remembered' = Remembered /\ MemoryBoundary' = MemoryBoundary
  BY DEF Remembered, MemoryBoundary
<1>2. CoreGroups' = CoreGroups
  BY DEF CoreGroups
<1>3. MemoryGroups' = MemoryGroups
  BY <1>1 DEF MemoryGroups
<1>4. Read' = Read
  BY <1>1, <1>2 DEF Read
<1>5. HistoryGroups' = HistoryGroups
  BY <1>4 DEF HistoryGroups
<1>6. EvidenceGroups' = EvidenceGroups
  BY <1>1, <1>5 DEF EvidenceGroups, Recalled
<1>7. PlanGroups' = PlanGroups
  BY <1>2, <1>3, <1>5, <1>6 DEF PlanGroups
<1>8. Drafted' = Drafted
  BY <1>7 DEF Drafted
<1>9. Valid(Drafted)' = Valid(Drafted)
  BY <1>8 DEF Valid
<1> QED
  BY <1>7, <1>8, <1>9

LEMMA PlanInvStarts ==
  ASSUME PlanInit
  PROVE  PlanInv
<1>1. facts \in PlanRequests /\ found = NoEvidence /\ contextPlan = NoContextPlan /\ at = "facts"
  BY DEF PlanInit
<1> QED
  BY <1>1, NoneFound DEF PlanInv, Waiting, Made

LEMMA PlanInvHolds ==
  ASSUME PlanInv, [PlanningNext]_planVars
  PROVE  PlanInv'
<1>1. /\ facts \in PlanRequests /\ found \in FoundType /\ at \in Waiting \cup Made
      /\ at \in Waiting => contextPlan = NoContextPlan
      /\ at \in Made => contextPlan = Drafted
      /\ at = "refused" => ~Valid(Drafted)
  BY DEF PlanInv
<1>2. ASSUME facts' = facts, found' \in FoundType, at = "facts", at' \in {"searched", "unavailable"}, contextPlan' = contextPlan
      PROVE  PlanInv'
  BY <1>1, <1>2 DEF PlanInv, Waiting, Made
<1>3. CASE Unsearched
  <2>1. /\ facts' = facts /\ at = "facts" /\ at' = "searched" /\ contextPlan' = contextPlan
        /\ found' = [NoEvidence EXCEPT !.outcome = "degraded"] \/ found' = found
    BY <1>3 DEF Unsearched
  <2> QED
    BY <1>1, <1>2, <2>1, NoneFound
<1>4. CASE SearchFails
  <2>1. /\ facts' = facts /\ at = "facts" /\ at' = "searched" /\ contextPlan' = contextPlan
        /\ found' = [NoEvidence EXCEPT !.outcome = "degraded"]
    BY <1>4 DEF SearchFails, Searching
  <2> QED
    BY <1>2, <2>1, NoneFound
<1>5. CASE AttachmentUnavailable
  BY <1>1, <1>2, <1>5 DEF AttachmentUnavailable
<1>6. ASSUME NEW f \in Findings, NEW r \in {"off", "reversed", "but_first"}, Retrieve(f, r) PROVE PlanInv'
  <2>1. found' \in FoundType
    BY <1>6, RetrievedType
  <2>2. facts' = facts /\ at = "facts" /\ at' = "searched" /\ contextPlan' = contextPlan
    BY <1>6 DEF Retrieve, Searching
  <2> QED
    BY <1>2, <2>1, <2>2
<1>7. CASE BuildPlan
  <2>1. facts' = facts /\ found' = found /\ at = "searched"
    BY <1>7 DEF BuildPlan
  <2>2. Drafted' = Drafted /\ Valid(Drafted)' = Valid(Drafted)
    BY <2>1, DraftStays
  <2>3. CASE Valid(Drafted)
    <3>1. contextPlan' = Drafted /\ at' = "planned"
      BY <1>7, <2>3 DEF BuildPlan
    <3> QED
      BY <1>1, <2>1, <2>2, <3>1 DEF PlanInv, Waiting, Made
  <2>4. CASE ~Valid(Drafted)
    <3>1. contextPlan' = contextPlan /\ at' = "refused"
      BY <1>7, <2>4 DEF BuildPlan
    <3>2. contextPlan' = NoContextPlan
      BY <1>1, <2>1, <3>1 DEF Waiting
    <3>3. ~Valid(Drafted)'
      BY <2>2, <2>4
    <3> QED
      BY <1>1, <2>1, <3>1, <3>2, <3>3 DEF PlanInv, Waiting, Made
  <2> QED
    BY <2>3, <2>4
<1>8. CASE CompileChatInput
  <2>1. facts' = facts /\ found' = found /\ at = "planned" /\ at' = "compiled" /\ contextPlan' = contextPlan
    BY <1>8 DEF CompileChatInput
  <2>2. Drafted' = Drafted
    BY <2>1, DraftStays
  <2> QED
    BY <1>1, <2>1, <2>2 DEF PlanInv, Waiting, Made
<1>9. CASE UNCHANGED planVars
  <2>1. facts' = facts /\ found' = found /\ at' = at /\ contextPlan' = contextPlan
    BY <1>9 DEF planVars
  <2>2. Drafted' = Drafted /\ Valid(Drafted)' = Valid(Drafted)
    BY <2>1, DraftStays
  <2> QED
    BY <1>1, <2>1, <2>2 DEF PlanInv
<1> QED
  BY <1>3, <1>4, <1>5, <1>6, <1>7, <1>8, <1>9 DEF PlanningNext

\* What PlanFits says of one plan that fits.
LEMMA FitsSaysSo ==
  ASSUME NEW inside, NEW M, NEW p, NEW b, facts \in PlanRequests, found \in FoundType,
         Fits(contextPlan, PlanGroups, inside, M, p, b)
  PROVE  /\ {g \in PlanGroups : Inside(g)} = inside
         /\ \A g \in PlanGroups : Outside(g) => g \notin inside /\ g.reason = "none"
<1>1. PICK gs, items, chosen : gs = PlanGroups /\ items = contextPlan.items /\ chosen = Selection(gs, facts.budget).chosen
  OBVIOUS
<1>2. Family(gs, PlanIds)
  BY <1>1, PlanFamily
<1>3. inside \in SUBSET gs /\ inside = Named(gs, chosen) /\ Items(items, M, p, b, gs, chosen)
  BY <1>1 DEF Fits
<1>4. /\ DOMAIN items = 1..M /\ p \in [1..M -> gs]
      /\ \A j \in 1..M : items[j].group = p[j].id
      /\ \A g \in gs : \A i \in DOMAIN g.blocks : \E j \in 1..M : p[j] = g /\ b[j] = i
  BY <1>3 DEF Items
<1>5. /\ \A j \in 1..M : IsSelected(items[j]) <=> p[j] \in inside
      /\ \A j \in 1..M : items[j].reason = "budget_exceeded" => p[j] \notin inside
      /\ \A j \in 1..M : items[j].reason = "budget_exceeded" /\ p[j].reason # "budget_exceeded" => p[j].reason = "none"
  BY <1>3, SelectedAre
<1>6. \A g, h \in gs : g.id = h.id => g = h
  BY <1>2 DEF Family
<1>7. \A g \in gs : g.reason # "budget_exceeded" /\ g.blocks # <<>> /\ g \in GroupType
  BY <1>2 DEF Family, GroupType, Reasons
<1>8. ASSUME NEW g \in gs PROVE Inside(g) <=> g \in inside
  <2>1. Inside(g) => g \in inside
    <3> SUFFICES ASSUME NEW j \in 1..M, items[j].group = g.id, IsSelected(items[j]) PROVE g \in inside
      BY <1>1, <1>4 DEF Inside
    <3>1. p[j] = g
      BY <1>4, <1>6
    <3> QED
      BY <1>5, <3>1
  <2>2. ASSUME g \in inside PROVE Inside(g)
    <3>1. 1 \in DOMAIN g.blocks
      <4>1. PICK T : T = BlockType
        OBVIOUS
      <4>2. g.blocks \in Seq(T)
        BY <1>7, <4>1 DEF GroupType
      <4>3. \A s \in Seq(T) : s # <<>> => 1 \in DOMAIN s
        OBVIOUS
      <4> QED
        BY <1>7, <4>2, <4>3
    <3>2. PICK j \in 1..M : p[j] = g
      BY <1>4, <3>1
    <3>3. items[j].group = g.id /\ IsSelected(items[j])
      BY <1>4, <1>5, <2>2, <3>2
    <3> QED
      BY <1>1, <1>4, <3>3 DEF Inside
  <2> QED
    BY <2>1, <2>2
<1>9. ASSUME NEW g \in gs, Outside(g) PROVE g \notin inside /\ g.reason = "none"
  <2>1. PICK j \in 1..M : items[j].group = g.id /\ items[j].reason = "budget_exceeded"
    BY <1>1, <1>4, <1>9 DEF Outside
  <2>2. p[j] = g
    BY <1>4, <1>6, <2>1
  <2> QED
    BY <1>5, <1>7, <2>1, <2>2
<1> QED
  BY <1>1, <1>3, <1>8, <1>9

LEMMA InvFits ==
  ASSUME PlanInv
  PROVE  PlanFits
<1>1. /\ facts \in PlanRequests /\ found \in FoundType /\ at \in Waiting \cup Made
      /\ at \in Waiting => contextPlan = NoContextPlan
      /\ at \in Made => contextPlan = Drafted
      /\ at = "refused" => ~Valid(Drafted)
  BY DEF PlanInv
<1>2. facts.attached \in BOOLEAN
  BY <1>1, FactsType
<1>3. at = "refused" => RequiredTokens(PlanGroups) > facts.budget /\ facts.attached
  BY <1>1, <1>2, DraftFailed, DraftValid
<1>4. NoContextPlan.state = "none"
  BY DEF NoContextPlan
<1>5. contextPlan.state \in {"failed", "ready"} => contextPlan = Drafted
  BY <1>1, <1>4
<1>6. contextPlan.state = "failed" => RequiredTokens(PlanGroups) > facts.budget
  <2> SUFFICES ASSUME contextPlan.state = "failed", ~(RequiredTokens(PlanGroups) > facts.budget) PROVE FALSE
    OBVIOUS
  <2>1. PICK inside, M, p, b : Fits(Drafted, PlanGroups, inside, M, p, b)
    BY <1>1, DraftFits
  <2>2. Drafted.state = "ready"
    BY <2>1 DEF Fits
  <2> QED
    BY <1>5, <2>2
<1>7. ASSUME contextPlan.state = "ready"
      PROVE  LET inside == {g \in PlanGroups : Inside(g)}
             IN /\ CoverageOf(inside) <= facts.budget
                /\ {g \in PlanGroups : g.required} \subseteq inside
                /\ \A g \in PlanGroups : Outside(g) =>
                     /\ g \notin inside
                     /\ TokensOf(g.blocks) + CoverageOf({h \in inside : h.required \/ Before(h, g)}) > facts.budget
  <2>1. ~(RequiredTokens(PlanGroups) > facts.budget)
    BY <1>1, <1>5, <1>7, DraftFailed
  <2>2. PICK K, M, p, b : Fits(Drafted, PlanGroups, K, M, p, b)
    BY <1>1, <2>1, DraftFits
  <2>3. Fits(contextPlan, PlanGroups, K, M, p, b)
    BY <1>5, <1>7, <2>2
  <2>4. /\ {g \in PlanGroups : Inside(g)} = K
        /\ \A g \in PlanGroups : Outside(g) => g \notin K /\ g.reason = "none"
    BY <1>1, <2>3, FitsSaysSo
  <2>5. /\ CoverageOf(K) <= facts.budget /\ {g \in PlanGroups : g.required} \subseteq K
        /\ \A g \in PlanGroups : g \notin K /\ g.reason = "none" =>
             TokensOf(g.blocks) + CoverageOf({h \in K : h.required \/ Before(h, g)}) > facts.budget
    BY <2>2 DEF Fits
  <2> QED
    BY <2>4, <2>5
<1> QED
  BY <1>3, <1>6, <1>7 DEF PlanFits

\* Every plan keeps within its budget, holds what is required, and leaves out
\* for the budget only what does not fit; no facts and no search make the
\* planner refuse its own plan but required groups above the budget in a
\* message with a file (ContextPacker.Pack, Planner.BuildPlan, Validate).
THEOREM PlansFit == PlanningSpec => []PlanFits
<1>1. PlanInit => PlanInv
  BY PlanInvStarts
<1>2. PlanInv /\ [PlanningNext]_planVars => PlanInv'
  BY PlanInvHolds
<1>3. PlanInv => PlanFits
  BY InvFits
<1> QED
  BY <1>1, <1>2, <1>3, PTL DEF PlanningSpec

-----------------------------------------------------------------------------
(* Nothing is found twice.                                                 *)

TurnNames == {facts.turns[j].id : j \in DOMAIN facts.turns}

\* A content of its own: a passage, or a turn of the conversation.
Single(c) ==
  \E x : /\ c.shows = {x}
         /\ c.kind = "passage" => x # 0 /\ x \notin TurnNames
         /\ c.kind = "turn" => x \in TurnNames

\* Candidates that share nothing, passages apart from turns.
Sound(c) ==
  /\ \A i, j \in DOMAIN c : i # j => c[i].shows \cap c[j].shows = {}
  /\ \A i \in DOMAIN c : c[i].kind = "passage" => \A x \in c[i].shows : x # 0 /\ x \notin TurnNames
  /\ \A i \in DOMAIN c : c[i].kind = "turn" => \E x \in TurnNames : c[i].shows = {x}

LEMMA SoundNone == Sound(<<>>)
<1>1. DOMAIN <<>> = {}
  OBVIOUS
<1> QED
  BY <1>1, Zenon DEF Sound

LEMMA SoundParts ==
  ASSUME NEW s, NEW t, NEW n, NEW e, Sound(s), Parts(t, s, n, e)
  PROVE  Sound(t)
<1>1. \A j \in DOMAIN t : e[j] \in DOMAIN s /\ t[j] = s[e[j]]
  BY DEF Parts
<1>2. \A i, j \in DOMAIN t : i # j => e[i] # e[j]
  BY DEF Parts
<1>3. \A i, j \in DOMAIN t : i # j => t[i].shows \cap t[j].shows = {}
  <2>1. \A i, j \in DOMAIN s : i # j => s[i].shows \cap s[j].shows = {}
    BY DEF Sound
  <2> QED
    BY <1>1, <1>2, <2>1, Zenon
<1>4. \A i \in DOMAIN t : t[i].kind = "passage" => \A x \in t[i].shows : x # 0 /\ x \notin TurnNames
  BY <1>1 DEF Sound
<1>5. \A i \in DOMAIN t : t[i].kind = "turn" => \E x \in TurnNames : t[i].shows = {x}
  BY <1>1 DEF Sound
<1> QED
  BY <1>3, <1>4, <1>5, Zenon DEF Sound

LEMMA PickedParts ==
  ASSUME NEW S, NEW s \in Seq(S), NEW K \in SUBSET DOMAIN s
  PROVE  \E n, e : Parts(Picked(s, K), s, n, e) /\ \A j \in 1..n : e[j] \in K
<1>1. DOMAIN s = 1..Len(s) /\ Len(s) \in Nat
  BY ElementOf
<1>2. IsFiniteSet(K) /\ K \in SUBSET Nat
  <2>1. IsFiniteSet(1..Len(s))
    BY <1>1, FS_Interval
  <2> QED
    BY <1>1, <2>1, FS_Subset
<1>3. PICK n \in Nat : \E e : Enumerates(e, n, K) /\ Picked(s, K) = [j \in 1..n |-> s[e[j]]]
  BY <1>2, PickedIs
<1>4. PICK e : Enumerates(e, n, K) /\ Picked(s, K) = [j \in 1..n |-> s[e[j]]]
  BY <1>3
<1>5. \A j \in 1..n : e[j] \in K /\ e[j] \in Nat
  BY <1>2, <1>4 DEF Enumerates
<1>6. ASSUME NEW i \in 1..n, NEW j \in 1..n, e[i] = e[j] PROVE i = j
  <2>1. (i < j <=> e[i] < e[j]) /\ (j < i <=> e[j] < e[i])
    BY <1>4 DEF Enumerates
  <2>2. PICK x \in Nat : x = e[i] /\ x = e[j]
    BY <1>5, <1>6
  <2> QED
    BY <2>1, <2>2
<1>7. Parts(Picked(s, K), s, n, e)
  <2>1. e \in [1..n -> DOMAIN s]
    BY <1>4, <1>5 DEF Enumerates
  <2> QED
    BY <1>4, <1>6, <2>1 DEF Parts
<1> QED
  BY <1>5, <1>7

\* What VerifyCandidates leaves.
LEMMA VerifiedSingles ==
  ASSUME facts \in PlanRequests, NEW f \in Findings
  PROVE  Verified(f) \in Seq(Candidates) /\ \A i \in DOMAIN Verified(f) : Single(Verified(f)[i])
<1>1. PICK S : S = Candidates
  OBVIOUS
<1>2. f \in Seq(S)
  BY <1>1, PlanAssumption DEF Candidates
<1>3. \A i \in DOMAIN f : f[i] \in Candidates
  BY <1>1, <1>2, ElementOf
<1>4. PICK K \in SUBSET DOMAIN f :
        K = {i \in DOMAIN f : IsPassage(f[i]) \/ \E j \in DOMAIN facts.turns : facts.turns[j].id \in f[i].shows}
  OBVIOUS
<1>5. Verified(f) = Picked(f, K)
  BY <1>4 DEF Verified
<1>6. PICK n, e : Parts(Picked(f, K), f, n, e) /\ \A j \in 1..n : e[j] \in K
  BY <1>2, PickedParts
<1>7. ASSUME NEW i \in K PROVE Single(f[i])
  <2>1. i \in DOMAIN f /\ (f[i].kind = "passage" \/ \E j \in DOMAIN facts.turns : facts.turns[j].id \in f[i].shows)
    BY <1>4 DEF IsPassage
  <2>2. PICK x : /\ f[i].shows = {x}
                 /\ f[i].kind = "passage" =>
                      x # 0 /\ \A q \in PlanRequests : \A j \in DOMAIN q.turns : q.turns[j].id # x
    BY <2>1, PlanAssumption
  <2>3. f[i].kind = "passage" => x # 0 /\ x \notin TurnNames
    BY <2>2 DEF TurnNames
  <2>4. f[i].kind = "turn" => x \in TurnNames
    BY <2>1, <2>2 DEF TurnNames
  <2> QED
    BY <2>2, <2>3, <2>4 DEF Single
<1>8. Picked(f, K) \in Seq(S)
  BY <1>2, PickedType
<1>9. \A j \in DOMAIN Picked(f, K) : Single(Picked(f, K)[j])
  BY <1>6, <1>7 DEF Parts
<1> QED
  BY <1>1, <1>5, <1>8, <1>9

\* Of equal contents one stays.
LEMMA DeduplicatedSound ==
  ASSUME NEW s \in Seq(Candidates), \A i \in DOMAIN s : Single(s[i])
  PROVE  Deduplicated(s) \in Seq(Candidates) /\ Sound(Deduplicated(s))
<1>1. PICK S : S = Candidates
  OBVIOUS
<1>2. s \in Seq(S) /\ \A i \in DOMAIN s : s[i] \in Candidates
  BY <1>1, ElementOf
<1>3. DOMAIN s = 1..Len(s) /\ Len(s) \in Nat
  BY ElementOf
<1>4. PICK K \in SUBSET DOMAIN s :
        K = {i \in DOMAIN s : \A j \in 1..(i - 1) : s[j].kind # s[i].kind \/ s[j].shows # s[i].shows}
  OBVIOUS
<1>5. Deduplicated(s) = Picked(s, K)
  BY <1>4 DEF Deduplicated
<1>6. PICK n, e : Parts(Picked(s, K), s, n, e) /\ \A j \in 1..n : e[j] \in K
  BY <1>2, PickedParts
<1>7. PICK t : t = Picked(s, K)
  OBVIOUS
<1>8. ASSUME NEW i \in K, NEW j \in K, i # j PROVE s[i].shows \cap s[j].shows = {}
  <2>1. s[i].kind # s[j].kind \/ s[i].shows # s[j].shows
    <3>1. i \in Nat /\ j \in Nat /\ i > 0 /\ j > 0
      BY <1>3
    <3>2. i \in 1..(j - 1) \/ j \in 1..(i - 1)
      BY <1>8, <3>1
    <3> QED
      BY <1>4, <3>2
  <2>2. Single(s[i]) /\ Single(s[j])
    OBVIOUS
  <2>3. s[i].kind \in {"passage", "turn"} /\ s[j].kind \in {"passage", "turn"}
    BY <1>2 DEF Candidates
  <2> QED
    BY <2>1, <2>2, <2>3 DEF Single
<1>9. /\ DOMAIN t = 1..n /\ \A j \in 1..n : e[j] \in K /\ e[j] \in DOMAIN s /\ t[j] = s[e[j]]
      /\ \A i, j \in 1..n : e[i] = e[j] => i = j
  BY <1>6, <1>7 DEF Parts
<1>10. \A i, j \in DOMAIN t : i # j => t[i].shows \cap t[j].shows = {}
  BY <1>8, <1>9
<1>11. ASSUME NEW i \in DOMAIN t PROVE Single(t[i])
  BY <1>9
<1>12. Sound(t)
  <2>1. \A i \in DOMAIN t : t[i].kind = "passage" => \A x \in t[i].shows : x # 0 /\ x \notin TurnNames
    BY <1>11 DEF Single
  <2>2. \A i \in DOMAIN t : t[i].kind = "turn" => \E x \in TurnNames : t[i].shows = {x}
    BY <1>11 DEF Single
  <2> QED
    BY <1>10, <2>1, <2>2 DEF Sound
<1>13. Picked(s, K) \in Seq(S)
  BY <1>2, PickedType
<1> QED
  BY <1>1, <1>5, <1>7, <1>12, <1>13

\* What n candidates were merged into.
Grown(t, s, n) ==
  /\ \A i, j \in DOMAIN t : i # j => t[i].shows \cap t[j].shows = {}
  /\ \A i \in DOMAIN t : \A x \in t[i].shows : \E k \in 1..n : x \in s[k].shows /\ s[k].kind = t[i].kind
  /\ \A i \in DOMAIN t : t[i].kind = "turn" => \E k \in 1..n : s[k].kind = "turn" /\ t[i].shows = s[k].shows

LEMMA GrownMore ==
  ASSUME NEW s \in Seq(Candidates), Sound(s), NEW n \in Nat, n + 1 \in DOMAIN s,
         NEW t \in Seq(Candidates), Grown(t, s, n)
  PROVE  Grown(MergedInto(t, s[n + 1]), s, n + 1)
<1>1. PICK c : c = s[n + 1]
  OBVIOUS
<1>2. PICK S : S = Candidates
  OBVIOUS
<1>3. PICK L \in Nat : L = Len(t) /\ DOMAIN t = 1..L
  BY ElementOf
<1>4. c \in Candidates /\ t \in Seq(S) /\ (\A i \in DOMAIN t : t[i] \in Candidates) /\ DOMAIN s = 1..Len(s)
  BY <1>1, <1>2, ElementOf
<1>5. \A k \in 1..n : k \in DOMAIN s /\ k # n + 1 /\ k \in 1..(n + 1)
  BY <1>4
<1>6. n + 1 \in 1..(n + 1)
  OBVIOUS
<1>7. \A k \in 1..n : s[k].shows \cap c.shows = {}
  BY <1>1, <1>5 DEF Sound
<1>8. \A i \in DOMAIN t : t[i].shows \cap c.shows = {}
  BY <1>7 DEF Grown
<1>9. \A i, j \in DOMAIN t : i # j => t[i].shows \cap t[j].shows = {}
  BY DEF Grown
<1>10. \A i \in DOMAIN t : \A x \in t[i].shows : \E k \in 1..(n + 1) : x \in s[k].shows /\ s[k].kind = t[i].kind
  BY <1>5 DEF Grown
<1>11. \A i \in DOMAIN t : t[i].kind = "turn" => \E k \in 1..(n + 1) : s[k].kind = "turn" /\ t[i].shows = s[k].shows
  BY <1>5 DEF Grown
<1>12. CASE t # <<>> /\ Mergeable(Last(t), c)
  <2>1. PICK u : u = MergedInto(t, c)
    OBVIOUS
  <2>2. L > 0 /\ L \in DOMAIN t
    <3>1. L = 0 => t = <<>>
      BY <1>3, <1>4
    <3> QED
      BY <1>3, <1>12, <3>1
  <2>3. PICK l : l = t[L] /\ l = Last(t)
    BY <1>3 DEF Last
  <2>4. PICK m : m = MergedWith(l, c)
    OBVIOUS
  <2>5. l \in Candidates /\ l.kind = "passage" /\ c.kind = "passage"
    BY <1>4, <1>12, <2>2, <2>3 DEF Mergeable, IsPassage
  <2>6. m.kind = "passage" /\ m.shows = l.shows \cup c.shows
    <3>1. m = [l EXCEPT !.last = c.last, !.shows = l.shows \cup c.shows,
                        !.tokens = l.tokens + SeparatorTokens + c.tokens]
      BY <2>4, <2>5 DEF MergedWith, Candidates
    <3> QED
      BY <2>5, <3>1 DEF Candidates
  <2>7. DOMAIN u = 1..L /\ u[L] = m /\ \A i \in 1..L : i # L => u[i] = t[i]
    <3>1. u = Append(Front(t), m)
      BY <1>12, <2>1, <2>3, <2>4 DEF MergedInto
    <3>2. m \in Candidates
      BY <1>4, <2>4, <2>5, MergedWithType
    <3>3. PICK f : f = Front(t) /\ f \in Seq(S) /\ Len(f) = L - 1 /\ \A i \in 1..(L - 1) : f[i] = t[i]
      <4>1. Front(t) = SubSeq(t, 1, L - 1)
        BY <1>3 DEF Front
      <4>2. PICK f : f = SubSeq(t, 1, L - 1)
        OBVIOUS
      <4>3. f \in Seq(S) /\ Len(f) = L - 1 /\ \A i \in 1..(L - 1) : f[i] = t[i]
        BY <1>3, <1>4, <2>2, <4>2
      <4> QED
        BY <4>1, <4>2, <4>3
    <3>4. m \in S
      BY <1>2, <3>2
    <3> QED
      BY <2>2, <3>1, <3>3, <3>4
  <2>8. ASSUME NEW i \in DOMAIN u, NEW j \in DOMAIN u, i # j PROVE u[i].shows \cap u[j].shows = {}
    <3>1. CASE i # L /\ j # L
      BY <1>3, <1>9, <2>7, <2>8, <3>1
    <3>2. CASE i = L /\ j # L
      BY <1>3, <1>8, <1>9, <2>2, <2>3, <2>6, <2>7, <2>8, <3>2
    <3>3. CASE i # L /\ j = L
      BY <1>3, <1>8, <1>9, <2>2, <2>3, <2>6, <2>7, <2>8, <3>3
    <3> QED
      BY <2>8, <3>1, <3>2, <3>3
  <2>9. ASSUME NEW i \in DOMAIN u, NEW x \in u[i].shows
        PROVE  \E k \in 1..(n + 1) : x \in s[k].shows /\ s[k].kind = u[i].kind
    <3>1. CASE i # L
      BY <1>3, <1>10, <2>7, <3>1
    <3>2. CASE i = L /\ x \in l.shows
      BY <1>10, <2>2, <2>3, <2>5, <2>6, <2>7, <3>2
    <3>3. CASE i = L /\ x \in c.shows
      BY <1>1, <1>6, <2>5, <2>6, <2>7, <3>3
    <3> QED
      BY <2>6, <2>7, <3>1, <3>2, <3>3
  <2>10. \A i \in DOMAIN u : u[i].kind = "turn" => \E k \in 1..(n + 1) : s[k].kind = "turn" /\ u[i].shows = s[k].shows
    BY <1>3, <1>11, <2>6, <2>7
  <2> QED
    BY <1>1, <2>1, <2>8, <2>9, <2>10 DEF Grown
<1>13. CASE ~(t # <<>> /\ Mergeable(Last(t), c))
  <2>1. PICK u : u = MergedInto(t, c)
    OBVIOUS
  <2>2. DOMAIN u = 1..(L + 1) /\ u[L + 1] = c /\ \A i \in 1..(L + 1) : i # L + 1 => i \in DOMAIN t /\ u[i] = t[i]
    <3>1. u = Append(t, c)
      BY <1>13, <2>1 DEF MergedInto
    <3>2. c \in S
      BY <1>2, <1>4
    <3> QED
      BY <1>3, <1>4, <3>1, <3>2
  <2>3. ASSUME NEW i \in DOMAIN u, NEW j \in DOMAIN u, i # j PROVE u[i].shows \cap u[j].shows = {}
    <3>1. CASE i # L + 1 /\ j # L + 1
      BY <1>9, <2>2, <2>3, <3>1
    <3>2. CASE i = L + 1 /\ j # L + 1
      BY <1>8, <2>2, <3>2
    <3>3. CASE i # L + 1 /\ j = L + 1
      BY <1>8, <2>2, <3>3
    <3> QED
      BY <2>3, <3>1, <3>2, <3>3
  <2>4. ASSUME NEW i \in DOMAIN u, NEW x \in u[i].shows
        PROVE  \E k \in 1..(n + 1) : x \in s[k].shows /\ s[k].kind = u[i].kind
    <3>1. CASE i # L + 1
      BY <1>10, <2>2, <3>1
    <3>2. CASE i = L + 1
      BY <1>1, <1>6, <2>2, <3>2
    <3> QED
      BY <3>1, <3>2
  <2>5. ASSUME NEW i \in DOMAIN u, u[i].kind = "turn"
        PROVE  \E k \in 1..(n + 1) : s[k].kind = "turn" /\ u[i].shows = s[k].shows
    <3>1. CASE i # L + 1
      BY <1>11, <2>2, <2>5, <3>1
    <3>2. CASE i = L + 1
      BY <1>1, <1>6, <2>2, <2>5, <3>2
    <3> QED
      BY <3>1, <3>2
  <2> QED
    BY <1>1, <2>1, <2>3, <2>4, <2>5 DEF Grown
<1> QED
  BY <1>12, <1>13

LEMMA MergedSound ==
  ASSUME NEW s \in Seq(Candidates), Sound(s)
  PROVE  Sound(Merged(s))
<1>1. PICK N \in Nat : N = Len(s) /\ DOMAIN s = 1..N
  BY ElementOf
<1>2. PICK done : /\ done \in [0..N -> Seq(Candidates)] /\ done[0] = <<>>
                  /\ \A n \in 1..N : done[n] = MergedInto(done[n - 1], s[n])
                  /\ Merged(s) = done[N]
  BY <1>1, MergedSteps
<1> DEFINE P == {n \in 0..N : Grown(done[n], s, n)}
<1>3. 0 \in P
  <2>1. DOMAIN <<>> = {}
    OBVIOUS
  <2>2. Grown(<<>>, s, 0)
    BY <2>1, Zenon DEF Grown
  <2> QED
    BY <1>2, <2>2
<1>4. ASSUME NEW n \in P, n < N PROVE n + 1 \in P
  <2>1. n \in Nat /\ n + 1 \in 0..N /\ n + 1 \in DOMAIN s /\ n + 1 \in 1..N /\ (n + 1) - 1 = n
    BY <1>1, <1>4
  <2>2. done[n] \in Seq(Candidates) /\ done[n + 1] = MergedInto(done[n], s[n + 1])
    BY <1>2, <2>1
  <2>3. Grown(done[n], s, n)
    OBVIOUS
  <2>4. Grown(MergedInto(done[n], s[n + 1]), s, n + 1)
    BY <2>1, <2>2, <2>3, GrownMore
  <2> QED
    BY <2>1, <2>2, <2>4
<1>5. P \in SUBSET (0..N)
  OBVIOUS
<1> HIDE DEF P
<1>6. P = 0..N
  BY <1>3, <1>4, <1>5, BoundedInduction
<1>7. N \in P
  BY <1>6
<1>8. PICK t : t = Merged(s) /\ Grown(t, s, N)
  BY <1>2, <1>7 DEF P
<1>9. t \in Seq(Candidates)
  BY <1>8, MergedType
<1>10. \A i, j \in DOMAIN t : i # j => t[i].shows \cap t[j].shows = {}
  BY <1>8 DEF Grown
<1>11. \A i \in DOMAIN t : t[i].kind = "passage" => \A x \in t[i].shows : x # 0 /\ x \notin TurnNames
  <2> SUFFICES ASSUME NEW i \in DOMAIN t, t[i].kind = "passage", NEW x \in t[i].shows PROVE x # 0 /\ x \notin TurnNames
    OBVIOUS
  <2>1. PICK k \in DOMAIN s : x \in s[k].shows /\ s[k].kind = "passage"
    BY <1>1, <1>8 DEF Grown
  <2> QED
    BY <2>1 DEF Sound
<1>12. \A i \in DOMAIN t : t[i].kind = "turn" => \E x \in TurnNames : t[i].shows = {x}
  <2> SUFFICES ASSUME NEW i \in DOMAIN t, t[i].kind = "turn" PROVE \E x \in TurnNames : t[i].shows = {x}
    OBVIOUS
  <2>1. PICK k \in DOMAIN s : s[k].kind = "turn" /\ t[i].shows = s[k].shows
    BY <1>1, <1>8 DEF Grown
  <2> QED
    BY <2>1 DEF Sound
<1> QED
  BY <1>8, <1>10, <1>11, <1>12 DEF Sound

LEMMA RerankedSound ==
  ASSUME NEW s \in Seq(Candidates), Sound(s), NEW score, \A i \in DOMAIN s : score[i] \in Int
  PROVE  Sound(Reranked(s, score))
<1>1. PICK n, e : Parts(Reranked(s, score), s, n, e)
  BY RerankedIs
<1> QED
  BY <1>1, SoundParts

LEMMA RetrievedSound ==
  ASSUME facts \in PlanRequests, NEW f \in Findings, NEW rerank, Retrieve(f, rerank)
  PROVE  Sound(found'.candidates)
<1>1. PICK v : v = Verified(f) /\ v \in Seq(Candidates) /\ \A i \in DOMAIN v : Single(v[i])
  BY VerifiedSingles
<1>2. PICK d : d = Deduplicated(v) /\ d \in Seq(Candidates) /\ Sound(d)
  BY <1>1, DeduplicatedSound
<1>3. PICK s : s = Normalized(Verified(f)) /\ s \in Seq(Candidates) /\ Sound(s)
  BY <1>1, <1>2, MergedType, MergedSound DEF Normalized
<1>4. PICK score : score = [i \in DOMAIN s |-> IF rerank = "reversed" THEN i ELSE IF i = 1 THEN 0 ELSE 1]
  OBVIOUS
<1>5. \A i \in DOMAIN s : score[i] \in Int
  <2>1. DOMAIN s = 1..Len(s)
    BY <1>3, ElementOf
  <2> QED
    BY <1>4, <2>1
<1>6. Sound(Reranked(s, score))
  BY <1>3, <1>5, RerankedSound
<1>7. PICK kept : kept = (IF rerank = "off" THEN s ELSE Reranked(s, score)) /\ Sound(kept)
  BY <1>3, <1>6
<1>8. found' = IF kept = <<>> \/ facts.text = 0 THEN [NoEvidence EXCEPT !.outcome = "no_hit"]
               ELSE [outcome |-> "hit", candidates |-> kept]
  BY <1>3, <1>4, <1>7 DEF Retrieve
<1>9. [NoEvidence EXCEPT !.outcome = "no_hit"].candidates = <<>>
  BY DEF NoEvidence
<1> QED
  BY <1>7, <1>8, <1>9, SoundNone

-----------------------------------------------------------------------------
(* What the blocks of a plan show.                                         *)

PlainKinds == {"instruction", "user", "attachment", "tool"}
OfCore(g, i) == g.blocks[i].kind \in PlainKinds /\ g.blocks[i].shows = {} /\ g.id \notin TurnIds
OfMemory(g, i) ==
  g \in MemoryGroups /\ i = 1 /\ g.blocks[i].kind = "memory" /\ g.blocks[i].shows = {0} /\ g.id \notin TurnIds
OfTurn(g, i, r) ==
  /\ r \in Read /\ g = TurnGroup(r) /\ g.id \in TurnIds
  /\ \/ i = 1 /\ g.blocks[i].kind = "recent" /\ g.blocks[i].shows = {facts.turns[r].id}
     \/ i = 2 /\ g.blocks[i].kind = "history_attachment" /\ g.blocks[i].shows = {}
OfSearch(g, i, c) ==
  /\ c \in DOMAIN found.candidates /\ g = FoundGroup(c) /\ g.id \notin TurnIds /\ i = 1
  /\ g.blocks[i].kind = (IF found.candidates[c].kind = "passage" THEN "evidence" ELSE "recalled")
  /\ g.blocks[i].shows = found.candidates[c].shows

LEMMA CoreShows ==
  ASSUME facts \in PlanRequests, NEW g \in CoreGroups, NEW i \in DOMAIN g.blocks
  PROVE  OfCore(g, i)
<1>1. facts.instruction \in Nat /\ facts.tools \in Nat
  BY FactsType
<1> DEFINE a == Block("instruction", facts.instruction, {})
           t == Block("tool", facts.tools, {})
           A == Group(AgentRef, TRUE, 1, NoScore, 0, <<a>>)
           T == Group(ToolRef, TRUE, 3, NoScore, 0, <<t>>)
<1>2. a.kind = "instruction" /\ a.shows = {} /\ t.kind = "tool" /\ t.shows = {}
  BY DEF Block
<1>3. A.blocks = <<a>> /\ A.id = AgentRef /\ T.blocks = <<t>> /\ T.id = ToolRef
  BY DEF Group
<1>4. MessageGroup.id = MessageRef /\ MessageGroup.blocks = MessageBlocks
  BY DEF MessageGroup, Group
<1>5. g = A \/ g = T \/ g = MessageGroup
  BY DEF CoreGroups, MessageGroup, MessageBlocks
<1>6. AgentRef \notin TurnIds /\ ToolRef \notin TurnIds /\ MessageRef \notin TurnIds
  BY DEF AgentRef, ToolRef, MessageRef, TurnIds, TurnRef
<1> HIDE DEF a, t, A, T
<1>7. \A x : DOMAIN <<x>> = {1} /\ <<x>>[1] = x
  OBVIOUS
<1>8. CASE g = A
  BY <1>2, <1>3, <1>6, <1>7, <1>8 DEF OfCore, PlainKinds
<1>9. CASE g = T
  BY <1>2, <1>3, <1>6, <1>7, <1>9 DEF OfCore, PlainKinds
<1>10. CASE g = MessageGroup
  BY <1>4, <1>6, <1>10, MessageBlocksAre DEF OfCore, PlainKinds
<1> QED
  BY <1>5, <1>8, <1>9, <1>10

LEMMA MemoryShows ==
  ASSUME NEW g \in MemoryGroups, NEW i \in DOMAIN g.blocks
  PROVE  OfMemory(g, i) /\ \A h \in MemoryGroups : h = g
<1> DEFINE m == Block("memory", facts.memory.tokens, {Summary})
           M == Group(MemoryRef, FALSE, 6, NoScore, MemoryBoundary, <<m>>)
<1>1. m.kind = "memory" /\ m.shows = {0}
  BY DEF Block, Summary
<1>2. M.blocks = <<m>> /\ M.id = MemoryRef
  BY DEF Group
<1>3. \A h \in MemoryGroups : h = M
  BY DEF MemoryGroups
<1>4. MemoryRef \notin TurnIds
  BY DEF MemoryRef, TurnIds, TurnRef
<1> HIDE DEF m, M
<1>5. \A x : DOMAIN <<x>> = {1} /\ <<x>>[1] = x
  OBVIOUS
<1> QED
  BY <1>1, <1>2, <1>3, <1>4, <1>5 DEF OfMemory

LEMMA TurnShows ==
  ASSUME facts \in PlanRequests, NEW r \in Read, NEW i \in DOMAIN TurnGroup(r).blocks
  PROVE  OfTurn(TurnGroup(r), i, r)
<1>1. r \in DOMAIN facts.turns
  BY DEF Read
<1>2. /\ TurnBlocks(r) \in Seq(BlockType) /\ Len(TurnBlocks(r)) \in {1, 2}
      /\ TurnBlocks(r)[1].kind = "recent" /\ TurnBlocks(r)[1].shows = {facts.turns[r].id}
      /\ Len(TurnBlocks(r)) = 2 => TurnBlocks(r)[2].kind = "history_attachment" /\ TurnBlocks(r)[2].shows = {}
  BY <1>1, TurnBlocksAre
<1>3. TurnGroup(r).blocks = TurnBlocks(r) /\ TurnGroup(r).id \in TurnIds
  BY <1>1, TurnGroupIs
<1>4. i \in 1..Len(TurnBlocks(r))
  <2>1. DOMAIN TurnBlocks(r) = 1..Len(TurnBlocks(r))
    BY <1>2, ElementOf
  <2> QED
    BY <1>3, <2>1
<1>5. i = 1 \/ (i = 2 /\ Len(TurnBlocks(r)) = 2)
  <2>1. PICK L \in {1, 2} : L = Len(TurnBlocks(r))
    BY <1>2
  <2>2. i \in 1..L
    BY <1>4, <2>1
  <2> QED
    BY <2>1, <2>2
<1> QED
  BY <1>2, <1>3, <1>5 DEF OfTurn

LEMMA FoundShows ==
  ASSUME found.candidates \in Seq(Candidates), NEW c \in DOMAIN found.candidates,
         NEW i \in DOMAIN FoundGroup(c).blocks
  PROVE  OfSearch(FoundGroup(c), i, c)
<1>1. /\ FoundGroup(c) \in GroupType /\ FoundGroup(c).id = FoundRef(c) /\ Len(FoundGroup(c).blocks) = 1
      /\ FoundGroup(c).blocks[1].kind = (IF found.candidates[c].kind = "passage" THEN "evidence" ELSE "recalled")
      /\ FoundGroup(c).blocks[1].shows = found.candidates[c].shows
  BY FoundGroupIs
<1>2. i = 1
  <2>1. DOMAIN FoundGroup(c).blocks = 1..Len(FoundGroup(c).blocks)
    BY <1>1, BlocksAre
  <2> QED
    BY <1>1, <2>1
<1>3. FoundRef(c) \notin TurnIds
  <2>1. c \in Nat
    BY ElementOf
  <2>2. \A n, k \in Nat : 11 + 2 * n # 10 + 2 * k
    OBVIOUS
  <2> QED
    BY <2>1, <2>2 DEF FoundRef, TurnIds, TurnRef
<1> QED
  BY <1>1, <1>2, <1>3 DEF OfSearch

\* Whatever stands in a plan is one of these.
LEMMA BlockClasses ==
  ASSUME facts \in PlanRequests, found \in FoundType, NEW g \in PlanGroups, NEW i \in DOMAIN g.blocks
  PROVE  OfCore(g, i) \/ OfMemory(g, i) \/ (\E r \in Read : OfTurn(g, i, r))
         \/ (\E c \in DOMAIN found.candidates : OfSearch(g, i, c))
<1>1. g = Policy \/ g \in BaseGroups \/ g \in EvidenceGroups
  BY PlanFamily
<1>2. CASE g = Policy
  <2>1. i = 1
    <3>1. DOMAIN Policy.blocks = 1..Len(Policy.blocks)
      BY PolicyIs, BlocksAre
    <3> QED
      BY <1>2, <3>1, PolicyIs
  <2>2. PolicyRef \notin TurnIds
    BY DEF PolicyRef, TurnIds, TurnRef
  <2> QED
    BY <1>2, <2>1, <2>2, PolicyIs DEF OfCore, PlainKinds
<1>3. CASE g \in CoreGroups
  BY <1>3, CoreShows
<1>4. CASE g \in MemoryGroups
  BY <1>4, MemoryShows
<1>5. CASE g \in HistoryGroups
  <2>1. PICK r \in Read : g = TurnGroup(r)
    BY <1>5, HistoryFamily
  <2> QED
    BY <2>1, TurnShows
<1>6. CASE g \in EvidenceGroups
  <2>1. found.candidates \in Seq(Candidates)
    BY DEF FoundType
  <2>2. PICK c \in DOMAIN found.candidates : g = FoundGroup(c)
    BY <1>6, <2>1, EvidenceFamily
  <2> QED
    BY <2>1, <2>2, FoundShows
<1> QED
  BY <1>1, <1>2, <1>3, <1>4, <1>5, <1>6 DEF BaseGroups

\* What the blocks of chosen groups show, none shows twice.
LEMMA BlocksApart ==
  ASSUME facts \in PlanRequests, found \in FoundType, Sound(found.candidates),
         NEW g \in PlanGroups, NEW i \in DOMAIN g.blocks, g.reason = "none",
         NEW h \in PlanGroups, NEW k \in DOMAIN h.blocks, h.reason = "none", g # h \/ i # k
  PROVE  g.blocks[i].shows \cap h.blocks[k].shows = {}
<1>1. PICK s, t : s = g.blocks[i].shows /\ t = h.blocks[k].shows
  OBVIOUS
<1>2. OfCore(g, i) \/ OfMemory(g, i) \/ (\E r \in Read : OfTurn(g, i, r))
      \/ (\E c \in DOMAIN found.candidates : OfSearch(g, i, c))
  BY BlockClasses
<1>3. OfCore(h, k) \/ OfMemory(h, k) \/ (\E r \in Read : OfTurn(h, k, r))
      \/ (\E c \in DOMAIN found.candidates : OfSearch(h, k, c))
  BY BlockClasses
<1>4. \A r \in Read : r \in DOMAIN facts.turns /\ facts.turns[r].id \in Nat \ {0} /\ facts.turns[r].id \in TurnNames
  BY FactsType DEF Read, TurnNames
<1>5. \A c \in DOMAIN found.candidates : found.candidates[c].kind \in {"passage", "turn"}
  <2>1. found.candidates \in Seq(Candidates)
    BY DEF FoundType
  <2>2. \A c \in DOMAIN found.candidates : found.candidates[c] \in Candidates
    BY <2>1, ElementOf
  <2> QED
    BY <2>2 DEF Candidates
<1>6. TurnNames \subseteq Nat \ {0}
  BY FactsType DEF TurnNames
<1>7. \A r \in Read : TurnGroup(r).blocks = TurnBlocks(r) /\ TurnBlocks(r)[1].shows = {facts.turns[r].id}
                     /\ TurnGroup(r) \in HistoryGroups
  <2>1. HistoryGroups = {TurnGroup(r) : r \in Read}
    BY DEF HistoryGroups, TurnGroup, TurnBlocks
  <2> QED
    BY <1>4, <2>1, TurnGroupIs, TurnBlocksAre
<1>8. ASSUME s # {}, t # {} PROVE s \cap t = {}
  <2>1. OfMemory(g, i) \/ (\E r \in Read : OfTurn(g, i, r) /\ i = 1) \/ (\E c \in DOMAIN found.candidates : OfSearch(g, i, c))
    BY <1>1, <1>2, <1>8 DEF OfCore, OfTurn
  <2>2. OfMemory(h, k) \/ (\E r \in Read : OfTurn(h, k, r) /\ k = 1) \/ (\E c \in DOMAIN found.candidates : OfSearch(h, k, c))
    BY <1>1, <1>3, <1>8 DEF OfCore, OfTurn
  <2>3. i = 1 /\ k = 1 /\ g # h
    BY <2>1, <2>2 DEF OfMemory, OfSearch
  <2>4. ASSUME NEW c \in DOMAIN found.candidates
        PROVE  0 \notin found.candidates[c].shows
    BY <1>5, <1>6 DEF Sound
  <2>5. ASSUME NEW r \in Read, NEW c \in DOMAIN found.candidates, FoundGroup(c).reason = "none"
        PROVE  facts.turns[r].id \notin found.candidates[c].shows
    <3>1. found.candidates[c].kind = "passage" => facts.turns[r].id \notin found.candidates[c].shows
      BY <1>4 DEF Sound
    <3>2. ASSUME found.candidates[c].kind = "turn" PROVE facts.turns[r].id \notin found.candidates[c].shows
      <4>1. found.candidates \in Seq(Candidates)
        BY DEF FoundType
      <4>2. \A hh \in HistoryGroups : ~(found.candidates[c].shows \subseteq hh.blocks[1].shows)
        BY <2>5, <3>2, <4>1, FoundGroupIs
      <4>3. PICK x : found.candidates[c].shows = {x}
        BY <3>2 DEF Sound
      <4>4. ~({x} \subseteq {facts.turns[r].id})
        BY <1>7, <4>2, <4>3
      <4> QED
        BY <4>3, <4>4
    <3> QED
      BY <1>5, <3>1, <3>2
  <2>6. CASE OfMemory(g, i)
    <3>1. s = {0}
      BY <1>1, <2>6 DEF OfMemory
    <3>2. ~OfMemory(h, k)
      <4>1. g \in MemoryGroups
        BY <2>6 DEF OfMemory
      <4> QED
        BY <2>3, <4>1, MemoryShows DEF OfMemory
    <3>3. CASE \E r \in Read : OfTurn(h, k, r) /\ k = 1
      BY <1>1, <1>4, <3>1, <3>3 DEF OfTurn
    <3>4. CASE \E c \in DOMAIN found.candidates : OfSearch(h, k, c)
      BY <1>1, <2>4, <3>1, <3>4 DEF OfSearch
    <3> QED
      BY <2>2, <3>2, <3>3, <3>4
  <2>7. ASSUME NEW r \in Read, OfTurn(g, i, r) PROVE s \cap t = {}
    <3>1. s = {facts.turns[r].id} /\ g = TurnGroup(r)
      BY <1>1, <2>3, <2>7 DEF OfTurn
    <3>2. CASE OfMemory(h, k)
      BY <1>1, <1>4, <3>1, <3>2 DEF OfMemory
    <3>3. ASSUME NEW q \in Read, OfTurn(h, k, q) PROVE s \cap t = {}
      <4>1. t = {facts.turns[q].id} /\ h = TurnGroup(q)
        BY <1>1, <2>3, <3>3 DEF OfTurn
      <4>2. q # r
        BY <2>3, <3>1, <4>1
      <4>3. q \in Nat /\ r \in Nat
        <5>1. DOMAIN facts.turns = 1..Len(facts.turns)
          BY FactsType
        <5> QED
          BY <1>4, <5>1
      <4>4. PICK x \in Nat, y \in Nat : x = facts.turns[r].id /\ y = facts.turns[q].id
        BY <1>4
      <4>5. x < y \/ y < x
        BY <1>4, <4>2, <4>3, <4>4, FactsType
      <4> QED
        BY <3>1, <4>1, <4>4, <4>5
    <3>4. ASSUME NEW c \in DOMAIN found.candidates, OfSearch(h, k, c) PROVE s \cap t = {}
      <4>1. t = found.candidates[c].shows /\ h = FoundGroup(c)
        BY <1>1, <2>3, <3>4 DEF OfSearch
      <4> QED
        BY <2>5, <3>1, <4>1
    <3> QED
      BY <2>2, <3>2, <3>3, <3>4
  <2>8. ASSUME NEW c \in DOMAIN found.candidates, OfSearch(g, i, c) PROVE s \cap t = {}
    <3>1. s = found.candidates[c].shows /\ g = FoundGroup(c)
      BY <1>1, <2>3, <2>8 DEF OfSearch
    <3>2. CASE OfMemory(h, k)
      BY <1>1, <2>4, <3>1, <3>2 DEF OfMemory
    <3>3. ASSUME NEW q \in Read, OfTurn(h, k, q) PROVE s \cap t = {}
      <4>1. t = {facts.turns[q].id}
        BY <1>1, <2>3, <3>3 DEF OfTurn
      <4> QED
        BY <2>5, <3>1, <4>1
    <3>4. ASSUME NEW d \in DOMAIN found.candidates, OfSearch(h, k, d) PROVE s \cap t = {}
      <4>1. t = found.candidates[d].shows /\ h = FoundGroup(d)
        BY <1>1, <2>3, <3>4 DEF OfSearch
      <4>2. c # d
        BY <2>3, <3>1, <4>1
      <4> QED
        BY <3>1, <4>1, <4>2 DEF Sound
    <3> QED
      BY <2>2, <3>2, <3>3, <3>4
  <2> QED
    BY <2>1, <2>6, <2>7, <2>8
<1> QED
  BY <1>1, <1>8

-----------------------------------------------------------------------------
(* What is selected.                                                       *)

TurnKinds == {"recent", "history_attachment"}
UpTo(X, x) == {z \in X : z <= x}
EvidencePlaces(S) == {s \in DOMAIN S : S[s].kind = "evidence"}

\* Counting along an order-preserving bijection.
LEMMA SameCount ==
  ASSUME NEW X \in SUBSET Nat, NEW Y \in SUBSET Nat, NEW e \in [X -> Y],
         \A y \in Y : \E x \in X : e[x] = y, \A x, z \in X : x < z => e[x] < e[z],
         IsFiniteSet(X), NEW x \in X
  PROVE  Cardinality(UpTo(Y, e[x])) = Cardinality(UpTo(X, x))
<1> DEFINE A == UpTo(X, x)
           B == UpTo(Y, e[x])
           f == [z \in A |-> e[z]]
<1>1. \A y, z \in X : e[y] \in Nat /\ e[z] \in Nat /\ y \in Nat /\ z \in Nat
  OBVIOUS
<1>2. \A y, z \in X : e[y] = e[z] => y = z
  <2> SUFFICES ASSUME NEW y \in X, NEW z \in X, e[y] = e[z] PROVE y = z
    OBVIOUS
  <2>1. PICK n \in Nat : n = e[y] /\ n = e[z]
    BY <1>1
  <2>2. ~(y < z) /\ ~(z < y)
    BY <2>1
  <2> QED
    BY <1>1, <2>2
<1>3. \A z \in X : z <= x <=> e[z] <= e[x]
  <2> SUFFICES ASSUME NEW z \in X PROVE z <= x <=> e[z] <= e[x]
    OBVIOUS
  <2>1. PICK m \in Nat, n \in Nat : m = e[z] /\ n = e[x]
    BY <1>1
  <2>2. (z < x => m < n) /\ (x < z => n < m) /\ (x = z => m = n)
    BY <2>1
  <2> QED
    BY <1>1, <2>1, <2>2
<1>4. f \in [A -> B]
  BY <1>3 DEF UpTo
<1>5. \A y \in B : \E z \in A : f[z] = y
  BY <1>3 DEF UpTo
<1>6. \A y, z \in A : f[y] = f[z] => y = z
  BY <1>2 DEF UpTo
<1>7. IsFiniteSet(A)
  <2>1. A \in SUBSET X
    BY DEF UpTo
  <2> QED
    BY <2>1, FS_Subset
<1>8. f \in Bijection(A, B)
  <2> HIDE DEF A, B, f
  <2> QED
    BY <1>4, <1>5, <1>6 DEF Bijection, Injection, IsInjective, Surjection
<1>9. ExistsBijection(A, B)
  BY <1>8 DEF ExistsBijection
<1> HIDE DEF A, B, f
<1>10. Cardinality(A) = Cardinality(B)
  BY <1>7, <1>9, <1>8, FS_Bijection
<1> QED
  BY <1>10 DEF A, B

\* The items of a plan that are sent: they share nothing, and those of a turn
\* are its texts and its files.
Tidy(S) ==
  /\ \A s, t \in DOMAIN S : s # t => S[s].shows \cap S[t].shows = {}
  /\ \A s \in DOMAIN S : S[s].kind \in {"recent", "recalled"} => \A x \in S[s].shows : x > MemoryBoundary
  /\ \A s \in DOMAIN S : S[s].kind \in Kinds /\ S[s].group \in Nat
  /\ \A s \in DOMAIN S : S[s].kind \in TurnKinds =>
       \E r \in DOMAIN S : S[r].kind = "recent" /\ S[r].group = S[s].group
  /\ \A s, t \in DOMAIN S : S[s].kind \in TurnKinds /\ S[t].group = S[s].group => S[t].kind \in TurnKinds
  /\ \A s, t \in DOMAIN S : S[s].kind = "recent" /\ S[t].kind = "recent" /\ S[t].group = S[s].group => s = t
  /\ found.outcome = "degraded" => \A s \in DOMAIN S : S[s].kind \notin {"evidence", "recalled"}
Numbered(S) == \A s \in EvidencePlaces(S) : S[s].cite = Cardinality(UpTo(EvidencePlaces(S), s))

Taken(S, L, e, items, K) == L \in Nat /\ Enumerates(e, L, K) /\ S = [j \in 1..L |-> items[e[j]]]

LEMMA TakenNumbered ==
  ASSUME NEW items, NEW M \in Nat, DOMAIN items = 1..M, Counted(items),
         NEW K, K = {j \in 1..M : IsSelected(items[j])}, NEW S, NEW L, NEW e, Taken(S, L, e, items, K)
  PROVE  Numbered(S)
<1>1. /\ L \in Nat /\ DOMAIN S = 1..L /\ \A j \in 1..L : e[j] \in K /\ S[j] = items[e[j]]
      /\ \A k \in K : \E j \in 1..L : e[j] = k
      /\ \A i, j \in 1..L : i < j => e[i] < e[j]
  BY DEF Taken, Enumerates
<1>2. PICK X, Y : X = EvidencePlaces(S) /\ Y = {j \in 1..M : IsEvidence(items[j])}
  OBVIOUS
<1>3. X = {s \in 1..L : items[e[s]].kind = "evidence"}
  BY <1>1, <1>2 DEF EvidencePlaces
<1>4. X \in SUBSET Nat /\ Y \in SUBSET Nat /\ Y \subseteq K /\ IsFiniteSet(X)
  <2>1. IsFiniteSet(1..L) /\ X \in SUBSET (1..L)
    BY <1>1, <1>3, FS_Interval
  <2>2. IsFiniteSet(X)
    BY <2>1, FS_Subset
  <2> QED
    BY <1>2, <2>1, <2>2 DEF IsEvidence
<1>5. PICK h : h = [s \in X |-> e[s]]
  OBVIOUS
<1>6. h \in [X -> Y]
  <2>1. \A s \in X : e[s] \in 1..M /\ IsEvidence(items[e[s]])
    BY <1>1, <1>3 DEF IsEvidence
  <2> QED
    BY <1>2, <1>5, <2>1
<1>7. \A y \in Y : \E x \in X : h[x] = y
  <2> SUFFICES ASSUME NEW y \in Y PROVE \E x \in X : h[x] = y
    OBVIOUS
  <2>1. y \in K /\ items[y].kind = "evidence"
    BY <1>2, <1>4 DEF IsEvidence
  <2>2. PICK j \in 1..L : e[j] = y
    BY <1>1, <2>1
  <2> QED
    BY <1>3, <1>5, <2>1, <2>2
<1>8. \A x, z \in X : x < z => h[x] < h[z]
  BY <1>1, <1>3, <1>5
<1>9. ASSUME NEW s \in X PROVE S[s].cite = Cardinality(UpTo(X, s))
  <2>1. PICK y : y = h[s] /\ y = e[s] /\ y \in Y /\ S[s] = items[y]
    BY <1>1, <1>3, <1>5, <1>6
  <2>2. items[y].cite = Cardinality(EvidenceUpTo(items, y)) /\ y \in 1..M
    BY <1>2, <2>1 DEF Counted
  <2>3. EvidenceUpTo(items, y) = UpTo(Y, y)
    BY <1>2, <2>2 DEF EvidenceUpTo, UpTo
  <2>4. Cardinality(UpTo(Y, h[s])) = Cardinality(UpTo(X, s))
    BY <1>4, <1>6, <1>7, <1>8, SameCount
  <2> QED
    BY <2>1, <2>2, <2>3, <2>4
<1> QED
  BY <1>2, <1>9 DEF Numbered

\* Where a selected item comes from.
Source(g, i, item) ==
  /\ g \in PlanGroups /\ g.reason = "none" /\ i \in DOMAIN g.blocks
  /\ item.group = g.id /\ item.kind = g.blocks[i].kind /\ item.shows = g.blocks[i].shows

LEMMA SourceClass ==
  ASSUME facts \in PlanRequests, found \in FoundType, Sound(found.candidates),
         NEW g, NEW i, NEW item, Source(g, i, item)
  PROVE  /\ item.kind \in Kinds /\ item.group \in Nat
         /\ item.kind \in {"recent", "recalled"} => \A x \in item.shows : x > MemoryBoundary
         /\ item.kind \in TurnKinds <=> item.group \in TurnIds
         /\ item.kind \in TurnKinds => 1 \in DOMAIN g.blocks /\ g.blocks[1].kind = "recent"
         /\ item.kind = "recent" => i = 1
         /\ found.outcome = "degraded" => item.kind \notin {"evidence", "recalled"}
<1>1. g \in PlanGroups /\ g.reason = "none" /\ i \in DOMAIN g.blocks
      /\ item.group = g.id /\ item.kind = g.blocks[i].kind /\ item.shows = g.blocks[i].shows
  BY DEF Source
<1>2. OfCore(g, i) \/ OfMemory(g, i) \/ (\E r \in Read : OfTurn(g, i, r))
      \/ (\E c \in DOMAIN found.candidates : OfSearch(g, i, c))
  BY <1>1, BlockClasses
<1>3. item.kind \in Kinds /\ item.group \in Nat
  <2>1. g \in GroupType
    BY <1>1, PlanFamily DEF Family
  <2>2. g.id \in Nat
    BY <2>1 DEF GroupType
  <2> QED
    BY <1>1, <2>1, <2>2, BlocksAre
<1>4. found.candidates \in Seq(Candidates) /\ MemoryBoundary \in Nat
  BY FactsType DEF FoundType, MemoryBoundary
<1>5. CASE OfCore(g, i)
  BY <1>1, <1>3, <1>5 DEF OfCore, PlainKinds, TurnKinds
<1>6. CASE OfMemory(g, i)
  BY <1>1, <1>3, <1>6 DEF OfMemory, TurnKinds
<1>7. ASSUME NEW r \in Read, OfTurn(g, i, r)
      PROVE  /\ item.kind \in TurnKinds /\ item.group \in TurnIds
             /\ item.kind \in {"recent", "recalled"} => \A x \in item.shows : x > MemoryBoundary
             /\ 1 \in DOMAIN g.blocks /\ g.blocks[1].kind = "recent" /\ (item.kind = "recent" => i = 1)
  <2>1. r \in DOMAIN facts.turns /\ facts.turns[r].id > MemoryBoundary
    <3>1. r \in DOMAIN facts.turns /\ \A j \in 1..r : facts.turns[j].id > MemoryBoundary
      BY DEF Read
    <3>2. DOMAIN facts.turns = 1..Len(facts.turns)
      BY FactsType
    <3> QED
      BY <3>1, <3>2
  <2>2. TurnGroup(r).blocks = TurnBlocks(r) /\ TurnBlocks(r)[1].kind = "recent" /\ 1 \in DOMAIN TurnBlocks(r)
    <3>1. TurnBlocks(r) \in Seq(BlockType) /\ Len(TurnBlocks(r)) \in {1, 2}
      BY <2>1, TurnBlocksAre
    <3>2. DOMAIN TurnBlocks(r) = 1..Len(TurnBlocks(r))
      BY <3>1, ElementOf
    <3>3. 1 \in 1..Len(TurnBlocks(r))
      <4>1. PICK L \in {1, 2} : L = Len(TurnBlocks(r))
        BY <3>1
      <4> QED
        BY <4>1
    <3> QED
      BY <2>1, <3>2, <3>3, TurnGroupIs, TurnBlocksAre
  <2> QED
    BY <1>1, <1>7, <2>1, <2>2 DEF OfTurn, TurnKinds
<1>8. ASSUME NEW c \in DOMAIN found.candidates, OfSearch(g, i, c)
      PROVE  /\ item.kind \in {"evidence", "recalled"} /\ item.group \notin TurnIds
             /\ item.kind = "recalled" => \A x \in item.shows : x > MemoryBoundary
             /\ found.outcome # "degraded"
  <2>1. g = FoundGroup(c) /\ item.kind = (IF found.candidates[c].kind = "passage" THEN "evidence" ELSE "recalled")
        /\ item.shows = found.candidates[c].shows /\ g.id \notin TurnIds
    BY <1>1, <1>8 DEF OfSearch
  <2>2. ASSUME item.kind = "recalled", NEW x \in item.shows PROVE x > MemoryBoundary
    <3>1. found.candidates[c].kind = "turn"
      <4>1. found.candidates[c] \in Candidates
        BY <1>4, ElementOf
      <4>2. found.candidates[c].kind # "passage"
        BY <2>1, <2>2
      <4> QED
        BY <4>1, <4>2 DEF Candidates
    <3>2. x \in TurnNames
      BY <2>1, <2>2, <3>1 DEF Sound
    <3>3. x \in Nat /\ x > 0
      BY <3>2, FactsType DEF TurnNames
    <3>4. MemoryBoundary > 0 => ~(x <= MemoryBoundary)
      <4>1. g.priority = 8
        BY <1>4, <2>1, <3>1, FoundGroupIs
      <4> QED
        BY <1>1, <1>4, <2>1, <2>2, <4>1, FoundGroupIs
    <3> QED
      BY <1>4, <3>3, <3>4
  <2>3. found.outcome # "degraded"
    <3> SUFFICES ASSUME found.outcome = "degraded" PROVE FALSE
      OBVIOUS
    <3>1. g = Policy \/ \A j \in DOMAIN g.blocks : g.blocks[j].kind \in KeptWhenDegraded
      BY <1>1, PlanFamily
    <3>2. item.kind \in {"evidence", "recalled"}
      BY <2>1
    <3>3. g # Policy
      <4>1. FoundRef(c) # PolicyRef
        <5>1. c \in Nat /\ c > 0
          BY <1>4, ElementOf
        <5> QED
          BY <5>1 DEF FoundRef, PolicyRef
      <4>2. g.id = FoundRef(c)
        BY <1>4, <2>1, FoundGroupIs
      <4> QED
        BY <4>1, <4>2, PolicyIs
    <3> QED
      BY <1>1, <3>1, <3>2, <3>3 DEF KeptWhenDegraded
  <2> QED
    BY <1>1, <2>1, <2>2, <2>3
<1>9. CASE \E r \in Read : OfTurn(g, i, r)
  BY <1>3, <1>7, <1>9 DEF TurnKinds
<1>10. CASE \E c \in DOMAIN found.candidates : OfSearch(g, i, c)
  BY <1>3, <1>8, <1>10 DEF TurnKinds
<1> QED
  BY <1>2, <1>5, <1>6, <1>9, <1>10

LEMMA SelectedTidy ==
  ASSUME facts \in PlanRequests, found \in FoundType, Sound(found.candidates),
         NEW d, NEW inside, NEW M, NEW p, NEW b, Fits(d, PlanGroups, inside, M, p, b)
  PROVE  /\ Tidy(SelectedItems(d.items)) /\ Numbered(SelectedItems(d.items))
         /\ \E L \in Nat : SelectedItems(d.items) \in [1..L -> Range(d.items)]
<1>1. PICK gs, items, chosen : gs = PlanGroups /\ items = d.items /\ chosen = Selection(gs, facts.budget).chosen
  OBVIOUS
<1>2. /\ inside \in SUBSET gs /\ inside = Named(gs, chosen) /\ (\A g \in inside : g.reason = "none")
      /\ Counted(items) /\ Items(items, M, p, b, gs, chosen)
  BY <1>1 DEF Fits
<1>3. /\ M \in Nat /\ DOMAIN items = 1..M /\ p \in [1..M -> gs] /\ b \in [1..M -> Nat]
      /\ \A j \in 1..M : /\ b[j] \in DOMAIN p[j].blocks /\ items[j].group = p[j].id
                          /\ items[j].kind = p[j].blocks[b[j]].kind /\ items[j].shows = p[j].blocks[b[j]].shows
      /\ \A g \in gs : \A i \in DOMAIN g.blocks : \E j \in 1..M : p[j] = g /\ b[j] = i
      /\ \A i, j \in 1..M : p[i] = p[j] /\ b[i] = b[j] => i = j
  BY <1>2 DEF Items
<1>4. \A j \in 1..M : IsSelected(items[j]) <=> p[j] \in inside
  BY <1>2, SelectedAre
<1>5. PICK K \in SUBSET (1..M) : K = {j \in 1..M : IsSelected(items[j])}
  OBVIOUS
<1>6. IsFiniteSet(K) /\ K \in SUBSET Nat
  <2>1. IsFiniteSet(1..M)
    BY <1>3, FS_Interval
  <2> QED
    BY <1>3, <1>5, <2>1, FS_Subset
<1>7. PICK L \in Nat : \E e : Enumerates(e, L, K) /\ Picked(items, K) = [j \in 1..L |-> items[e[j]]]
  BY <1>6, PickedIs
<1>8. PICK e : Enumerates(e, L, K) /\ Picked(items, K) = [j \in 1..L |-> items[e[j]]]
  BY <1>7
<1>9. PICK S : S = SelectedItems(items) /\ S = [j \in 1..L |-> items[e[j]]]
  BY <1>3, <1>5, <1>8 DEF SelectedItems
<1>10. Taken(S, L, e, items, K)
  BY <1>7, <1>8, <1>9 DEF Taken
<1>11. Numbered(S)
  BY <1>2, <1>3, <1>5, <1>10, TakenNumbered
<1>12. /\ DOMAIN S = 1..L /\ \A s \in 1..L : e[s] \in K /\ e[s] \in 1..M /\ e[s] \in Nat /\ S[s] = items[e[s]]
       /\ \A k \in K : \E s \in 1..L : e[s] = k
       /\ \A s, t \in 1..L : s < t <=> e[s] < e[t]
  BY <1>6, <1>8, <1>9 DEF Enumerates
<1>13. ASSUME NEW s \in 1..L PROVE Source(p[e[s]], b[e[s]], S[s])
  <2>1. PICK j \in 1..M : j = e[s] /\ j \in K /\ S[s] = items[j]
    BY <1>12
  <2>2. p[j] \in gs /\ p[j].reason = "none"
    BY <1>2, <1>3, <1>4, <1>5, <2>1
  <2> QED
    BY <1>1, <1>3, <2>1, <2>2 DEF Source
<1>14. ASSUME NEW s \in 1..L, NEW t \in 1..L, p[e[s]] = p[e[t]], b[e[s]] = b[e[t]] PROVE s = t
  <2>1. PICK j \in 1..M, k \in 1..M : j = e[s] /\ k = e[t] /\ p[j] = p[k] /\ b[j] = b[k]
    BY <1>12, <1>14
  <2>2. j = k /\ j \in Nat
    BY <1>3, <2>1
  <2>3. (s < t <=> e[s] < e[t]) /\ (t < s <=> e[t] < e[s])
    BY <1>12
  <2>4. (s < t <=> j < j) /\ (t < s <=> j < j)
    BY <2>1, <2>2, <2>3
  <2>5. s \in Nat /\ t \in Nat /\ ~(j < j)
    BY <2>2
  <2> QED
    BY <2>4, <2>5
<1>15. ASSUME NEW s \in 1..L, NEW t \in 1..L, S[s].group = S[t].group PROVE p[e[s]] = p[e[t]]
  <2>1. \A g, h \in gs : g.id = h.id => g = h
    BY <1>1, PlanFamily DEF Family
  <2>2. PICK j \in 1..M, k \in 1..M : j = e[s] /\ k = e[t] /\ S[s] = items[j] /\ S[t] = items[k]
    BY <1>12
  <2>3. p[j] \in gs /\ p[k] \in gs /\ p[j].id = p[k].id
    BY <1>3, <1>15, <2>2
  <2> QED
    BY <2>1, <2>2, <2>3
<1>16. ASSUME NEW s \in 1..L, NEW i \in DOMAIN p[e[s]].blocks
       PROVE  \E t \in 1..L : p[e[t]] = p[e[s]] /\ b[e[t]] = i
  <2>1. PICK j \in 1..M : p[j] = p[e[s]] /\ b[j] = i
    BY <1>3, <1>12, <1>16
  <2>2. j \in K
    BY <1>4, <1>5, <1>12, <2>1
  <2> QED
    BY <1>12, <2>1, <2>2
<1>17. \A s, t \in 1..L : s # t => S[s].shows \cap S[t].shows = {}
  <2> SUFFICES ASSUME NEW s \in 1..L, NEW t \in 1..L, s # t PROVE S[s].shows \cap S[t].shows = {}
    OBVIOUS
  <2>1. PICK g, i, h, k : g = p[e[s]] /\ i = b[e[s]] /\ h = p[e[t]] /\ k = b[e[t]]
    OBVIOUS
  <2>2. Source(g, i, S[s]) /\ Source(h, k, S[t])
    BY <1>13, <2>1
  <2>3. g # h \/ i # k
    BY <1>14, <2>1
  <2>4. g.blocks[i].shows \cap h.blocks[k].shows = {}
    BY <2>2, <2>3, BlocksApart DEF Source
  <2> QED
    BY <2>2, <2>4 DEF Source
<1>18. ASSUME NEW s \in 1..L
       PROVE  /\ S[s].kind \in Kinds /\ S[s].group \in Nat
              /\ S[s].kind \in {"recent", "recalled"} => \A x \in S[s].shows : x > MemoryBoundary
              /\ S[s].kind \in TurnKinds <=> S[s].group \in TurnIds
              /\ S[s].kind \in TurnKinds => 1 \in DOMAIN p[e[s]].blocks /\ p[e[s]].blocks[1].kind = "recent"
              /\ S[s].kind = "recent" => b[e[s]] = 1
              /\ found.outcome = "degraded" => S[s].kind \notin {"evidence", "recalled"}
  BY <1>13, SourceClass
<1>19. ASSUME NEW s \in 1..L, S[s].kind \in TurnKinds
       PROVE  \E r \in 1..L : S[r].kind = "recent" /\ S[r].group = S[s].group
  <2>1. 1 \in DOMAIN p[e[s]].blocks /\ p[e[s]].blocks[1].kind = "recent"
    BY <1>18, <1>19
  <2>2. PICK r \in 1..L : p[e[r]] = p[e[s]] /\ b[e[r]] = 1
    BY <1>16, <2>1
  <2>3. Source(p[e[r]], b[e[r]], S[r]) /\ Source(p[e[s]], b[e[s]], S[s])
    BY <1>13
  <2> QED
    BY <2>1, <2>2, <2>3 DEF Source
<1>20. \A s, t \in 1..L : S[s].kind \in TurnKinds /\ S[t].group = S[s].group => S[t].kind \in TurnKinds
  BY <1>18
<1>21. \A s, t \in 1..L : S[s].kind = "recent" /\ S[t].kind = "recent" /\ S[t].group = S[s].group => s = t
  BY <1>14, <1>15, <1>18
<1>22. Tidy(S)
  BY <1>12, <1>17, <1>18, <1>19, <1>20, <1>21 DEF Tidy
<1>23. S \in [1..L -> Range(items)]
  <2>1. \A s \in 1..L : items[e[s]] \in Range(items)
    BY <1>3, <1>12 DEF Range
  <2> QED
    BY <1>9, <2>1
<1> QED
  BY <1>1, <1>9, <1>11, <1>22, <1>23

-----------------------------------------------------------------------------
(* The messages of a prompt share the selected items out.                  *)

Messages(X) == [role : {"system", "user", "assistant"}, items : Seq(X)]
Shown(m) == IF m.role = "assistant" THEN <<>> ELSE m.items

\* The items of one message go before those of another.
Precede(S, A, B) ==
  \A s \in A : \A t \in B :
    /\ S[s].kind = "evidence" /\ S[t].kind = "evidence" => s < t
    /\ S[s].kind = "recent" /\ S[t].kind = "recent" => S[s].group < S[t].group

\* The messages of P show the items of S at the places K, P[n] those at Q[n].
Layout(P, Q, S, K) ==
  /\ \A n \in DOMAIN P : Q[n] \in SUBSET K /\ Shown(P[n]) = Picked(S, Q[n])
  /\ \A s \in K : \E n \in DOMAIN P : s \in Q[n]
  /\ \A m, n \in DOMAIN P : m # n => Q[m] \cap Q[n] = {}
  /\ \A m, n \in DOMAIN P : m < n => Precede(S, Q[m], Q[n])
  /\ \A n \in DOMAIN P : \A s, t \in Q[n] : S[s].kind = "recent" /\ S[t].kind = "recent" => s = t

LEMMA PickedFew ==
  ASSUME NEW s, NEW x \in Nat
  PROVE  Picked(s, {x}) = <<s[x]>> /\ Picked(s, {}) = <<>>
<1>1. IsFiniteSet({x}) /\ Cardinality({x}) = 1 /\ IsFiniteSet({}) /\ Cardinality({}) = 0
  <2>1. IsFiniteSet({x}) /\ Cardinality({x}) = 1
    BY FS_Singleton
  <2>2. IsFiniteSet({}) /\ Cardinality({}) = 0
    BY FS_EmptySet
  <2> QED
    BY <2>1, <2>2
<1>2. Enumerates(Listing({x}), 1, {x}) /\ Picked(s, {x}) = [j \in 1..1 |-> s[Listing({x})[j]]]
  <2>1. PICK K \in SUBSET Nat : K = {x} /\ IsFiniteSet(K) /\ Cardinality(K) = 1
    BY <1>1
  <2>2. Enumerates(Listing(K), Cardinality(K), K)
        /\ Picked(s, K) = [j \in 1..Cardinality(K) |-> s[Listing(K)[j]]]
    BY <2>1, ListingIs
  <2> QED
    BY <2>1, <2>2
<1>3. Listing({x})[1] = x
  BY <1>2 DEF Enumerates
<1>4. Picked(s, {x}) = [j \in 1..1 |-> s[x]]
  BY <1>2, <1>3
<1>5. \A y : [j \in 1..1 |-> y] = <<y>>
  OBVIOUS
<1>6. Picked(s, {}) = [j \in 1..0 |-> s[Listing({})[j]]]
  BY <1>1, ListingIs
<1>7. \A e : [j \in 1..0 |-> s[e[j]]] = <<>>
  OBVIOUS
<1> QED
  BY <1>4, <1>5, <1>6, <1>7

LEMMA LineJoins ==
  ASSUME NEW S, NEW X, NEW P \in Seq(X), NEW R \in Seq(X), NEW A, NEW B, NEW K, NEW J,
         Layout(P, A, S, K), Layout(R, B, S, J), K \cap J = {}, Precede(S, K, J)
  PROVE  \E Q : Layout(P \o R, Q, S, K \cup J)
<1>1. PICK M \in Nat, N \in Nat : M = Len(P) /\ N = Len(R) /\ DOMAIN P = 1..M /\ DOMAIN R = 1..N
  BY ElementOf
<1>2. PICK T : T = P \o R /\ DOMAIN T = 1..(M + N) /\ (\A n \in 1..M : T[n] = P[n])
               /\ \A n \in 1..N : T[M + n] = R[n]
  <2>0. P \o R \in Seq(X)
    OBVIOUS
  <2>1. PICK T \in Seq(X) : T = P \o R
    BY <2>0
  <2>2. Len(T) = M + N /\ DOMAIN T = 1..(M + N)
    BY <1>1, <2>1
  <2>3. (\A n \in 1..M : T[n] = P[n]) /\ \A n \in 1..N : T[M + n] = R[n]
    BY <1>1, <2>1
  <2> QED
    BY <2>1, <2>2, <2>3
<1>3. PICK Q : Q = [n \in 1..(M + N) |-> IF n <= M THEN A[n] ELSE B[n - M]]
  OBVIOUS
<1>4. ASSUME NEW n \in 1..(M + N)
      PROVE  \/ n \in 1..M /\ Q[n] = A[n] /\ T[n] = P[n]
             \/ n - M \in 1..N /\ Q[n] = B[n - M] /\ T[n] = R[n - M] /\ n > M
  <2>1. CASE n <= M
    BY <1>2, <1>3, <2>1
  <2>2. CASE n > M
    <3>1. n - M \in 1..N /\ n = M + (n - M)
      BY <2>2
    <3>2. T[n] = R[n - M]
      BY <1>2, <3>1
    <3> QED
      BY <1>3, <2>2, <3>1, <3>2
  <2> QED
    BY <2>1, <2>2
<1>5. /\ \A n \in 1..M : A[n] \in SUBSET K /\ Shown(P[n]) = Picked(S, A[n])
      /\ \A s \in K : \E n \in 1..M : s \in A[n]
      /\ \A m, n \in 1..M : m # n => A[m] \cap A[n] = {}
      /\ \A m, n \in 1..M : m < n => Precede(S, A[m], A[n])
      /\ \A n \in 1..M : \A s, t \in A[n] : S[s].kind = "recent" /\ S[t].kind = "recent" => s = t
  BY <1>1 DEF Layout
<1>6. /\ \A n \in 1..N : B[n] \in SUBSET J /\ Shown(R[n]) = Picked(S, B[n])
      /\ \A s \in J : \E n \in 1..N : s \in B[n]
      /\ \A m, n \in 1..N : m # n => B[m] \cap B[n] = {}
      /\ \A m, n \in 1..N : m < n => Precede(S, B[m], B[n])
      /\ \A n \in 1..N : \A s, t \in B[n] : S[s].kind = "recent" /\ S[t].kind = "recent" => s = t
  BY <1>1 DEF Layout
<1>7. ASSUME NEW n \in 1..(M + N)
      PROVE  Q[n] \in SUBSET (K \cup J) /\ Shown(T[n]) = Picked(S, Q[n])
             /\ \A s, t \in Q[n] : S[s].kind = "recent" /\ S[t].kind = "recent" => s = t
  BY <1>4, <1>5, <1>6
<1>8. ASSUME NEW s \in K \cup J PROVE \E n \in 1..(M + N) : s \in Q[n]
  <2>1. CASE s \in K
    <3>1. PICK n \in 1..M : s \in A[n]
      BY <1>5, <2>1
    <3>2. n \in 1..(M + N) /\ Q[n] = A[n]
      BY <1>3
    <3> QED
      BY <3>1, <3>2
  <2>2. CASE s \in J
    <3>1. PICK n \in 1..N : s \in B[n]
      BY <1>6, <2>2
    <3>2. M + n \in 1..(M + N) /\ ~(M + n <= M) /\ (M + n) - M = n
      OBVIOUS
    <3>3. Q[M + n] = B[n]
      BY <1>3, <3>2
    <3> QED
      BY <3>1, <3>2, <3>3
  <2> QED
    BY <2>1, <2>2
<1>9. ASSUME NEW m \in 1..(M + N), NEW n \in 1..(M + N), m < n
      PROVE  Q[m] \cap Q[n] = {} /\ Precede(S, Q[m], Q[n])
  <2>1. CASE n <= M
    <3>1. m \in 1..M /\ n \in 1..M /\ Q[m] = A[m] /\ Q[n] = A[n] /\ m # n
      BY <1>3, <1>9, <2>1
    <3> QED
      BY <1>5, <1>9, <3>1
  <2>2. CASE m > M
    <3>1. m - M \in 1..N /\ n - M \in 1..N /\ Q[m] = B[m - M] /\ Q[n] = B[n - M] /\ m - M # n - M /\ m - M < n - M
      BY <1>3, <1>9, <2>2
    <3> QED
      BY <1>6, <3>1
  <2>3. CASE m <= M /\ n > M
    <3>1. m \in 1..M /\ n - M \in 1..N /\ Q[m] = A[m] /\ Q[n] = B[n - M]
      BY <1>3, <1>9, <2>3
    <3>2. Q[m] \in SUBSET K /\ Q[n] \in SUBSET J
      BY <1>5, <1>6, <3>1
    <3> QED
      BY <3>2 DEF Precede
  <2> QED
    BY <2>1, <2>2, <2>3
<1>10. ASSUME NEW m \in 1..(M + N), NEW n \in 1..(M + N), m # n PROVE Q[m] \cap Q[n] = {}
  <2>1. m < n \/ n < m
    BY <1>10
  <2> QED
    BY <1>9, <2>1
<1>11. Layout(T, Q, S, K \cup J)
  BY <1>2, <1>7, <1>8, <1>9, <1>10 DEF Layout
<1> QED
  BY <1>2, <1>11

PlacesOf(S, kinds) == {i \in DOMAIN S : S[i].kind \in kinds}

LEMMA PlacesFinite ==
  ASSUME NEW X, NEW S \in Seq(X), NEW K \in SUBSET DOMAIN S
  PROVE  IsFiniteSet(K) /\ K \in SUBSET Nat
<1>1. DOMAIN S = 1..Len(S) /\ Len(S) \in Nat
  BY ElementOf
<1>2. IsFiniteSet(1..Len(S))
  BY <1>1, FS_Interval
<1> QED
  BY <1>1, <1>2, FS_Subset

LEMMA MessageIs ==
  ASSUME NEW X, NEW s \in Seq(X), NEW r \in {"system", "user"}
  PROVE  /\ Message(r, s) \in Messages(X) /\ Shown(Message(r, s)) = s
         /\ Message("assistant", s) \in Messages(X) /\ Shown(Message("assistant", s)) = <<>>
<1>1. PICK Y : Y = Seq(X)
  OBVIOUS
<1>2. s \in Y
  BY <1>1
<1> QED
  BY <1>1, <1>2 DEF Message, Messages, Shown

\* The messages before the turns: an item each, in the order of the plan.
SystemPart(S) ==
  [n \in DOMAIN KindIn(S, SystemKinds) |-> Message("system", <<KindIn(S, SystemKinds)[n]>>)]

LEMMA SystemLine ==
  ASSUME NEW X, NEW S \in Seq(X)
  PROVE  SystemPart(S) \in Seq(Messages(X)) /\ \E Q : Layout(SystemPart(S), Q, S, PlacesOf(S, SystemKinds))
<1>1. PICK K \in SUBSET DOMAIN S : K = PlacesOf(S, SystemKinds)
  BY DEF PlacesOf
<1>2. KindIn(S, SystemKinds) = Picked(S, K)
  BY <1>1 DEF KindIn, PlacesOf
<1>3. IsFiniteSet(K) /\ K \in SUBSET Nat
  BY PlacesFinite
<1>4. PICK m \in Nat : \E e : Enumerates(e, m, K) /\ Picked(S, K) = [j \in 1..m |-> S[e[j]]]
  BY <1>3, PickedIs
<1>5. PICK e : Enumerates(e, m, K) /\ Picked(S, K) = [j \in 1..m |-> S[e[j]]]
  BY <1>4
<1>6. PICK P : P = SystemPart(S) /\ P = [n \in 1..m |-> Message("system", <<S[e[n]]>>)]
  <2>1. PICK t : t = KindIn(S, SystemKinds) /\ t = [j \in 1..m |-> S[e[j]]]
    BY <1>2, <1>5
  <2>2. DOMAIN t = 1..m /\ \A n \in 1..m : t[n] = S[e[n]]
    BY <2>1
  <2>3. SystemPart(S) = [n \in DOMAIN t |-> Message("system", <<t[n]>>)]
    BY <2>1 DEF SystemPart
  <2>4. SystemPart(S) = [n \in 1..m |-> Message("system", <<S[e[n]]>>)]
    BY <2>2, <2>3
  <2> QED
    BY <2>4
<1>7. /\ \A n \in 1..m : e[n] \in K /\ e[n] \in Nat /\ S[e[n]] \in X
      /\ \A k \in K : \E n \in 1..m : e[n] = k
      /\ \A i, j \in 1..m : i < j <=> e[i] < e[j]
  <2>1. \A i \in DOMAIN S : S[i] \in X
    BY ElementOf
  <2> QED
    BY <1>3, <1>5, <2>1 DEF Enumerates
<1>8. ASSUME NEW n \in 1..m
      PROVE  P[n] \in Messages(X) /\ Shown(P[n]) = Picked(S, {e[n]})
  <2>1. PICK k \in Nat, x \in X : k = e[n] /\ x = S[k]
    BY <1>7
  <2>2. <<x>> \in Seq(X)
    OBVIOUS
  <2>3. P[n] = Message("system", <<x>>)
    BY <1>6, <2>1
  <2>4. Picked(S, {k}) = <<x>>
    BY <2>1, PickedFew
  <2> QED
    BY <2>1, <2>2, <2>3, <2>4, MessageIs
<1>9. P \in Seq(Messages(X)) /\ DOMAIN P = 1..m
  <2>1. PICK Y : Y = Messages(X)
    OBVIOUS
  <2>2. \A n \in 1..m : P[n] \in Y
    BY <1>8, <2>1
  <2>3. P \in [1..m -> Y] /\ DOMAIN P = 1..m
    BY <1>6, <2>2
  <2>4. P \in Seq(Y)
    BY <2>3
  <2> QED
    BY <2>1, <2>3, <2>4
<1>10. PICK Q : Q = [n \in 1..m |-> {e[n]}]
  OBVIOUS
<1>11. ASSUME NEW i \in 1..m, NEW j \in 1..m, i < j
       PROVE  Q[i] \cap Q[j] = {} /\ Precede(S, Q[i], Q[j])
  <2>1. PICK x \in K, y \in K : x = e[i] /\ y = e[j] /\ x \in Nat /\ y \in Nat
    BY <1>7
  <2>2. e[i] < e[j]
    BY <1>7, <1>11
  <2>3. x < y
    BY <2>1, <2>2
  <2>4. Q[i] = {x} /\ Q[j] = {y}
    BY <1>10, <2>1
  <2>5. S[x].kind # "recent"
    BY <1>1 DEF PlacesOf, SystemKinds
  <2>6. x # y
    BY <2>1, <2>3
  <2> QED
    BY <2>3, <2>4, <2>5, <2>6 DEF Precede
<1>12. \A i, j \in 1..m : i # j => Q[i] \cap Q[j] = {}
  <2> SUFFICES ASSUME NEW i \in 1..m, NEW j \in 1..m, i # j PROVE Q[i] \cap Q[j] = {}
    OBVIOUS
  <2>1. i < j \/ j < i
    OBVIOUS
  <2> QED
    BY <1>11, <2>1
<1>13. \A s \in K : \E n \in 1..m : s \in Q[n]
  BY <1>7, <1>10
<1>14. \A n \in 1..m : Q[n] \in SUBSET K /\ \A s, t \in Q[n] : s = t
  BY <1>7, <1>10
<1>15. \A n \in 1..m : Shown(P[n]) = Picked(S, Q[n])
  BY <1>8, <1>10
<1>16. Layout(P, Q, S, K)
  BY <1>9, <1>11, <1>12, <1>13, <1>14, <1>15 DEF Layout
<1> QED
  BY <1>1, <1>6, <1>9, <1>16

\* The message and its files: one message.
LEMMA UserLine ==
  ASSUME NEW X, NEW S \in Seq(X)
  PROVE  /\ UserMessage(S) \in Messages(X) /\ Shown(UserMessage(S)) = Picked(S, PlacesOf(S, MessageKinds))
         /\ <<UserMessage(S)>> \in Seq(Messages(X))
         /\ \E Q : Layout(<<UserMessage(S)>>, Q, S, PlacesOf(S, MessageKinds))
<1>1. PICK K \in SUBSET DOMAIN S : K = PlacesOf(S, MessageKinds)
  BY DEF PlacesOf
<1>2. KindIn(S, MessageKinds) = Picked(S, K)
  BY <1>1 DEF KindIn, PlacesOf
<1>3. Picked(S, K) \in Seq(X)
  BY PickedType
<1>4. PICK u : u = UserMessage(S) /\ u \in Messages(X) /\ Shown(u) = Picked(S, K)
  BY <1>2, <1>3, MessageIs DEF UserMessage
<1>5. PICK P : P = <<u>> /\ P \in Seq(Messages(X)) /\ DOMAIN P = {1} /\ P[1] = u
  <2>1. PICK Y : Y = Messages(X)
    OBVIOUS
  <2>2. u \in Y
    BY <1>4, <2>1
  <2>3. <<u>> \in Seq(Y) /\ DOMAIN <<u>> = {1} /\ <<u>>[1] = u
    BY <2>2
  <2> QED
    BY <2>1, <2>3
<1>6. PICK Q : Q = [n \in {1} |-> K]
  OBVIOUS
<1>7. \A s, t \in K : S[s].kind # "recent"
  BY <1>1 DEF PlacesOf, MessageKinds
<1>8. Layout(P, Q, S, K)
  BY <1>4, <1>5, <1>6, <1>7 DEF Layout
<1> QED
  BY <1>1, <1>4, <1>5, <1>8
Turn(S, g) == {i \in DOMAIN S : S[i].group = g}

LEMMA TurnMessagesAre ==
  ASSUME NEW X, NEW S \in Seq(X), NEW g
  PROVE  /\ TurnMessages(S, g) \in Seq(Messages(X)) /\ DOMAIN TurnMessages(S, g) = {1, 2}
         /\ Shown(TurnMessages(S, g)[1]) = Picked(S, Turn(S, g)) /\ Shown(TurnMessages(S, g)[2]) = <<>>
<1>1. PICK K \in SUBSET DOMAIN S : K = Turn(S, g)
  BY DEF Turn
<1>2. PICK t \in Seq(X) : t = Picked(S, K)
  BY PickedType
<1>3. KindIn(t, {"recent"}) \in Seq(X)
  BY PickedType DEF KindIn
<1>4. PICK u, v : u = Message("user", t) /\ v = Message("assistant", KindIn(t, {"recent"}))
  OBVIOUS
<1>5. u \in Messages(X) /\ v \in Messages(X) /\ Shown(u) = t /\ Shown(v) = <<>>
  BY <1>2, <1>3, <1>4, MessageIs
<1>6. TurnMessages(S, g) = <<u, v>>
  BY <1>1, <1>2, <1>4 DEF TurnMessages, Turn
<1>7. PICK Y : Y = Messages(X)
  OBVIOUS
<1>8. \A x, y \in Y : <<x, y>> \in Seq(Y) /\ DOMAIN <<x, y>> = {1, 2} /\ <<x, y>>[1] = x /\ <<x, y>>[2] = y
  OBVIOUS
<1> QED
  BY <1>1, <1>2, <1>5, <1>6, <1>7, <1>8

\* The turns of the selected items, from the oldest.
Recents(S) == {S[i].group : i \in PlacesOf(S, {"recent"})}
TurnPart(S) ==
  FlattenSeq([n \in 1..Cardinality(Recents(S)) |-> TurnMessages(S, Listing(Recents(S))[n])])

LEMMA RecentsAre ==
  ASSUME NEW X, NEW S \in Seq(X), \A s \in DOMAIN S : S[s].group \in Nat
  PROVE  /\ IsFiniteSet(Recents(S)) /\ Recents(S) \in SUBSET Nat
         /\ {item.group : item \in Range(KindIn(S, {"recent"}))} = Recents(S)
<1>1. PICK K \in SUBSET DOMAIN S : K = PlacesOf(S, {"recent"})
  BY DEF PlacesOf
<1>2. IsFiniteSet(K) /\ K \in SUBSET Nat
  BY PlacesFinite
<1>3. Recents(S) = {S[i].group : i \in K}
  BY <1>1 DEF Recents
<1>4. IsFiniteSet({S[i].group : i \in K})
  <2>1. PICK f : f = [i \in K |-> S[i].group]
    OBVIOUS
  <2>2. PICK T : T = {S[i].group : i \in K}
    OBVIOUS
  <2>3. f \in [K -> T] /\ \A t \in T : \E i \in K : f[i] = t
    BY <2>1, <2>2
  <2>4. f \in Surjection(K, T)
    BY <2>3 DEF Surjection
  <2>5. IsFiniteSet(T)
    BY <1>2, <2>4, FS_Surjection
  <2> QED
    BY <2>2, <2>5
<1>5. KindIn(S, {"recent"}) = Picked(S, K)
  BY <1>1 DEF KindIn, PlacesOf
<1>6. PICK m : m = Cardinality(K)
  OBVIOUS
<1>7. PICK e : Enumerates(e, m, K) /\ Picked(S, K) = [j \in 1..m |-> S[e[j]]]
  <2>1. Enumerates(Listing(K), m, K) /\ Picked(S, K) = [j \in 1..m |-> S[Listing(K)[j]]]
    BY <1>2, <1>6, ListingIs
  <2> QED
    BY <2>1
<1>8. PICK t : t = KindIn(S, {"recent"}) /\ DOMAIN t = 1..m /\ \A j \in 1..m : t[j] = S[e[j]]
  BY <1>5, <1>7
<1>9. Range(t) = {S[i] : i \in K}
  <2>1. Range(t) = {t[j] : j \in 1..m}
    BY <1>8 DEF Range
  <2>2. \A j \in 1..m : e[j] \in K
    BY <1>7 DEF Enumerates
  <2>3. \A k \in K : \E j \in 1..m : e[j] = k
    BY <1>7 DEF Enumerates
  <2> QED
    BY <1>8, <2>1, <2>2, <2>3
<1>10. {item.group : item \in Range(t)} = {S[i].group : i \in K}
  BY <1>9
<1> QED
  BY <1>3, <1>4, <1>8, <1>10

LEMMA TurnLine ==
  ASSUME NEW X, NEW S \in Seq(X), Tidy(S)
  PROVE  TurnPart(S) \in Seq(Messages(X)) /\ \E Q : Layout(TurnPart(S), Q, S, PlacesOf(S, TurnKinds))
<1>1. /\ \A s \in DOMAIN S : S[s].group \in Nat
      /\ \A s \in DOMAIN S : S[s].kind \in TurnKinds =>
           \E r \in DOMAIN S : S[r].kind = "recent" /\ S[r].group = S[s].group
      /\ \A s, t \in DOMAIN S : S[s].kind \in TurnKinds /\ S[t].group = S[s].group => S[t].kind \in TurnKinds
      /\ \A s, t \in DOMAIN S : S[s].kind = "recent" /\ S[t].kind = "recent" /\ S[t].group = S[s].group => s = t
  BY DEF Tidy
<1>2. PICK G \in SUBSET Nat : G = Recents(S) /\ IsFiniteSet(G)
  BY <1>1, RecentsAre
<1>3. PICK N, T : N \in Nat /\ N = Cardinality(G) /\ T = Listing(G) /\ Enumerates(T, N, G)
  BY <1>2, ListingIs
<1>4. /\ \A n \in 1..N : T[n] \in G /\ T[n] \in Nat
      /\ \A g \in G : \E n \in 1..N : T[n] = g
      /\ \A i, j \in 1..N : i < j <=> T[i] < T[j]
  BY <1>3 DEF Enumerates
<1>5. PICK ss : ss = [n \in 1..N |-> TurnMessages(S, T[n])]
  OBVIOUS
<1>6. PICK P : P = TurnPart(S) /\ P = FlattenSeq(ss)
  BY <1>2, <1>3, <1>5 DEF TurnPart
<1>7. \A n \in 1..N : /\ ss[n] \in Seq(Messages(X)) /\ DOMAIN ss[n] = {1, 2}
                      /\ Shown(ss[n][1]) = Picked(S, Turn(S, T[n])) /\ Shown(ss[n][2]) = <<>>
  BY <1>5, TurnMessagesAre
<1>8. ss \in [1..N -> Seq(Messages(X))]
  BY <1>5, <1>7
<1>9. P \in Seq(Messages(X)) /\ \E a, b : Lays(P, a, b, ss, N)
  BY <1>3, <1>6, <1>8, FlattenLays
<1>10. PICK a, b : Lays(P, a, b, ss, N)
  BY <1>9
<1>11. PICK M \in Nat : M = Len(P) /\ DOMAIN P = 1..M
  BY <1>9, ElementOf
<1>12. /\ \A j \in 1..M : a[j] \in 1..N /\ b[j] \in {1, 2} /\ P[j] = ss[a[j]][b[j]]
       /\ \A k \in 1..N : \E j \in 1..M : a[j] = k /\ b[j] = 1
       /\ \A i, j \in 1..M : i < j => a[i] < a[j] \/ (a[i] = a[j] /\ b[i] < b[j])
  <2>1. a \in [1..M -> 1..N] /\ b \in [1..M -> Nat]
    BY <1>10, <1>11 DEF Lays
  <2>2. \A j \in 1..M : b[j] \in DOMAIN ss[a[j]] /\ P[j] = ss[a[j]][b[j]]
    BY <1>10, <1>11 DEF Lays
  <2>3. \A k \in 1..N : \A i \in DOMAIN ss[k] : \E j \in 1..M : a[j] = k /\ b[j] = i
    BY <1>10, <1>11 DEF Lays
  <2>4. \A i, j \in 1..M : i < j => a[i] < a[j] \/ (a[i] = a[j] /\ b[i] < b[j])
    BY <1>10, <1>11 DEF Lays
  <2>5. \A j \in 1..M : a[j] \in 1..N /\ b[j] \in {1, 2}
    BY <1>7, <2>1, <2>2
  <2>6. \A k \in 1..N : 1 \in DOMAIN ss[k]
    BY <1>7
  <2> QED
    BY <2>2, <2>3, <2>4, <2>5, <2>6
<1>13. PICK Q : Q = [j \in 1..M |-> IF b[j] = 1 THEN Turn(S, T[a[j]]) ELSE {}]
  OBVIOUS
<1>14. PICK K : K = PlacesOf(S, TurnKinds)
  OBVIOUS
<1>15. ASSUME NEW j \in 1..M PROVE Q[j] \in SUBSET K /\ Shown(P[j]) = Picked(S, Q[j])
  <2>1. PICK n \in 1..N : n = a[j] /\ P[j] = ss[n][b[j]]
    BY <1>12
  <2>2. CASE b[j] = 1
    <3>1. Q[j] = Turn(S, T[n])
      BY <1>13, <2>1, <2>2
    <3>2. Shown(P[j]) = Picked(S, Q[j])
      BY <1>7, <2>1, <2>2, <3>1
    <3>3. PICK r \in DOMAIN S : S[r].kind = "recent" /\ S[r].group = T[n]
      BY <1>2, <1>4 DEF Recents, PlacesOf
    <3>4. \A i \in Q[j] : i \in DOMAIN S /\ S[i].group = S[r].group
      BY <3>1, <3>3 DEF Turn
    <3>5. S[r].kind \in TurnKinds
      BY <3>3 DEF TurnKinds
    <3>6. Q[j] \in SUBSET K
      BY <1>1, <1>14, <3>4, <3>5 DEF PlacesOf
    <3> QED
      BY <3>2, <3>6
  <2>3. CASE b[j] = 2
    <3>1. Q[j] = {}
      BY <1>13, <2>3
    <3>2. Shown(P[j]) = <<>>
      BY <1>7, <2>1, <2>3
    <3>3. Picked(S, {}) = <<>>
      <4>1. 0 \in Nat
        OBVIOUS
      <4> QED
        BY <4>1, PickedFew
    <3> QED
      BY <3>1, <3>2, <3>3
  <2> QED
    BY <1>12, <2>2, <2>3
<1>16. ASSUME NEW s \in K PROVE \E j \in 1..M : s \in Q[j]
  <2>1. s \in DOMAIN S /\ S[s].kind \in TurnKinds
    BY <1>14 DEF PlacesOf
  <2>2. S[s].group \in G
    BY <1>1, <1>2, <2>1 DEF Recents, PlacesOf
  <2>3. PICK n \in 1..N : T[n] = S[s].group
    BY <1>4, <2>2
  <2>4. PICK j \in 1..M : a[j] = n /\ b[j] = 1
    BY <1>12
  <2>5. s \in Q[j]
    BY <1>13, <2>1, <2>3, <2>4 DEF Turn
  <2> QED
    BY <2>5
<1>17. ASSUME NEW i \in 1..M, NEW j \in 1..M, i < j
       PROVE  Q[i] \cap Q[j] = {} /\ Precede(S, Q[i], Q[j])
  <2>1. CASE b[i] = 1 /\ b[j] = 1
    <3>1. PICK m \in 1..N, n \in 1..N : m = a[i] /\ n = a[j] /\ m < n
      <4>1. a[i] \in 1..N /\ a[j] \in 1..N /\ (a[i] < a[j] \/ b[i] < b[j])
        BY <1>12, <1>17
      <4>2. ~(b[i] < b[j])
        BY <2>1
      <4> QED
        BY <4>1, <4>2
    <3>2. PICK g \in Nat, h \in Nat : g = T[m] /\ h = T[n] /\ g < h
      BY <1>4, <3>1
    <3>3. (\A s \in Q[i] : S[s].group = g) /\ \A t \in Q[j] : S[t].group = h
      BY <1>13, <2>1, <3>1, <3>2 DEF Turn
    <3>4. \A s \in Q[i] : S[s].kind # "evidence"
      BY <1>14, <1>15 DEF PlacesOf, TurnKinds
    <3> QED
      BY <3>2, <3>3, <3>4 DEF Precede
  <2>2. CASE b[i] = 2 \/ b[j] = 2
    <3>1. Q[i] = {} \/ Q[j] = {}
      BY <1>13, <2>2
    <3> QED
      BY <3>1 DEF Precede
  <2> QED
    BY <1>12, <2>1, <2>2
<1>18. \A i, j \in 1..M : i # j => Q[i] \cap Q[j] = {}
  <2> SUFFICES ASSUME NEW i \in 1..M, NEW j \in 1..M, i # j PROVE Q[i] \cap Q[j] = {}
    OBVIOUS
  <2>1. i < j \/ j < i
    OBVIOUS
  <2> QED
    BY <1>17, <2>1
<1>19. \A j \in 1..M : \A s, t \in Q[j] : S[s].kind = "recent" /\ S[t].kind = "recent" => s = t
  <2> SUFFICES ASSUME NEW j \in 1..M, NEW s \in Q[j], NEW t \in Q[j], S[s].kind = "recent", S[t].kind = "recent"
               PROVE  s = t
    OBVIOUS
  <2>1. Q[j] = Turn(S, T[a[j]])
    BY <1>13
  <2> QED
    BY <1>1, <2>1 DEF Turn
<1>20. Layout(P, Q, S, K)
  BY <1>11, <1>15, <1>16, <1>17, <1>18, <1>19 DEF Layout
<1> QED
  BY <1>6, <1>9, <1>14, <1>20
LEMMA KindsDiffer ==
  /\ Kinds \subseteq (SystemKinds \cup TurnKinds) \cup MessageKinds
  /\ SystemKinds \cap TurnKinds = {} /\ (SystemKinds \cup TurnKinds) \cap MessageKinds = {}
BY DEF Kinds, SystemKinds, TurnKinds, MessageKinds

LEMMA PlacesPrecede ==
  ASSUME NEW S, NEW k, NEW l, "evidence" \notin k \/ "evidence" \notin l, "recent" \notin k \/ "recent" \notin l,
         NEW K \in SUBSET PlacesOf(S, k), NEW J \in SUBSET PlacesOf(S, l)
  PROVE  Precede(S, K, J)
BY DEF Precede, PlacesOf

LEMMA RolePreservingLine ==
  ASSUME NEW X, NEW S \in Seq(X), Tidy(S)
  PROVE  RolePreserving(S) \in Seq(Messages(X)) /\ \E Q : Layout(RolePreserving(S), Q, S, DOMAIN S)
<1>1. PICK Y : Y = Messages(X)
  OBVIOUS
<1>2. PICK K, J, U : K = PlacesOf(S, SystemKinds) /\ J = PlacesOf(S, TurnKinds) /\ U = PlacesOf(S, MessageKinds)
  OBVIOUS
<1>3. PICK P, R, m : P = SystemPart(S) /\ R = TurnPart(S) /\ m = <<UserMessage(S)>>
  OBVIOUS
<1>4. P \in Seq(Y) /\ \E Q : Layout(P, Q, S, K)
  BY <1>1, <1>2, <1>3, SystemLine
<1>5. R \in Seq(Y) /\ \E Q : Layout(R, Q, S, J)
  BY <1>1, <1>2, <1>3, TurnLine
<1>6. m \in Seq(Y) /\ \E Q : Layout(m, Q, S, U)
  BY <1>1, <1>2, <1>3, UserLine
<1>7. PICK A : Layout(P, A, S, K)
  BY <1>4
<1>8. PICK B : Layout(R, B, S, J)
  BY <1>5
<1>9. PICK C : Layout(m, C, S, U)
  BY <1>6
<1>10. /\ K \cap J = {} /\ (K \cup J) \cap U = {} /\ (K \cup J) \cup U = DOMAIN S
  <2>1. \A s \in DOMAIN S : S[s].kind \in Kinds
    BY DEF Tidy
  <2> QED
    BY <1>2, <2>1, KindsDiffer DEF PlacesOf
<1>11. Precede(S, K, J) /\ Precede(S, K \cup J, U)
  <2>1. "recent" \notin SystemKinds /\ "evidence" \notin TurnKinds /\ "recent" \notin MessageKinds /\ "evidence" \notin MessageKinds
    BY DEF SystemKinds, TurnKinds, MessageKinds
  <2>2. Precede(S, K, J)
    BY <1>2, <2>1, PlacesPrecede
  <2>3. Precede(S, K, U) /\ Precede(S, J, U)
    BY <1>2, <2>1, PlacesPrecede
  <2>4. Precede(S, K \cup J, U)
    BY <2>3 DEF Precede
  <2> QED
    BY <2>2, <2>4
<1>12. P \o R \in Seq(Y)
  BY <1>4, <1>5
<1>13. PICK D : Layout(P \o R, D, S, K \cup J)
  BY <1>4, <1>5, <1>7, <1>8, <1>10, <1>11, LineJoins
<1>14. PICK T : T = P \o R /\ T \in Seq(Y)
  BY <1>12
<1>15. \E Q : Layout(T \o m, Q, S, (K \cup J) \cup U)
  BY <1>6, <1>9, <1>10, <1>11, <1>13, <1>14, LineJoins
<1>16. T \o m \in Seq(Y)
  BY <1>6, <1>14
<1>17. RolePreserving(S) = T \o m
  <2>1. PICK G : G = Recents(S) /\ IsFiniteSet(G) /\ G \in SUBSET Nat
                 /\ {item.group : item \in Range(KindIn(S, {"recent"}))} = G
    <3>1. \A s \in DOMAIN S : S[s].group \in Nat
      BY DEF Tidy
    <3> QED
      BY <3>1, RecentsAre
  <2>2. PICK turns : turns = Ordered(G, <) /\ turns = Listing(G)
    BY DEF Ordered, Listing
  <2>3. DOMAIN turns = 1..Cardinality(G)
    BY <2>2 DEF Listing
  <2>4. PICK system : system = KindIn(S, SystemKinds)
    OBVIOUS
  <2>5. RolePreserving(S) =
          [n \in DOMAIN system |-> Message("system", <<system[n]>>)]
          \o FlattenSeq([n \in DOMAIN turns |-> TurnMessages(S, turns[n])])
          \o <<UserMessage(S)>>
    BY <2>1, <2>2, <2>4 DEF RolePreserving
  <2>6. R = FlattenSeq([n \in DOMAIN turns |-> TurnMessages(S, turns[n])])
    BY <1>3, <2>1, <2>2, <2>3 DEF TurnPart
  <2>7. P = [n \in DOMAIN system |-> Message("system", <<system[n]>>)]
    BY <1>3, <2>4 DEF SystemPart
  <2> QED
    BY <1>3, <1>14, <2>5, <2>6, <2>7
<1> QED
  BY <1>1, <1>10, <1>15, <1>16, <1>17

\* What the item at i adds to a prompt without turns.
LegacyAt(S, i) ==
  IF S[i].kind \in SystemKinds THEN <<Message("system", <<S[i]>>)>>
  ELSE IF Opens(S, i) THEN <<UserMessage(S)>> ELSE <<>>

LEMMA LegacyLine ==
  ASSUME NEW X, NEW S \in Seq(X), Tidy(S), PlacesOf(S, {"recent"}) = {}
  PROVE  Legacy(S) \in Seq(Messages(X)) /\ \E Q : Layout(Legacy(S), Q, S, DOMAIN S)
<1>1. PICK L \in Nat : L = Len(S) /\ DOMAIN S = 1..L
  BY ElementOf
<1>2. \A i \in 1..L : S[i] \in X
  BY <1>1, ElementOf
<1>3. PICK ss : ss = [i \in 1..L |-> LegacyAt(S, i)]
  OBVIOUS
<1>4. PICK P : P = Legacy(S) /\ P = FlattenSeq(ss)
  BY <1>1, <1>3 DEF Legacy, LegacyAt
<1>5. PICK U : U = PlacesOf(S, MessageKinds)
  OBVIOUS
<1>6. PICK Y : Y = Messages(X)
  OBVIOUS
<1>7. /\ \A x \in Y : <<x>> \in Seq(Y) /\ DOMAIN <<x>> = {1} /\ <<x>>[1] = x
      /\ <<>> \in Seq(Y) /\ DOMAIN <<>> = {}
  OBVIOUS
<1>8. ASSUME NEW i \in 1..L
      PROVE  /\ ss[i] \in Seq(Y)
             /\ \/ /\ S[i].kind \in SystemKinds /\ DOMAIN ss[i] = {1} /\ Shown(ss[i][1]) = Picked(S, {i})
                \/ /\ Opens(S, i) /\ S[i].kind \notin SystemKinds /\ DOMAIN ss[i] = {1} /\ Shown(ss[i][1]) = Picked(S, U)
                \/ /\ S[i].kind \notin SystemKinds /\ ~Opens(S, i) /\ DOMAIN ss[i] = {}
  <2>1. CASE S[i].kind \in SystemKinds
    <3>1. PICK x \in X : x = S[i]
      BY <1>2
    <3>2. <<x>> \in Seq(X) /\ Picked(S, {i}) = <<x>>
      <4>1. i \in Nat
        OBVIOUS
      <4> QED
        BY <3>1, <4>1, PickedFew
    <3>3. ss[i] = <<Message("system", <<x>>)>>
      BY <1>3, <2>1, <3>1 DEF LegacyAt
    <3>4. Message("system", <<x>>) \in Y /\ Shown(Message("system", <<x>>)) = <<x>>
      BY <1>6, <3>2, MessageIs
    <3> QED
      BY <1>7, <2>1, <3>2, <3>3, <3>4
  <2>2. CASE S[i].kind \notin SystemKinds /\ Opens(S, i)
    <3>1. ss[i] = <<UserMessage(S)>>
      BY <1>3, <2>2 DEF LegacyAt
    <3>2. UserMessage(S) \in Y /\ Shown(UserMessage(S)) = Picked(S, U)
      BY <1>5, <1>6, UserLine
    <3> QED
      BY <1>7, <2>2, <3>1, <3>2
  <2>3. CASE S[i].kind \notin SystemKinds /\ ~Opens(S, i)
    <3>1. ss[i] = <<>>
      BY <1>3, <2>3 DEF LegacyAt
    <3> QED
      BY <1>7, <2>3, <3>1
  <2> QED
    BY <2>1, <2>2, <2>3
<1>9. ss \in [1..L -> Seq(Y)]
  BY <1>3, <1>8
<1>10. P \in Seq(Y) /\ \E a, b : Lays(P, a, b, ss, L)
  BY <1>4, <1>9, FlattenLays
<1>11. PICK a, b : Lays(P, a, b, ss, L)
  BY <1>10
<1>12. PICK M \in Nat : M = Len(P) /\ DOMAIN P = 1..M
  BY <1>10, ElementOf
<1>13. /\ \A j \in 1..M : a[j] \in 1..L /\ b[j] = 1 /\ DOMAIN ss[a[j]] = {1} /\ P[j] = ss[a[j]][1]
       /\ \A i \in 1..L : 1 \in DOMAIN ss[i] => \E j \in 1..M : a[j] = i
       /\ \A i, j \in 1..M : i < j => a[i] < a[j]
  <2>1. a \in [1..M -> 1..L] /\ b \in [1..M -> Nat]
    BY <1>11, <1>12 DEF Lays
  <2>2. \A j \in 1..M : b[j] \in DOMAIN ss[a[j]] /\ P[j] = ss[a[j]][b[j]]
    BY <1>11, <1>12 DEF Lays
  <2>3. \A k \in 1..L : \A i \in DOMAIN ss[k] : \E j \in 1..M : a[j] = k /\ b[j] = i
    BY <1>11, <1>12 DEF Lays
  <2>4. \A i, j \in 1..M : i < j => a[i] < a[j] \/ (a[i] = a[j] /\ b[i] < b[j])
    BY <1>11, <1>12 DEF Lays
  <2>5. ASSUME NEW j \in 1..M
        PROVE  a[j] \in 1..L /\ b[j] = 1 /\ DOMAIN ss[a[j]] = {1} /\ P[j] = ss[a[j]][1]
    <3>1. PICK i \in 1..L : i = a[j] /\ b[j] \in DOMAIN ss[i]
      BY <2>1, <2>2
    <3>2. DOMAIN ss[i] = {1} \/ DOMAIN ss[i] = {}
      BY <1>8
    <3> QED
      BY <2>2, <3>1, <3>2
  <2>6. \A i, j \in 1..M : i < j => a[i] < a[j]
    <3>1. ~(1 < 1)
      OBVIOUS
    <3> QED
      BY <2>4, <2>5, <3>1
  <2> QED
    BY <2>3, <2>5, <2>6
<1>14. PICK Q : Q = [j \in 1..M |-> IF S[a[j]].kind \in SystemKinds THEN {a[j]} ELSE U]
  OBVIOUS
<1>15. ASSUME NEW j \in 1..M
       PROVE  /\ Q[j] \in SUBSET (1..L) /\ Shown(P[j]) = Picked(S, Q[j])
              /\ S[a[j]].kind \notin SystemKinds => Opens(S, a[j])
  <2>1. PICK i \in 1..L : i = a[j] /\ DOMAIN ss[i] = {1} /\ P[j] = ss[i][1]
    BY <1>13
  <2>2. U \in SUBSET (1..L)
    BY <1>1, <1>5 DEF PlacesOf
  <2> QED
    BY <1>8, <1>14, <2>1, <2>2
<1>16. \A i, j \in 1..L : Opens(S, i) /\ Opens(S, j) => i = j
  <2> SUFFICES ASSUME NEW i \in 1..L, NEW j \in 1..L, Opens(S, i), Opens(S, j), i < j PROVE FALSE
    OBVIOUS
  <2>1. i \in 1..(j - 1)
    OBVIOUS
  <2> QED
    BY <2>1 DEF Opens
<1>17. ASSUME NEW s \in U PROVE \E i \in U : Opens(S, i)
  <2>1. U \in SUBSET DOMAIN S
    BY <1>5 DEF PlacesOf
  <2>2. IsFiniteSet(U) /\ U \in SUBSET Nat
    BY <2>1, PlacesFinite
  <2>3. PICK m \in Nat : \E e : Enumerates(e, m, U)
    BY <2>2, ListingIs
  <2>4. PICK e : Enumerates(e, m, U)
    BY <2>3
  <2>5. /\ \A n \in 1..m : e[n] \in U
        /\ \A k \in U : \E n \in 1..m : e[n] = k
        /\ \A n, k \in 1..m : n < k <=> e[n] < e[k]
    BY <2>4 DEF Enumerates
  <2>6. 1 \in 1..m
    BY <2>5
  <2>7. PICK i \in U : i = e[1]
    BY <2>5, <2>6
  <2>8. \A k \in U : ~(k < i)
    <3> SUFFICES ASSUME NEW k \in U PROVE ~(k < i)
      OBVIOUS
    <3>1. PICK n \in 1..m : e[n] = k
      BY <2>5
    <3>2. n < 1 <=> e[n] < e[1]
      BY <2>5, <2>6
    <3> QED
      BY <2>7, <3>1, <3>2
  <2>9. Opens(S, i)
    <3>1. i \in 1..L /\ S[i].kind \in MessageKinds
      BY <1>1, <1>5 DEF PlacesOf
    <3>2. ASSUME NEW j \in 1..(i - 1) PROVE S[j].kind \notin MessageKinds
      <4>1. j \in 1..L /\ j < i
        BY <3>1
      <4>2. j \notin U
        BY <2>8, <4>1
      <4> QED
        BY <1>1, <1>5, <4>1, <4>2 DEF PlacesOf
    <3> QED
      BY <3>1, <3>2 DEF Opens
  <2> QED
    BY <2>9
<1>18. ASSUME NEW s \in 1..L PROVE S[s].kind \in SystemKinds \/ s \in U
  <2>1. S[s].kind \in Kinds /\ (S[s].kind \in TurnKinds => \E r \in DOMAIN S : S[r].kind = "recent")
    BY <1>1 DEF Tidy
  <2>2. \A r \in DOMAIN S : S[r].kind # "recent"
    BY DEF PlacesOf
  <2> QED
    BY <1>1, <1>5, <2>1, <2>2, KindsDiffer DEF PlacesOf
<1>19. ASSUME NEW s \in 1..L PROVE \E j \in 1..M : s \in Q[j]
  <2>1. CASE S[s].kind \in SystemKinds
    <3>1. 1 \in DOMAIN ss[s]
      BY <1>8, <2>1
    <3>2. PICK j \in 1..M : a[j] = s
      BY <1>13, <3>1
    <3> QED
      BY <1>14, <2>1, <3>2
  <2>2. CASE s \in U
    <3>1. PICK i \in U : Opens(S, i)
      BY <1>17, <2>2
    <3>2. i \in 1..L /\ S[i].kind \notin SystemKinds
      BY <1>1, <1>5, KindsDiffer DEF PlacesOf
    <3>3. 1 \in DOMAIN ss[i]
      BY <1>8, <3>1, <3>2
    <3>4. PICK j \in 1..M : a[j] = i
      BY <1>13, <3>2, <3>3
    <3> QED
      BY <1>14, <2>2, <3>2, <3>4
  <2> QED
    BY <1>18, <2>1, <2>2
<1>20. \A s \in U : S[s].kind \notin SystemKinds /\ S[s].kind # "evidence"
  BY <1>5, KindsDiffer DEF PlacesOf, MessageKinds
<1>21. \A s \in 1..L : S[s].kind # "recent"
  BY <1>1 DEF PlacesOf
<1>22. ASSUME NEW i \in 1..M, NEW j \in 1..M, i < j
       PROVE  Q[i] \cap Q[j] = {} /\ Precede(S, Q[i], Q[j])
  <2>1. PICK x \in 1..L, y \in 1..L : x = a[i] /\ y = a[j] /\ x < y
    BY <1>13, <1>22
  <2>2. Q[i] = (IF S[x].kind \in SystemKinds THEN {x} ELSE U) /\ Q[j] = (IF S[y].kind \in SystemKinds THEN {y} ELSE U)
    BY <1>14, <2>1
  <2>3. S[x].kind \in SystemKinds \/ S[y].kind \in SystemKinds
    BY <1>15, <1>16, <2>1
  <2>4. Q[i] \cap Q[j] = {}
    BY <1>20, <2>1, <2>2, <2>3
  <2>5. Precede(S, Q[i], Q[j])
    BY <1>15, <1>20, <1>21, <2>1, <2>2, <2>3 DEF Precede
  <2> QED
    BY <2>4, <2>5
<1>23. \A i, j \in 1..M : i # j => Q[i] \cap Q[j] = {}
  <2> SUFFICES ASSUME NEW i \in 1..M, NEW j \in 1..M, i # j PROVE Q[i] \cap Q[j] = {}
    OBVIOUS
  <2>1. i < j \/ j < i
    OBVIOUS
  <2> QED
    BY <1>22, <2>1
<1>24. \A j \in 1..M : \A s, t \in Q[j] : S[s].kind = "recent" /\ S[t].kind = "recent" => s = t
  BY <1>15, <1>21
<1>25. Layout(P, Q, S, 1..L)
  BY <1>12, <1>15, <1>19, <1>22, <1>23, <1>24 DEF Layout
<1> QED
  BY <1>1, <1>4, <1>6, <1>10, <1>25
\* T shows each item of S once, the evidence in its order and the turns from
\* the oldest.
Rearranges(T, S, f) ==
  /\ f \in [DOMAIN T -> DOMAIN S]
  /\ \A s \in DOMAIN S : \E j \in DOMAIN T : f[j] = s
  /\ \A i, j \in DOMAIN T : f[i] = f[j] => i = j
  /\ \A j \in DOMAIN T : T[j] = S[f[j]]
  /\ \A i, j \in DOMAIN T : i < j =>
       /\ T[i].kind = "evidence" /\ T[j].kind = "evidence" => f[i] < f[j]
       /\ T[i].kind = "recent" /\ T[j].kind = "recent" => T[i].group < T[j].group

LEMMA LineTold ==
  ASSUME NEW X, NEW S \in Seq(X), NEW P \in Seq(Messages(X)), NEW Q, Layout(P, Q, S, DOMAIN S)
  PROVE  Told(P) \in Seq(X) /\ \E f : Rearranges(Told(P), S, f)
<1>1. PICK N \in Nat : N = Len(P) /\ DOMAIN P = 1..N
  BY ElementOf
<1>2. PICK K : K = DOMAIN S
  OBVIOUS
<1>3. /\ \A n \in 1..N : Q[n] \in SUBSET K /\ Shown(P[n]) = Picked(S, Q[n])
      /\ \A s \in K : \E n \in 1..N : s \in Q[n]
      /\ \A m, n \in 1..N : m # n => Q[m] \cap Q[n] = {}
      /\ \A m, n \in 1..N : m < n => Precede(S, Q[m], Q[n])
      /\ \A n \in 1..N : \A s, t \in Q[n] : S[s].kind = "recent" /\ S[t].kind = "recent" => s = t
  BY <1>1, <1>2 DEF Layout
<1>4. PICK C : C = [n \in 1..N |-> Shown(P[n])]
  OBVIOUS
<1>5. PICK T : T = Told(P) /\ T = FlattenSeq(C)
  BY <1>1, <1>4 DEF Told, Shown
<1>6. ASSUME NEW n \in 1..N
      PROVE  \E c, e : /\ c \in Nat /\ e = Listing(Q[n]) /\ Enumerates(e, c, Q[n])
                               /\ C[n] = [i \in 1..c |-> S[e[i]]] /\ DOMAIN C[n] = 1..c /\ C[n] \in Seq(X)
  <2>1. PICK q \in SUBSET DOMAIN S : q = Q[n]
    BY <1>2, <1>3
  <2>2. IsFiniteSet(q) /\ q \in SUBSET Nat
    BY PlacesFinite
  <2>3. C[n] = Picked(S, q)
    BY <1>3, <1>4, <2>1
  <2>4. PICK c, e : c \in Nat /\ e = Listing(q) /\ Enumerates(e, c, q) /\ Picked(S, q) = [i \in 1..c |-> S[e[i]]]
    BY <2>2, ListingIs
  <2>5. Picked(S, q) \in Seq(X)
    BY PickedType
  <2>6. PICK t : t = C[n] /\ t = [i \in 1..c |-> S[e[i]]]
    BY <2>3, <2>4
  <2>7. DOMAIN t = 1..c
    BY <2>6
  <2> QED
    BY <2>1, <2>3, <2>4, <2>5, <2>6, <2>7
<1>7. C \in [1..N -> Seq(X)]
  BY <1>4, <1>6
<1>8. T \in Seq(X) /\ \E a, b : Lays(T, a, b, C, N)
  BY <1>5, <1>7, FlattenLays
<1>9. PICK a, b : Lays(T, a, b, C, N)
  BY <1>8
<1>10. PICK M \in Nat : M = Len(T) /\ DOMAIN T = 1..M
  BY <1>8, ElementOf
<1>11. /\ \A j \in 1..M : a[j] \in 1..N /\ b[j] \in DOMAIN C[a[j]] /\ T[j] = C[a[j]][b[j]] /\ b[j] \in Nat
       /\ \A k \in 1..N : \A i \in DOMAIN C[k] : \E j \in 1..M : a[j] = k /\ b[j] = i
       /\ \A i, j \in 1..M : i < j => a[i] < a[j] \/ (a[i] = a[j] /\ b[i] < b[j])
  BY <1>9, <1>10 DEF Lays
<1>12. PICK f : f = [j \in 1..M |-> Listing(Q[a[j]])[b[j]]]
  OBVIOUS
<1>13. ASSUME NEW j \in 1..M
       PROVE  f[j] \in Q[a[j]] /\ T[j] = S[f[j]] /\ f[j] \in K
  <2>1. PICK n \in 1..N : n = a[j]
    BY <1>11
  <2>2. PICK c, e : /\ c \in Nat /\ e = Listing(Q[n]) /\ Enumerates(e, c, Q[n])
                            /\ C[n] = [i \in 1..c |-> S[e[i]]] /\ DOMAIN C[n] = 1..c
    BY <1>6
  <2>3. b[j] \in 1..c /\ T[j] = C[n][b[j]] /\ f[j] = e[b[j]]
    BY <1>11, <1>12, <2>1, <2>2
  <2>4. T[j] = S[e[b[j]]]
    BY <2>2, <2>3
  <2>5. e[b[j]] \in Q[n]
    BY <2>2, <2>3 DEF Enumerates
  <2> QED
    BY <1>3, <2>1, <2>3, <2>4, <2>5
<1>14. ASSUME NEW s \in K PROVE \E j \in 1..M : f[j] = s
  <2>1. PICK n \in 1..N : s \in Q[n]
    BY <1>3
  <2>2. PICK c, e : c \in Nat /\ e = Listing(Q[n]) /\ Enumerates(e, c, Q[n]) /\ DOMAIN C[n] = 1..c
    BY <1>6
  <2>3. PICK i \in 1..c : e[i] = s
    BY <2>1, <2>2 DEF Enumerates
  <2>4. PICK j \in 1..M : a[j] = n /\ b[j] = i
    BY <1>11, <2>2
  <2> QED
    BY <1>12, <2>2, <2>3, <2>4
\* Along the list, either the message is a later one or the place is.
<1>15. ASSUME NEW i \in 1..M, NEW j \in 1..M, i < j
       PROVE  f[i] < f[j] \/ \E m, n \in 1..N : m < n /\ m = a[i] /\ n = a[j]
  <2>1. PICK m \in 1..N, n \in 1..N : m = a[i] /\ n = a[j]
    BY <1>11
  <2>2. ASSUME m = n PROVE f[i] < f[j]
    <3>1. PICK c, e : c \in Nat /\ e = Listing(Q[n]) /\ Enumerates(e, c, Q[n]) /\ DOMAIN C[n] = 1..c
      BY <1>6
    <3>2. PICK x \in 1..c, y \in 1..c : x = b[i] /\ y = b[j]
      <4>1. a[i] = n /\ a[j] = n
        BY <2>1, <2>2
      <4>2. b[i] \in DOMAIN C[a[i]] /\ b[j] \in DOMAIN C[a[j]]
        BY <1>11
      <4>3. b[i] \in 1..c /\ b[j] \in 1..c
        BY <3>1, <4>1, <4>2
      <4> QED
        BY <4>3
    <3>3. x < y
      <4>1. a[i] < a[j] \/ b[i] < b[j]
        BY <1>11, <1>15
      <4> QED
        BY <2>1, <2>2, <3>2, <4>1
    <3>4. f[i] = e[x] /\ f[j] = e[y]
      BY <1>12, <2>1, <2>2, <3>1, <3>2
    <3> QED
      BY <3>1, <3>3, <3>4 DEF Enumerates
  <2>3. ASSUME m # n PROVE m < n
    <3>1. a[i] < a[j] \/ a[i] = a[j]
      BY <1>11, <1>15
    <3> QED
      BY <2>1, <2>3, <3>1
  <2> QED
    BY <2>1, <2>2, <2>3
<1>16. K \in SUBSET Nat
  BY <1>2, PlacesFinite
<1>17. ASSUME NEW i \in 1..M, NEW j \in 1..M, i < j PROVE f[i] # f[j]
  <2>1. CASE f[i] < f[j]
    <3>1. PICK x \in Nat, y \in Nat : x = f[i] /\ y = f[j]
      BY <1>13, <1>16
    <3> QED
      BY <2>1, <3>1
  <2>2. CASE \E m, n \in 1..N : m < n /\ m = a[i] /\ n = a[j]
    <3>1. PICK m \in 1..N, n \in 1..N : m < n /\ m = a[i] /\ n = a[j]
      BY <2>2
    <3>2. f[i] \in Q[m] /\ f[j] \in Q[n] /\ m # n
      BY <1>13, <3>1
    <3> QED
      BY <1>3, <3>2
  <2> QED
    BY <1>15, <1>17, <2>1, <2>2
<1>18. \A i, j \in 1..M : f[i] = f[j] => i = j
  <2> SUFFICES ASSUME NEW i \in 1..M, NEW j \in 1..M, f[i] = f[j], i # j PROVE FALSE
    OBVIOUS
  <2>1. i < j \/ j < i
    OBVIOUS
  <2> QED
    BY <1>17, <2>1
<1>19. ASSUME NEW i \in 1..M, NEW j \in 1..M, i < j
       PROVE  /\ T[i].kind = "evidence" /\ T[j].kind = "evidence" => f[i] < f[j]
              /\ T[i].kind = "recent" /\ T[j].kind = "recent" => T[i].group < T[j].group
  <2>1. CASE \E m, n \in 1..N : m < n /\ m = a[i] /\ n = a[j]
    <3>1. PICK m \in 1..N, n \in 1..N : m < n /\ m = a[i] /\ n = a[j]
      BY <2>1
    <3>2. f[i] \in Q[m] /\ f[j] \in Q[n] /\ Precede(S, Q[m], Q[n])
      BY <1>3, <1>13, <3>1
    <3> QED
      BY <1>13, <3>2 DEF Precede
  <2>2. CASE ~\E m, n \in 1..N : m < n /\ m = a[i] /\ n = a[j]
    <3>1. f[i] < f[j]
      BY <1>15, <1>19, <2>2
    <3>2. PICK m \in 1..N, n \in 1..N : m = a[i] /\ n = a[j]
      BY <1>11
    <3>3. m = n
      <4>1. a[i] < a[j] \/ a[i] = a[j]
        BY <1>11, <1>19
      <4> QED
        BY <2>2, <3>2, <4>1
    <3>4. ~(S[f[i]].kind = "recent" /\ S[f[j]].kind = "recent")
      <4>1. f[i] \in Q[n] /\ f[j] \in Q[n] /\ f[i] # f[j]
        BY <1>13, <1>17, <1>19, <3>2, <3>3
      <4> QED
        BY <1>3, <4>1
    <3> QED
      BY <1>13, <3>1, <3>4
  <2> QED
    BY <2>1, <2>2
<1>20. Rearranges(T, S, f)
  <2>1. f \in [1..M -> K]
    BY <1>12, <1>13
  <2> QED
    BY <1>2, <1>10, <1>13, <1>14, <1>18, <1>19, <2>1 DEF Rearranges
<1> QED
  BY <1>5, <1>8, <1>20
LEMMA RearrangedLength ==
  ASSUME NEW X, NEW S \in Seq(X), NEW T \in Seq(X), NEW f, Rearranges(T, S, f)
  PROVE  Len(T) = Len(S)
<1>1. PICK L \in Nat, M \in Nat : L = Len(S) /\ M = Len(T) /\ DOMAIN S = 1..L /\ DOMAIN T = 1..M
  BY ElementOf
<1>2. PICK A, B : A = 1..M /\ B = 1..L
  OBVIOUS
<1>3. /\ f \in [A -> B] /\ (\A s \in B : \E j \in A : f[j] = s) /\ \A i, j \in A : f[i] = f[j] => i = j
  <2>1. A = DOMAIN T /\ B = DOMAIN S
    BY <1>1, <1>2
  <2> QED
    BY <2>1 DEF Rearranges
<1>4. f \in Bijection(A, B)
  BY <1>3 DEF Bijection, Injection, IsInjective, Surjection
<1>5. IsFiniteSet(A) /\ Cardinality(A) = M /\ IsFiniteSet(B) /\ Cardinality(B) = L
  <2>1. 1 \in Int /\ M \in Int /\ L \in Int
    OBVIOUS
  <2>2. IsFiniteSet(1..M) /\ Cardinality(1..M) = IF 1 > M THEN 0 ELSE M - 1 + 1
    BY <2>1, FS_Interval
  <2>3. IsFiniteSet(1..L) /\ Cardinality(1..L) = IF 1 > L THEN 0 ELSE L - 1 + 1
    BY <2>1, FS_Interval
  <2> QED
    BY <1>2, <2>2, <2>3
<1>6. Cardinality(A) = Cardinality(B)
  <2>1. ExistsBijection(A, B)
    BY <1>4 DEF ExistsBijection
  <2> QED
    BY <1>5, <2>1, FS_Bijection
<1> QED
  BY <1>1, <1>5, <1>6

\* The citations number the evidence as it is sent.
LEMMA RearrangedCites ==
  ASSUME NEW X, NEW S \in Seq(X), NEW T \in Seq(X), NEW f, Rearranges(T, S, f), Numbered(S)
  PROVE  \A i \in DOMAIN KindIn(T, {"evidence"}) : KindIn(T, {"evidence"})[i].cite = i
<1>1. PICK E \in SUBSET DOMAIN T : E = PlacesOf(T, {"evidence"})
  BY DEF PlacesOf
<1>2. IsFiniteSet(E) /\ E \in SUBSET Nat
  BY PlacesFinite
<1>3. PICK H \in SUBSET DOMAIN S : H = EvidencePlaces(S)
  BY DEF EvidencePlaces
<1>4. H \in SUBSET Nat
  BY PlacesFinite
<1>5. /\ f \in [DOMAIN T -> DOMAIN S] /\ (\A s \in DOMAIN S : \E j \in DOMAIN T : f[j] = s)
      /\ \A j \in DOMAIN T : T[j] = S[f[j]]
      /\ \A i, j \in DOMAIN T : i < j /\ T[i].kind = "evidence" /\ T[j].kind = "evidence" => f[i] < f[j]
  BY DEF Rearranges
<1>6. \A j \in E : j \in DOMAIN T /\ T[j].kind = "evidence"
  BY <1>1 DEF PlacesOf
<1>7. \A j \in DOMAIN T : T[j].kind = "evidence" => j \in E
  BY <1>1 DEF PlacesOf
<1>8. PICK g : g = [j \in E |-> f[j]]
  OBVIOUS
<1>9. g \in [E -> H]
  BY <1>3, <1>5, <1>6, <1>8 DEF EvidencePlaces
<1>10. \A y \in H : \E x \in E : g[x] = y
  BY <1>3, <1>5, <1>7, <1>8 DEF EvidencePlaces
<1>11. \A x, z \in E : x < z => g[x] < g[z]
  BY <1>5, <1>6, <1>8
<1>12. ASSUME NEW j \in E PROVE T[j].cite = Cardinality(UpTo(E, j))
  <2>1. g[j] \in H /\ T[j] = S[g[j]]
    BY <1>5, <1>6, <1>8, <1>9
  <2>2. T[j].cite = Cardinality(UpTo(H, g[j]))
    BY <1>3, <2>1 DEF Numbered
  <2>3. Cardinality(UpTo(H, g[j])) = Cardinality(UpTo(E, j))
    BY <1>2, <1>4, <1>9, <1>10, <1>11, SameCount
  <2> QED
    BY <2>2, <2>3
<1>13. PICK m \in Nat : m = Cardinality(E)
  BY <1>2, ListingIs
<1>14. PICK e : Enumerates(e, m, E) /\ Picked(T, E) = [i \in 1..m |-> T[e[i]]]
  <2>1. Enumerates(Listing(E), m, E) /\ Picked(T, E) = [i \in 1..m |-> T[Listing(E)[i]]]
    BY <1>2, <1>13, ListingIs
  <2> QED
    BY <2>1
<1>15. PICK V : V = KindIn(T, {"evidence"}) /\ V = [i \in 1..m |-> T[e[i]]]
  BY <1>1, <1>14 DEF KindIn, PlacesOf
<1>16. PICK D : D = 1..m /\ D \in SUBSET Nat /\ IsFiniteSet(D)
  <2>1. IsFiniteSet(1..m) /\ (1..m) \in SUBSET Nat
    BY FS_Interval
  <2> QED
    BY <2>1
<1>17. /\ e \in [D -> E] /\ (\A y \in E : \E x \in D : e[x] = y) /\ \A x, z \in D : x < z => e[x] < e[z]
  BY <1>14, <1>16 DEF Enumerates
<1>18. ASSUME NEW i \in D PROVE V[i].cite = i
  <2>1. e[i] \in E /\ V[i] = T[e[i]]
    BY <1>15, <1>16, <1>17
  <2>2. V[i].cite = Cardinality(UpTo(E, e[i]))
    BY <1>12, <2>1
  <2>3. Cardinality(UpTo(E, e[i])) = Cardinality(UpTo(D, i))
    <3>1. D \in SUBSET Nat /\ E \in SUBSET Nat /\ IsFiniteSet(D)
      BY <1>2, <1>16
    <3> QED
      BY <1>17, <3>1, SameCount
  <2>4. UpTo(D, i) = 1..i
    BY <1>13, <1>16 DEF UpTo
  <2>5. Cardinality(1..i) = i
    <3>1. i \in Int /\ i > 0
      BY <1>16
    <3>2. Cardinality(1..i) = IF 1 > i THEN 0 ELSE i - 1 + 1
      BY <3>1, FS_Interval
    <3> QED
      BY <3>1, <3>2
  <2> QED
    BY <2>2, <2>3, <2>4, <2>5
<1>19. DOMAIN V = D
  BY <1>15, <1>16
<1> QED
  BY <1>15, <1>18, <1>19

\* The turns come from the oldest.
LEMMA RearrangedTurns ==
  ASSUME NEW X, NEW S \in Seq(X), NEW T \in Seq(X), NEW f, Rearranges(T, S, f)
  PROVE  \A i, j \in DOMAIN KindIn(T, {"recent"}) :
           i < j => KindIn(T, {"recent"})[i].group < KindIn(T, {"recent"})[j].group
<1>1. PICK E \in SUBSET DOMAIN T : E = PlacesOf(T, {"recent"})
  BY DEF PlacesOf
<1>2. IsFiniteSet(E) /\ E \in SUBSET Nat
  BY PlacesFinite
<1>3. PICK m : m \in Nat /\ m = Cardinality(E)
  BY <1>2, ListingIs
<1>4. PICK e : Enumerates(e, m, E) /\ Picked(T, E) = [i \in 1..m |-> T[e[i]]]
  <2>1. Enumerates(Listing(E), m, E) /\ Picked(T, E) = [i \in 1..m |-> T[Listing(E)[i]]]
    BY <1>2, <1>3, ListingIs
  <2> QED
    BY <2>1
<1>5. PICK V : V = KindIn(T, {"recent"}) /\ V = [i \in 1..m |-> T[e[i]]]
  BY <1>1, <1>4 DEF KindIn, PlacesOf
<1>6. \A i, j \in DOMAIN T : i < j /\ T[i].kind = "recent" /\ T[j].kind = "recent" => T[i].group < T[j].group
  BY DEF Rearranges
<1>7. \A j \in E : j \in DOMAIN T /\ T[j].kind = "recent"
  BY <1>1 DEF PlacesOf
<1>8. ASSUME NEW i \in 1..m, NEW j \in 1..m, i < j PROVE V[i].group < V[j].group
  <2>1. PICK x, y : x = e[i] /\ y = e[j] /\ x \in E /\ y \in E /\ x < y
    BY <1>4, <1>8 DEF Enumerates
  <2>2. V[i] = T[x] /\ V[j] = T[y]
    BY <1>5, <2>1
  <2> QED
    BY <1>6, <1>7, <2>1, <2>2
<1>9. DOMAIN V = 1..m
  BY <1>5
<1> QED
  BY <1>5, <1>8, <1>9

-----------------------------------------------------------------------------
(* Every prompt of every reply.                                            *)

\* What was found shares nothing, and what is sent is the compiled plan.
ToldInv ==
  /\ PlanInv /\ Sound(found.candidates)
  /\ at = "compiled" => contextPlan.state = "ready" /\ prompt = Compiled(SelectedItems(contextPlan.items))

LEMMA ToldInvStarts ==
  ASSUME PlanInit
  PROVE  ToldInv
<1>1. found = NoEvidence /\ at = "facts"
  BY DEF PlanInit
<1>2. found.candidates = <<>>
  BY <1>1 DEF NoEvidence
<1> QED
  BY <1>1, <1>2, PlanInvStarts, SoundNone DEF ToldInv

LEMMA SoundStays ==
  ASSUME NEW c, facts' = facts, found'.candidates = c, Sound(c)
  PROVE  Sound(found.candidates)'
<1>1. TurnNames' = TurnNames
  BY DEF TurnNames
<1> QED
  BY <1>1 DEF Sound

LEMMA ToldInvHolds ==
  ASSUME ToldInv, [PlanningNext]_planVars
  PROVE  ToldInv'
<1>1. /\ PlanInv /\ Sound(found.candidates)
      /\ at = "compiled" => contextPlan.state = "ready" /\ prompt = Compiled(SelectedItems(contextPlan.items))
  BY DEF ToldInv
<1>2. PlanInv'
  BY <1>1, PlanInvHolds
<1>3. NoEvidence.candidates = <<>> /\ [NoEvidence EXCEPT !.outcome = "degraded"].candidates = <<>>
  BY DEF NoEvidence
<1>4. ASSUME facts' = facts, found' = found, at' # "compiled" PROVE ToldInv'
  <2>1. Sound(found.candidates)'
    BY <1>1, <1>4, SoundStays
  <2> QED
    BY <1>2, <1>4, <2>1 DEF ToldInv
<1>5. ASSUME facts' = facts, found'.candidates = <<>>, at' # "compiled" PROVE ToldInv'
  <2>1. Sound(found.candidates)'
    BY <1>5, SoundNone, SoundStays
  <2> QED
    BY <1>2, <1>5, <2>1 DEF ToldInv
<1>6. CASE Unsearched
  <2>1. /\ facts' = facts /\ at' = "searched"
        /\ found' = [NoEvidence EXCEPT !.outcome = "degraded"] \/ found' = found
    BY <1>6 DEF Unsearched
  <2> QED
    BY <1>3, <1>4, <1>5, <2>1
<1>7. CASE SearchFails
  <2>1. facts' = facts /\ at' = "searched" /\ found' = [NoEvidence EXCEPT !.outcome = "degraded"]
    BY <1>7 DEF SearchFails
  <2> QED
    BY <1>3, <1>5, <2>1
<1>8. CASE AttachmentUnavailable
  <2>1. facts' = facts /\ found' = found /\ at' = "unavailable"
    BY <1>8 DEF AttachmentUnavailable
  <2> QED
    BY <1>4, <2>1
<1>9. ASSUME NEW f \in Findings, NEW r \in {"off", "reversed", "but_first"}, Retrieve(f, r) PROVE ToldInv'
  <2>1. facts' = facts /\ at' = "searched"
    BY <1>9 DEF Retrieve
  <2>2. facts \in PlanRequests
    BY <1>1 DEF PlanInv
  <2>3. Sound(found'.candidates)
    BY <1>9, <2>2, RetrievedSound
  <2>4. Sound(found.candidates)'
    BY <2>1, <2>3, SoundStays
  <2> QED
    BY <1>2, <2>1, <2>4 DEF ToldInv
<1>10. CASE BuildPlan
  <2>1. facts' = facts /\ found' = found /\ at' \in {"planned", "refused"}
    BY <1>10 DEF BuildPlan
  <2> QED
    BY <1>4, <2>1
<1>11. CASE CompileChatInput
  <2>1. /\ facts' = facts /\ found' = found /\ contextPlan' = contextPlan /\ contextPlan.state = "ready"
        /\ prompt' = Compiled(SelectedItems(contextPlan.items))
    BY <1>11 DEF CompileChatInput
  <2>2. Sound(found.candidates)'
    BY <1>1, <2>1, SoundStays
  <2> QED
    BY <1>2, <2>1, <2>2 DEF ToldInv
<1>12. CASE UNCHANGED planVars
  <2>1. facts' = facts /\ found' = found /\ contextPlan' = contextPlan /\ prompt' = prompt /\ at' = at
    BY <1>12 DEF planVars
  <2>2. Sound(found.candidates)'
    BY <1>1, <2>1, SoundStays
  <2> QED
    BY <1>1, <1>2, <2>1, <2>2 DEF ToldInv
<1> QED
  BY <1>6, <1>7, <1>8, <1>9, <1>10, <1>11, <1>12 DEF PlanningNext

LEMMA InvTold ==
  ASSUME ToldInv
  PROVE  ToldOnce
<1> SUFFICES ASSUME at = "compiled"
    PROVE LET sent == Told(prompt)
              evidence == KindIn(sent, {"evidence"})
              recent == KindIn(sent, {"recent"})
          IN /\ \A i, j \in DOMAIN sent : i # j => sent[i].shows \cap sent[j].shows = {}
             /\ \A i \in DOMAIN sent : sent[i].kind \in {"recent", "recalled"} =>
                  \A t \in sent[i].shows : t > MemoryBoundary
             /\ Len(sent) = Len(SelectedItems(contextPlan.items))
             /\ \A i \in DOMAIN evidence : evidence[i].cite = i
             /\ \A i, j \in DOMAIN recent : i < j => recent[i].group < recent[j].group
             /\ contextPlan.outcome = "degraded" => KindIn(sent, {"evidence", "recalled"}) = <<>>
  BY DEF ToldOnce
<1>1. /\ facts \in PlanRequests /\ found \in FoundType /\ Sound(found.candidates) /\ contextPlan = Drafted
      /\ contextPlan.state = "ready" /\ prompt = Compiled(SelectedItems(contextPlan.items))
  BY DEF ToldInv, PlanInv, Made
<1>2. ~(RequiredTokens(PlanGroups) > facts.budget)
  BY <1>1, DraftFailed
<1>3. PICK inside, M, p, b : Fits(Drafted, PlanGroups, inside, M, p, b) /\ Drafted.outcome = found.outcome
  BY <1>1, <1>2, DraftFits
<1>4. PICK S : S = SelectedItems(contextPlan.items)
  OBVIOUS
<1>5. Tidy(S) /\ Numbered(S) /\ \E L \in Nat : S \in [1..L -> Range(contextPlan.items)]
  BY <1>1, <1>3, <1>4, SelectedTidy
<1>6. PICK X : S \in Seq(X)
  <2>1. PICK X : X = Range(contextPlan.items)
    OBVIOUS
  <2>2. PICK L \in Nat : S \in [1..L -> X]
    BY <1>5, <2>1
  <2>3. S \in Seq(X)
    BY <2>2
  <2> QED
    BY <2>3
<1>7. prompt \in Seq(Messages(X)) /\ \E Q : Layout(prompt, Q, S, DOMAIN S)
  <2>1. CASE KindIn(S, {"recent"}) # <<>>
    <3>1. prompt = RolePreserving(S)
      BY <1>1, <1>4, <2>1 DEF Compiled
    <3> QED
      BY <1>5, <1>6, <3>1, RolePreservingLine
  <2>2. CASE KindIn(S, {"recent"}) = <<>>
    <3>1. prompt = Legacy(S)
      BY <1>1, <1>4, <2>2 DEF Compiled
    <3>2. PICK K \in SUBSET DOMAIN S : K = PlacesOf(S, {"recent"})
      BY DEF PlacesOf
    <3>3. IsFiniteSet(K) /\ K \in SUBSET Nat
      BY <1>6, PlacesFinite
    <3>4. PICK m : m \in Nat /\ m = Cardinality(K) /\ Picked(S, K) = [j \in 1..m |-> S[Listing(K)[j]]]
      BY <3>3, ListingIs
    <3>5. Picked(S, K) = <<>>
      BY <2>2, <3>2 DEF KindIn, PlacesOf
    <3>6. m = 0
      <4>1. DOMAIN [j \in 1..m |-> S[Listing(K)[j]]] = 1..m
        OBVIOUS
      <4>2. 1..m = {}
        BY <3>4, <3>5, <4>1
      <4> QED
        BY <3>4, <4>2
    <3>7. K = {}
      BY <3>3, <3>4, <3>6, FS_EmptySet
    <3> QED
      BY <1>5, <1>6, <3>1, <3>2, <3>7, LegacyLine
  <2> QED
    BY <2>1, <2>2
<1>8. PICK T : T = Told(prompt)
  OBVIOUS
<1>9. T \in Seq(X) /\ \E f : Rearranges(T, S, f)
  BY <1>6, <1>7, <1>8, LineTold
<1>10. PICK f : Rearranges(T, S, f)
  BY <1>9
<1>11. /\ \A j \in DOMAIN T : f[j] \in DOMAIN S /\ T[j] = S[f[j]]
       /\ \A i, j \in DOMAIN T : f[i] = f[j] => i = j
  BY <1>10 DEF Rearranges
<1>12. \A i, j \in DOMAIN T : i # j => T[i].shows \cap T[j].shows = {}
  <2>1. \A s, t \in DOMAIN S : s # t => S[s].shows \cap S[t].shows = {}
    BY <1>5 DEF Tidy
  <2> QED
    BY <1>11, <2>1
<1>13. \A i \in DOMAIN T : T[i].kind \in {"recent", "recalled"} => \A t \in T[i].shows : t > MemoryBoundary
  <2>1. \A s \in DOMAIN S : S[s].kind \in {"recent", "recalled"} => \A x \in S[s].shows : x > MemoryBoundary
    BY <1>5 DEF Tidy
  <2> QED
    BY <1>11, <2>1
<1>14. Len(T) = Len(S)
  BY <1>6, <1>9, <1>10, RearrangedLength
<1>15. \A i \in DOMAIN KindIn(T, {"evidence"}) : KindIn(T, {"evidence"})[i].cite = i
  BY <1>5, <1>6, <1>9, <1>10, RearrangedCites
<1>16. \A i, j \in DOMAIN KindIn(T, {"recent"}) :
         i < j => KindIn(T, {"recent"})[i].group < KindIn(T, {"recent"})[j].group
  BY <1>6, <1>9, <1>10, RearrangedTurns
<1>17. ASSUME contextPlan.outcome = "degraded" PROVE KindIn(T, {"evidence", "recalled"}) = <<>>
  <2>1. \A s \in DOMAIN S : S[s].kind \notin {"evidence", "recalled"}
    BY <1>1, <1>3, <1>5, <1>17 DEF Tidy
  <2>2. {i \in DOMAIN T : T[i].kind \in {"evidence", "recalled"}} = {}
    BY <1>11, <2>1
  <2>3. Picked(T, {}) = <<>>
    <3>1. 0 \in Nat
      OBVIOUS
    <3> QED
      BY <3>1, PickedFew
  <2> QED
    BY <2>2, <2>3 DEF KindIn
<1> QED
  BY <1>4, <1>8, <1>12, <1>13, <1>14, <1>15, <1>16, <1>17

\* Whatever facts, memory, turns and findings a reply has, what is sent shows
\* no turn and no passage twice, no turn the memory covers, the turns from the
\* oldest and the evidence under its own number, all that the plan selected;
\* a degraded plan sends no evidence (composeEvidenceGroups,
\* compileRolePreservingChatInput, compileLegacyChatInput).
THEOREM ContextToldOnce == PlanningSpec => []ToldOnce
<1>1. PlanInit => ToldInv
  BY ToldInvStarts
<1>2. ToldInv /\ [PlanningNext]_planVars => ToldInv'
  BY ToldInvHolds
<1>3. ToldInv => ToldOnce
  BY InvTold
<1> QED
  BY <1>1, <1>2, <1>3, PTL DEF PlanningSpec
=============================================================================
