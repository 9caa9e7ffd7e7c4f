----------------------------- MODULE ContextProofs -----------------------------
(***************************************************************************)
(* What the context engine remembers of a conversation, and what a reply   *)
(* is built from.  The ready memories stay one chain that stands for the   *)
(* complete turns, and a committed plan stays true until it is sent, for   *)
(* any number of turns, token bounds, budgets, builders and repeats.       *)
(* What the engine searches documents with: a profile in use has its       *)
(* collection with every promised point, and versions only advance.        *)
(*                                                                         *)
(* Coverage and Tokens are recursive functions on an initial segment of    *)
(* the numbers.  That they exist and what they compute is shown by         *)
(* BoundedInduction, which is about sets of numbers up to a bound and      *)
(* rests on the well-foundedness of strict inclusion.                      *)
(***************************************************************************)
EXTENDS ConversationContext, ContextIndex, FiniteSetTheorems, TLAPS

LOCAL INSTANCE FiniteSetsExt

-----------------------------------------------------------------------------
(* Numbers up to a bound.                                                  *)

\* Induction, for a set of numbers in place of a predicate.
LEMMA BoundedInduction ==
  ASSUME NEW n \in Nat, NEW P \in SUBSET (0..n), 0 \in P, \A i \in P : i < n => i + 1 \in P
  PROVE  P = 0..n
<1> DEFINE F == {i..n : i \in {k \in P : 0..k \subseteq P}}
<1>1. IsWellFoundedOn(StrictSubsetOrdering(0..n), SUBSET (0..n))
  <2>1. IsFiniteSet(0..n)
    BY FS_Interval
  <2> QED
    BY <2>1, FS_StrictSubsetOrderingWellFounded, FS_FiniteSubsetsOfFinite
<1>2. F \subseteq SUBSET (0..n) /\ F # {}
  <2>1. 0..0 \subseteq P /\ 0 \in {k \in P : 0..k \subseteq P}
    OBVIOUS
  <2> QED
    BY <2>1
<1>3. PICK A \in F : \A B \in F : <<B, A>> \notin StrictSubsetOrdering(0..n)
  BY <1>1, <1>2, WFMin
<1>4. PICK k \in P : A = k..n /\ 0..k \subseteq P
  BY <1>3
<1>5. CASE k < n
  <2>1. k + 1 \in P /\ 0..(k + 1) \subseteq P
    BY <1>4, <1>5
  <2>2. (k + 1)..n \in F
    BY <2>1
  <2>3. (k + 1)..n \subseteq A /\ k \in A /\ k \notin (k + 1)..n
    BY <1>4, <1>5
  <2>4. <<(k + 1)..n, A>> \in StrictSubsetOrdering(0..n)
    BY <1>2, <1>3, <2>2, <2>3 DEF StrictSubsetOrdering
  <2> QED
    BY <1>3, <2>2, <2>4
<1>6. CASE k = n
  BY <1>4, <1>6
<1> QED
  BY <1>4, <1>5, <1>6

\* A set of numbers up to a bound has a greatest and a least member.
LEMMA Extremes ==
  ASSUME NEW n \in Nat, NEW S \in SUBSET (0..n), S # {}
  PROVE  /\ \E m \in S : \A k \in S : k <= m
         /\ \E m \in S : \A k \in S : m <= k
<1> DEFINE P == {k \in 0..n : \A T \in SUBSET (0..k) : T # {} => \E m \in T : \A x \in T : x <= m}
           Q == {k \in 0..n : \A T \in SUBSET (0..n) :
                   T \cap (0..k) # {} => \E m \in T : \A x \in T : m <= x}
<1>1. P = 0..n
  <2>1. 0 \in P
    <3>1. ASSUME NEW T \in SUBSET (0..0), T # {} PROVE \E m \in T : \A x \in T : x <= m
      <4>1. \A x \in T : x = 0 /\ x <= 0
        OBVIOUS
      <4>2. 0 \in T
        BY <3>1, <4>1
      <4> QED
        BY <4>1, <4>2
    <3> QED
      BY <3>1
  <2>2. ASSUME NEW i \in P, i < n PROVE i + 1 \in P
    <3>1. ASSUME NEW T \in SUBSET (0..(i + 1)), T # {} PROVE \E m \in T : \A x \in T : x <= m
      <4>1. CASE i + 1 \in T
        BY <4>1, <3>1
      <4>2. CASE i + 1 \notin T
        <5>1. T \in SUBSET (0..i)
          BY <4>2, <3>1
        <5> QED
          BY <2>2, <3>1, <5>1
      <4> QED  BY <4>1, <4>2
    <3> QED
      BY <2>2, <3>1
  <2> HIDE DEF P
  <2>3. P \in SUBSET (0..n)
    BY DEF P
  <2> QED
    BY <2>1, <2>2, <2>3, BoundedInduction
<1>2. Q = 0..n
  <2>1. 0 \in Q
    <3>1. ASSUME NEW T \in SUBSET (0..n), T \cap (0..0) # {} PROVE \E m \in T : \A x \in T : m <= x
      <4>1. 0 \in T /\ \A x \in T : 0 <= x
        BY <3>1
      <4> QED
        BY <4>1
    <3> QED
      BY <3>1
  <2>2. ASSUME NEW i \in Q, i < n PROVE i + 1 \in Q
    <3>1. ASSUME NEW T \in SUBSET (0..n), T \cap (0..(i + 1)) # {} PROVE \E m \in T : \A x \in T : m <= x
      <4>1. CASE T \cap (0..i) = {}
        BY <4>1, <3>1
      <4>2. CASE T \cap (0..i) # {}
        BY <2>2, <4>2
      <4> QED  BY <4>1, <4>2
    <3> QED
      BY <2>2, <3>1
  <2> HIDE DEF Q
  <2>3. Q \in SUBSET (0..n)
    BY DEF Q
  <2> QED
    BY <2>1, <2>2, <2>3, BoundedInduction
<1>3. n \in P /\ n \in Q /\ S \cap (0..n) # {}
  BY <1>1, <1>2
<1> QED
  BY <1>3

\* So have the turns of a set.
LEMMA TurnExtremes ==
  ASSUME NEW S \in SUBSET Turns, S # {}
  PROVE  /\ Max(S) \in S /\ \A k \in S : k <= Max(S)
         /\ Min(S) \in S /\ \A k \in S : Min(S) <= k
<1>1. MaxTurns \in Nat /\ S \in SUBSET (0..MaxTurns) /\ S \subseteq Int
  BY ChatAssumption DEF Turns
<1> QED
  BY <1>1, Extremes DEF Max, Min

-----------------------------------------------------------------------------
(* What the recursive functions of the model compute.                      *)

\* The coverage of the first n memories of a list.
IsCoverage(f, rows, n) ==
  f = [i \in 0..n |-> IF i = 0 THEN {} ELSE rows[i].turns \cup f[rows[i].parent]]

Ordered(rows, n) == \A i \in 1..n : rows[i].parent \in 0..(i - 1)
Accumulates(cov, rows, n) ==
  cov[0] = {} /\ \A i \in 1..n : cov[i] = rows[i].turns \cup cov[rows[i].parent]

\* A list whose parents come first has a coverage.
LEMMA CoverageExists ==
  ASSUME NEW rows, NEW n \in Nat, Ordered(rows, n)
  PROVE  \E f : IsCoverage(f, rows, n)
<1> DEFINE P == {k \in 0..n : \E f : IsCoverage(f, rows, k)}
<1>1. 0 \in P
  <2> DEFINE f == [i \in 0..0 |-> {}]
             g == [i \in 0..0 |-> IF i = 0 THEN {} ELSE rows[i].turns \cup f[rows[i].parent]]
  <2>1. \A i \in 0..0 : f[i] = {} /\ g[i] = {}
    OBVIOUS
  <2>2. f = [i \in 0..0 |-> f[i]] /\ g = [i \in 0..0 |-> g[i]]
    OBVIOUS
  <2>3. f = g
    <3> HIDE DEF f, g
    <3> QED
      BY <2>1, <2>2
  <2>4. IsCoverage(f, rows, 0)
    BY <2>3 DEF IsCoverage
  <2> HIDE DEF f
  <2> QED
    BY <2>4
<1>2. ASSUME NEW k \in P, k < n PROVE k + 1 \in P
  <2>1. PICK f : f = [i \in 0..k |-> IF i = 0 THEN {} ELSE rows[i].turns \cup f[rows[i].parent]]
    BY DEF IsCoverage
  <2> DEFINE g == [i \in 0..(k + 1) |-> IF i = k + 1 THEN rows[i].turns \cup f[rows[i].parent] ELSE f[i]]
  <2>2. ASSUME NEW i \in 0..(k + 1)
        PROVE  g[i] = IF i = 0 THEN {} ELSE rows[i].turns \cup g[rows[i].parent]
    <3>1. CASE i = k + 1
      <4>1. i \in 1..n /\ rows[i].parent \in 0..k
        BY <1>2, <3>1 DEF Ordered
      <4>2. g[rows[i].parent] = f[rows[i].parent] /\ i # 0
        BY <4>1, <3>1
      <4>3. g[i] = rows[i].turns \cup f[rows[i].parent]
        BY <3>1
      <4> QED
        BY <4>2, <4>3
    <3>2. CASE i # k + 1 /\ i # 0
      <4>1. i \in 1..n /\ i \in 0..k /\ rows[i].parent \in 0..(i - 1) /\ rows[i].parent \in 0..k
        BY <1>2, <3>2 DEF Ordered
      <4>2. g[rows[i].parent] = f[rows[i].parent] /\ g[i] = f[i]
        BY <4>1, <3>2
      <4>3. f[i] = rows[i].turns \cup f[rows[i].parent]
        BY <2>1, <4>1, <3>2
      <4> QED
        BY <4>2, <4>3, <3>2
    <3>3. CASE i = 0
      <4>1. g[i] = f[i] /\ i \in 0..k
        BY <3>3
      <4> QED
        BY <2>1, <3>3, <4>1
    <3> QED  BY <3>1, <3>2, <3>3
  <2> DEFINE h == [i \in 0..(k + 1) |-> IF i = 0 THEN {} ELSE rows[i].turns \cup g[rows[i].parent]]
  <2>3. g = h
    <3>1. \A i \in 0..(k + 1) : g[i] = h[i]
      BY <2>2
    <3>2. g = [i \in 0..(k + 1) |-> g[i]] /\ h = [i \in 0..(k + 1) |-> h[i]]
      OBVIOUS
    <3> HIDE DEF g, h
    <3> QED
      BY <3>1, <3>2
  <2>4. IsCoverage(g, rows, k + 1)
    BY <2>3 DEF IsCoverage
  <2> HIDE DEF g
  <2> QED
    BY <1>2, <2>4
<1>3. P \in SUBSET (0..n)
  OBVIOUS
<1> HIDE DEF P
<1>4. P = 0..n
  BY <1>1, <1>2, <1>3, BoundedInduction
<1> QED
  BY <1>4 DEF P

\* A memory covers its own turns and those of its parent.
LEMMA CoverageEquation ==
  ASSUME NEW rows, NEW n \in Nat, NEW cov, IsCoverage(cov, rows, n)
  PROVE  Accumulates(cov, rows, n)
<1>1. cov = [i \in 0..n |-> IF i = 0 THEN {} ELSE rows[i].turns \cup cov[rows[i].parent]]
  BY DEF IsCoverage
<1> DEFINE g == [i \in 0..n |-> IF i = 0 THEN {} ELSE rows[i].turns \cup cov[rows[i].parent]]
<1>2. \A i \in 0..n : g[i] = IF i = 0 THEN {} ELSE rows[i].turns \cup cov[rows[i].parent]
  OBVIOUS
<1>3. cov = g
  BY ONLY <1>1
<1> HIDE DEF g
<1>4. cov[0] = {}
  <2>1. 0 \in 0..n
    OBVIOUS
  <2>2. g[0] = {}
    BY ONLY <2>1, <1>2
  <2> QED
    BY ONLY <1>3, <2>2
<1>5. ASSUME NEW i \in 1..n PROVE cov[i] = rows[i].turns \cup cov[rows[i].parent]
  <2>1. i \in 0..n /\ i # 0
    BY ONLY <1>5, n \in Nat
  <2>2. g[i] = IF i = 0 THEN {} ELSE rows[i].turns \cup cov[rows[i].parent]
    BY ONLY <2>1, <1>2, Zenon
  <2> QED
    BY ONLY <1>3, <2>1, <2>2, Zenon
<1> QED
  BY <1>4, <1>5, Zenon DEF Accumulates

\* What a memory covers depends on the memories up to it alone.
LEMMA CoverageOfPrefix ==
  ASSUME NEW n \in Nat, NEW rows, NEW cov, NEW more, NEW cov2,
         Ordered(rows, n),
         \A i \in 1..n : more[i].parent = rows[i].parent /\ more[i].turns = rows[i].turns,
         Accumulates(cov, rows, n), Accumulates(cov2, more, n)
  PROVE  \A i \in 0..n : cov2[i] = cov[i]
<1> DEFINE P == {k \in 0..n : \A i \in 0..k : cov2[i] = cov[i]}
<1>1. 0 \in P
  <2>1. \A i \in 0..0 : i = 0
    OBVIOUS
  <2>2. cov[0] = {} /\ cov2[0] = {}
    BY Zenon DEF Accumulates
  <2>3. 0 \in 0..n
    OBVIOUS
  <2>4. \A i \in 0..0 : cov2[i] = cov[i]
    BY <2>1, <2>2
  <2> QED
    BY ONLY <2>3, <2>4
<1>2. ASSUME NEW k \in P, k < n PROVE k + 1 \in P
  <2>1. k + 1 \in 1..n /\ rows[k + 1].parent \in 0..k
    <3>1. k + 1 \in 1..n /\ 0..(k + 1 - 1) = 0..k
      BY <1>2
    <3>2. rows[k + 1].parent \in 0..(k + 1 - 1)
      BY <3>1 DEF Ordered
    <3> QED
      BY <3>1, <3>2
  <2>2. cov2[rows[k + 1].parent] = cov[rows[k + 1].parent]
    BY <2>1
  <2> HIDE DEF P
  <2>3. more[k + 1].parent = rows[k + 1].parent /\ more[k + 1].turns = rows[k + 1].turns
    BY <2>1
  <2>4. cov2[k + 1] = cov[k + 1]
    <3>1. cov[k + 1] = rows[k + 1].turns \cup cov[rows[k + 1].parent]
      BY <2>1, Zenon DEF Accumulates
    <3>2. cov2[k + 1] = more[k + 1].turns \cup cov2[more[k + 1].parent]
      BY <2>1, Zenon DEF Accumulates
    <3> QED
      BY ONLY <3>1, <3>2, <2>2, <2>3
  <2> USE DEF P
  <2>5. \A i \in 0..(k + 1) : i \in 0..k \/ i = k + 1
    BY <1>2
  <2> QED
    BY <1>2, <2>1, <2>4, <2>5
<1>3. P \in SUBSET (0..n)
  OBVIOUS
<1> HIDE DEF P
<1>4. P = 0..n
  BY <1>1, <1>2, <1>3, BoundedInduction
<1> QED
  BY <1>4 DEF P

\* Coverage is that of the memories there are.
LEMMA CoverageOfMemories ==
  ASSUME Len(memories) \in Nat, Ordered(memories, Len(memories))
  PROVE  Accumulates(Coverage, memories, Len(memories))
<1>1. Coverage = CHOOSE f : IsCoverage(f, memories, Len(memories))
  BY ONLY Zenon DEF Coverage, IsCoverage
<1>2. IsCoverage(Coverage, memories, Len(memories))
  <2>1. \E f : IsCoverage(f, memories, Len(memories))
    BY CoverageExists
  <2> QED
    BY ONLY <1>1, <2>1
<1> QED
  BY <1>2, CoverageEquation

\* The tokens of the turns up to each of the first n.
IsSum(f, n) ==
  f = [i \in 0..n |-> [ts \in SUBSET Turns |->
        IF i = 0 THEN 0 ELSE f[i - 1][ts] + (IF i \in ts THEN TurnTokens[i] ELSE 0)]]

\* The tokens of the turns up to n add up.
LEMMA SumExists == ASSUME NEW n \in Nat PROVE \E f : IsSum(f, n)
<1> DEFINE P == {k \in 0..n : \E f : IsSum(f, k)}
<1>1. 0 \in P
  <2> DEFINE f == [i \in 0..0 |-> [ts \in SUBSET Turns |-> 0]]
             g == [i \in 0..0 |-> [ts \in SUBSET Turns |->
                     IF i = 0 THEN 0 ELSE f[i - 1][ts] + (IF i \in ts THEN TurnTokens[i] ELSE 0)]]
  <2>1. \A i \in 0..0 : f[i] = [ts \in SUBSET Turns |-> 0]
    OBVIOUS
  <2>2. \A i \in 0..0 : g[i] = [ts \in SUBSET Turns |-> 0]
    <3>1. \A i \in 0..0 : i = 0
      OBVIOUS
    <3> HIDE DEF f
    <3> QED
      BY <3>1
  <2>3. f = [i \in 0..0 |-> f[i]] /\ g = [i \in 0..0 |-> g[i]]
    OBVIOUS
  <2>4. f = g
    <3> HIDE DEF f, g
    <3> QED
      BY <2>1, <2>2, <2>3
  <2>5. IsSum(f, 0)
    BY <2>4, Zenon DEF IsSum
  <2> HIDE DEF f
  <2> QED
    BY <2>5
<1>2. ASSUME NEW k \in P, k < n PROVE k + 1 \in P
  <2>1. PICK f : IsSum(f, k)
    OBVIOUS
  <2> DEFINE row(i) == [ts \in SUBSET Turns |->
                     IF i = 0 THEN 0 ELSE f[i - 1][ts] + (IF i \in ts THEN TurnTokens[i] ELSE 0)]
             g == [i \in 0..(k + 1) |-> row(i)]
             h == [i \in 0..(k + 1) |-> [ts \in SUBSET Turns |->
                     IF i = 0 THEN 0 ELSE g[i - 1][ts] + (IF i \in ts THEN TurnTokens[i] ELSE 0)]]
  <2>2. \A i \in 0..k : f[i] = row(i)
    <3>1. f = [i \in 0..k |-> row(i)]
      BY ONLY <2>1, Zenon DEF IsSum
    <3> HIDE DEF row
    <3> QED
      BY ONLY <3>1
  <2>3. ASSUME NEW i \in 0..(k + 1) PROVE h[i] = g[i]
    <3>1. CASE i = 0
      BY <3>1
    <3>2. CASE i # 0
      <4>1. i - 1 \in 0..k /\ i - 1 \in 0..(k + 1)
        BY <3>2
      <4>2. g[i - 1] = row(i - 1)
        <5> HIDE DEF row
        <5> QED
          BY <4>1
      <4>3. g[i - 1] = f[i - 1]
        BY ONLY <4>1, <4>2, <2>2
      <4>4. h[i] = [ts \in SUBSET Turns |-> g[i - 1][ts] + (IF i \in ts THEN TurnTokens[i] ELSE 0)]
        <5> HIDE DEF g
        <5> QED
          BY <3>2
      <4>5. g[i] = [ts \in SUBSET Turns |-> f[i - 1][ts] + (IF i \in ts THEN TurnTokens[i] ELSE 0)]
        BY <3>2
      <4> QED
        BY ONLY <4>3, <4>4, <4>5
    <3> QED  BY <3>1, <3>2
  <2>4. g = [i \in 0..(k + 1) |-> g[i]] /\ h = [i \in 0..(k + 1) |-> h[i]]
    OBVIOUS
  <2>5. g = h
    <3> HIDE DEF g, h
    <3> QED
      BY <2>3, <2>4
  <2>6. IsSum(g, k + 1)
    <3> HIDE DEF g
    <3> QED
      BY <2>5, Zenon DEF IsSum
  <2> HIDE DEF g
  <2> QED
    BY <1>2, <2>6
<1>3. P \in SUBSET (0..n)
  OBVIOUS
<1> HIDE DEF P
<1>4. P = 0..n
  BY <1>1, <1>2, <1>3, BoundedInduction
<1> QED
  BY <1>4 DEF P

\* The tokens of a set of turns, one turn at a time.
LEMMA TokensByTurn ==
  ASSUME NEW ts \in SUBSET Turns
  PROVE  /\ TokensThrough[0][ts] = 0
         /\ \A i \in 1..MaxTurns :
              TokensThrough[i][ts] = TokensThrough[i - 1][ts] + (IF i \in ts THEN TurnTokens[i] ELSE 0)
<1>1. MaxTurns \in Nat
  BY ChatAssumption
<1>2. TokensThrough = CHOOSE f : IsSum(f, MaxTurns)
  BY ONLY Zenon DEF TokensThrough, IsSum
<1>3. IsSum(TokensThrough, MaxTurns)
  <2>1. \E f : IsSum(f, MaxTurns)
    BY <1>1, SumExists
  <2> QED
    BY ONLY <1>2, <2>1
<1> DEFINE f == TokensThrough
           row(i) == [us \in SUBSET Turns |->
                     IF i = 0 THEN 0 ELSE f[i - 1][us] + (IF i \in us THEN TurnTokens[i] ELSE 0)]
<1>4. \A i \in 0..MaxTurns : f[i] = row(i)
  <2>1. f = [i \in 0..MaxTurns |-> row(i)]
    BY ONLY <1>3, Zenon DEF IsSum
  <2> HIDE DEF row, f
  <2> QED
    BY ONLY <2>1
<1>5. f[0] = row(0) /\ \A i \in 1..MaxTurns : f[i] = row(i) /\ i # 0
  <2>1. 0 \in 0..MaxTurns /\ \A i \in 1..MaxTurns : i \in 0..MaxTurns /\ i # 0
    BY <1>1
  <2> HIDE DEF row, f
  <2> QED
    BY ONLY <1>4, <2>1
<1> HIDE DEF f
<1>6. row(0)[ts] = 0
  OBVIOUS
<1>7. ASSUME NEW i \in 1..MaxTurns
      PROVE  row(i)[ts] = f[i - 1][ts] + (IF i \in ts THEN TurnTokens[i] ELSE 0)
  BY <1>5
<1> HIDE DEF row
<1>8. f[0][ts] = 0
  BY ONLY <1>5, <1>6
<1>9. ASSUME NEW i \in 1..MaxTurns
      PROVE  f[i][ts] = f[i - 1][ts] + (IF i \in ts THEN TurnTokens[i] ELSE 0)
  <2>1. f[i] = row(i)
    BY ONLY <1>5, <1>9
  <2>2. row(i)[ts] = f[i - 1][ts] + (IF i \in ts THEN TurnTokens[i] ELSE 0)
    BY ONLY <1>7, <1>9
  <2> QED
    BY ONLY <2>1, <2>2
<1> QED
  BY ONLY <1>8, <1>9, Zenon DEF f

\* More turns have as many tokens or more.
LEMMA TokensGrow ==
  ASSUME NEW T \in SUBSET Turns, NEW S \in SUBSET T
  PROVE  Tokens(S) \in Nat /\ Tokens(T) \in Nat /\ Tokens(S) <= Tokens(T)
<1> DEFINE s == [i \in 0..MaxTurns |-> TokensThrough[i][S]]
           t == [i \in 0..MaxTurns |-> TokensThrough[i][T]]
           P == {k \in 0..MaxTurns : s[k] \in Nat /\ t[k] \in Nat /\ s[k] <= t[k]}
<1>1. MaxTurns \in Nat /\ S \in SUBSET Turns /\ \A i \in 1..MaxTurns : TurnTokens[i] \in Nat
  BY ChatAssumption
<1>2. s[0] = 0 /\ t[0] = 0
  BY <1>1, TokensByTurn
<1>3. ASSUME NEW i \in 1..MaxTurns
      PROVE  /\ s[i] = s[i - 1] + (IF i \in S THEN TurnTokens[i] ELSE 0)
             /\ t[i] = t[i - 1] + (IF i \in T THEN TurnTokens[i] ELSE 0)
  <2>1. i \in 0..MaxTurns /\ i - 1 \in 0..MaxTurns
    BY <1>1
  <2>2. /\ TokensThrough[i][S] = TokensThrough[i - 1][S] + (IF i \in S THEN TurnTokens[i] ELSE 0)
        /\ TokensThrough[i][T] = TokensThrough[i - 1][T] + (IF i \in T THEN TurnTokens[i] ELSE 0)
    BY <1>1, TokensByTurn
  <2> QED
    BY <2>1, <2>2
<1>4. Tokens(S) = s[MaxTurns] /\ Tokens(T) = t[MaxTurns]
  BY <1>1 DEF Tokens
<1> HIDE DEF s, t
<1>5. 0 \in P
  BY <1>1, <1>2
<1>6. ASSUME NEW k \in P, k < MaxTurns PROVE k + 1 \in P
  <2>1. k + 1 \in 1..MaxTurns /\ k + 1 - 1 = k /\ k + 1 \in 0..MaxTurns
    BY <1>1, <1>6
  <2>2. /\ s[k + 1] = s[k] + (IF k + 1 \in S THEN TurnTokens[k + 1] ELSE 0)
        /\ t[k + 1] = t[k] + (IF k + 1 \in T THEN TurnTokens[k + 1] ELSE 0)
        /\ TurnTokens[k + 1] \in Nat
    <3>1. /\ s[k + 1] = s[k + 1 - 1] + (IF k + 1 \in S THEN TurnTokens[k + 1] ELSE 0)
          /\ t[k + 1] = t[k + 1 - 1] + (IF k + 1 \in T THEN TurnTokens[k + 1] ELSE 0)
      BY ONLY <1>3, <2>1
    <3> QED
      BY ONLY <3>1, <2>1, <1>1
  <2> QED
    BY <2>1, <2>2
<1>7. P \in SUBSET (0..MaxTurns)
  OBVIOUS
<1> HIDE DEF P
<1>8. P = 0..MaxTurns
  BY <1>1, <1>5, <1>6, <1>7, BoundedInduction
<1> QED
  BY <1>1, <1>4, <1>8 DEF P

\* No turns have no tokens.
LEMMA NoTokens == Tokens({}) = 0
<1> DEFINE s == [i \in 0..MaxTurns |-> TokensThrough[i][{}]]
           P == {k \in 0..MaxTurns : s[k] = 0}
<1>1. MaxTurns \in Nat /\ {} \in SUBSET Turns
  BY ChatAssumption
<1>2. s[0] = 0 /\ \A i \in 1..MaxTurns : s[i] = s[i - 1] + 0
  <2>1. TokensThrough[0][{}] = 0 /\ \A i \in 1..MaxTurns : TokensThrough[i][{}] = TokensThrough[i - 1][{}] + 0
    BY <1>1, TokensByTurn
  <2>2. \A i \in 1..MaxTurns : i \in 0..MaxTurns /\ i - 1 \in 0..MaxTurns
    BY <1>1
  <2> QED
    BY <1>1, <2>1, <2>2
<1>3. Tokens({}) = s[MaxTurns]
  BY <1>1 DEF Tokens
<1> HIDE DEF s
<1>4. 0 \in P
  BY <1>1, <1>2
<1>5. ASSUME NEW k \in P, k < MaxTurns PROVE k + 1 \in P
  <2>1. k + 1 \in 1..MaxTurns /\ k + 1 - 1 = k /\ k + 1 \in 0..MaxTurns
    BY <1>1, <1>5
  <2>2. s[k + 1] = s[k + 1 - 1] + 0
    BY ONLY <1>2, <2>1
  <2> QED
    BY <2>1, <2>2
<1>6. P \in SUBSET (0..MaxTurns)
  OBVIOUS
<1> HIDE DEF P
<1>7. P = 0..MaxTurns
  BY <1>1, <1>4, <1>5, <1>6, BoundedInduction
<1> QED
  BY <1>1, <1>3, <1>7 DEF P

-----------------------------------------------------------------------------
(***************************************************************************)
(* The invariant.                                                          *)
(***************************************************************************)
\* One reply at a time, and no edit while the profile is off the agent.
CalmTalk == \A scene \in ChatScenes : "together" \notin scene.events /\ "detached" \notin scene.events

TurnRows == [state : {"none", "active", "complete", "failed"}, user : BOOLEAN, answer : BOOLEAN,
             seen : 0..MaxTurns]
MemoryRows == [parent : Nat, turns : SUBSET Turns, state : {"ready", "failed", "invalidated"}]
Works == [parent : Nat, turns : SUBSET Turns]
Builds == [at : {"rest", "summarize", "commit"}, work : Works,
           result : {"none", "ready", "failed", "exhausted"}]
Plans == [at : {"none", "memory", "history", "recall", "commit", "ready", "refused", "guarded", "sent"},
          profiled : BOOLEAN, memory : Nat, degraded : BOOLEAN,
          history : SUBSET Turns, recalled : SUBSET Turns]

TalkTypeOK ==
  /\ chatScene \in ChatScenes /\ turn \in [Turns -> TurnRows] /\ bound \in BOOLEAN
  /\ plan \in [Turns -> Plans]

MemoriesInOrder ==
  /\ memories \in Seq(MemoryRows)
  /\ \A i \in DOMAIN memories : memories[i].parent < i /\ memories[i].turns # {}

BuildsHaveTurns ==
  /\ DOMAIN buildTask \subseteq {k \in Works : k.turns # {}}
  /\ builder \in [Builders -> Builds]
  /\ \A w \in Builders : builder[w].at # "rest" => builder[w].work.turns # {}

TurnsInOrder == \E n \in 0..MaxTurns : SentTurns = 1..n
OneAtATime == \A t \in Active, u \in SentTurns : u <= t
PlansHaveReplies == \A t \in Turns : plan[t].at # "none" => t \in Active

\* What a plan holds once each of its parts is read.
Sound(t, p) ==
  LET older == {u \in Complete : u < t /\ u > Boundary(p)}
  IN /\ p.at \in {"memory", "history"} => p.recalled = {}
     /\ p.at \notin {"none", "memory"} => p.memory \in Ready \cup {0}
     /\ p.at \notin {"none", "memory", "history"} =>
          /\ p.history \subseteq older
          /\ Tokens(p.history) < PlanBudget => p.history = older
          /\ p.recalled \subseteq Complete \ p.history
          /\ \A u \in p.recalled : u > Boundary(p)

PlansAreSound == \A t \in Turns : Sound(t, plan[t])

ChatInv ==
  /\ TalkTypeOK /\ MemoriesInOrder /\ BuildsHaveTurns
  /\ TurnsInOrder /\ OneAtATime /\ PlansHaveReplies
  /\ MemoryIsCurrent /\ PlansAreSound

-----------------------------------------------------------------------------
(* Memories.                                                               *)

\* Memories have turns and an earlier parent.
LEMMA MemoryTyped ==
  ASSUME MemoriesInOrder
  PROVE  /\ Len(memories) \in Nat /\ DOMAIN memories = 1..Len(memories)
         /\ Ordered(memories, Len(memories))
         /\ \A i \in DOMAIN memories :
              /\ memories[i] \in MemoryRows /\ i \in Nat /\ i # 0
              /\ Through(memories[i]) \in memories[i].turns /\ Through(memories[i]) \in Turns
              /\ \A t \in memories[i].turns : t <= Through(memories[i])
<1>1. Len(memories) \in Nat /\ DOMAIN memories = 1..Len(memories)
  BY DEF MemoriesInOrder
<1>2. \A i \in DOMAIN memories : memories[i] \in MemoryRows /\ memories[i].parent < i /\ memories[i].turns # {}
  BY DEF MemoriesInOrder
<1>3. ASSUME NEW i \in DOMAIN memories
      PROVE  /\ memories[i].parent \in 0..(i - 1)
             /\ Through(memories[i]) \in memories[i].turns /\ Through(memories[i]) \in Turns
             /\ \A t \in memories[i].turns : t <= Through(memories[i])
  <2>1. memories[i].parent \in Nat /\ memories[i].turns \in SUBSET Turns /\ i \in Nat
    BY <1>1, <1>2 DEF MemoryRows
  <2> QED
    BY <2>1, <1>2, TurnExtremes DEF Through
<1> QED
  BY <1>1, <1>2, <1>3 DEF Ordered

\* The last turn of a ready memory is a turn.
LEMMA ReadyTyped ==
  ASSUME MemoriesInOrder, NEW i \in Ready
  PROVE  /\ i \in DOMAIN memories /\ i \in Int /\ i # 0
         /\ Through(memories[i]) \in Turns /\ Through(memories[i]) \in Int
<1>1. i \in DOMAIN memories
  BY DEF Ready
<1>2. i \in Int /\ i # 0 /\ Through(memories[i]) \in Turns
  BY <1>1, MemoryTyped
<1>3. Turns \subseteq Int
  BY ChatAssumption DEF Turns
<1> QED
  BY ONLY <1>1, <1>2, <1>3

\* The equation of Coverage, now and after a step.
LEMMA CoverageNow == MemoriesInOrder => Accumulates(Coverage, memories, Len(memories))
BY MemoryTyped, CoverageOfMemories

LEMMA CoverageNext == MemoriesInOrder' => Accumulates(Coverage', memories', Len(memories'))
<1>1. MemoriesInOrder' => Accumulates(Coverage, memories, Len(memories))'
  BY CoverageNow, PTL
<1> QED
  BY <1>1

\* What is there keeps its coverage while its parents and turns stay.
LEMMA CoverageKept ==
  ASSUME MemoriesInOrder, MemoriesInOrder', Len(memories') >= Len(memories),
         \A i \in DOMAIN memories : memories'[i].parent = memories[i].parent /\ memories'[i].turns = memories[i].turns
  PROVE  \A i \in 0..Len(memories) : Coverage'[i] = Coverage[i]
<1>1. Len(memories) \in Nat /\ DOMAIN memories = 1..Len(memories) /\ Ordered(memories, Len(memories))
  BY MemoryTyped
<1>2. Len(memories') \in Nat
  BY DEF MemoriesInOrder
<1>3. Accumulates(Coverage, memories, Len(memories)) /\ Accumulates(Coverage', memories', Len(memories'))
  BY CoverageNow, CoverageNext
<1>4. Accumulates(Coverage', memories', Len(memories))
  <2>1. \A i \in 1..Len(memories) : i \in 1..Len(memories')
    BY <1>1, <1>2
  <2> QED
    BY ONLY <1>3, <2>1, Zenon DEF Accumulates
<1>5. \A i \in 1..Len(memories) : memories'[i].parent = memories[i].parent /\ memories'[i].turns = memories[i].turns
  BY <1>1
<1> QED
  BY ONLY <1>1, <1>3, <1>4, <1>5, CoverageOfPrefix

\* A ready memory, its last turn and its parent.
LEMMA ReadyMemories ==
  ASSUME MemoriesInOrder, MemoryIsCurrent, NEW i \in Ready
  PROVE  /\ i \in DOMAIN memories /\ i \in 1..Len(memories)
         /\ Through(memories[i]) \in Complete
         /\ Coverage[i] = {t \in Complete : t <= Through(memories[i])}
         /\ Coverage[i] = memories[i].turns \cup Coverage[memories[i].parent]
         /\ memories[i].parent \in Ready \cup {0} /\ memories[i].parent < i
         /\ memories[i].parent # 0 => Through(memories[memories[i].parent]) <= Through(memories[i])
<1> DEFINE j == memories[i].parent
<1>1. i \in DOMAIN memories /\ i \in 1..Len(memories)
  BY MemoryTyped DEF Ready
<1>2. Coverage[i] = {t \in Complete : t <= Through(memories[i])} /\ j \in Ready \cup {0} /\ j < i
  BY <1>1 DEF MemoryIsCurrent, MemoriesInOrder
<1>3. Coverage[i] = memories[i].turns \cup Coverage[j]
  <2>1. Accumulates(Coverage, memories, Len(memories))
    BY CoverageNow
  <2> QED
    BY ONLY <1>1, <2>1, Zenon DEF Accumulates
<1>4. Through(memories[i]) \in Complete
  BY <1>1, <1>2, <1>3, MemoryTyped
<1>5. ASSUME j # 0 PROVE Through(memories[j]) <= Through(memories[i])
  <2>1. j \in Ready /\ j \in DOMAIN memories /\ j \in 1..Len(memories)
    BY <1>2, <1>5, MemoryTyped DEF Ready
  <2>2. Coverage[j] = {t \in Complete : t <= Through(memories[j])}
    BY <2>1 DEF MemoryIsCurrent
  <2>3. Coverage[j] = memories[j].turns \cup Coverage[memories[j].parent]
    <3>1. Accumulates(Coverage, memories, Len(memories))
      BY CoverageNow
    <3> QED
      BY ONLY <2>1, <3>1, Zenon DEF Accumulates
  <2>4. Through(memories[j]) \in Coverage[j]
    BY <2>1, <2>3, MemoryTyped
  <2> QED
    BY ONLY <2>4, <1>2, <1>3
<1> QED
  BY <1>1, <1>2, <1>3, <1>4, <1>5

\* latestReadyMemory is the newest of those it looks at.
LEMMA NewestOfReady ==
  ASSUME MemoriesInOrder, NEW ids \in SUBSET Ready
  PROVE  /\ NewestMemory(ids) \in ids \cup {0}
         /\ ids # {} => /\ NewestMemory(ids) \in ids
                        /\ \A j \in ids \ {NewestMemory(ids)} :
                             \/ Through(memories[NewestMemory(ids)]) > Through(memories[j])
                             \/ Through(memories[NewestMemory(ids)]) = Through(memories[j]) /\ NewestMemory(ids) > j
<1>1. CASE ids = {}
  BY <1>1 DEF NewestMemory
<1>2. CASE ids # {}
  <2> DEFINE S == {Through(memories[i]) : i \in ids}
  <2>1. /\ \A i \in ids : i \in 1..Len(memories) /\ Through(memories[i]) \in Turns
        /\ Len(memories) \in Nat
    BY MemoryTyped DEF Ready
  <2>2. Turns \subseteq 0..MaxTurns /\ MaxTurns \in Nat /\ Turns \subseteq Int
    BY ChatAssumption DEF Turns
  <2>3. S \in SUBSET (0..MaxTurns) /\ S # {}
    BY <1>2, <2>1, <2>2
  <2> HIDE DEF S
  <2>4. PICK m \in S : \A k \in S : k <= m
    BY <2>2, <2>3, Extremes
  <2> DEFINE J == {i \in ids : Through(memories[i]) = m}
  <2>5. J \in SUBSET (0..Len(memories)) /\ J # {}
    BY <2>1, <2>4 DEF S
  <2> HIDE DEF J
  <2>6. PICK i \in J : \A k \in J : k <= i
    BY <2>1, <2>5, Extremes
  <2>7. ASSUME NEW j \in ids \ {i}
        PROVE  \/ Through(memories[i]) > Through(memories[j])
               \/ Through(memories[i]) = Through(memories[j]) /\ i > j
    <3>1. i \in ids /\ Through(memories[i]) = m /\ Through(memories[j]) <= m
      BY <2>4, <2>6 DEF J, S
    <3>2. CASE Through(memories[j]) = m
      <4>1. j \in J /\ j <= i /\ j # i
        BY <2>6, <3>2 DEF J
      <4>2. j \in Int /\ i \in Int
        BY <2>1, <3>1
      <4>3. i > j
        BY ONLY <4>1, <4>2
      <4> QED
        BY ONLY <4>3, <3>1, <3>2
    <3>3. CASE Through(memories[j]) # m
      <4>1. Through(memories[j]) \in Int /\ Through(memories[i]) \in Int
        BY <2>1, <2>2, <3>1
      <4> QED
        BY ONLY <4>1, <3>1, <3>3
    <3> QED  BY <3>2, <3>3
  <2>8. \E n \in ids : \A j \in ids \ {n} :
          \/ Through(memories[n]) > Through(memories[j])
          \/ Through(memories[n]) = Through(memories[j]) /\ n > j
    BY <2>6, <2>7 DEF J
  <2> QED
    BY <1>2, <2>8, Zenon DEF NewestMemory
<1> QED
  BY <1>1, <1>2

\* Memories that stay ready stay current while what they cover is left alone.
LEMMA MemoriesMove ==
  ASSUME MemoriesInOrder, MemoryIsCurrent, MemoriesInOrder', Len(memories') = Len(memories),
         \A i \in DOMAIN memories : memories'[i].parent = memories[i].parent /\ memories'[i].turns = memories[i].turns,
         Ready' \subseteq Ready, \A i \in Ready' : memories[i].parent \in Ready' \cup {0},
         \A i \in Ready' : {t \in Complete' : t <= Through(memories[i])} = {t \in Complete : t <= Through(memories[i])}
  PROVE  MemoryIsCurrent'
<1>1. Len(memories) \in Nat /\ DOMAIN memories = 1..Len(memories)
  BY MemoryTyped
<1>2. \A i \in 0..Len(memories) : Coverage'[i] = Coverage[i]
  <2>1. Len(memories') >= Len(memories)
    BY <1>1
  <2> QED
    BY <2>1, CoverageKept
<1>3. ASSUME NEW i \in Ready'
      PROVE  /\ memories'[i].parent = memories[i].parent
             /\ Coverage'[i] = {t \in Complete' : t <= Through(memories'[i])}
  <2>1. i \in Ready /\ i \in DOMAIN memories /\ i \in 0..Len(memories)
    BY <1>1 DEF Ready
  <2>2. Coverage[i] = {t \in Complete : t <= Through(memories[i])}
    BY <2>1, ReadyMemories
  <2>3. Through(memories'[i]) = Through(memories[i])
    BY <2>1 DEF Through
  <2>4. Coverage'[i] = Coverage[i]
    BY <1>2, <2>1
  <2> QED
    BY <2>1, <2>2, <2>3, <2>4
<1>4. \A i, j \in Ready' : memories[i].parent = memories[j].parent => i = j
  BY DEF MemoryIsCurrent
<1>5. \A i \in Ready' : memories'[i].parent \in Ready' \cup {0}
  BY <1>3
<1>6. \A i, j \in Ready' : memories'[i].parent = memories'[j].parent => i = j
  BY ONLY <1>3, <1>4
<1> QED
  BY ONLY <1>3, <1>5, <1>6, Zenon DEF MemoryIsCurrent

\* Hidden turns take every memory with them that ends at or after the first.
LEMMA HidingKeeps ==
  ASSUME MemoriesInOrder, MemoryIsCurrent, NEW gone \in SUBSET Turns, gone # {},
         memories' = Invalidated(gone), Complete' = Complete \ gone
  PROVE  MemoriesInOrder' /\ MemoryIsCurrent'
<1>1. /\ Len(memories) \in Nat /\ DOMAIN memories = 1..Len(memories)
      /\ memories \in Seq(MemoryRows) /\ \A i \in DOMAIN memories : memories[i] \in MemoryRows
  BY MemoryTyped DEF MemoriesInOrder
<1>2. Min(gone) \in gone /\ \A t \in gone : Min(gone) <= t
  BY TurnExtremes
<1> DEFINE hit(i) == i \in Ready /\ Through(memories[i]) >= Min(gone)
<1>3. memories' = [i \in 1..Len(memories) |->
                     IF hit(i) THEN [memories[i] EXCEPT !.state = "invalidated"] ELSE memories[i]]
  BY <1>1, gone # {} DEF Invalidated
<1>4. ASSUME NEW i \in 1..Len(memories)
      PROVE  /\ memories'[i] \in MemoryRows
             /\ memories'[i].parent = memories[i].parent /\ memories'[i].turns = memories[i].turns
             /\ memories'[i].state = IF hit(i) THEN "invalidated" ELSE memories[i].state
  <2>1. memories'[i] = IF hit(i) THEN [memories[i] EXCEPT !.state = "invalidated"] ELSE memories[i]
    BY <1>3
  <2> HIDE DEF hit
  <2> QED
    BY <1>1, <2>1 DEF MemoryRows
<1>5. memories' \in Seq(MemoryRows) /\ Len(memories') = Len(memories) /\ DOMAIN memories' = DOMAIN memories
  <2>1. memories' \in [1..Len(memories) -> MemoryRows]
    <3>1. DOMAIN memories' = 1..Len(memories) /\ memories' = [i \in 1..Len(memories) |-> memories'[i]]
      BY <1>3
    <3> QED
      BY <1>4, <3>1
  <2> QED
    BY <1>1, <2>1
<1>6. MemoriesInOrder'
  BY <1>1, <1>4, <1>5 DEF MemoriesInOrder
<1>7. Ready' = {i \in Ready : ~hit(i)}
  <2>1. \A i \in DOMAIN memories : hit(i) => i \in Ready
    OBVIOUS
  <2> HIDE DEF hit
  <2> QED
    BY <1>1, <1>4, <1>5, <2>1 DEF Ready
<1>8. ASSUME NEW i \in Ready'
      PROVE  /\ memories[i].parent \in Ready' \cup {0}
             /\ {t \in Complete' : t <= Through(memories[i])} = {t \in Complete : t <= Through(memories[i])}
  <2>1. i \in Ready /\ Through(memories[i]) \in Int /\ Min(gone) \in Int /\ Through(memories[i]) < Min(gone)
    <3>1. i \in Ready /\ ~hit(i)
      BY ONLY <1>7, <1>8
    <3>2. i \in DOMAIN memories /\ Turns \subseteq Int
      BY ONLY <3>1, ChatAssumption DEF Turns, Ready
    <3>3. Through(memories[i]) \in Turns /\ Min(gone) \in Turns
      BY <3>2, <1>2, MemoryTyped
    <3>4. ~(Through(memories[i]) >= Min(gone))
      BY ONLY <3>1, Zenon
    <3>5. Through(memories[i]) \in Int /\ Min(gone) \in Int
      BY ONLY <3>2, <3>3
    <3> DEFINE x == Through(memories[i])
               y == Min(gone)
    <3>6. x < y
      <4>1. x \in Int /\ y \in Int /\ ~(x >= y)
        BY ONLY <3>4, <3>5, Zenon
      <4> HIDE DEF x, y
      <4> QED
        BY ONLY <4>1
    <3> QED
      BY ONLY <3>1, <3>5, <3>6, Zenon
  <2> DEFINE j == memories[i].parent
  <2>2. j \in Ready \cup {0} /\ (j # 0 => Through(memories[j]) <= Through(memories[i]))
    BY <2>1, ReadyMemories
  <2>3. j # 0 => Through(memories[j]) \in Int
    BY <2>2, MemoryTyped, ChatAssumption DEF Ready, Turns
  <2>4. j \in Ready' \cup {0}
    BY <1>7, <2>1, <2>2, <2>3
  <2>5. Complete \subseteq Int /\ gone \subseteq Int
    BY ChatAssumption DEF Complete, Turns
  <2>6. ASSUME NEW t \in Complete, t <= Through(memories[i]) PROVE t \notin gone
    BY <1>2, <2>1, <2>5, <2>6
  <2> QED
    BY <2>4, <2>6
<1>9. Ready' \subseteq Ready
  BY <1>7
<1> HIDE DEF hit
<1>10. MemoryIsCurrent'
  BY <1>1, <1>4, <1>5, <1>6, <1>8, <1>9, MemoriesMove
<1> QED
  BY <1>6, <1>10

\* A memory that is committed stands on the newest one, and covers what follows it.
LEMMA CommittedCovers ==
  ASSUME MemoriesInOrder, MemoryIsCurrent, NEW k \in Works, k.turns # {},
         NewestMemory(Ready) = k.parent, Follows(k, k.parent), SourceStands(k)
  PROVE  /\ k.parent \in Ready \cup {0} /\ k.parent \in 0..Len(memories)
         /\ k.turns \cup Coverage[k.parent] = {t \in Complete : t <= Max(k.turns)}
         /\ \A j \in Ready : memories[j].parent # k.parent
<1> DEFINE p == k.parent
           first == Min(k.turns)
           last == Max(k.turns)
           before == {t \in Complete : t < first}
<1>1. p \in Ready \cup {0} /\ (Ready # {} => p \in Ready)
  BY NewestOfReady
<1>2. /\ Complete \subseteq Turns /\ Turns \subseteq Int /\ k.turns \in SUBSET Turns
      /\ \A i \in Ready : i \in 1..Len(memories) /\ Len(memories) \in Nat
  BY ChatAssumption, MemoryTyped DEF Complete, Turns, Works, Ready
<1>3. p \in 0..Len(memories)
  BY <1>1, <1>2, MemoryTyped
<1>4. /\ first \in k.turns /\ last \in k.turns /\ first \in Int /\ last \in Int
      /\ \A t \in k.turns : first <= t /\ t <= last
  BY <1>2, TurnExtremes
<1>5. k.turns = {t \in Complete : first <= t /\ t <= last}
  BY DEF SourceStands
<1>6. Coverage[p] = before
  <2>1. CASE p = 0
    <3>1. Accumulates(Coverage, memories, Len(memories))
      BY CoverageNow
    <3>2. Coverage[0] = {}
      BY ONLY <3>1, Zenon DEF Accumulates
    <3>3. before = {}
      BY <2>1 DEF Follows
    <3> QED
      BY ONLY <2>1, <3>2, <3>3
  <2>2. CASE p # 0
    <3>1. p \in Ready
      BY <1>1, <2>2
    <3>2. before # {} /\ Max(before) = Through(memories[p])
      BY <2>2 DEF Follows
    <3>3. Max(before) \in before /\ \A t \in before : t <= Max(before)
      BY <1>2, <3>2, TurnExtremes
    <3>4. Coverage[p] = {t \in Complete : t <= Through(memories[p])}
      BY <3>1, ReadyMemories
    <3> HIDE DEF p, first
    <3>5. ASSUME NEW t \in Complete PROVE t < first <=> t <= Through(memories[p])
      <4>1. Max(before) < first /\ Max(before) \in Int /\ t \in Int /\ first \in Int
        BY <1>2, <1>4, <3>3
      <4>2. t < first => t <= Max(before)
        BY <3>3
      <4>3. t <= Max(before) => t < first
        BY ONLY <4>1
      <4> QED
        BY <4>2, <4>3, <3>2
    <3> QED
      BY ONLY <3>4, <3>5
  <2> QED
    BY ONLY <2>1, <2>2
<1>7. k.turns \cup before = {t \in Complete : t <= last}
  <2> HIDE DEF first, last
  <2>1. ASSUME NEW t \in Complete
        PROVE  (first <= t /\ t <= last) \/ t < first <=> t <= last
    <3>1. t \in Int /\ first <= last
      BY <1>2, <1>4
    <3> QED
      BY ONLY <1>4, <3>1
  <2> QED
    BY ONLY <1>5, <2>1
<1>8. ASSUME NEW j \in Ready, memories[j].parent = p PROVE FALSE
  <2>1. p \in Ready
    BY <1>1
  <2>2. p < j /\ Through(memories[p]) <= Through(memories[j])
    <3>1. memories[j].parent < j
          /\ (memories[j].parent # 0 => Through(memories[memories[j].parent]) <= Through(memories[j]))
      BY ReadyMemories
    <3>2. p # 0
      BY <1>2, <2>1
    <3> QED
      BY ONLY <1>8, <3>1, <3>2
  <2>3. \/ Through(memories[p]) > Through(memories[j])
        \/ Through(memories[p]) = Through(memories[j]) /\ p > j
    <3>1. j # p
      BY <2>2, <1>2
    <3> QED
      BY <3>1, <2>1, NewestOfReady
  <2>4. Through(memories[p]) \in Int /\ Through(memories[j]) \in Int /\ p \in Int /\ j \in Int
    BY ONLY <2>1, j \in Ready, MemoriesInOrder, ReadyTyped
  <2> HIDE DEF p
  <2> QED
    BY ONLY <2>2, <2>3, <2>4
<1> QED
  BY <1>1, <1>3, <1>6, <1>7, <1>8

\* CommitMemory keeps the chain.
LEMMA CommittedKeeps ==
  ASSUME MemoriesInOrder, MemoryIsCurrent, NEW k \in Works, k.turns # {},
         NewestMemory(Ready) = k.parent, Follows(k, k.parent), SourceStands(k),
         NEW status \in {"ready", "failed"}, Complete' = Complete,
         memories' = Append(memories, [parent |-> k.parent, turns |-> k.turns, state |-> status])
  PROVE  MemoriesInOrder' /\ MemoryIsCurrent'
<1> DEFINE n == Len(memories)
           row == [parent |-> k.parent, turns |-> k.turns, state |-> status]
<1>1. row \in MemoryRows /\ row.parent = k.parent /\ row.turns = k.turns /\ row.state = status
  BY DEF Works, MemoryRows
<1>2. /\ n \in Nat /\ DOMAIN memories = 1..n /\ memories \in Seq(MemoryRows)
      /\ \A i \in DOMAIN memories : memories[i].parent < i /\ memories[i].turns # {}
  BY MemoryTyped DEF MemoriesInOrder
<1> HIDE DEF row
<1>3. /\ memories' \in Seq(MemoryRows) /\ Len(memories') = n + 1 /\ DOMAIN memories' = 1..(n + 1)
      /\ memories'[n + 1] = row /\ \A i \in 1..n : memories'[i] = memories[i]
  BY <1>1, <1>2 DEF row
<1>4. /\ k.parent \in Ready \cup {0} /\ k.parent \in 0..n
      /\ k.turns \cup Coverage[k.parent] = {t \in Complete : t <= Max(k.turns)}
      /\ \A j \in Ready : memories[j].parent # k.parent
  BY CommittedCovers
<1>5. MemoriesInOrder'
  <2>1. ASSUME NEW i \in 1..(n + 1) PROVE memories'[i].parent < i /\ memories'[i].turns # {}
    <3>1. CASE i \in 1..n
      BY <1>2, <1>3, <3>1
    <3>2. CASE i = n + 1
      BY <1>1, <1>2, <1>3, <1>4, <3>2
    <3> QED
      BY <1>2, <3>1, <3>2
  <2> QED
    BY <1>3, <2>1 DEF MemoriesInOrder
<1>6. \A i \in 0..n : Coverage'[i] = Coverage[i]
  <2>1. Len(memories') >= Len(memories)
    BY <1>2, <1>3
  <2>2. \A i \in DOMAIN memories : memories'[i].parent = memories[i].parent /\ memories'[i].turns = memories[i].turns
    BY <1>2, <1>3
  <2> QED
    BY <1>5, <2>1, <2>2, CoverageKept
<1>7. Coverage'[n + 1] = k.turns \cup Coverage[k.parent]
  <2>1. Accumulates(Coverage', memories', n + 1)
    BY <1>3, <1>5, CoverageNext
  <2>2. n + 1 \in 1..(n + 1)
    BY <1>2
  <2>3. Coverage'[n + 1] = memories'[n + 1].turns \cup Coverage'[memories'[n + 1].parent]
    BY ONLY <2>1, <2>2, Zenon DEF Accumulates
  <2> QED
    BY <2>3, <1>1, <1>3, <1>4, <1>6
<1>8. /\ Ready' = {i \in 1..n : memories[i].state = "ready"} \cup (IF status = "ready" THEN {n + 1} ELSE {})
      /\ Ready = {i \in 1..n : memories[i].state = "ready"}
  <2>1. \A i \in 1..(n + 1) : i \in 1..n \/ i = n + 1
    BY <1>2
  <2>2. \A i \in 1..n : i \in 1..(n + 1)
    BY <1>2
  <2>3. n + 1 \in 1..(n + 1)
    BY <1>2
  <2> QED
    BY <1>1, <1>2, <1>3, <2>1, <2>2, <2>3 DEF Ready
<1>9. ASSUME NEW i \in Ready'
      PROVE  /\ memories'[i].parent \in Ready' \cup {0}
             /\ Coverage'[i] = {t \in Complete' : t <= Through(memories'[i])}
  <2>1. CASE i \in Ready
    <3>1. memories'[i] = memories[i] /\ Coverage'[i] = Coverage[i]
      BY <1>2, <1>3, <1>6, <1>8, <2>1
    <3>2. Coverage[i] = {t \in Complete : t <= Through(memories[i])} /\ memories[i].parent \in Ready \cup {0}
      BY <2>1, ReadyMemories
    <3> QED
      BY <1>8, <3>1, <3>2
  <2>2. CASE i = n + 1
    <3>1. Through(memories'[i]) = Max(k.turns)
      BY <1>1, <1>3, <2>2 DEF Through
    <3> QED
      BY <1>1, <1>3, <1>4, <1>7, <1>8, <2>2, <3>1
  <2> QED
    BY <1>8, <2>1, <2>2
<1>10. ASSUME NEW i \in Ready', NEW j \in Ready', memories'[i].parent = memories'[j].parent PROVE i = j
  <2>1. ASSUME NEW x \in Ready PROVE memories'[x].parent = memories[x].parent /\ memories'[x].parent # k.parent
    BY <1>3, <1>4, <1>8
  <2>2. memories'[n + 1].parent = k.parent
    BY <1>1, <1>3
  <2>3. \A x \in Ready' : x \in Ready \/ x = n + 1
    BY <1>8
  <2>4. CASE i \in Ready /\ j \in Ready
    BY <1>10, <2>1, <2>4 DEF MemoryIsCurrent
  <2> QED
    BY <1>10, <2>1, <2>2, <2>3, <2>4
<1> QED
  BY ONLY <1>5, <1>9, <1>10, Zenon DEF MemoryIsCurrent


-----------------------------------------------------------------------------
(***************************************************************************)
(* The initial states.                                                     *)
(***************************************************************************)
LEMMA ChatInvHoldsAtInit == ChatInit => ChatInv
<1> SUFFICES ASSUME ChatInit PROVE ChatInv
  OBVIOUS
<1>1. MaxTurns \in Nat /\ chatScene.start \in Nat /\ Turns = 1..MaxTurns /\ chatScene \in ChatScenes
  BY ChatAssumption DEF ChatInit, Turns
<1>2. ASSUME NEW t \in Turns
      PROVE  /\ turn[t] \in TurnRows /\ turn[t].state # "active"
             /\ turn[t].state # "none" <=> t <= chatScene.start
  <2>1. t \in 0..MaxTurns /\ 0 \in 0..MaxTurns
    BY <1>1
  <2>2. turn[t] = IF t <= chatScene.start
                  THEN [state |-> "complete", user |-> TRUE, answer |-> TRUE, seen |-> t]
                  ELSE [state |-> "none", user |-> FALSE, answer |-> FALSE, seen |-> 0]
    BY DEF ChatInit, NoTurn
  <2> QED
    BY <2>1, <2>2 DEF TurnRows
<1>3. turn = [t \in Turns |-> turn[t]] /\ plan = [t \in Turns |-> NoPlan] /\ NoPlan \in Plans /\ NoPlan.at = "none"
  BY DEF ChatInit, NoPlan, Plans
<1>4. TalkTypeOK
  BY <1>1, <1>2, <1>3 DEF TalkTypeOK, ChatInit
<1>5. MemoriesInOrder /\ Ready = {}
  <2>1. memories = <<>> /\ DOMAIN memories = {}
    BY DEF ChatInit
  <2> QED
    BY <2>1 DEF MemoriesInOrder, Ready
<1>6. BuildsHaveTurns
  <2>1. DOMAIN buildTask = {} /\ builder = [w \in Builders |-> NoBuild]
    BY DEF ChatInit
  <2>2. NoBuild \in Builds /\ NoBuild.at = "rest"
    BY DEF NoBuild, Builds, Works
  <2> QED
    BY <2>1, <2>2 DEF BuildsHaveTurns
<1>7. SentTurns = {t \in 1..MaxTurns : t <= chatScene.start} /\ Active = {}
  BY <1>1, <1>2 DEF SentTurns, Active
<1>8. TurnsInOrder
  <2>1. CASE chatScene.start <= MaxTurns
    <3>1. chatScene.start \in 0..MaxTurns /\ SentTurns = 1..chatScene.start
      BY <1>1, <1>7, <2>1
    <3> QED
      BY <3>1 DEF TurnsInOrder
  <2>2. CASE MaxTurns < chatScene.start
    <3>1. MaxTurns \in 0..MaxTurns /\ SentTurns = 1..MaxTurns
      BY <1>1, <1>7, <2>2
    <3> QED
      BY <3>1 DEF TurnsInOrder
  <2> QED
    BY <1>1, <2>1, <2>2
<1>9. OneAtATime
  BY <1>7 DEF OneAtATime
<1>10. PlansHaveReplies /\ PlansAreSound
  BY <1>3 DEF PlansHaveReplies, PlansAreSound, Sound
<1>11. MemoryIsCurrent
  BY <1>5 DEF MemoryIsCurrent
<1> QED
  BY <1>4, <1>5, <1>6, <1>8, <1>9, <1>10, <1>11 DEF ChatInv

-----------------------------------------------------------------------------
(***************************************************************************)
(* Turns.                                                                  *)
(***************************************************************************)
\* A question is one turn more, the only one without an answer.
LEMMA AskedTurn ==
  ASSUME TurnsInOrder, NextTurn \in Turns, NEW f \in [Turns -> TurnRows],
         \A t \in Turns : f[t].state = turn[t].state /\ f[t].state # "active",
         turn' = [f EXCEPT ![NextTurn] = [state |-> "active", user |-> TRUE, answer |-> FALSE, seen |-> 0]]
  PROVE  /\ turn' \in [Turns -> TurnRows] /\ TurnsInOrder' /\ OneAtATime'
         /\ Complete' = {t \in Turns : f[t].state = "complete" /\ f[t].user /\ f[t].answer}
<1>1. MaxTurns \in Nat /\ Turns = 1..MaxTurns
  BY ChatAssumption DEF Turns
<1>2. PICK n \in 0..MaxTurns : SentTurns = 1..n
  BY DEF TurnsInOrder
<1>3. NextTurn = n + 1 /\ n \in Nat
  <2>1. Cardinality(1..n) = n
    BY <1>2, FS_Interval
  <2> QED
    BY <1>1, <1>2, <2>1 DEF NextTurn
<1>4. n + 1 \in Turns /\ n + 1 \notin SentTurns /\ n + 1 \in 0..MaxTurns
  BY <1>1, <1>2, <1>3
<1> DEFINE row == [state |-> "active", user |-> TRUE, answer |-> FALSE, seen |-> 0]
<1>5. row \in TurnRows /\ row.state = "active"
  BY <1>1 DEF TurnRows
<1>6. turn' = [f EXCEPT ![n + 1] = row]
  BY <1>3
<1> HIDE DEF row
<1>7. /\ turn' \in [Turns -> TurnRows] /\ turn'[n + 1] = row
      /\ \A t \in Turns : t # n + 1 => turn'[t] = f[t]
  BY <1>4, <1>5, <1>6
<1>8. f[n + 1].state = "none"
  BY <1>4 DEF SentTurns
<1>9. SentTurns' = 1..(n + 1)
  <2>1. SentTurns' = SentTurns \cup {n + 1}
    BY <1>4, <1>5, <1>7 DEF SentTurns
  <2> QED
    BY <1>2, <1>3, <2>1
<1>10. Active' = {n + 1}
  BY <1>4, <1>5, <1>7 DEF Active
<1>11. TurnsInOrder'
  BY <1>4, <1>9 DEF TurnsInOrder
<1>12. OneAtATime'
  BY <1>3, <1>9, <1>10 DEF OneAtATime
<1>13. Complete' = {t \in Turns : f[t].state = "complete" /\ f[t].user /\ f[t].answer}
  BY <1>4, <1>5, <1>7, <1>8 DEF Complete
<1> QED
  BY <1>7, <1>11, <1>12, <1>13

\* While no reply is under way there is no plan.
LEMMA NoReplyNoPlan ==
  ASSUME PlansHaveReplies, Active = {}, plan' = plan
  PROVE  PlansHaveReplies' /\ PlansAreSound'
<1>1. \A t \in Turns : plan'[t].at = "none"
  BY DEF PlansHaveReplies
<1> QED
  BY <1>1 DEF PlansHaveReplies, PlansAreSound, Sound

\* A plan stays sound while its turns stay complete and its memory ready.
LEMMA PlanKeeps ==
  ASSUME MemoriesInOrder, NEW t \in Turns, NEW p \in Plans, Sound(t, p),
         Complete' = Complete, Ready \subseteq Ready',
         \A i \in Ready : memories'[i].turns = memories[i].turns
  PROVE  Sound(t, p)'
<1>1. p.at \notin {"none", "memory"} => p.memory \in Ready \cup {0} /\ p.memory \in Ready' \cup {0}
  BY DEF Sound
<1>2. p.at \notin {"none", "memory"} => Boundary(p)' = Boundary(p)
  BY <1>1 DEF Boundary, Through
<1> QED
  BY <1>1, <1>2 DEF Sound, Tokens

\* Steps that leave the turns, the memories and the plans alone.
LEMMA AsideStep ==
  ASSUME ChatInv, UNCHANGED <<turn, memories, plan, chatScene>>, bound' \in BOOLEAN, BuildsHaveTurns'
  PROVE  ChatInv'
<1> USE DEF ChatInv
<1>1. Complete' = Complete /\ Ready' = Ready /\ SentTurns' = SentTurns /\ Active' = Active
  BY DEF Complete, Ready, SentTurns, Active
<1>2. TalkTypeOK'
  BY DEF TalkTypeOK
<1>3. MemoriesInOrder'
  BY DEF MemoriesInOrder
<1>4. TurnsInOrder' /\ OneAtATime'
  BY <1>1 DEF TurnsInOrder, OneAtATime
<1>5. PlansHaveReplies'
  BY <1>1 DEF PlansHaveReplies
<1>6. MemoryIsCurrent'
  <2>1. \A i \in Ready : memories[i].parent \in Ready \cup {0}
    BY DEF MemoryIsCurrent
  <2> QED
    BY <1>1, <1>3, <2>1, MemoriesMove
<1>7. PlansAreSound'
  <2>1. ASSUME NEW t \in Turns PROVE Sound(t, plan[t])'
    <3>1. plan[t] \in Plans /\ Sound(t, plan[t])
      BY DEF TalkTypeOK, PlansAreSound
    <3> DEFINE p == plan[t]
    <3>2. p' = p
      OBVIOUS
    <3> QED
      BY <1>1, <3>1, <3>2 DEF Sound, Boundary, Through, Tokens
  <2> QED
    BY <2>1 DEF PlansAreSound
<1> QED
  BY <1>2, <1>3, <1>4, <1>5, <1>6, <1>7

\* The plan of one reply moves on.
LEMMA PlanMoves ==
  ASSUME ChatInv, NEW t \in Turns, NEW p \in Plans, SetPlan(t, p),
         p.at # "none" => t \in Active, Sound(t, p),
         UNCHANGED <<turn, bound, memories, buildTask, builder, chatScene>>
  PROVE  ChatInv'
<1> USE DEF ChatInv
<1>1. Complete' = Complete /\ Ready' = Ready /\ SentTurns' = SentTurns /\ Active' = Active
  BY DEF Complete, Ready, SentTurns, Active
<1>2. plan' = [plan EXCEPT ![t] = p] /\ plan \in [Turns -> Plans]
  BY DEF SetPlan, TalkTypeOK
<1>3. /\ plan' \in [Turns -> Plans] /\ plan'[t] = p
      /\ \A u \in Turns : u # t => plan'[u] = plan[u]
  BY <1>2
<1>4. TalkTypeOK'
  BY <1>3 DEF TalkTypeOK
<1>5. MemoriesInOrder' /\ BuildsHaveTurns'
  BY DEF MemoriesInOrder, BuildsHaveTurns
<1>6. TurnsInOrder' /\ OneAtATime'
  BY <1>1 DEF TurnsInOrder, OneAtATime
<1>7. PlansHaveReplies'
  BY <1>1, <1>3 DEF PlansHaveReplies
<1>8. MemoryIsCurrent'
  <2>1. \A i \in Ready : memories[i].parent \in Ready \cup {0}
    BY DEF MemoryIsCurrent
  <2> QED
    BY <1>1, <1>5, <2>1, MemoriesMove
<1>9. PlansAreSound'
  <2>1. ASSUME NEW u \in Turns PROVE \E q \in Plans : plan'[u] = q /\ Sound(u, q)
    <3>1. CASE u = t
      BY <1>3, <3>1
    <3>2. CASE u # t
      BY <1>2, <1>3, <3>2 DEF PlansAreSound
    <3> QED  BY <3>1, <3>2
  <2>2. ASSUME NEW u \in Turns, NEW q \in Plans, Sound(u, q), plan'[u] = q PROVE Sound(u, plan[u])'
    <3>1. Sound(u, q)'
      BY <1>1, <2>2, PlanKeeps
    <3> QED
      BY <2>2, <3>1
  <2> QED
    BY <2>1, <2>2 DEF PlansAreSound
<1> QED
  BY <1>4, <1>5, <1>6, <1>7, <1>8, <1>9


-----------------------------------------------------------------------------
(***************************************************************************)
(* Users.                                                                  *)
(***************************************************************************)
LEMMA SendKeeps ==
  ASSUME CalmTalk, ChatInv, Send
  PROVE  ChatInv'
<1> USE DEF ChatInv
<1>1. /\ NextTurn \in Turns /\ turn' = Asked(NextTurn)
      /\ UNCHANGED <<bound, memories, buildTask, builder, plan, chatScene>>
  BY DEF Send
<1>2. Active = {}
  BY DEF Send, CalmTalk, TalkTypeOK
<1>3. turn \in [Turns -> TurnRows] /\ \A t \in Turns : turn[t].state # "active"
  BY <1>2 DEF TalkTypeOK, Active
<1>4. turn' = [turn EXCEPT ![NextTurn] = [state |-> "active", user |-> TRUE, answer |-> FALSE, seen |-> 0]]
  BY <1>1 DEF Asked
<1>5. /\ turn' \in [Turns -> TurnRows] /\ TurnsInOrder' /\ OneAtATime'
      /\ Complete' = Complete
  <2> HIDE DEF ChatInv
  <2>1. TurnsInOrder
    BY DEF ChatInv
  <2>2. Complete = {t \in Turns : turn[t].state = "complete" /\ turn[t].user /\ turn[t].answer}
    BY DEF Complete
  <2> QED
    BY <1>1, <1>3, <1>4, <2>1, <2>2, AskedTurn
<1>6. TalkTypeOK' /\ MemoriesInOrder' /\ BuildsHaveTurns' /\ Ready' = Ready
  BY <1>1, <1>5 DEF TalkTypeOK, MemoriesInOrder, BuildsHaveTurns, Ready
<1>7. MemoryIsCurrent'
  <2>1. \A i \in Ready : memories[i].parent \in Ready \cup {0}
    BY DEF MemoryIsCurrent
  <2> QED
    BY <1>1, <1>5, <1>6, <2>1, MemoriesMove
<1>8. PlansHaveReplies' /\ PlansAreSound'
  BY <1>1, <1>2, NoReplyNoPlan
<1> QED
  BY <1>5, <1>6, <1>7, <1>8

\* Messages are hidden while no reply is under way, and what is derived from
\* them goes with them.
LEMMA HiddenTurns ==
  ASSUME TalkTypeOK, Active = {}, NEW users \in SUBSET Turns, NEW answers \in SUBSET Turns
  PROVE  /\ Hidden(users, answers) \in [Turns -> TurnRows]
         /\ \A t \in Turns : /\ Hidden(users, answers)[t].state = turn[t].state
                             /\ Hidden(users, answers)[t].state # "active"
         /\ {t \in Turns : /\ Hidden(users, answers)[t].state = "complete"
                           /\ Hidden(users, answers)[t].user /\ Hidden(users, answers)[t].answer}
              = Complete \ (users \cup answers)
<1> DEFINE f == Hidden(users, answers)
<1>1. ASSUME NEW t \in Turns
      PROVE  /\ f[t] \in TurnRows /\ f[t].state = turn[t].state /\ f[t].state # "active"
             /\ f[t].user <=> turn[t].user /\ t \notin users
             /\ f[t].answer <=> turn[t].answer /\ t \notin answers
  <2>1. f[t] = [turn[t] EXCEPT !.user = @ /\ t \notin users, !.answer = @ /\ t \notin answers]
    BY DEF Hidden
  <2>2. turn[t] \in TurnRows /\ turn[t].state # "active"
    BY DEF TalkTypeOK, Active
  <2>3. f[t] = [state |-> turn[t].state, user |-> turn[t].user /\ t \notin users,
                answer |-> turn[t].answer /\ t \notin answers, seen |-> turn[t].seen]
    BY <2>1, <2>2 DEF TurnRows
  <2> HIDE DEF f
  <2>4. (turn[t].user /\ t \notin users) \in BOOLEAN /\ (turn[t].answer /\ t \notin answers) \in BOOLEAN
    OBVIOUS
  <2>5. f[t] \in TurnRows
    BY <2>2, <2>3, <2>4 DEF TurnRows
  <2>6. /\ f[t].state = turn[t].state /\ f[t].user = (turn[t].user /\ t \notin users)
        /\ f[t].answer = (turn[t].answer /\ t \notin answers)
    <3> DEFINE visible == turn[t].user /\ t \notin users
               answered == turn[t].answer /\ t \notin answers
    <3>1. f[t] = [state |-> turn[t].state, user |-> visible, answer |-> answered, seen |-> turn[t].seen]
      BY <2>3, Zenon
    <3> HIDE DEF visible, answered
    <3>2. f[t].state = turn[t].state /\ f[t].user = visible /\ f[t].answer = answered
      BY ONLY <3>1
    <3> QED
      BY ONLY <3>2, Zenon DEF visible, answered
  <2> QED
    BY ONLY <2>2, <2>5, <2>6, Zenon
<1>2. f = [t \in Turns |-> f[t]]
  BY DEF Hidden
<1> HIDE DEF f
<1>3. f \in [Turns -> TurnRows]
  BY <1>1, <1>2
<1>4. {t \in Turns : f[t].state = "complete" /\ f[t].user /\ f[t].answer} = Complete \ (users \cup answers)
  BY <1>1 DEF Complete
<1> QED
  BY <1>1, <1>3, <1>4 DEF f

\* invalidateInTransaction keeps the chain.
LEMMA InvalidateKeeps ==
  ASSUME ChatInv, bound, NEW users \in SUBSET Turns, NEW answers \in SUBSET Turns,
         users \cup answers # {}, Invalidate(users, answers),
         Complete' = Complete \ (users \cup answers)
  PROVE  MemoriesInOrder' /\ MemoryIsCurrent'
<1>1. memories' = Invalidated(users \cup answers)
  BY DEF Invalidate
<1> QED
  BY <1>1, HidingKeeps DEF ChatInv

LEMMA EditKeeps ==
  ASSUME CalmTalk, ChatInv, NEW t \in Turns, Edit(t)
  PROVE  ChatInv'
<1> DEFINE users == {u \in Turns : turn[u].user /\ u >= t}
           answers == {u \in Turns : turn[u].answer /\ turn[u].seen >= t}
           f == Hidden(users, answers)
<1>1. /\ Active = {} /\ NextTurn \in Turns /\ Invalidate(users, answers) /\ turn[t].user
      /\ turn' = [f EXCEPT ![NextTurn] = [state |-> "active", user |-> TRUE, answer |-> FALSE, seen |-> 0]]
      /\ UNCHANGED <<bound, buildTask, builder, plan, chatScene>>
  BY DEF Edit, Quiet
<1>2. bound
  BY DEF Edit, CalmTalk, ChatInv, TalkTypeOK
<1>3. users \in SUBSET Turns /\ answers \in SUBSET Turns
  OBVIOUS
<1>4. users \cup answers # {}
  <2>1. t >= t
    BY ChatAssumption DEF Turns
  <2> QED
    BY <1>1, <2>1
<1> HIDE DEF users, answers
<1>5. /\ f \in [Turns -> TurnRows]
      /\ \A u \in Turns : f[u].state = turn[u].state /\ f[u].state # "active"
      /\ {u \in Turns : f[u].state = "complete" /\ f[u].user /\ f[u].answer} = Complete \ (users \cup answers)
  BY <1>1, <1>3, HiddenTurns DEF ChatInv
<1> HIDE DEF f
<1>6. /\ turn' \in [Turns -> TurnRows] /\ TurnsInOrder' /\ OneAtATime'
      /\ Complete' = Complete \ (users \cup answers)
  BY <1>1, <1>5, AskedTurn DEF ChatInv
<1>7. MemoriesInOrder' /\ MemoryIsCurrent'
  BY <1>1, <1>2, <1>3, <1>4, <1>6, InvalidateKeeps
<1>8. TalkTypeOK' /\ BuildsHaveTurns'
  BY <1>1, <1>6 DEF ChatInv, TalkTypeOK, BuildsHaveTurns
<1>9. PlansHaveReplies' /\ PlansAreSound'
  BY <1>1, NoReplyNoPlan DEF ChatInv
<1> QED
  BY <1>6, <1>7, <1>8, <1>9 DEF ChatInv

LEMMA DeleteKeeps ==
  ASSUME CalmTalk, ChatInv, NEW users \in SUBSET Turns, NEW answers \in SUBSET Turns,
         DeleteMessages(users, answers)
  PROVE  ChatInv'
<1> DEFINE f == Hidden(users, answers)
<1>1. /\ Active = {} /\ Invalidate(users, answers) /\ users \cup answers # {} /\ turn' = f
      /\ UNCHANGED <<bound, buildTask, builder, plan, chatScene>>
  BY DEF DeleteMessages, Quiet
<1>2. bound
  BY DEF DeleteMessages, CalmTalk, ChatInv, TalkTypeOK
<1>3. /\ f \in [Turns -> TurnRows]
      /\ \A u \in Turns : f[u].state = turn[u].state /\ f[u].state # "active"
      /\ {u \in Turns : f[u].state = "complete" /\ f[u].user /\ f[u].answer} = Complete \ (users \cup answers)
  BY <1>1, HiddenTurns DEF ChatInv
<1> HIDE DEF f
<1>4. SentTurns' = SentTurns /\ Active' = {} /\ Complete' = Complete \ (users \cup answers)
  BY <1>1, <1>3 DEF SentTurns, Active, Complete
<1>5. MemoriesInOrder' /\ MemoryIsCurrent'
  BY <1>1, <1>2, <1>4, InvalidateKeeps
<1>6. TalkTypeOK' /\ BuildsHaveTurns'
  BY <1>1, <1>3 DEF ChatInv, TalkTypeOK, BuildsHaveTurns
<1>7. TurnsInOrder' /\ OneAtATime'
  BY <1>4 DEF ChatInv, TurnsInOrder, OneAtATime
<1>8. PlansHaveReplies' /\ PlansAreSound'
  BY <1>1, NoReplyNoPlan DEF ChatInv
<1> QED
  BY <1>5, <1>6, <1>7, <1>8 DEF ChatInv


-----------------------------------------------------------------------------
(***************************************************************************)
(* Builds of memories.                                                     *)
(***************************************************************************)
\* What is left over the target has turns to take.
LEMMA PrefixHasTurns ==
  ASSUME NEW left \in SUBSET Turns, Overfull(left)
  PROVE  Prefix(left) \in SUBSET Turns /\ Prefix(left) # {}
<1> DEFINE first == Min(left)
           rest == {u \in left : u >= first}
<1>1. MemoryBudget \in Nat /\ Tokens(left) > MemoryBudget \div 4
  BY ChatAssumption DEF Overfull
<1>2. Tokens(left) \in Nat
  BY TokensGrow
<1>3. left # {}
  BY <1>1, <1>2, NoTokens
<1>4. first \in left /\ \A k \in left : first <= k
  BY <1>3, TurnExtremes
<1>5. rest = left
  <2>1. Turns \subseteq Int
    BY ChatAssumption DEF Turns
  <2> HIDE DEF first
  <2> QED
    BY <1>4, <2>1
<1> HIDE DEF first, rest
<1>6. Tokens(rest) > MemoryBudget \div 8
  <2> DEFINE x == Tokens(left)
  <2>1. x > MemoryBudget \div 4 /\ x \in Nat
    BY <1>1, <1>2
  <2> HIDE DEF x
  <2>2. x > MemoryBudget \div 8
    BY ONLY <1>1, <2>1
  <2> QED
    BY <1>5, <2>2 DEF x
<1>7. first \in Prefix(left)
  BY <1>4, <1>6 DEF Prefix, rest
<1> QED
  BY <1>7 DEF Prefix

LEMMA OrderKeeps ==
  ASSUME ChatInv, OrderMemory
  PROVE  ChatInv'
<1> DEFINE parent == NewestMemory(Ready)
           left == Uncovered(parent)
           work == [parent |-> parent, turns |-> Prefix(left)]
<1>1. /\ Overfull(left) /\ UNCHANGED <<turn, bound, memories, builder, plan, chatScene>>
      /\ DOMAIN buildTask' = DOMAIN buildTask \cup {work}
  BY DEF OrderMemory
<1>2. left \in SUBSET Turns
  BY DEF Uncovered, Complete
<1>3. Prefix(left) \in SUBSET Turns /\ Prefix(left) # {}
  <2> HIDE DEF left
  <2> QED
    BY <1>1, <1>2, PrefixHasTurns
<1>4. parent \in Nat
  BY NewestOfReady, ReadyTyped, MemoryTyped DEF ChatInv
<1>5. work \in Works /\ work.turns # {}
  <2> HIDE DEF left, parent
  <2> QED
    BY <1>3, <1>4 DEF Works
<1> HIDE DEF work
<1>6. BuildsHaveTurns'
  BY <1>1, <1>5 DEF ChatInv, BuildsHaveTurns
<1>7. bound' \in BOOLEAN
  BY <1>1 DEF ChatInv, TalkTypeOK
<1> QED
  BY <1>1, <1>6, <1>7, AsideStep

\* A build keeps the turns of its order.
LEMMA BuilderMoves ==
  ASSUME BuildsHaveTurns, DOMAIN buildTask' \subseteq DOMAIN buildTask,
         NEW w \in Builders, NEW b \in Builds, b.at # "rest" => b.work.turns # {},
         builder' = [builder EXCEPT ![w] = b]
  PROVE  BuildsHaveTurns'
<1>1. /\ builder' \in [Builders -> Builds] /\ builder'[w] = b
      /\ \A v \in Builders : v # w => builder'[v] = builder[v]
  BY DEF BuildsHaveTurns
<1>2. \A v \in Builders : builder'[v].at # "rest" => builder'[v].work.turns # {}
  BY <1>1 DEF BuildsHaveTurns
<1> QED
  BY <1>1, <1>2 DEF BuildsHaveTurns

LEMMA FailsKeeps ==
  ASSUME BuildsHaveTurns, NEW w \in Builders, NEW k \in Works, k.turns # {}, Fails(w, k)
  PROVE  BuildsHaveTurns'
<1>1. DOMAIN buildTask' = DOMAIN buildTask
  BY DEF Fails, SetBuild
<1>2. /\ NoBuild \in Builds /\ NoBuild.at = "rest"
      /\ [at |-> "commit", work |-> k, result |-> "exhausted"] \in Builds
  BY DEF NoBuild, Builds, Works
<1>3. CASE SetBuilder(w, NoBuild)
  BY <1>1, <1>2, <1>3, BuilderMoves DEF SetBuilder
<1>4. CASE SetBuilder(w, [at |-> "commit", work |-> k, result |-> "exhausted"])
  BY <1>1, <1>2, <1>4, BuilderMoves DEF SetBuilder
<1> QED
  BY <1>3, <1>4 DEF Fails

LEMMA StartKeeps ==
  ASSUME ChatInv, NEW w \in Builders, NEW k \in DOMAIN buildTask, StartBuild(w, k)
  PROVE  ChatInv'
<1>1. BuildsHaveTurns /\ k \in Works /\ k.turns # {}
  BY DEF ChatInv, BuildsHaveTurns
<1>2. UNCHANGED <<turn, bound, memories, plan, chatScene>>
  BY DEF StartBuild
<1>3. \/ Drop(k) /\ UNCHANGED builder
      \/ Fails(w, k)
      \/ /\ SetBuild(k, "running", buildTask[k].retried)
         /\ SetBuilder(w, [at |-> "summarize", work |-> k, result |-> "none"])
  BY DEF StartBuild
<1>4. BuildsHaveTurns'
  <2>1. CASE Drop(k) /\ UNCHANGED builder
    BY <1>1, <2>1 DEF Drop, BuildsHaveTurns
  <2>2. CASE Fails(w, k)
    BY <1>1, <2>2, FailsKeeps
  <2>3. CASE /\ SetBuild(k, "running", buildTask[k].retried)
             /\ SetBuilder(w, [at |-> "summarize", work |-> k, result |-> "none"])
    <3>1. DOMAIN buildTask' = DOMAIN buildTask
      BY <2>3 DEF SetBuild
    <3>2. [at |-> "summarize", work |-> k, result |-> "none"] \in Builds
      BY <1>1 DEF Builds
    <3> QED
      BY <1>1, <2>3, <3>1, <3>2, BuilderMoves DEF SetBuilder
  <2> QED  BY <1>3, <2>1, <2>2, <2>3
<1>5. bound' \in BOOLEAN
  BY <1>2 DEF ChatInv, TalkTypeOK
<1> QED
  BY <1>2, <1>4, <1>5, AsideStep

LEMMA SummarizeKeeps ==
  ASSUME ChatInv, NEW w \in Builders, Summarize(w)
  PROVE  ChatInv'
<1> DEFINE b == builder[w]
<1>1. b \in Builds /\ b.at = "summarize" /\ b.work \in Works /\ b.work.turns # {} /\ BuildsHaveTurns
  BY DEF ChatInv, BuildsHaveTurns, Builds, Summarize
<1>2. UNCHANGED <<turn, bound, memories, plan, chatScene>>
  BY DEF Summarize
<1>3. \/ \E result \in {"ready", "failed"} :
           SetBuilder(w, [b EXCEPT !.at = "commit", !.result = result]) /\ UNCHANGED buildTask
      \/ Fails(w, b.work)
  BY DEF Summarize
<1> HIDE DEF b
<1>4. BuildsHaveTurns'
  <2>1. ASSUME NEW result \in {"ready", "failed"},
               SetBuilder(w, [b EXCEPT !.at = "commit", !.result = result]), UNCHANGED buildTask
        PROVE  BuildsHaveTurns'
    <3> DEFINE c == [b EXCEPT !.at = "commit", !.result = result]
    <3>1. c \in Builds /\ c.work = b.work
      BY <1>1 DEF Builds
    <3>2. builder' = [builder EXCEPT ![w] = c]
      BY <2>1 DEF SetBuilder
    <3> HIDE DEF c
    <3> QED
      BY <1>1, <2>1, <3>1, <3>2, BuilderMoves
  <2>2. CASE Fails(w, b.work)
    BY <1>1, <2>2, FailsKeeps
  <2> QED  BY <1>3, <2>1, <2>2
<1>5. bound' \in BOOLEAN
  BY <1>2 DEF ChatInv, TalkTypeOK
<1> QED
  BY <1>2, <1>4, <1>5, AsideStep

LEMMA DiesKeeps ==
  ASSUME ChatInv, NEW w \in Builders, BuilderDies(w)
  PROVE  ChatInv'
<1>1. /\ UNCHANGED <<turn, bound, memories, plan, chatScene>> /\ builder' = [builder EXCEPT ![w] = NoBuild]
      /\ DOMAIN buildTask' = DOMAIN buildTask
  BY DEF BuilderDies, SetBuild, SetBuilder
<1>2. NoBuild \in Builds /\ NoBuild.at = "rest"
  BY DEF NoBuild, Builds, Works
<1>3. BuildsHaveTurns'
  BY <1>1, <1>2, BuilderMoves DEF ChatInv
<1>4. bound' \in BOOLEAN
  BY <1>1 DEF ChatInv, TalkTypeOK
<1> QED
  BY <1>1, <1>3, <1>4, AsideStep

LEMMA CommitKeeps ==
  ASSUME ChatInv, NEW w \in Builders, CommitMemory(w)
  PROVE  ChatInv'
<1> DEFINE b == builder[w]
           k == b.work
           stands == NewestMemory(Ready) = k.parent /\ Follows(k, k.parent) /\ SourceStands(k)
           status == IF b.result = "ready" THEN "ready" ELSE "failed"
           row == [parent |-> k.parent, turns |-> k.turns, state |-> status]
<1>1. b \in Builds /\ b.at = "commit" /\ k \in Works /\ k.turns # {} /\ BuildsHaveTurns
  BY DEF ChatInv, BuildsHaveTurns, Builds, CommitMemory
<1>2. UNCHANGED <<turn, bound, plan, chatScene>>
  BY DEF CommitMemory
<1>3. memories' = memories \/ (stands /\ memories' = Append(memories, row))
  BY DEF CommitMemory
<1>4. BuildsHaveTurns'
  <2>1. \/ DOMAIN buildTask' \subseteq DOMAIN buildTask /\ SetBuilder(w, NoBuild)
        \/ Fails(w, k)
    <3>1. \/ SetBuild(k, "archived", buildTask[k].retried) /\ SetBuilder(w, NoBuild)
          \/ Drop(k) /\ SetBuilder(w, NoBuild)
          \/ Fails(w, k)
      BY DEF CommitMemory
    <3> QED
      BY <3>1 DEF SetBuild, Drop
  <2>2. NoBuild \in Builds /\ NoBuild.at = "rest"
    BY DEF NoBuild, Builds, Works
  <2> HIDE DEF k, b
  <2>3. CASE Fails(w, k)
    BY <1>1, <2>3, FailsKeeps
  <2>4. CASE DOMAIN buildTask' \subseteq DOMAIN buildTask /\ SetBuilder(w, NoBuild)
    BY <1>1, <2>2, <2>4, BuilderMoves DEF SetBuilder
  <2> QED  BY <2>1, <2>3, <2>4
<1>5. Complete' = Complete /\ SentTurns' = SentTurns /\ Active' = Active
  BY <1>2 DEF Complete, SentTurns, Active
<1>6. /\ MemoriesInOrder' /\ MemoryIsCurrent' /\ Ready \subseteq Ready'
      /\ \A i \in Ready : memories'[i].turns = memories[i].turns
  <2>1. CASE memories' = memories
    <3>1. MemoriesInOrder' /\ Ready' = Ready
      BY <2>1 DEF ChatInv, MemoriesInOrder, Ready
    <3>2. \A i \in Ready : memories[i].parent \in Ready \cup {0}
      BY DEF ChatInv, MemoryIsCurrent
    <3> QED
      BY <1>5, <2>1, <3>1, <3>2, MemoriesMove DEF ChatInv
  <2>2. CASE stands /\ memories' = Append(memories, row)
    <3>1. status \in {"ready", "failed"}
      OBVIOUS
    <3> HIDE DEF k, b, status
    <3>2. MemoriesInOrder' /\ MemoryIsCurrent'
      BY <1>1, <1>5, <2>2, <3>1, CommittedKeeps DEF ChatInv
    <3>3. memories \in Seq(MemoryRows) /\ row \in MemoryRows
      BY <1>1, <3>1 DEF ChatInv, MemoriesInOrder, MemoryRows, Works
    <3> HIDE DEF row
    <3>4. /\ DOMAIN memories = 1..Len(memories) /\ DOMAIN memories' = 1..(Len(memories) + 1)
          /\ \A i \in DOMAIN memories : memories'[i] = memories[i]
      BY <2>2, <3>3
    <3>5. Ready \subseteq Ready'
      BY <3>3, <3>4 DEF Ready
    <3> QED
      BY <3>2, <3>4, <3>5 DEF Ready
  <2> QED  BY <1>3, <2>1, <2>2
<1>7. TalkTypeOK'
  BY <1>2 DEF ChatInv, TalkTypeOK
<1>8. TurnsInOrder' /\ OneAtATime' /\ PlansHaveReplies'
  BY <1>2, <1>5 DEF ChatInv, TurnsInOrder, OneAtATime, PlansHaveReplies
<1>9. PlansAreSound'
  <2>1. ASSUME NEW t \in Turns PROVE Sound(t, plan[t])'
    <3>1. plan[t] \in Plans /\ Sound(t, plan[t])
      BY DEF ChatInv, TalkTypeOK, PlansAreSound
    <3>2. ASSUME NEW p \in Plans, Sound(t, p), plan'[t] = p PROVE Sound(t, plan[t])'
      <4>1. Sound(t, p)'
        BY <1>5, <1>6, <3>2, PlanKeeps DEF ChatInv
      <4> QED
        BY <3>2, <4>1
    <3> QED
      BY <1>2, <3>1, <3>2
  <2> QED
    BY <2>1 DEF PlansAreSound
<1> QED
  BY <1>4, <1>6, <1>7, <1>8, <1>9 DEF ChatInv


-----------------------------------------------------------------------------
(***************************************************************************)
(* Plans.                                                                  *)
(***************************************************************************)
\* The plan of a turn, from the invariant.
LEMMA PlanNow ==
  ASSUME ChatInv, NEW t \in Turns
  PROVE  /\ plan[t] \in Plans /\ Sound(t, plan[t])
         /\ plan[t].at # "none" => t \in Active
BY DEF ChatInv, TalkTypeOK, PlansAreSound, PlansHaveReplies

LEMMA LoadFactsKeeps ==
  ASSUME ChatInv, NEW t \in Turns, LoadFacts(t)
  PROVE  ChatInv'
<1> DEFINE p == [NoPlan EXCEPT !.at = "memory", !.profiled = bound]
<1>1. SetPlan(t, p) /\ UNCHANGED <<turn, bound, memories, buildTask, builder, chatScene>> /\ t \in Active
  BY DEF LoadFacts, Active
<1>2. p \in Plans /\ p.at = "memory" /\ p.recalled = {}
  BY DEF NoPlan, Plans, ChatInv, TalkTypeOK
<1> HIDE DEF p
<1>3. Sound(t, p)
  BY <1>2 DEF Sound
<1> QED
  BY <1>1, <1>2, <1>3, PlanMoves

LEMMA ReadMemoryKeeps ==
  ASSUME ChatInv, NEW t \in Turns, ReadMemory(t)
  PROVE  ChatInv'
<1> DEFINE latest == IF plan[t].profiled THEN LatestReadyMemory ELSE 0
           degraded == plan[t].profiled /\ latest = 0 /\ Tokens(Complete) > PlanBudget \div 4
           p == [plan[t] EXCEPT !.at = "history", !.memory = latest, !.degraded = degraded]
<1>1. SetPlan(t, p) /\ UNCHANGED <<turn, bound, memories, buildTask, builder, chatScene>> /\ plan[t].at = "memory"
  BY DEF ReadMemory
<1>2. t \in Active /\ plan[t] \in Plans /\ plan[t].recalled = {}
  BY <1>1, PlanNow DEF Sound
<1>3. latest \in Ready \cup {0} /\ latest \in Nat
  <2> DEFINE ids == {i \in Ready : Grounded[i]}
  <2>1. ids \in SUBSET Ready
    OBVIOUS
  <2> HIDE DEF ids
  <2>2. NewestMemory(ids) \in Ready \cup {0}
    BY <2>1, NewestOfReady DEF ChatInv
  <2>3. latest \in Ready \cup {0}
    BY <2>2 DEF LatestReadyMemory, ids
  <2>4. \A i \in Ready : i \in Nat
    BY MemoryTyped DEF ChatInv, Ready
  <2> HIDE DEF latest
  <2> QED
    BY <2>3, <2>4
<1> HIDE DEF latest
<1>4. degraded \in BOOLEAN
  OBVIOUS
<1> HIDE DEF degraded
<1>5. p \in Plans /\ p.at = "history" /\ p.recalled = {} /\ p.memory = latest
  BY <1>2, <1>3, <1>4 DEF Plans
<1> HIDE DEF p
<1>6. Sound(t, p)
  BY <1>3, <1>5 DEF Sound
<1> QED
  BY <1>1, <1>2, <1>5, <1>6, PlanMoves

\* Turns that are read newest first are all of them unless the budget is spent.
LEMMA HistoryIsWhole ==
  ASSUME NEW older \in SUBSET Turns, NEW history,
         history = {u \in older : Tokens({v \in older : v > u}) < PlanBudget},
         Tokens(history) < PlanBudget
  PROVE  history = older
<1> SUFFICES ASSUME older \ history # {} PROVE FALSE
  OBVIOUS
<1> DEFINE missing == older \ history
           u == Max(missing)
           newer == {v \in older : v > u}
<1>1. missing \in SUBSET Turns /\ missing # {} /\ Turns \subseteq Int
  <2>1. missing \in SUBSET Turns /\ missing # {}
    BY ONLY older \in SUBSET Turns, older \ history # {}, Zenon
  <2>2. Turns \subseteq Int
    BY ONLY ChatAssumption DEF Turns
  <2> QED
    BY ONLY <2>1, <2>2
<1>2. u \in missing /\ \A v \in missing : v <= u
  <2> HIDE DEF missing
  <2> QED
    BY <1>1, TurnExtremes
<1> HIDE DEF u
<1>3. newer \subseteq history
  <2>1. ASSUME NEW v \in newer PROVE v \notin missing
    <3>1. v > u /\ v \in Int /\ u \in Int
      BY ONLY <1>1, <1>2, older \in SUBSET Turns, <2>1
    <3> QED
      BY ONLY <1>2, <3>1
  <2> QED
    BY ONLY <2>1
<1>4. ~(Tokens(newer) < PlanBudget)
  BY <1>2
<1> HIDE DEF newer
<1>5. Tokens(newer) \in Nat /\ Tokens(history) \in Nat /\ Tokens(newer) <= Tokens(history)
  <2>1. history \in SUBSET Turns
    OBVIOUS
  <2> QED
    BY ONLY <1>3, <2>1, TokensGrow
<1> DEFINE x == Tokens(newer)
           y == Tokens(history)
<1>6. x \in Nat /\ y \in Nat /\ x <= y /\ y < PlanBudget /\ ~(x < PlanBudget) /\ PlanBudget \in Nat
  BY <1>4, <1>5, ChatAssumption
<1> HIDE DEF x, y
<1> QED
  BY ONLY <1>6

LEMMA ReadHistoryKeeps ==
  ASSUME ChatInv, NEW t \in Turns, ReadHistory(t)
  PROVE  ChatInv'
<1> DEFINE older == {u \in Complete : u < t /\ u > Boundary(plan[t])}
           history == {u \in older : Tokens({v \in older : v > u}) < PlanBudget}
           next == IF plan[t].profiled /\ ~plan[t].degraded THEN "recall" ELSE "commit"
           p == [plan[t] EXCEPT !.history = history, !.at = next]
<1>1. SetPlan(t, p) /\ UNCHANGED <<turn, bound, memories, buildTask, builder, chatScene>> /\ plan[t].at = "history"
  BY DEF ReadHistory
<1>2. t \in Active /\ plan[t] \in Plans /\ plan[t].recalled = {} /\ plan[t].memory \in Ready \cup {0}
  BY <1>1, PlanNow DEF Sound
<1>3. older \in SUBSET Turns /\ history \subseteq older
  BY DEF Complete
<1>4. Tokens(history) < PlanBudget => history = older
  <2> DEFINE h == history
  <2>1. h = {u \in older : Tokens({v \in older : v > u}) < PlanBudget}
    OBVIOUS
  <2> HIDE DEF older, h
  <2>2. Tokens(h) < PlanBudget => h = older
    BY <1>3, <2>1, HistoryIsWhole
  <2> QED
    BY <2>2 DEF h
<1>5. next \in {"recall", "commit"}
  OBVIOUS
<1> HIDE DEF history, next
<1>6. /\ p \in Plans /\ p.at = next /\ p.recalled = {} /\ p.memory = plan[t].memory
      /\ p.history = history
  <2>1. history \in SUBSET Turns
    BY <1>3
  <2> HIDE DEF older
  <2> QED
    BY <1>2, <1>5, <2>1 DEF Plans
<1> HIDE DEF p
<1>7. Boundary(p) = Boundary(plan[t])
  BY <1>6 DEF Boundary
<1>8. Sound(t, p)
  BY <1>2, <1>3, <1>4, <1>5, <1>6, <1>7 DEF Sound
<1>9. p.at # "none"
  BY <1>5, <1>6
<1> QED
  BY <1>1, <1>2, <1>6, <1>8, <1>9, PlanMoves

LEMMA RecallKeeps ==
  ASSUME ChatInv, NEW t \in Turns, Recall(t)
  PROVE  ChatInv'
<1>1. PICK found \in SUBSET pointed :
        SetPlan(t, [plan[t] EXCEPT !.at = "commit", !.recalled = Composed(plan[t], found \cap Complete)])
  BY Zenon DEF Recall
<1> DEFINE recalled == Composed(plan[t], found \cap Complete)
           p == [plan[t] EXCEPT !.at = "commit", !.recalled = recalled]
<1>2. SetPlan(t, p) /\ UNCHANGED <<turn, bound, memories, buildTask, builder, chatScene>> /\ plan[t].at = "recall"
  BY <1>1 DEF Recall
<1>3. t \in Active /\ plan[t] \in Plans /\ Sound(t, plan[t])
  BY <1>2, PlanNow
<1>4. /\ recalled \subseteq Complete \ plan[t].history /\ recalled \in SUBSET Turns
      /\ \A u \in recalled : u > Boundary(plan[t])
  BY DEF Composed, Complete
<1> HIDE DEF recalled
<1>5. /\ p \in Plans /\ p.at = "commit" /\ p.recalled = recalled /\ p.memory = plan[t].memory
      /\ p.history = plan[t].history
  BY <1>3, <1>4 DEF Plans
<1> HIDE DEF p
<1>6. Boundary(p) = Boundary(plan[t])
  BY <1>5 DEF Boundary
<1>7. Sound(t, p)
  BY <1>2, <1>3, <1>4, <1>5, <1>6 DEF Sound
<1> QED
  BY <1>2, <1>3, <1>5, <1>7, PlanMoves

\* A plan that is settled moves on as it is.
LEMMA SettledPlanMoves ==
  ASSUME ChatInv, NEW t \in Turns, plan[t].at \in {"commit", "ready", "guarded"},
         NEW stage \in {"ready", "refused", "guarded", "sent"}, SetPlan(t, [plan[t] EXCEPT !.at = stage]),
         UNCHANGED <<turn, bound, memories, buildTask, builder, chatScene>>
  PROVE  ChatInv'
<1> DEFINE p == [plan[t] EXCEPT !.at = stage]
<1>1. t \in Active /\ plan[t] \in Plans /\ Sound(t, plan[t])
  BY PlanNow
<1>2. /\ p \in Plans /\ p.at = stage /\ p.recalled = plan[t].recalled /\ p.memory = plan[t].memory
      /\ p.history = plan[t].history
  BY <1>1 DEF Plans
<1>3. SetPlan(t, p)
  OBVIOUS
<1> HIDE DEF p
<1>4. Boundary(p) = Boundary(plan[t])
  BY <1>2 DEF Boundary
<1>5. Sound(t, p)
  BY <1>1, <1>2, <1>4 DEF Sound
<1> QED
  BY <1>1, <1>2, <1>3, <1>5, PlanMoves

LEMMA SettledKeeps ==
  ASSUME ChatInv, NEW t \in Turns, CommitPlan(t) \/ GuardDispatch(t) \/ MarkDispatched(t)
  PROVE  ChatInv'
<1>1. /\ plan[t].at \in {"commit", "ready", "guarded"}
      /\ UNCHANGED <<turn, bound, memories, buildTask, builder, chatScene>>
  BY DEF CommitPlan, GuardDispatch, MarkDispatched
<1>2. \E stage \in {"ready", "refused", "guarded", "sent"} : SetPlan(t, [plan[t] EXCEPT !.at = stage])
  BY Zenon DEF CommitPlan, GuardDispatch, MarkDispatched
<1> QED
  BY <1>1, <1>2, SettledPlanMoves

LEMMA RestartKeeps ==
  ASSUME ChatInv, NEW t \in Turns, ReplyRestarts(t)
  PROVE  ChatInv'
<1>1. UNCHANGED <<turn, bound, memories, buildTask, builder, chatScene>> /\ plan[t].at # "none"
  BY DEF ReplyRestarts
<1>2. t \in Active /\ plan[t] \in Plans /\ Sound(t, plan[t])
  BY <1>1, PlanNow
<1>3. CASE plan[t].at \in {"ready", "guarded"}
  <2>1. SetPlan(t, [plan[t] EXCEPT !.at = "ready"])
    BY <1>3 DEF ReplyRestarts
  <2> QED
    BY <1>1, <1>3, <2>1, SettledPlanMoves
<1>4. CASE plan[t].at = "refused"
  <2>1. SetPlan(t, plan[t])
    BY <1>4 DEF ReplyRestarts
  <2> QED
    BY <1>1, <1>2, <2>1, PlanMoves
<1>5. CASE plan[t].at \notin {"ready", "guarded", "refused"}
  <2>1. SetPlan(t, NoPlan)
    BY <1>5 DEF ReplyRestarts
  <2>2. NoPlan \in Plans /\ NoPlan.at = "none"
    BY DEF NoPlan, Plans
  <2>3. Sound(t, NoPlan)
    BY <2>2 DEF Sound
  <2> QED
    BY <1>1, <2>1, <2>2, <2>3, PlanMoves
<1> QED
  BY <1>3, <1>4, <1>5

LEMMA EndKeeps ==
  ASSUME ChatInv, NEW t \in Turns, EndReply(t)
  PROVE  ChatInv'
<1>1. /\ turn[t].state = "active" /\ SetPlan(t, NoPlan)
      /\ UNCHANGED <<bound, memories, buildTask, builder, chatScene>>
      /\ \/ turn' = [turn EXCEPT ![t].state = "complete", ![t].answer = TRUE, ![t].seen = Max(SentTurns)]
         \/ turn' = [turn EXCEPT ![t].state = "failed"]
  BY DEF EndReply
<1>2. t \in Active /\ t \in SentTurns /\ t \notin Complete /\ turn \in [Turns -> TurnRows]
  BY <1>1 DEF Active, SentTurns, Complete, ChatInv, TalkTypeOK
<1>3. Max(SentTurns) \in 0..MaxTurns
  <2>1. Max(SentTurns) \in Turns
    BY <1>2, TurnExtremes DEF SentTurns
  <2> QED
    BY <2>1, ChatAssumption DEF Turns
<1>4. /\ turn' \in [Turns -> TurnRows] /\ turn'[t].state \in {"complete", "failed"}
      /\ \A u \in Turns : u # t => turn'[u] = turn[u]
  <2> DEFINE m == Max(SentTurns)
  <2>1. turn[t] \in TurnRows
    BY <1>2
  <2>2. CASE turn' = [turn EXCEPT ![t].state = "complete", ![t].answer = TRUE, ![t].seen = m]
    <3> DEFINE row == [turn[t] EXCEPT !.state = "complete", !.answer = TRUE, !.seen = m]
    <3>1. turn' = [turn EXCEPT ![t] = row]
      BY <2>2, <1>2
    <3> HIDE DEF m
    <3>2. m \in 0..MaxTurns
      BY <1>3 DEF m
    <3>3. row \in TurnRows /\ row.state = "complete"
      BY <2>1, <3>2 DEF TurnRows
    <3> HIDE DEF row
    <3> QED
      BY <1>2, <3>1, <3>3
  <2>3. CASE turn' = [turn EXCEPT ![t].state = "failed"]
    <3> DEFINE row == [turn[t] EXCEPT !.state = "failed"]
    <3>1. turn' = [turn EXCEPT ![t] = row]
      BY <2>3, <1>2
    <3>2. row \in TurnRows /\ row.state = "failed"
      BY <2>1 DEF TurnRows
    <3> HIDE DEF row
    <3> QED
      BY <1>2, <3>1, <3>2
  <2> QED
    BY <1>1, <2>2, <2>3
<1>5. SentTurns' = SentTurns /\ Active' = Active \ {t}
  BY <1>2, <1>4 DEF SentTurns, Active
<1>6. Complete' \subseteq Complete \cup {t} /\ Complete \subseteq Complete'
  BY <1>2, <1>4 DEF Complete
<1>7. \A u \in Active : u = t
  <2>1. ASSUME NEW u \in Active PROVE u = t
    <3>1. u \in SentTurns /\ u \in Int /\ t \in Int
      BY <1>2, ChatAssumption DEF Active, SentTurns, Turns
    <3>2. u <= t /\ t <= u
      BY <1>2, <3>1 DEF ChatInv, OneAtATime
    <3> QED
      BY ONLY <3>1, <3>2
  <2> QED
    BY <2>1
<1>8. NoPlan \in Plans /\ NoPlan.at = "none" /\ plan \in [Turns -> Plans] /\ plan' = [plan EXCEPT ![t] = NoPlan]
  BY <1>1 DEF NoPlan, Plans, SetPlan, ChatInv, TalkTypeOK
<1>9. plan' \in [Turns -> Plans] /\ \A u \in Turns : plan'[u].at = "none"
  <2>1. \A u \in Turns : u # t => plan[u].at = "none"
    BY <1>7 DEF ChatInv, PlansHaveReplies
  <2> QED
    BY <1>8, <2>1
<1>10. TalkTypeOK' /\ MemoriesInOrder' /\ BuildsHaveTurns' /\ Ready' = Ready
  BY <1>1, <1>4, <1>9 DEF ChatInv, TalkTypeOK, MemoriesInOrder, BuildsHaveTurns, Ready
<1>11. TurnsInOrder' /\ OneAtATime'
  BY <1>5 DEF ChatInv, TurnsInOrder, OneAtATime
<1>12. PlansHaveReplies' /\ PlansAreSound'
  BY <1>9 DEF PlansHaveReplies, PlansAreSound, Sound
<1>13. MemoryIsCurrent'
  <2>1. \A i \in Ready : memories[i].parent \in Ready \cup {0}
    BY DEF ChatInv, MemoryIsCurrent
  <2>2. ASSUME NEW i \in Ready
        PROVE  {u \in Complete' : u <= Through(memories[i])} = {u \in Complete : u <= Through(memories[i])}
    <3>1. Through(memories[i]) \in Complete /\ Through(memories[i]) \in Int /\ t \in Int
      BY <1>2, ReadyMemories, ReadyTyped, ChatAssumption DEF ChatInv, Turns
    <3>2. Through(memories[i]) \in SentTurns /\ Through(memories[i]) # t
      BY <1>2, <3>1 DEF Complete, SentTurns
    <3>3. Through(memories[i]) <= t
      BY <1>2, <3>2 DEF ChatInv, OneAtATime
    <3> DEFINE x == Through(memories[i])
    <3>4. x \in Int /\ x # t /\ x <= t
      BY <3>1, <3>2, <3>3
    <3> HIDE DEF x
    <3>5. ~(t <= x)
      BY ONLY <3>1, <3>4
    <3>6. {u \in Complete' : u <= x} = {u \in Complete : u <= x}
      BY ONLY <1>6, <3>5
    <3> QED
      BY <3>6 DEF x
  <2> QED
    BY <1>1, <1>10, <2>1, <2>2, MemoriesMove DEF ChatInv
<1> QED
  BY <1>10, <1>11, <1>12, <1>13 DEF ChatInv


-----------------------------------------------------------------------------
(***************************************************************************)
(* The theorems.                                                           *)
(***************************************************************************)
\* Every step keeps the invariant.
LEMMA ChatInvInductive == ASSUME CalmTalk PROVE ChatInv /\ [ChatNext]_chatVars => ChatInv'
<1> SUFFICES ASSUME ChatInv, [ChatNext]_chatVars PROVE ChatInv'
  OBVIOUS
<1>1. CASE Send
  BY <1>1, SendKeeps
<1>2. CASE SwitchProfile
  <2>1. UNCHANGED <<turn, memories, plan, chatScene>> /\ bound' \in BOOLEAN /\ UNCHANGED <<buildTask, builder>>
    BY <1>2 DEF SwitchProfile
  <2>2. BuildsHaveTurns'
    BY <2>1 DEF ChatInv, BuildsHaveTurns
  <2> QED
    BY <2>1, <2>2, AsideStep
<1>3. CASE OrderMemory
  BY <1>3, OrderKeeps
<1>4. ASSUME NEW t \in Turns, Edit(t) PROVE ChatInv'
  BY <1>4, EditKeeps
<1>5. ASSUME NEW t \in Turns, PlanStep(t) PROVE ChatInv'
  <2>1. CASE LoadFacts(t)
    BY <2>1, LoadFactsKeeps
  <2>2. CASE ReadMemory(t)
    BY <2>2, ReadMemoryKeeps
  <2>3. CASE ReadHistory(t)
    BY <2>3, ReadHistoryKeeps
  <2>4. CASE Recall(t)
    BY <2>4, RecallKeeps
  <2>5. CASE CommitPlan(t) \/ GuardDispatch(t) \/ MarkDispatched(t)
    BY <2>5, SettledKeeps
  <2>6. CASE EndReply(t)
    BY <2>6, EndKeeps
  <2> QED
    BY <1>5, <2>1, <2>2, <2>3, <2>4, <2>5, <2>6 DEF PlanStep
<1>6. ASSUME NEW t \in Turns, ReplyRestarts(t) PROVE ChatInv'
  BY <1>6, RestartKeeps
<1>7. ASSUME NEW t \in Turns, LoadTurn(t) \/ UpsertPoint(t) \/ CheckPoint(t) \/ DeletePoint(t)
      PROVE  ChatInv'
  <2>1. UNCHANGED <<turn, bound, memories, plan, chatScene, buildTask, builder>>
    BY <1>7 DEF LoadTurn, UpsertPoint, CheckPoint, DeletePoint
  <2>2. BuildsHaveTurns' /\ bound' \in BOOLEAN
    BY <2>1 DEF ChatInv, BuildsHaveTurns, TalkTypeOK
  <2> QED
    BY <2>1, <2>2, AsideStep
<1>8. ASSUME NEW t \in Turns, NEW users \in SUBSET {t}, NEW answers \in SUBSET {t},
             DeleteMessages(users, answers)
      PROVE  ChatInv'
  BY <1>8, DeleteKeeps
<1>9. ASSUME NEW w \in Builders, NEW k \in DOMAIN buildTask, StartBuild(w, k) PROVE ChatInv'
  BY <1>9, StartKeeps
<1>10. ASSUME NEW w \in Builders, Summarize(w) \/ CommitMemory(w) \/ BuilderDies(w) PROVE ChatInv'
  BY <1>10, SummarizeKeeps, CommitKeeps, DiesKeeps
<1>11. CASE UNCHANGED chatVars
  <2>1. UNCHANGED <<turn, bound, memories, plan, chatScene, buildTask, builder>>
    BY <1>11 DEF chatVars
  <2>2. BuildsHaveTurns' /\ bound' \in BOOLEAN
    BY <2>1 DEF ChatInv, BuildsHaveTurns, TalkTypeOK
  <2> QED
    BY <2>1, <2>2, AsideStep
<1> QED
  BY <1>1, <1>2, <1>3, <1>4, <1>5, <1>6, <1>7, <1>8, <1>9, <1>10, <1>11 DEF ChatNext

\* The ready memories of a conversation are one chain, each current with the
\* messages: CommitMemory reads everything again under the lock, and
\* invalidateInTransaction takes what covers a hidden message.
THEOREM MemoriesStayCurrent ==
  ASSUME CalmTalk
  PROVE  ChatSpec => []MemoryIsCurrent
<1>1. ChatSpec => []ChatInv
  BY ChatInvHoldsAtInit, ChatInvInductive, PTL DEF ChatSpec
<1>2. ChatInv => MemoryIsCurrent
  BY DEF ChatInv
<1> QED
  BY <1>1, <1>2, PTL

\* What a sound plan says of one reply.
LEMMA SoundPlanIsTrue ==
  ASSUME ChatInv, NEW t \in Turns, plan[t].at \in {"ready", "guarded", "sent"}
  PROVE  LET p == plan[t]
             remembered == Coverage[p.memory]
         IN /\ p.history \cup p.recalled \subseteq Complete
            /\ p.memory \in Ready \cup {0}
            /\ remembered \cap p.history = {} /\ (remembered \cup p.history) \cap p.recalled = {}
            /\ Tokens(p.history) < PlanBudget => {u \in Complete : u < t} \subseteq remembered \cup p.history
<1> DEFINE p == plan[t]
           older == {u \in Complete : u < t /\ u > Boundary(p)}
           remembered == Coverage[p.memory]
<1>1. /\ p.memory \in Ready \cup {0} /\ p.history \subseteq older
      /\ Tokens(p.history) < PlanBudget => p.history = older
      /\ p.recalled \subseteq Complete \ p.history
      /\ \A u \in p.recalled : u > Boundary(p)
  BY PlanNow DEF Sound
<1>2. Complete \subseteq Int /\ \A u \in Complete : u > 0
  BY ChatAssumption DEF Complete, Turns
<1>3. remembered = {u \in Complete : u <= Boundary(p)} /\ Boundary(p) \in Int
  <2>1. CASE p.memory = 0
    <3>1. Accumulates(Coverage, memories, Len(memories))
      BY CoverageNow DEF ChatInv
    <3>2. Coverage[0] = {}
      BY ONLY <3>1, Zenon DEF Accumulates
    <3>3. Boundary(p) = 0
      BY <2>1 DEF Boundary
    <3>4. ASSUME NEW u \in Complete PROVE ~(u <= 0)
      <4>1. u \in Int /\ u > 0
        BY ONLY <1>2
      <4> QED
        BY ONLY <4>1
    <3> QED
      BY ONLY <2>1, <3>2, <3>3, <3>4
  <2>2. CASE p.memory # 0
    <3>1. p.memory \in Ready /\ Boundary(p) = Through(memories[p.memory])
      BY <1>1, <2>2 DEF Boundary
    <3>2. Coverage[p.memory] = {u \in Complete : u <= Through(memories[p.memory])}
      BY <3>1 DEF ChatInv, MemoryIsCurrent
    <3>3. Through(memories[p.memory]) \in Int
      BY <3>1, ReadyTyped DEF ChatInv
    <3> QED
      BY ONLY <3>1, <3>2, <3>3
  <2> QED
    BY ONLY <2>1, <2>2
<1> DEFINE x == Boundary(p)
<1>4. \A u \in remembered : u <= x /\ u \in Int /\ x \in Int
  BY <1>2, <1>3
<1>5. \A u \in Complete : u <= x => u \in remembered
  BY <1>3
<1> HIDE DEF remembered
<1>6. remembered \cap p.history = {}
  <2>1. \A u \in p.history : u > x
    BY <1>1
  <2> HIDE DEF x
  <2> QED
    BY ONLY <1>4, <2>1
<1>7. remembered \cap p.recalled = {} /\ p.history \cap p.recalled = {}
  <2>1. \A u \in p.recalled : u > x
    BY <1>1
  <2> HIDE DEF x
  <2> QED
    BY ONLY <1>1, <1>4, <2>1
<1>8. ASSUME Tokens(p.history) < PlanBudget, NEW u \in Complete, u < t PROVE u \in remembered \cup p.history
  <2>1. p.history = older
    BY <1>1, <1>8
  <2>2. u \in Int /\ x \in Int
    BY <1>2, <1>3
  <2>3. CASE u <= x
    BY <1>5, <2>3
  <2>4. CASE u > x
    BY <1>8, <2>1, <2>4
  <2> HIDE DEF x
  <2>5. u <= x \/ u > x
    BY ONLY <2>2
  <2> QED
    BY ONLY <2>3, <2>4, <2>5
<1>9. p.history \cup p.recalled \subseteq Complete
  BY <1>1
<1> QED
  BY <1>1, <1>6, <1>7, <1>8, <1>9 DEF remembered

\* A committed plan stands until it is sent: no turn it names is hidden, its
\* memory stays ready, nothing is in it twice, and nothing that fits is left
\* out (PersistTerminal, GuardDispatch, composeEvidenceGroups).
THEOREM CommittedPlansStayTrue ==
  ASSUME CalmTalk
  PROVE  ChatSpec => []PlanStaysTrue
<1>1. ChatSpec => []ChatInv
  BY ChatInvHoldsAtInit, ChatInvInductive, PTL DEF ChatSpec
<1>2. ChatInv => PlanStaysTrue
  BY SoundPlanIsTrue DEF PlanStaysTrue
<1> QED
  BY <1>1, <1>2, PTL

-----------------------------------------------------------------------------
(***************************************************************************)
(* The index of a profile.                                                 *)
(***************************************************************************)
\* Nothing is rebuilt.
Still == indexScene.start = "built" /\ "operator" \notin indexScene.events
\* No rebuild fails before it switches, and no document changes.
Steady == indexScene.events \cap {"provider", "create", "delete"} = {}

\* Qdrant answers the reconciler.  Where rebuilds run, no lease on one lapses,
\* documents are not turned on and off, no version is activated between the
\* comparison of a rebuild and its end, and rebuilds either die or fail.
CalmIndexing ==
  \A scene \in IndexScenes :
    /\ "hiccup" \notin scene.events
    /\ \/ scene.start = "built" /\ "operator" \notin scene.events
       \/ /\ scene.events \cap {"stall", "status", "late"} = {}
          /\ \/ scene.events \cap {"crash", "database"} = {}
             \/ scene.events \cap {"provider", "create", "delete"} = {}

Profiles == [state : {"none", "provisioning", "ready", "rebuilding", "failed"},
             active : Nat, target : Nat]
RevisionRows == [state : {"none", "queued", "processing", "ready", "failed"},
                 attempts : Nat, live : BOOLEAN]
DocumentRows == [active : Revisions \cup {0}, enabled : BOOLEAN, deleted : BOOLEAN]
Rebuilds == [at : {"rest", "begin", "ensure", "populate", "compare", "switch", "swap",
                   "delete", "failed"},
             expected : Profiles, next : Profiles, snapshot : SUBSET Revisions, adrift : BOOLEAN]
Indexings == [at : {"rest", "publish", "activate"}, version : Nat, attempt : Nat,
              generation : Nat, adrift : BOOLEAN]
Repairs == [at : {"rest", "inspect", "apply", "restore"}, seen : Profiles,
            plan : {"none", "finish", "restore", "fail", "point"}]
Messages == [state : {"none", "queued", "running", "archived"}, retried : Nat]

IndexTypeOK ==
  /\ profile \in Profiles /\ alias \in Nat /\ removal \in Nat
  /\ DOMAIN points \subseteq Nat \ {0}
  /\ \A g \in DOMAIN points : points[g] \subseteq Revisions
  /\ revision \in [Revisions -> RevisionRows]
  /\ document \in [ContextDocuments -> DocumentRows]
  /\ rebuildTask \in Messages /\ indexTask \in [Revisions -> Messages]
  /\ rebuilder \in [Rebuilders -> Rebuilds] /\ indexer \in [Indexers -> Indexings]
  /\ repair \in Repairs
  /\ indexScene \in IndexScenes

\* The rows a profile can have.
Shaped(p) ==
  /\ p \in Profiles /\ p.active <= MaxGeneration /\ p.target <= MaxGeneration
  /\ \/ p.state = "provisioning" /\ p.active = 0 /\ p.target = 1
     \/ p.state = "ready" /\ p.active # 0 /\ p.target = 0
     \/ p.state = "rebuilding" /\ p.active # 0 /\ p.target = p.active + 1
     \/ p.state = "rebuilding" /\ p.active = 0 /\ p.target >= 2
     \/ p.state = "failed" /\ p.active = 0 /\ p.target >= 1

Building(p) == p.state \in {"provisioning", "rebuilding"}

\* The collection has what every document that is kept promises, enabled or not.
Holds(g) ==
  /\ HasCollection(g)
  /\ \A d \in ContextDocuments :
       ~document[d].deleted /\ document[d].active # 0 => document[d].active \in points[g]

ProfileHolds ==
  /\ Shaped(profile)
  /\ profile.active # 0 => Holds(profile.active)
  /\ Still => profile.state = "ready" /\ rebuildTask.state # "queued"

\* Collections are of generations that were, or of the one being built; only
\* the former are removed.
Generations ==
  /\ \A g \in DOMAIN points : g <= profile.active \/ g = profile.target
  /\ profile.state = "failed" => ~HasCollection(profile.target)
  /\ removal # 0 => removal < profile.active

\* One rebuild at a time, which builds the row's target, unless the reconciler
\* has finished that row already.
OneRebuild ==
  \A w \in Rebuilders : rebuilder[w].at # "rest" =>
    /\ ~Still /\ ~rebuilder[w].adrift /\ rebuildTask.state = "running"
    /\ \A u \in Rebuilders : u # w => rebuilder[u].at = "rest"

BeginTrue(r) ==
  /\ Shaped(r.expected) /\ r.expected.state \in {"ready", "failed"}
  /\ r.next = Begun(r.expected) /\ r.next.target <= MaxGeneration

BuildTrue(r) ==
  /\ Shaped(r.next) /\ Building(r.next)
  /\ \/ profile = r.next
     \/ profile = ProfileIndex("ready", r.next.target, 0) /\ (Steady \/ r.at = "swap")
  /\ r.at \in {"populate", "compare", "switch", "swap"} => HasCollection(r.next.target)
  /\ r.at \in {"populate", "compare"} /\ Steady => r.snapshot = Promised
  /\ r.at = "compare" => r.snapshot \subseteq points[r.next.target]
  /\ r.at \in {"switch", "swap"} => Holds(r.next.target)
  /\ r.at \in {"delete", "failed"} => ~Steady
  /\ r.at = "failed" => ~HasCollection(r.next.target)

RebuildersTrue ==
  \A w \in Rebuilders : /\ rebuilder[w].at = "begin" => BeginTrue(rebuilder[w])
                        /\ rebuilder[w].at \notin {"rest", "begin"} => BuildTrue(rebuilder[w])

\* The row is of a build that is past the switch, which no failure takes back.
Switched(p) ==
  /\ Building(p) /\ Holds(p.target)
  /\ Steady \/ \E w \in Rebuilders : rebuilder[w].at = "swap" /\ rebuilder[w].next = p

AliasTrue == alias <= profile.active \/ (alias = profile.target /\ Switched(profile))

\* The profile will not be what was seen again.
Past(seen) ==
  \/ profile.active > seen.active
  \/ /\ seen.active = 0 /\ profile.active = 0
     /\ \/ profile.target > seen.target
        \/ profile.target = seen.target /\ profile.state = "failed"

RepairTrue ==
  repair.at # "rest" =>
    /\ Shaped(repair.seen) /\ repair.seen.state # "failed"
    /\ repair.seen.active <= profile.active
    /\ repair.at = "restore" => Past(repair.seen)
    /\ repair.at = "apply" /\ repair.plan \in {"fail", "restore"} => Past(repair.seen)
    /\ repair.at = "apply" /\ repair.plan = "finish" =>
         Past(repair.seen) \/ (profile = repair.seen /\ Switched(profile))

\* The active version of a document is its last one that is ready.
DocumentsTrue ==
  \A d \in ContextDocuments :
    /\ document[d].active # 0 =>
         DocumentOf[document[d].active] = d /\ revision[document[d].active].state = "ready"
    /\ \A v \in Revisions : DocumentOf[v] = d /\ revision[v].state = "ready" => v <= document[d].active
    /\ ~Still => document[d].enabled

\* Where nothing is created nothing is indexed.
Idle ==
  "create" \notin indexScene.events =>
    /\ \A v \in Revisions : revision[v].state \in {"none", "ready"} /\ indexTask[v].state = "none"
    /\ \A w \in Indexers : indexer[w].at = "rest"

\* What was published to the active collection is there.
IndexersTrue ==
  \A w \in Indexers : indexer[w].at # "rest" =>
    /\ indexer[w].version \in Revisions /\ indexer[w].generation <= profile.active
    /\ indexer[w].at = "activate" =>
         /\ indexer[w].generation # 0
         /\ indexer[w].generation = profile.active => indexer[w].version \in points[profile.active]

IndexInv ==
  /\ IndexTypeOK /\ ProfileHolds /\ Generations /\ OneRebuild /\ RebuildersTrue
  /\ AliasTrue /\ RepairTrue /\ DocumentsTrue /\ Idle /\ IndexersTrue

-----------------------------------------------------------------------------
\* A finite set of numbers has a greatest and a least member.
LEMMA FiniteExtremes ==
  ASSUME NEW S \in SUBSET Nat, IsFiniteSet(S), S # {}
  PROVE  /\ Max(S) \in S /\ \A k \in S : k <= Max(S)
         /\ Min(S) \in S /\ \A k \in S : Min(S) <= k
<1> DEFINE above(k) == {x \in S : k <= x}
           below(k) == {x \in S : x <= k}
           F == {above(k) : k \in S}
           G == {below(k) : k \in S}
<1>1. IsWellFoundedOn(StrictSubsetOrdering(S), SUBSET S)
  BY FS_StrictSubsetOrderingWellFounded, FS_FiniteSubsetsOfFinite
<1>2. \E m \in S : \A k \in S : k <= m
  <2>1. F \subseteq SUBSET S /\ F # {}
    OBVIOUS
  <2>2. PICK A \in F : \A B \in F : <<B, A>> \notin StrictSubsetOrdering(S)
    <3> HIDE DEF F
    <3> QED
      BY <1>1, <2>1, WFMin
  <2>3. PICK m \in S : A = above(m)
    BY <2>2
  <2>4. ASSUME NEW k \in S, m < k PROVE FALSE
    <3> DEFINE B == above(k)
    <3>1. B \in F /\ m \in A /\ m \notin B
      <4>1. m \in Nat /\ k \in Nat
        OBVIOUS
      <4>2. m \in A /\ m \notin B
        BY <2>3, <2>4, <4>1
      <4> QED
        BY <4>2, Zenon
    <3>2. B \subseteq A
      <4>1. ASSUME NEW x \in B PROVE x \in A
        <5>1. x \in Nat /\ m \in Nat /\ k \in Nat
          OBVIOUS
        <5> QED
          BY <2>3, <2>4, <4>1, <5>1
      <4> QED
        BY <4>1
    <3> HIDE DEF B
    <3>3. <<B, A>> \in StrictSubsetOrdering(S)
      BY <2>1, <2>2, <3>1, <3>2 DEF StrictSubsetOrdering
    <3> QED
      BY <2>2, <3>1, <3>3
  <2> QED
    BY <2>4
<1>3. \E m \in S : \A k \in S : m <= k
  <2>1. G \subseteq SUBSET S /\ G # {}
    OBVIOUS
  <2>2. PICK A \in G : \A B \in G : <<B, A>> \notin StrictSubsetOrdering(S)
    <3> HIDE DEF G
    <3> QED
      BY <1>1, <2>1, WFMin
  <2>3. PICK m \in S : A = below(m)
    BY <2>2
  <2>4. ASSUME NEW k \in S, k < m PROVE FALSE
    <3> DEFINE B == below(k)
    <3>1. B \in G /\ m \in A /\ m \notin B
      <4>1. m \in Nat /\ k \in Nat
        OBVIOUS
      <4>2. m \in A /\ m \notin B
        BY <2>3, <2>4, <4>1
      <4> QED
        BY <4>2, Zenon
    <3>2. B \subseteq A
      <4>1. ASSUME NEW x \in B PROVE x \in A
        <5>1. x \in Nat /\ m \in Nat /\ k \in Nat
          OBVIOUS
        <5> QED
          BY <2>3, <2>4, <4>1, <5>1
      <4> QED
        BY <4>1
    <3> HIDE DEF B
    <3>3. <<B, A>> \in StrictSubsetOrdering(S)
      BY <2>1, <2>2, <3>1, <3>2 DEF StrictSubsetOrdering
    <3> QED
      BY <2>2, <3>1, <3>3
  <2> QED
    BY <2>4
<1> QED
  BY <1>2, <1>3 DEF Max, Min

\* The first version of a document is one of its versions.
LEMMA OldestIsOne ==
  ASSUME NEW d \in ContextDocuments
  PROVE  OldestOf(d) \in Revisions /\ DocumentOf[OldestOf(d)] = d
<1> DEFINE S == {v \in Revisions : DocumentOf[v] = d}
<1>1. S \in SUBSET Nat /\ S \subseteq Revisions /\ S # {} /\ IsFiniteSet(S)
  BY IndexAssumption, FS_Subset DEF ContextDocuments
<1>2. Min(S) \in S
  BY <1>1, FiniteExtremes
<1> QED
  BY <1>2 DEF OldestOf

-----------------------------------------------------------------------------
LEMMA NoneTyped ==
  /\ NoRebuild \in Rebuilds /\ NoIndexing \in Indexings /\ NoRepair \in Repairs
  /\ NotQueued \in Messages /\ QueuedMessage \in Messages /\ NoRevision \in RevisionRows
  /\ NoRebuild.at = "rest" /\ NoIndexing.at = "rest" /\ NoRepair.at = "rest"
  /\ NotQueued.state = "none" /\ QueuedMessage.state = "queued" /\ NoRevision.state = "none"
BY DEF NoRebuild, NoIndexing, NoRepair, NotQueued, QueuedMessage, NoRevision, ProfileIndex,
       Rebuilds, Indexings, Repairs, Messages, RevisionRows, Profiles

LEMMA IndexInvHoldsAtInit == IndexInit => IndexInv
<1> SUFFICES ASSUME IndexInit PROVE IndexInv
  OBVIOUS
<1>1. /\ indexScene \in IndexScenes /\ removal = 0 /\ repair = NoRepair
      /\ rebuilder = [w \in Rebuilders |-> NoRebuild]
      /\ indexer = [w \in Indexers |-> NoIndexing]
      /\ indexTask = [v \in Revisions |-> NotQueued]
  BY DEF IndexInit
<1>2. /\ \A w \in Rebuilders : rebuilder[w].at = "rest"
      /\ \A w \in Indexers : indexer[w].at = "rest"
      /\ \A v \in Revisions : indexTask[v].state = "none"
      /\ repair.at = "rest"
  BY <1>1, NoneTyped
<1>3. OneRebuild /\ RebuildersTrue /\ RepairTrue /\ IndexersTrue
  BY <1>2 DEF OneRebuild, RebuildersTrue, RepairTrue, IndexersTrue
<1>4. /\ rebuilder \in [Rebuilders -> Rebuilds] /\ indexer \in [Indexers -> Indexings]
      /\ indexTask \in [Revisions -> Messages] /\ repair \in Repairs
  BY <1>1, NoneTyped
<1>5. CASE indexScene.start = "new"
  <2>1. /\ profile = ProfileIndex("provisioning", 0, 1)
        /\ alias = 0 /\ points = <<>> /\ rebuildTask = QueuedMessage
        /\ revision = [v \in Revisions |-> NoRevision]
        /\ document = [d \in ContextDocuments |-> [active |-> 0, enabled |-> TRUE, deleted |-> FALSE]]
    BY <1>5 DEF IndexInit
  <2>2. DOMAIN points = {}
    BY <2>1
  <2>3. IndexTypeOK
    <3>1. document \in [ContextDocuments -> DocumentRows] /\ revision \in [Revisions -> RevisionRows]
      BY <2>1, NoneTyped DEF DocumentRows
    <3> QED
      BY <1>1, <1>4, <2>1, <2>2, <3>1, NoneTyped DEF IndexTypeOK, ProfileIndex, Profiles
  <2>4. ProfileHolds /\ Generations /\ AliasTrue
    BY <1>1, <1>5, <2>1, <2>2, IndexAssumption
       DEF ProfileHolds, Generations, AliasTrue, Shaped, ProfileIndex, Profiles, Still
  <2>5. DocumentsTrue /\ Idle
    BY <1>2, <2>1, NoneTyped DEF DocumentsTrue, Idle
  <2> QED
    BY <1>3, <2>3, <2>4, <2>5 DEF IndexInv
<1>6. CASE indexScene.start # "new"
  <2> DEFINE oldest == {OldestOf(d) : d \in ContextDocuments}
  <2>1. /\ profile = ProfileIndex("ready", 1, 0)
        /\ alias = 1 /\ points = <<oldest>> /\ rebuildTask = NotQueued
        /\ revision = [v \in Revisions |-> IF v \in oldest
                              THEN [state |-> "ready", attempts |-> 1, live |-> FALSE]
                              ELSE NoRevision]
        /\ document = [d \in ContextDocuments |->
                         [active |-> OldestOf(d), enabled |-> TRUE, deleted |-> FALSE]]
    BY <1>6 DEF IndexInit
  <2>2. DOMAIN points = {1} /\ points[1] = oldest
    BY <2>1
  <2>3. oldest \subseteq Revisions
    BY OldestIsOne
  <2>4. IndexTypeOK
    <3>1. document \in [ContextDocuments -> DocumentRows]
      BY <2>1, OldestIsOne DEF DocumentRows
    <3>2. revision \in [Revisions -> RevisionRows]
      <4> HIDE DEF oldest
      <4> QED
        BY <2>1, NoneTyped DEF RevisionRows
    <3>3. DOMAIN points \subseteq Nat \ {0} /\ \A g \in DOMAIN points : points[g] \subseteq Revisions
      BY <2>2, <2>3
    <3> QED
      BY <1>1, <1>4, <2>1, <3>1, <3>2, <3>3, NoneTyped DEF IndexTypeOK, ProfileIndex, Profiles
  <2>5. ProfileHolds
    <3>1. Holds(1)
      BY <2>1, <2>2 DEF Holds, HasCollection
    <3> QED
      BY <2>1, <3>1, IndexAssumption, NoneTyped DEF ProfileHolds, Shaped, ProfileIndex, Profiles
  <2>6. Generations /\ AliasTrue
    BY <1>1, <2>1, <2>2 DEF Generations, AliasTrue, ProfileIndex
  <2>7. DocumentsTrue
    <3>1. \A v \in Revisions : revision[v].state = "ready" <=> v \in oldest
      <4> HIDE DEF oldest
      <4> QED
        BY <2>1, NoneTyped
    <3>2. ASSUME NEW d \in ContextDocuments, NEW v \in Revisions, DocumentOf[v] = d, v \in oldest
          PROVE  v = OldestOf(d)
      BY <3>2, OldestIsOne
    <3>3. \A d \in ContextDocuments : OldestOf(d) \in oldest /\ OldestOf(d) \in Nat
      BY OldestIsOne, IndexAssumption
    <3> QED
      BY <2>1, <2>3, <3>1, <3>2, <3>3, OldestIsOne DEF DocumentsTrue
  <2>8. Idle
    <3> HIDE DEF oldest
    <3> QED
      BY <1>2, <2>1, NoneTyped DEF Idle
  <2> QED
    BY <1>3, <2>4, <2>5, <2>6, <2>7, <2>8 DEF IndexInv
<1> QED
  BY <1>5, <1>6

-----------------------------------------------------------------------------
(* Versions: what their messages and handlers do beside the activation.    *)

\* What stays when profile, collections and documents do.
LEMMA IndexSideKeeps ==
  ASSUME IndexInv,
         UNCHANGED <<profile, alias, points, document, rebuildTask, rebuilder, repair, removal, indexScene>>,
         revision' \in [Revisions -> RevisionRows], indexTask' \in [Revisions -> Messages],
         indexer' \in [Indexers -> Indexings],
         \A v \in Revisions : revision'[v].state = "ready" <=> revision[v].state = "ready",
         Idle', IndexersTrue'
  PROVE  IndexInv'
<1>1. IndexTypeOK'
  BY DEF IndexInv, IndexTypeOK
<1>2. ProfileHolds' /\ Generations' /\ OneRebuild'
  BY DEF IndexInv, ProfileHolds, Generations, OneRebuild, Holds, HasCollection, Still
<1>3. RebuildersTrue'
  BY DEF IndexInv, RebuildersTrue, BeginTrue, BuildTrue, Holds, HasCollection, Promised, Steady
<1>4. AliasTrue' /\ RepairTrue'
  BY DEF IndexInv, AliasTrue, RepairTrue, Switched, Past, Holds, HasCollection, Steady
<1>5. DocumentsTrue'
  <2>1. DocumentsTrue /\ document \in [ContextDocuments -> DocumentRows]
    BY DEF IndexInv, IndexTypeOK
  <2> QED
    BY <2>1 DEF DocumentsTrue, Still, DocumentRows
<1> QED
  BY <1>1, <1>2, <1>3, <1>4, <1>5 DEF IndexInv

LEMMA MessageTyped ==
  ASSUME NEW m \in Messages
  PROVE  /\ Redelivered(m) \in Messages /\ Enqueued(m) \in Messages
         /\ [m EXCEPT !.state = "running"] \in Messages
         /\ [m EXCEPT !.state = "archived"] \in Messages
         /\ Redelivered(m).state \in {"queued", "archived"}
BY IndexAssumption, NoneTyped DEF Redelivered, Enqueued, Messages

LEMMA CreateVersionKeeps ==
  ASSUME IndexInv, NEW v \in Revisions, CreateVersion(v)
  PROVE  IndexInv'
<1>1. /\ "create" \in indexScene.events /\ revision[v].state = "none"
      /\ revision' = [revision EXCEPT ![v] = [NoRevision EXCEPT !.state = "queued"]]
      /\ indexTask' = indexTask \/ indexTask' = [indexTask EXCEPT ![v] = Enqueued(@)]
      /\ UNCHANGED <<profile, alias, points, document, rebuildTask, rebuilder, indexer, repair, removal, indexScene>>
  BY DEF CreateVersion, SetRevision
<1>2. revision \in [Revisions -> RevisionRows] /\ indexTask \in [Revisions -> Messages]
  BY DEF IndexInv, IndexTypeOK
<1>3. [NoRevision EXCEPT !.state = "queued"] \in RevisionRows /\ Enqueued(indexTask[v]) \in Messages
      /\ [NoRevision EXCEPT !.state = "queued"].state = "queued"
  BY <1>2, MessageTyped DEF NoRevision, RevisionRows
<1>4. /\ revision' \in [Revisions -> RevisionRows] /\ indexTask' \in [Revisions -> Messages]
      /\ \A u \in Revisions : revision'[u].state = "ready" <=> revision[u].state = "ready"
  BY <1>1, <1>2, <1>3
<1>5. Idle' /\ IndexersTrue'
  BY <1>1 DEF IndexInv, Idle, IndexersTrue
<1> QED
  BY <1>1, <1>4, <1>5, IndexSideKeeps DEF IndexInv, IndexTypeOK

LEMMA AcquireVersionKeeps ==
  ASSUME IndexInv, NEW w \in Indexers, NEW v \in Revisions, AcquireVersion(w, v)
  PROVE  IndexInv'
<1> DEFINE next == [state |-> "processing", attempts |-> revision[v].attempts + 1, live |-> TRUE]
           x == [at |-> "publish", version |-> v, attempt |-> next.attempts,
                 generation |-> profile.active, adrift |-> FALSE]
<1>1. /\ indexTask[v].state = "queued" /\ indexer[w].at = "rest"
      /\ UNCHANGED <<profile, alias, points, document, rebuildTask, rebuilder, repair, removal, indexScene>>
      /\ \/ indexTask' = [indexTask EXCEPT ![v] = NotQueued] /\ UNCHANGED <<revision, indexer>>
         \/ /\ revision[v].state \notin {"ready", "failed"}
            /\ revision' = [revision EXCEPT ![v] = next] /\ indexer' = [indexer EXCEPT ![w] = x]
            /\ indexTask' = [indexTask EXCEPT ![v].state = "running"]
         \/ indexTask' = [indexTask EXCEPT ![v] = Redelivered(@)] /\ UNCHANGED <<revision, indexer>>
  BY DEF AcquireVersion, SetRevision, SetIndexer
<1>2. /\ revision \in [Revisions -> RevisionRows] /\ indexTask \in [Revisions -> Messages]
      /\ indexer \in [Indexers -> Indexings] /\ profile.active \in Nat
  BY DEF IndexInv, IndexTypeOK, Profiles
<1>3. next \in RevisionRows /\ next.state = "processing" /\ x \in Indexings
  BY <1>2, IndexAssumption DEF RevisionRows, Indexings
<1>4. /\ revision' \in [Revisions -> RevisionRows] /\ indexer' \in [Indexers -> Indexings]
      /\ \A u \in Revisions : revision'[u].state = "ready" <=> revision[u].state = "ready"
  <2> HIDE DEF next, x
  <2> QED
    BY <1>1, <1>2, <1>3
<1>5. indexTask' \in [Revisions -> Messages]
  <2>1. [indexTask[v] EXCEPT !.state = "running"] \in Messages /\ Redelivered(indexTask[v]) \in Messages
    BY <1>2, MessageTyped
  <2> QED
    BY <1>1, <1>2, <2>1, NoneTyped
<1>6. Idle'
  BY <1>1 DEF IndexInv, Idle
<1>7. IndexersTrue'
  <2>1. x.at = "publish" /\ x.version = v /\ x.generation = profile.active
    OBVIOUS
  <2> HIDE DEF x, next
  <2>2. \A u \in Indexers : indexer'[u] = indexer[u] \/ indexer'[u] = x
    BY <1>1, <1>2
  <2> QED
    BY <1>1, <1>2, <2>1, <2>2 DEF IndexInv, IndexersTrue
<1> QED
  BY <1>1, <1>4, <1>5, <1>6, <1>7, IndexSideKeeps

\* A handler of a version that ends, and one that is lost.
LEMMA HandlerGoesKeeps ==
  ASSUME IndexInv, NEW w \in Indexers, indexer[w].at # "rest",
         NEW x \in Indexings,
         x.at = "rest" \/ (x.at = indexer[w].at /\ x.version = indexer[w].version
                           /\ x.generation = indexer[w].generation),
         NEW m \in Messages, NEW r \in RevisionRows,
         indexer' = [indexer EXCEPT ![w] = x],
         \/ UNCHANGED indexTask
         \/ indexTask' = [indexTask EXCEPT ![indexer[w].version] = m],
         \/ UNCHANGED revision
         \/ revision' = [revision EXCEPT ![indexer[w].version] = r],
         r.state # "ready", revision[indexer[w].version].state # "ready" \/ UNCHANGED revision,
         UNCHANGED <<profile, alias, points, document, rebuildTask, rebuilder, repair, removal, indexScene>>
  PROVE  IndexInv'
<1>1. /\ revision \in [Revisions -> RevisionRows] /\ indexTask \in [Revisions -> Messages]
      /\ indexer \in [Indexers -> Indexings] /\ indexer[w].version \in Revisions
  BY DEF IndexInv, IndexTypeOK, IndexersTrue
<1>2. /\ revision' \in [Revisions -> RevisionRows] /\ indexer' \in [Indexers -> Indexings]
      /\ indexTask' \in [Revisions -> Messages]
      /\ \A u \in Revisions : revision'[u].state = "ready" <=> revision[u].state = "ready"
  BY <1>1
<1>3. Idle'
  BY DEF IndexInv, Idle
<1>4. IndexersTrue'
  <2>1. \A u \in Indexers : u # w => indexer'[u] = indexer[u]
    BY <1>1
  <2>2. indexer'[w] = x
    BY <1>1
  <2> QED
    BY <2>1, <2>2 DEF IndexInv, IndexersTrue
<1> QED
  BY <1>2, <1>3, <1>4, IndexSideKeeps

LEMMA IndexingFailsKeeps ==
  ASSUME IndexInv, NEW w \in Indexers, IndexingFails(w)
  PROVE  IndexInv'
<1> DEFINE v == indexer[w].version
           r == [revision[v] EXCEPT !.state = "failed", !.live = FALSE]
<1>1. PICK permanent \in BOOLEAN : indexer[w].at # "rest" /\ IndexingEnds(w, permanent)
  BY DEF IndexingFails
<1>2. UNCHANGED <<profile, alias, points, document, rebuildTask, rebuilder, repair, removal, indexScene>>
  BY DEF IndexingFails
<1>3. /\ v \in Revisions /\ revision[v] \in RevisionRows /\ indexTask[v] \in Messages
  BY <1>1 DEF IndexInv, IndexTypeOK, IndexersTrue
<1>4. r \in RevisionRows /\ r.state = "failed"
  BY <1>3 DEF RevisionRows
<1>5. indexer' = [indexer EXCEPT ![w] = NoIndexing]
  BY <1>1 DEF IndexingEnds, SetIndexer
<1>6. \/ UNCHANGED revision
      \/ revision[v].state = "processing" /\ revision' = [revision EXCEPT ![v] = r]
  BY <1>1 DEF IndexingEnds, SetRevision, LeaseHeld
<1>7. PICK m \in Messages : UNCHANGED indexTask \/ indexTask' = [indexTask EXCEPT ![v] = m]
  <2>1. /\ Redelivered(indexTask[v]) \in Messages
        /\ [indexTask[v] EXCEPT !.state = "archived"] \in Messages
    BY <1>3, MessageTyped
  <2>2. \/ UNCHANGED indexTask
        \/ indexTask' = [indexTask EXCEPT ![v] = Redelivered(indexTask[v])]
        \/ indexTask' = [indexTask EXCEPT ![v] = [indexTask[v] EXCEPT !.state = "archived"]]
    BY <1>1 DEF IndexingEnds
  <2> QED
    BY <2>1, <2>2
<1> HIDE DEF r
<1> QED
  BY <1>1, <1>2, <1>4, <1>5, <1>6, <1>7, NoneTyped, HandlerGoesKeeps

LEMMA IndexerStopsKeeps ==
  ASSUME IndexInv, NEW w \in Indexers, IndexerStops(w)
  PROVE  IndexInv'
<1> DEFINE v == indexer[w].version
           m == Redelivered(indexTask[v])
           lost == [indexer[w] EXCEPT !.adrift = TRUE]
<1>1. /\ indexer[w].at # "rest"
      /\ indexer' = [indexer EXCEPT ![w] = NoIndexing] \/ indexer' = [indexer EXCEPT ![w] = lost]
      /\ indexTask' = [indexTask EXCEPT ![v] = m]
      /\ UNCHANGED <<profile, alias, points, revision, document, rebuildTask, rebuilder, repair, removal, indexScene>>
  BY DEF IndexerStops, SetIndexer
<1>2. /\ v \in Revisions /\ revision[v] \in RevisionRows /\ indexTask[v] \in Messages
      /\ indexer[w] \in Indexings
  BY <1>1 DEF IndexInv, IndexTypeOK, IndexersTrue
<1>3. m \in Messages
  BY <1>2, MessageTyped
<1>4. /\ lost \in Indexings /\ lost.at = indexer[w].at /\ lost.version = v
      /\ lost.generation = indexer[w].generation
  BY <1>2 DEF Indexings
<1>5. NoRevision \in RevisionRows /\ NoRevision.state # "ready"
  BY NoneTyped
<1> HIDE DEF m, lost
<1> QED
  BY <1>1, <1>3, <1>4, <1>5, NoneTyped, HandlerGoesKeeps

LEMMA VersionLeaseLapsesKeeps ==
  ASSUME IndexInv, NEW v \in Revisions, VersionLeaseLapses(v)
  PROVE  IndexInv'
<1>1. /\ revision' = [revision EXCEPT ![v] = [revision[v] EXCEPT !.live = FALSE]]
      /\ UNCHANGED <<profile, alias, points, document, rebuildTask, rebuilder, indexTask, indexer, repair, removal, indexScene>>
  BY DEF VersionLeaseLapses, SetRevision
<1>2. revision \in [Revisions -> RevisionRows]
  BY DEF IndexInv, IndexTypeOK
<1>3. /\ [revision[v] EXCEPT !.live = FALSE] \in RevisionRows
      /\ [revision[v] EXCEPT !.live = FALSE].state = revision[v].state
  BY <1>2 DEF RevisionRows
<1>4. /\ revision' \in [Revisions -> RevisionRows]
      /\ \A u \in Revisions : revision'[u].state = revision[u].state
  BY <1>1, <1>2, <1>3
<1>5. Idle' /\ IndexersTrue'
  BY <1>1, <1>4 DEF IndexInv, Idle, IndexersTrue
<1> QED
  BY <1>1, <1>4, <1>5, IndexSideKeeps DEF IndexInv, IndexTypeOK

LEMMA ReconcileVersionsKeeps ==
  ASSUME IndexInv, ReconcileVersions
  PROVE  IndexInv'
<1>1. UNCHANGED <<profile, alias, points, document, rebuildTask, rebuilder, indexer, repair, removal, indexScene>>
  BY DEF ReconcileVersions
<1>2. revision \in [Revisions -> RevisionRows] /\ indexTask \in [Revisions -> Messages]
  BY DEF IndexInv, IndexTypeOK
<1>3. \A v \in Revisions :
        /\ \/ revision'[v] = revision[v]
           \/ revision[v].state = "processing" /\ revision'[v] = [revision[v] EXCEPT !.state = "failed"]
        /\ indexTask'[v] \in {indexTask[v], Enqueued(indexTask[v])}
  BY DEF ReconcileVersions
<1>4. revision' \in [Revisions -> RevisionRows] /\ indexTask' \in [Revisions -> Messages]
  <2>1. ASSUME NEW v \in Revisions PROVE revision'[v] \in RevisionRows /\ indexTask'[v] \in Messages
    <3>1. revision[v] \in RevisionRows /\ indexTask[v] \in Messages
      BY <1>2
    <3>2. [revision[v] EXCEPT !.state = "failed"] \in RevisionRows /\ Enqueued(indexTask[v]) \in Messages
      BY <3>1, MessageTyped DEF RevisionRows
    <3> QED
      BY <1>3, <3>1, <3>2
  <2>2. revision' = [v \in Revisions |-> revision'[v]] /\ indexTask' = [v \in Revisions |-> indexTask'[v]]
    BY DEF ReconcileVersions
  <2> QED
    BY <2>1, <2>2
<1>5. \A v \in Revisions : revision'[v].state = "ready" <=> revision[v].state = "ready"
  BY <1>2, <1>3 DEF RevisionRows
<1>6. "create" \in indexScene.events
  <2>1. PICK v \in Revisions : revision[v].state \in {"queued", "processing"}
    BY DEF ReconcileVersions, Candidates
  <2> QED
    BY <2>1 DEF IndexInv, Idle
<1>7. Idle' /\ IndexersTrue'
  BY <1>1, <1>6 DEF IndexInv, Idle, IndexersTrue
<1> QED
  BY <1>1, <1>4, <1>5, <1>7, IndexSideKeeps DEF IndexInv, IndexTypeOK

-----------------------------------------------------------------------------
(* What is published, activated and taken away.                            *)

\* A collection that keeps its points holds what it held, while no document
\* promises more.
LEMMA HoldsKept ==
  ASSUME \A d \in ContextDocuments :
           ~document'[d].deleted /\ document'[d].active # 0 =>
             ~document[d].deleted /\ document[d].active = document'[d].active
  PROVE  \A g : Holds(g) /\ g \in DOMAIN points' /\ points[g] \subseteq points'[g] => Holds(g)'
BY DEF Holds, HasCollection

\* Points are put in a collection; it may be new.
Put(C, g, vs) ==
  [h \in DOMAIN C \cup {g} |->
     IF h # g THEN C[h] ELSE IF g \in DOMAIN C THEN C[g] \cup vs ELSE vs]

LEMMA PutFacts ==
  ASSUME NEW C, NEW g, NEW vs
  PROVE  /\ DOMAIN Put(C, g, vs) = DOMAIN C \cup {g}
         /\ \A h \in DOMAIN C : C[h] \subseteq Put(C, g, vs)[h]
         /\ vs \subseteq Put(C, g, vs)[g]
BY DEF Put

LEMMA PutStaysIn ==
  ASSUME NEW C, NEW g, NEW vs, NEW X, \A h \in DOMAIN C : C[h] \subseteq X, vs \subseteq X
  PROVE  \A h \in DOMAIN C \cup {g} : Put(C, g, vs)[h] \subseteq X
BY DEF Put

LEMMA PublishPointsKeeps ==
  ASSUME IndexInv, NEW w \in Indexers, PublishPoints(w)
  PROVE  IndexInv'
<1> DEFINE x == indexer[w]
           y == [x EXCEPT !.at = "activate"]
<1>1. /\ x.at = "publish" /\ HasCollection(x.generation) /\ PutPoints(x.generation, {x.version})
      /\ indexer' = [indexer EXCEPT ![w] = y]
      /\ UNCHANGED <<profile, alias, revision, document, rebuildTask, rebuilder, indexTask, repair, removal, indexScene>>
  BY DEF PublishPoints, SetIndexer
<1>2. /\ x \in Indexings /\ x.version \in Revisions /\ indexer \in [Indexers -> Indexings]
      /\ DOMAIN points \subseteq Nat \ {0}
      /\ \A g \in DOMAIN points : points[g] \subseteq Revisions
      /\ x.generation <= profile.active
  BY <1>1 DEF IndexInv, IndexTypeOK, IndexersTrue
<1>3. /\ y \in Indexings /\ y.at = "activate" /\ y.version = x.version /\ y.generation = x.generation
  BY <1>2 DEF Indexings
<1> HIDE DEF y
<1>4. /\ DOMAIN points' = DOMAIN points /\ \A g \in DOMAIN points : points[g] \subseteq points'[g]
      /\ x.version \in points'[x.generation]
      /\ \A g \in DOMAIN points : points'[g] \subseteq Revisions
  <2>1. points' = Put(points, x.generation, {x.version})
    BY <1>1 DEF PutPoints, HasCollection, Put
  <2>2. DOMAIN points' = DOMAIN points \cup {x.generation}
    BY ONLY <2>1, PutFacts
  <2>3. \A g \in DOMAIN points : points[g] \subseteq points'[g]
    BY ONLY <2>1, PutFacts
  <2>4. x.version \in points'[x.generation]
    BY ONLY <2>1, PutFacts
  <2>5. \A g \in DOMAIN points \cup {x.generation} : points'[g] \subseteq Revisions
    <3>1. \A g \in DOMAIN points : points[g] \subseteq Revisions
      BY <1>2
    <3>2. {x.version} \subseteq Revisions
      BY <1>2
    <3> QED
      BY ONLY <2>1, <3>1, <3>2, PutStaysIn
  <2> QED
    BY <1>1, <2>2, <2>3, <2>4, <2>5 DEF HasCollection
<1>5. indexer' \in [Indexers -> Indexings] /\ indexer'[w] = y /\ \A u \in Indexers : u # w => indexer'[u] = indexer[u]
  BY <1>1, <1>2, <1>3
<1>6. /\ \A g : Holds(g) => Holds(g)'
      /\ \A g : HasCollection(g)' <=> HasCollection(g)
  BY <1>1, <1>4, HoldsKept DEF Holds, HasCollection
<1>7. IndexTypeOK'
  BY <1>1, <1>2, <1>4, <1>5 DEF IndexInv, IndexTypeOK
<1>8. ProfileHolds' /\ Generations' /\ OneRebuild'
  <2>1. (Holds(profile.active) => Holds(profile.active)')
    BY <1>1, <1>6
  <2>2. ProfileHolds' /\ OneRebuild'
    BY <1>1, <2>1 DEF IndexInv, ProfileHolds, OneRebuild, Still
  <2>3. Generations'
    BY <1>1, <1>4 DEF IndexInv, Generations, HasCollection
  <2> QED
    BY <2>2, <2>3
<1>9. RebuildersTrue'
  <2>1. ASSUME NEW u \in Rebuilders, rebuilder[u].at \notin {"rest", "begin"}
        PROVE  BuildTrue(rebuilder[u])'
    <3>1. BuildTrue(rebuilder[u])
      BY <2>1 DEF IndexInv, RebuildersTrue
    <3>2. Promised' = Promised /\ Steady' = Steady
      BY <1>1 DEF Promised, Steady
    <3> DEFINE r == rebuilder[u]
    <3>3. /\ HasCollection(r.next.target)' <=> HasCollection(r.next.target)
          /\ Holds(r.next.target) => Holds(r.next.target)'
          /\ HasCollection(r.next.target) => points[r.next.target] \subseteq points'[r.next.target]
          /\ r' = r
      BY <1>1, <1>4, <1>6 DEF HasCollection
    <3> QED
      BY <1>1, <3>1, <3>2, <3>3 DEF BuildTrue
  <2> QED
    BY <1>1, <2>1 DEF IndexInv, RebuildersTrue, BeginTrue
<1>10. AliasTrue' /\ RepairTrue'
  <2>1. Switched(profile) => Switched(profile)'
    BY <1>1, <1>6 DEF Switched, Steady
  <2> QED
    BY <1>1, <2>1 DEF IndexInv, AliasTrue, RepairTrue, Past
<1>11. DocumentsTrue' /\ Idle'
  BY <1>1 DEF IndexInv, DocumentsTrue, Idle, Still
<1>12. IndexersTrue'
  <2>1. IndexersTrue /\ x.generation # 0
    BY <1>1, <1>2 DEF IndexInv, HasCollection
  <2>2. ASSUME NEW u \in Indexers, indexer'[u].at = "activate", u # w, indexer[u].generation = profile.active
        PROVE  indexer[u].version \in points'[profile.active]
    <3>1. indexer[u].at = "activate" /\ indexer[u].version \in points[profile.active] /\ profile.active # 0
      BY <1>5, <2>1, <2>2 DEF IndexersTrue
    <3>2. profile.active \in DOMAIN points
      BY <3>1 DEF IndexInv, ProfileHolds, Holds, HasCollection
    <3> QED
      BY <1>4, <3>1, <3>2
  <2> QED
    BY <1>1, <1>2, <1>3, <1>4, <1>5, <2>1, <2>2 DEF IndexersTrue
<1> QED
  BY <1>7, <1>8, <1>9, <1>10, <1>11, <1>12 DEF IndexInv

LEMMA VersionsAreNumbers == \A v \in Revisions : v \in Nat /\ v # 0
BY IndexAssumption

\* The version that is activated is in the active collection, and the document
\* has it or keeps a later one.
LEMMA ActivatedVersion ==
  ASSUME IndexInv, NEW w \in Indexers, ActivateVersion(w)
  PROVE  LET v == indexer[w].version
             d == DocumentOf[v]
         IN /\ v \in Revisions /\ d \in ContextDocuments /\ revision[v].state = "processing"
            /\ profile.active # 0 /\ HasCollection(profile.active) /\ v \in points[profile.active]
            /\ \/ document[d].active # v /\ document' = document
                  /\ document[d].active > v
               \/ document' = [document EXCEPT ![d].active = v] /\ document[d].active < v
<1> DEFINE v == indexer[w].version
           d == DocumentOf[v]
           ready == {u \in Revisions : DocumentOf[u] = d /\ revision[u].state = "ready"}
<1>1. /\ indexer[w].at = "activate" /\ LeaseHeld(w) /\ profile.active = indexer[w].generation
      /\ document' = [document EXCEPT ![d].active = Max(ready \cup {v})]
  BY DEF ActivateVersion, SameGeneration
<1>2. v \in Revisions /\ v \in points[profile.active] /\ profile.active # 0
  BY <1>1 DEF IndexInv, IndexersTrue
<1>3. HasCollection(profile.active)
  BY <1>2 DEF IndexInv, ProfileHolds, Holds
<1>4. d \in ContextDocuments /\ revision[v].state = "processing"
  BY <1>1, <1>2 DEF ContextDocuments, LeaseHeld
<1>5. document[d].active \in Nat /\ document \in [ContextDocuments -> DocumentRows] /\ v \in Nat \ {0}
      /\ document[d] \in DocumentRows
  <2>1. document \in [ContextDocuments -> DocumentRows] /\ v \in Nat \ {0}
    BY <1>2, IndexAssumption DEF IndexInv, IndexTypeOK
  <2>2. document[d] \in DocumentRows
    BY <1>4, <2>1
  <2>3. document[d].active \in Revisions \cup {0}
    BY <2>2 DEF DocumentRows
  <2> HIDE DEF d, v
  <2>4. document[d].active \in Nat
    BY <2>3, VersionsAreNumbers
  <2> QED
    BY <2>1, <2>2, <2>4
<1>6. /\ \A u \in ready : u <= document[d].active
      /\ document[d].active # 0 => document[d].active \in ready
  BY <1>4, <1>5 DEF IndexInv, DocumentsTrue, IndexTypeOK, DocumentRows
<1>7. /\ Max(ready \cup {v}) \in ready \cup {v} /\ \A u \in ready \cup {v} : u <= Max(ready \cup {v})
  <2>1. ready \cup {v} \in SUBSET Nat /\ ready \cup {v} \subseteq Revisions /\ ready \cup {v} # {}
    BY <1>2, IndexAssumption
  <2>2. IsFiniteSet(ready \cup {v})
    BY <2>1, IndexAssumption, FS_Subset
  <2> QED
    BY <2>1, <2>2, FiniteExtremes
<1>8. v \notin ready
  BY <1>4
<1>9. ready \cup {v} \subseteq Nat
  BY <1>2, IndexAssumption
<1> DEFINE top == Max(ready \cup {v})
<1>10. CASE top = v
  <2>1. document[d].active < v
    <3> HIDE DEF ready, d, v
    <3>1. document[d].active # 0 => document[d].active <= v /\ document[d].active # v
      BY <1>6, <1>7, <1>8, <1>10
    <3> QED
      BY <1>5, <3>1
  <2> QED
    BY <1>1, <1>2, <1>3, <1>4, <1>10, <2>1
<1>11. CASE top # v
  <2>1. top \in ready /\ v < top /\ top = document[d].active
    <3> HIDE DEF ready, d, v
    <3>1. top \in ready /\ v <= top /\ top \in Nat
      BY <1>7, <1>9, <1>11
    <3>2. top <= document[d].active
      BY <1>6, <3>1
    <3>3. document[d].active \in ready
      BY <1>5, <1>6, <3>1, <3>2, <1>11
    <3>4. document[d].active <= top
      BY <1>7, <3>3
    <3> QED
      BY <1>5, <1>11, <3>1, <3>2, <3>4
  <2>2. document' = document
    <3> HIDE DEF top
    <3>1. [document[d] EXCEPT !.active = document[d].active] = document[d]
      BY <1>5 DEF DocumentRows
    <3> QED
      BY <1>1, <1>4, <1>5, <2>1, <3>1 DEF top
  <2> QED
    BY <1>1, <1>2, <1>3, <1>4, <2>1, <2>2
<1> QED
  BY <1>10, <1>11

\* What stays when the profile and the collections do, and documents change as
\* no build in progress has to mind.
LEMMA DocumentSideKeeps ==
  ASSUME IndexInv,
         UNCHANGED <<profile, alias, points, rebuildTask, rebuilder, repair, removal, indexScene>>,
         IndexTypeOK', DocumentsTrue', Idle', IndexersTrue',
         profile.active # 0 => Holds(profile.active)',
         \A w \in Rebuilders : rebuilder[w].at \in {"switch", "swap"} => Holds(rebuilder[w].next.target)',
         Switched(profile) => Switched(profile)',
         Steady /\ ~Still => Promised' = Promised
  PROVE  IndexInv'
<1>1. ProfileHolds' /\ Generations' /\ OneRebuild'
  BY DEF IndexInv, ProfileHolds, Generations, OneRebuild, HasCollection, Still
<1>2. RebuildersTrue'
  <2>1. ASSUME NEW w \in Rebuilders, rebuilder[w].at \notin {"rest", "begin"}
        PROVE  BuildTrue(rebuilder[w])'
    <3>1. BuildTrue(rebuilder[w]) /\ ~Still
      BY <2>1 DEF IndexInv, RebuildersTrue, OneRebuild
    <3>2. rebuilder[w].at \in {"switch", "swap"} => Holds(rebuilder[w].next.target)'
      OBVIOUS
    <3> QED
      BY <3>1, <3>2 DEF BuildTrue, HasCollection, Steady
  <2> QED
    BY <2>1 DEF IndexInv, RebuildersTrue, BeginTrue
<1>3. AliasTrue' /\ RepairTrue'
  BY DEF IndexInv, AliasTrue, RepairTrue, Past
<1> QED
  BY <1>1, <1>2, <1>3 DEF IndexInv

LEMMA CalmScene ==
  ASSUME CalmIndexing, IndexInv
  PROVE  /\ "hiccup" \notin indexScene.events
         /\ Still \/ ("stall" \notin indexScene.events /\ "status" \notin indexScene.events
                      /\ "late" \notin indexScene.events)
         /\ Still \/ Steady \/ ("crash" \notin indexScene.events /\ "database" \notin indexScene.events)
BY DEF CalmIndexing, IndexInv, IndexTypeOK, Still, Steady

LEMMA ActivateVersionKeeps ==
  ASSUME CalmIndexing, IndexInv, NEW w \in Indexers, ActivateVersion(w)
  PROVE  IndexInv'
<1> DEFINE v == indexer[w].version
           d == DocumentOf[v]
           row == [revision[v] EXCEPT !.state = "ready", !.live = FALSE]
<1>1. /\ v \in Revisions /\ d \in ContextDocuments /\ revision[v].state = "processing"
      /\ profile.active # 0 /\ HasCollection(profile.active) /\ v \in points[profile.active]
      /\ \/ document[d].active # v /\ document' = document /\ document[d].active > v
         \/ document' = [document EXCEPT ![d].active = v] /\ document[d].active < v
  BY ActivatedVersion
<1>2. /\ indexer[w].at = "activate" /\ ~document[d].deleted
      /\ revision' = [revision EXCEPT ![v] = row]
      /\ indexTask' = [indexTask EXCEPT ![v] = NotQueued]
      /\ indexer' = [indexer EXCEPT ![w] = NoIndexing]
      /\ "late" \in indexScene.events \/ \A r \in Rebuilders : rebuilder[r].at \notin {"switch", "swap"}
      /\ UNCHANGED <<profile, alias, points, rebuildTask, rebuilder, repair, removal, indexScene>>
  BY DEF ActivateVersion, SetRevision, SetIndexer
<1>3. /\ revision \in [Revisions -> RevisionRows] /\ indexTask \in [Revisions -> Messages]
      /\ indexer \in [Indexers -> Indexings] /\ document \in [ContextDocuments -> DocumentRows]
  BY DEF IndexInv, IndexTypeOK
<1>4. row \in RevisionRows /\ row.state = "ready"
  BY <1>1, <1>3 DEF RevisionRows
<1>5. /\ revision' \in [Revisions -> RevisionRows] /\ revision'[v].state = "ready"
      /\ \A u \in Revisions : u # v => revision'[u] = revision[u]
  <2> HIDE DEF row, v
  <2> QED
    BY <1>1, <1>2, <1>3, <1>4
<1>6. /\ indexTask' \in [Revisions -> Messages] /\ indexer' \in [Indexers -> Indexings]
      /\ indexer'[w].at = "rest" /\ \A u \in Indexers : u # w => indexer'[u] = indexer[u]
  BY <1>2, <1>3, NoneTyped
<1>7. /\ document' \in [ContextDocuments -> DocumentRows]
      /\ \A e \in ContextDocuments : /\ e # d => document'[e] = document[e]
                                     /\ document'[e].enabled = document[e].enabled
                                     /\ document'[e].deleted = document[e].deleted
      /\ document'[d].active \in {v, document[d].active} /\ v <= document'[d].active
      /\ document[d].active <= document'[d].active
  <2>1. document[d] \in DocumentRows /\ document[d].active \in Nat /\ v \in Nat
    <3>1. document[d] \in DocumentRows
      BY <1>1, <1>3
    <3>2. document[d].active \in Revisions \cup {0}
      BY <3>1 DEF DocumentRows
    <3> HIDE DEF d, v
    <3> QED
      BY <1>1, <3>1, <3>2, VersionsAreNumbers
  <2>2. [document[d] EXCEPT !.active = v] \in DocumentRows
    BY <1>1, <2>1 DEF DocumentRows
  <2>3. CASE document' = document /\ document[d].active > v
    <3> HIDE DEF d, v
    <3> QED
      BY <1>3, <2>1, <2>3
  <2>4. CASE document' = [document EXCEPT ![d].active = v] /\ document[d].active < v
    <3>1. document' = [document EXCEPT ![d] = [document[d] EXCEPT !.active = v]]
      BY <2>4
    <3>2. /\ [document[d] EXCEPT !.active = v].active = v
          /\ [document[d] EXCEPT !.active = v].enabled = document[d].enabled
          /\ [document[d] EXCEPT !.active = v].deleted = document[d].deleted
      BY <2>1 DEF DocumentRows
    <3> DEFINE new == [document[d] EXCEPT !.active = v]
    <3> HIDE DEF new, d, v
    <3>3. document' = [document EXCEPT ![d] = new]
      BY <3>1 DEF new
    <3>4. new \in DocumentRows /\ new.active = v /\ new.enabled = document[d].enabled
          /\ new.deleted = document[d].deleted
      BY <2>2, <3>2 DEF new
    <3>5. document' \in [ContextDocuments -> DocumentRows] /\ document'[d] = new
          /\ \A e \in ContextDocuments : e # d => document'[e] = document[e]
      BY <1>1, <1>3, <3>3, <3>4
    <3> QED
      BY <2>1, <2>4, <3>4, <3>5
  <2> QED
    BY <1>1, <2>3, <2>4
<1> HIDE DEF row
<1>8. "create" \in indexScene.events
  BY <1>2 DEF IndexInv, Idle
<1>9. ~Steady
  BY <1>8 DEF Steady
<1>10. IndexTypeOK'
  BY <1>2, <1>5, <1>6, <1>7 DEF IndexInv, IndexTypeOK
<1>11. DocumentsTrue'
  <2>1. ASSUME NEW e \in ContextDocuments, document'[e].active # 0
        PROVE  DocumentOf[document'[e].active] = e /\ revision'[document'[e].active].state = "ready"
    <3>1. CASE document'[e].active = document[e].active
      <4>1. /\ DocumentOf[document[e].active] = e /\ revision[document[e].active].state = "ready"
            /\ document[e] \in DocumentRows
        BY <1>3, <2>1, <3>1 DEF IndexInv, DocumentsTrue
      <4>2. document[e].active \in Revisions
        BY <2>1, <3>1, <4>1 DEF DocumentRows
      <4> QED
        BY <1>5, <3>1, <4>1, <4>2
    <3>2. CASE document'[e].active # document[e].active
      <4>1. e = d /\ document'[e].active = v
        BY <1>7, <3>2
      <4> QED
        BY <1>5, <4>1
    <3> QED
      BY <3>1, <3>2
  <2>2. ASSUME NEW e \in ContextDocuments, NEW u \in Revisions, DocumentOf[u] = e,
               revision'[u].state = "ready"
        PROVE  u <= document'[e].active
    <3>1. CASE u = v
      BY <1>7, <2>2, <3>1
    <3>2. CASE u # v
      <4>1. u <= document[e].active /\ u \in Nat
        BY <1>5, <2>2, <3>2, VersionsAreNumbers DEF IndexInv, DocumentsTrue
      <4>2. document[e].active <= document'[e].active /\ document[e].active \in Nat /\ document'[e].active \in Nat
        <5>1. document[e] \in DocumentRows /\ document'[e] \in DocumentRows
          BY <1>3, <1>7
        <5>2. document[e].active \in Revisions \cup {0} /\ document'[e].active \in Revisions \cup {0}
          BY <5>1 DEF DocumentRows
        <5>3. document[e].active \in Nat /\ document'[e].active \in Nat
          BY <5>2, VersionsAreNumbers
        <5>4. e = d \/ document'[e] = document[e]
          BY <1>7
        <5> HIDE DEF d, v
        <5> QED
          BY <1>7, <5>3, <5>4
      <4> HIDE DEF d, v
      <4> QED
        BY ONLY <4>1, <4>2
    <3> QED
      BY <3>1, <3>2
  <2>3. \A e \in ContextDocuments : ~Still' => document'[e].enabled
    BY <1>2, <1>7 DEF IndexInv, DocumentsTrue, Still
  <2> QED
    BY <2>1, <2>2, <2>3 DEF DocumentsTrue
<1>12. Idle' /\ IndexersTrue'
  <2>1. Idle'
    BY <1>2, <1>8 DEF Idle
  <2> QED
    BY <1>2, <1>6, <2>1 DEF IndexInv, IndexersTrue
<1>13. Holds(profile.active)'
  <2>1. Holds(profile.active)
    BY <1>1 DEF IndexInv, ProfileHolds
  <2>2. ASSUME NEW e \in ContextDocuments, ~document'[e].deleted, document'[e].active # 0
        PROVE  document'[e].active \in points[profile.active]
    <3>1. document'[e].active = v \/ document'[e].active = document[e].active
      BY <1>7
    <3>2. ~document[e].deleted
      BY <1>7, <2>2
    <3> QED
      BY <1>1, <2>1, <2>2, <3>1, <3>2 DEF Holds
  <2> QED
    BY <1>2, <2>1, <2>2 DEF Holds, HasCollection
<1>14. /\ \A r \in Rebuilders : rebuilder[r].at \notin {"switch", "swap"}
       /\ ~Switched(profile)
  <2>1. CASE Still
    BY <2>1 DEF IndexInv, OneRebuild, ProfileHolds, Switched, Building
  <2>2. CASE ~Still
    <3>1. \A r \in Rebuilders : rebuilder[r].at \notin {"switch", "swap"}
      BY <1>2, <2>2, CalmScene
    <3> QED
      BY <1>9, <3>1 DEF Switched
  <2> QED
    BY <2>1, <2>2
<1> QED
  BY <1>2, <1>9, <1>10, <1>11, <1>12, <1>13, <1>14, DocumentSideKeeps

\* An administrator takes a document away, or turns it on or off.
LEMMA DocumentChangesKeep ==
  ASSUME CalmIndexing, IndexInv, NEW d \in ContextDocuments,
         DeleteDocument(d) \/ ChangeDocumentStatus(d)
  PROVE  IndexInv'
<1> DEFINE gone == [document[d] EXCEPT !.deleted = TRUE]
           turned == [document[d] EXCEPT !.enabled = ~document[d].enabled]
<1>1. /\ UNCHANGED <<profile, alias, points, revision, rebuildTask, rebuilder, indexTask, indexer, repair, removal, indexScene>>
      /\ \/ document' = [document EXCEPT ![d] = gone] /\ "delete" \in indexScene.events
         \/ document' = [document EXCEPT ![d] = turned] /\ "status" \in indexScene.events
  BY DEF DeleteDocument, ChangeDocumentStatus, IndexFault
<1>2. document \in [ContextDocuments -> DocumentRows] /\ document[d] \in DocumentRows
  BY DEF IndexInv, IndexTypeOK
<1>3. /\ gone \in DocumentRows /\ gone.active = document[d].active /\ gone.deleted
      /\ gone.enabled = document[d].enabled
  BY <1>2 DEF DocumentRows
<1>4. /\ turned \in DocumentRows /\ turned.active = document[d].active /\ turned.deleted = document[d].deleted
  BY <1>2 DEF DocumentRows
<1> HIDE DEF gone, turned
<1>5. /\ document' \in [ContextDocuments -> DocumentRows]
      /\ \A e \in ContextDocuments : /\ document'[e].active = document[e].active
                                     /\ document[e].deleted => document'[e].deleted
  BY <1>1, <1>2, <1>3, <1>4
<1>6. "delete" \in indexScene.events \/ Still
  BY <1>1, CalmScene
<1>7. \A e \in ContextDocuments : ~Still => document'[e].enabled
  <2>1. SUFFICES ASSUME ~Still, NEW e \in ContextDocuments PROVE document'[e].enabled
    OBVIOUS
  <2>2. document[e].enabled /\ document' = [document EXCEPT ![d] = gone]
    BY <1>1, <2>1, CalmScene DEF IndexInv, DocumentsTrue
  <2>3. document[d].enabled
    BY <2>1 DEF IndexInv, DocumentsTrue
  <2> QED
    BY <1>2, <1>3, <2>2, <2>3
<1>8. IndexTypeOK' /\ Idle' /\ IndexersTrue'
  BY <1>1, <1>5 DEF IndexInv, IndexTypeOK, Idle, IndexersTrue
<1>9. DocumentsTrue'
  BY <1>1, <1>5, <1>7 DEF IndexInv, DocumentsTrue, Still
<1>10. \A g : Holds(g) => Holds(g)'
  BY <1>1, <1>5, HoldsKept DEF Holds, HasCollection
<1>11. profile.active # 0 => Holds(profile.active)'
  BY <1>1, <1>10 DEF IndexInv, ProfileHolds
<1>12. ASSUME NEW w \in Rebuilders, rebuilder[w].at \in {"switch", "swap"}
       PROVE  Holds(rebuilder[w].next.target)'
  <2>1. Holds(rebuilder[w].next.target)
    BY <1>12 DEF IndexInv, RebuildersTrue, BuildTrue
  <2> QED
    BY <1>1, <1>10, <2>1
<1>13. Switched(profile) => Switched(profile)'
  BY <1>1, <1>10 DEF Switched, Steady
<1>14. ~(Steady /\ ~Still)
  BY <1>6 DEF Steady
<1> QED
  BY <1>1, <1>8, <1>9, <1>11, <1>12, <1>13, <1>14, DocumentSideKeeps

-----------------------------------------------------------------------------
(* Rebuilds.                                                               *)

\* The steps of a row: a build begins, is switched to, is taken back.
RowMoves(p, q) ==
  \/ q = p
  \/ p.state = "ready" /\ q = ProfileIndex("rebuilding", p.active, p.active + 1)
  \/ p.state = "failed" /\ q = ProfileIndex("rebuilding", 0, p.target + 1)
  \/ Building(p) /\ q = ProfileIndex("ready", p.target, 0)
  \/ Building(p) /\ p.active # 0 /\ q = ProfileIndex("ready", p.active, 0)
  \/ Building(p) /\ p.active = 0 /\ q = ProfileIndex("failed", 0, p.target)

LEMMA ShapedFacts ==
  ASSUME NEW p, Shaped(p)
  PROVE  /\ p \in Profiles /\ p.active \in Nat /\ p.target \in Nat
         /\ p = ProfileIndex(p.state, p.active, p.target)
         /\ Building(p) => p.target > p.active
         /\ p.state \in {"provisioning", "rebuilding", "ready", "failed"}
         /\ p.state = "failed" => p.active = 0
BY DEF Shaped, Profiles, Building, ProfileIndex

LEMMA RowMovesGrow ==
  ASSUME NEW p, NEW q, Shaped(p), RowMoves(p, q)
  PROVE  p.active <= q.active
<1>1. p.active \in Nat /\ p.target \in Nat /\ (Building(p) => p.target > p.active)
  BY ShapedFacts
<1>2. \A s, a, t : ProfileIndex(s, a, t).active = a
  BY DEF ProfileIndex
<1>3. p.state = "failed" => p.active = 0
  BY ShapedFacts
<1>4. q = p \/ q.active = p.active \/ (Building(p) /\ q.active = p.target)
  BY <1>2, <1>3 DEF RowMoves
<1> QED
  BY <1>1, <1>4

LEMMA RowMovesOn ==
  ASSUME NEW p, NEW q, Shaped(p), RowMoves(p, q), NEW t \in Nat,
         p.active = 0, p.target > t \/ (p.target = t /\ p.state = "failed")
  PROVE  q.active > 0 \/ q.target > t \/ (q.target = t /\ q.state = "failed")
<1>1. p.active \in Nat /\ p.target \in Nat /\ (Building(p) => p.target > p.active)
  BY ShapedFacts
<1>2. \A s, a, u : /\ ProfileIndex(s, a, u).state = s /\ ProfileIndex(s, a, u).active = a
                   /\ ProfileIndex(s, a, u).target = u
  BY DEF ProfileIndex
<1>3. p.state # "ready"
  BY DEF Shaped
<1>4. CASE q = p
  BY <1>4
<1>5. CASE p.state = "failed" /\ q = ProfileIndex("rebuilding", 0, p.target + 1)
  <2>1. q.target = p.target + 1
    BY <1>2, <1>5
  <2> QED
    BY <1>1, <2>1
<1>6. CASE Building(p) /\ q = ProfileIndex("ready", p.target, 0)
  <2>1. q.active = p.target
    BY <1>2, <1>6
  <2> QED
    BY <1>1, <1>6, <2>1
<1>7. CASE Building(p) /\ q = ProfileIndex("failed", 0, p.target)
  <2>1. q.target = p.target /\ q.state = "failed"
    BY <1>2, <1>7
  <2> QED
    BY <2>1
<1> QED
  BY <1>3, <1>4, <1>5, <1>6, <1>7 DEF RowMoves

LEMMA PastStays ==
  ASSUME NEW seen, Shaped(profile), RowMoves(profile, profile'), Shaped(profile'),
         Shaped(seen), seen.state # "failed"
  PROVE  /\ profile.active <= profile'.active
         /\ Past(seen) => Past(seen)'
<1>1. /\ profile.active \in Nat /\ profile'.active \in Nat /\ seen.active \in Nat
  BY ShapedFacts
<1>2. profile.active <= profile'.active
  BY RowMovesGrow
<1>3. seen.target \in Nat
  BY ShapedFacts
<1>4. profile.active = 0 /\ (profile.target > seen.target \/ (profile.target = seen.target /\ profile.state = "failed"))
        => \/ profile'.active > 0 \/ profile'.target > seen.target
           \/ profile'.target = seen.target /\ profile'.state = "failed"
  BY <1>3, RowMovesOn
<1> QED
  BY <1>1, <1>2, <1>4 DEF Past

\* A row that is past the switch stays so or is finished.
StaysSwitched ==
  Switched(profile) =>
    \/ profile' = profile /\ Switched(profile)'
    \/ profile' = ProfileIndex("ready", profile.target, 0)

LEMMA AliasKept ==
  ASSUME IndexInv, Shaped(profile)', RowMoves(profile, profile'), StaysSwitched, alias' \in {alias, 0}
  PROVE  AliasTrue'
<1>1. Shaped(profile) /\ Shaped(profile') /\ alias \in Nat
  BY DEF IndexInv, ProfileHolds, IndexTypeOK, Shaped
<1>2. /\ profile.active \in Nat /\ profile.target \in Nat /\ profile'.active \in Nat
      /\ Switched(profile) => profile.target > profile.active
  BY <1>1, ShapedFacts DEF Switched
<1>3. /\ ProfileIndex("ready", profile.target, 0).active = profile.target
  BY DEF ProfileIndex
<1>4. profile.active <= profile'.active
  BY <1>1, RowMovesGrow
<1>5. alias <= profile.active \/ (alias = profile.target /\ Switched(profile))
  BY DEF IndexInv, AliasTrue
<1>6. CASE alias' <= profile.active
  <2>1. alias' \in Nat
    BY <1>1
  <2>2. alias' <= profile'.active
    BY <1>2, <1>4, <1>6, <2>1
  <2> QED
    BY <2>2 DEF AliasTrue
<1>7. CASE alias' = alias /\ alias = profile.target /\ Switched(profile)
  <2>1. CASE profile' = profile /\ Switched(profile)'
    BY <1>7, <2>1 DEF AliasTrue
  <2>2. CASE profile' = ProfileIndex("ready", profile.target, 0)
    <3>1. alias' <= profile'.active
      BY <1>1, <1>2, <1>3, <1>7, <2>2
    <3> QED
      BY <3>1 DEF AliasTrue
  <2> QED
    BY <1>7, <2>1, <2>2 DEF StaysSwitched
<1>8. 0 <= profile.active
  BY <1>2
<1> QED
  BY <1>5, <1>6, <1>7, <1>8

LEMMA ViewsKept ==
  ASSUME IndexInv, Shaped(profile)', RowMoves(profile, profile'), StaysSwitched,
         UNCHANGED repair
  PROVE  (alias' \in {alias, 0} => AliasTrue') /\ RepairTrue'
<1>1. Shaped(profile) /\ Shaped(profile') /\ alias \in Nat
  BY DEF IndexInv, ProfileHolds, IndexTypeOK, Shaped
<1>2. /\ profile.active \in Nat /\ profile.target \in Nat /\ profile'.active \in Nat
      /\ Switched(profile) => profile.target > profile.active
  BY <1>1, ShapedFacts DEF Switched
<1>3. /\ ProfileIndex("ready", profile.target, 0).active = profile.target
  BY DEF ProfileIndex
<1>4. profile.active <= profile'.active
  BY <1>1, RowMovesGrow
<1>5. alias' \in {alias, 0} => AliasTrue'
  BY AliasKept
<1>6. ASSUME repair.at # "rest"
      PROVE  /\ Shaped(repair.seen) /\ repair.seen.state # "failed"
             /\ repair.seen.active <= profile'.active
             /\ Past(repair.seen) => Past(repair.seen)'
             /\ profile = repair.seen /\ Switched(profile) =>
                  Past(repair.seen)' \/ (profile' = repair.seen /\ Switched(profile)')
  <2> DEFINE seen == repair.seen
  <2>1. Shaped(seen) /\ seen.state # "failed" /\ seen.active <= profile.active
    BY <1>6 DEF IndexInv, RepairTrue
  <2>2. seen.active \in Nat
    BY <2>1, ShapedFacts
  <2>3. seen.active <= profile'.active
    <3> HIDE DEF seen
    <3> QED
      BY <1>2, <1>4, <2>1, <2>2
  <2>4. PICK s : s = seen
    OBVIOUS
  <2>5. Past(s) => Past(s)'
    BY <1>1, <2>1, <2>4, PastStays
  <2>6. Past(seen) => Past(seen)'
    BY <2>4, <2>5 DEF Past
  <2>7. ASSUME profile = seen, Switched(profile)
        PROVE  Past(seen)' \/ (profile' = seen /\ Switched(profile)')
    <3>1. CASE profile' = profile /\ Switched(profile)'
      BY <2>7, <3>1
    <3>2. CASE profile' = ProfileIndex("ready", profile.target, 0)
      <4>1. profile'.active > seen.active
        BY <1>2, <1>3, <2>7, <3>2
      <4> QED
        BY <4>1 DEF Past
    <3> QED
      BY <2>7, <3>1, <3>2 DEF StaysSwitched
  <2> QED
    BY <2>1, <2>3, <2>6, <2>7
<1>7. RepairTrue'
  <2>1. RepairTrue
    BY DEF IndexInv
  <2>2. SUFFICES ASSUME repair.at # "rest"
                 PROVE  /\ Shaped(repair.seen)' /\ repair.seen.state # "failed"
                        /\ repair.seen.active <= profile'.active
                        /\ repair.at = "restore" => Past(repair.seen)'
                        /\ repair.at = "apply" /\ repair.plan \in {"fail", "restore"} => Past(repair.seen)'
                        /\ repair.at = "apply" /\ repair.plan = "finish" =>
                             Past(repair.seen)' \/ (profile' = repair.seen /\ Switched(profile)')
    BY DEF RepairTrue
  <2>3. Shaped(repair.seen)'
    BY <1>6, <2>2 DEF Shaped
  <2> QED
    BY <1>6, <2>1, <2>2, <2>3 DEF RepairTrue
<1> QED
  BY <1>5, <1>7

\* What stays when versions and documents do, and the active collection loses
\* nothing.
LEMMA RowsKept ==
  ASSUME IndexInv, UNCHANGED <<revision, document, indexTask, indexer, indexScene>>,
         Shaped(profile)', RowMoves(profile, profile'),
         profile'.active = profile.active /\ profile.active # 0 =>
           points[profile.active] \subseteq points'[profile.active]
  PROVE  DocumentsTrue' /\ Idle' /\ IndexersTrue'
<1>1. Shaped(profile) /\ Shaped(profile')
  BY DEF IndexInv, ProfileHolds, Shaped
<1>2. profile.active \in Nat /\ profile'.active \in Nat /\ profile.active <= profile'.active
  BY <1>1, ShapedFacts, RowMovesGrow
<1>3. DocumentsTrue' /\ Idle'
  BY DEF IndexInv, DocumentsTrue, Idle, Still
<1>4. ASSUME NEW w \in Indexers, indexer[w].at # "rest"
      PROVE  /\ indexer[w].version \in Revisions /\ indexer[w].generation <= profile'.active
             /\ indexer[w].at = "activate" =>
                  /\ indexer[w].generation # 0
                  /\ indexer[w].generation = profile'.active => indexer[w].version \in points'[profile'.active]
  <2>1. /\ indexer[w].version \in Revisions /\ indexer[w].generation <= profile.active
        /\ indexer[w].at = "activate" =>
             /\ indexer[w].generation # 0
             /\ indexer[w].generation = profile.active => indexer[w].version \in points[profile.active]
    BY <1>4 DEF IndexInv, IndexersTrue
  <2>2. indexer[w].generation \in Nat
    BY DEF IndexInv, IndexTypeOK, Indexings
  <2>3. indexer[w].generation = profile'.active => profile'.active = profile.active
    BY <1>2, <2>1, <2>2
  <2> QED
    BY <1>2, <2>1, <2>2, <2>3
<1> QED
  BY <1>3, <1>4 DEF IndexersTrue

\* A step of one rebuild.
LEMMA RebuildMoves ==
  ASSUME IndexInv, NEW w \in Rebuilders, NEW r \in Rebuilds,
         rebuilder' = [rebuilder EXCEPT ![w] = r],
         \A u \in Rebuilders : u # w => rebuilder[u].at = "rest",
         UNCHANGED <<revision, document, indexTask, indexer, repair, removal, indexScene>>,
         rebuildTask' \in Messages,
         r.at # "rest" => ~Still /\ ~r.adrift /\ rebuildTask'.state = "running",
         r.at = "begin" => BeginTrue(r),
         r.at \notin {"rest", "begin"} => BuildTrue(r)',
         ProfileHolds', Generations', RowMoves(profile, profile'), AliasTrue', RepairTrue',
         alias' \in Nat,
         DOMAIN points' \subseteq Nat \ {0}, \A g \in DOMAIN points' : points'[g] \subseteq Revisions,
         profile'.active = profile.active /\ profile.active # 0 =>
           points[profile.active] \subseteq points'[profile.active]
  PROVE  IndexInv'
<1>1. Shaped(profile)' /\ profile' \in Profiles
  BY DEF ProfileHolds, Shaped
<1>2. DocumentsTrue' /\ Idle' /\ IndexersTrue'
  BY <1>1, RowsKept
<1>3. /\ rebuilder' \in [Rebuilders -> Rebuilds] /\ rebuilder'[w] = r
      /\ \A u \in Rebuilders : u # w => rebuilder'[u] = rebuilder[u] /\ rebuilder'[u].at = "rest"
  BY DEF IndexInv, IndexTypeOK
<1>4. IndexTypeOK'
  BY <1>1, <1>3 DEF IndexInv, IndexTypeOK
<1>5. OneRebuild'
  BY <1>3 DEF OneRebuild, Still
<1>6. RebuildersTrue'
  <2>1. r.at = "begin" => BeginTrue(rebuilder[w])'
    BY <1>3 DEF BeginTrue, Begun, Shaped, ProfileIndex
  <2>2. r.at \notin {"rest", "begin"} => BuildTrue(rebuilder[w])'
    BY <1>3 DEF BuildTrue
  <2> QED
    BY <1>3, <2>1, <2>2 DEF RebuildersTrue
<1> QED
  BY <1>2, <1>4, <1>5, <1>6 DEF IndexInv

\* A step of a rebuild that leaves the profile: it puts points into the
\* collection it builds, or into none.
LEMMA RebuilderStepKeeps ==
  ASSUME IndexInv, ~Still, NEW w \in Rebuilders, NEW r \in Rebuilds,
         rebuilder' = [rebuilder EXCEPT ![w] = r],
         \A u \in Rebuilders : u # w => rebuilder[u].at = "rest",
         UNCHANGED <<profile, alias, revision, document, indexTask, indexer, repair, removal, indexScene>>,
         rebuildTask' \in Messages,
         r.at # "rest" => ~r.adrift /\ rebuildTask'.state = "running",
         r.at = "begin" => BeginTrue(r),
         r.at \notin {"rest", "begin"} => BuildTrue(r)',
         rebuilder[w].at = "swap" => Steady,
         DOMAIN points \subseteq DOMAIN points', DOMAIN points' \subseteq Nat \ {0},
         \A g \in DOMAIN points' : points'[g] \subseteq Revisions,
         \A g \in DOMAIN points : points[g] \subseteq points'[g],
         \A g \in DOMAIN points' : g \in DOMAIN points \/ g = profile.target \/ g = profile.active,
         profile.state = "failed" => DOMAIN points' = DOMAIN points
  PROVE  IndexInv'
<1>1. \A g : Holds(g) => Holds(g)'
  BY HoldsKept DEF Holds, HasCollection
<1>2. ProfileHolds'
  <2>1. (Holds(profile.active) => Holds(profile.active)')
    BY <1>1
  <2> QED
    BY <2>1 DEF IndexInv, ProfileHolds, Still
<1>3. Generations'
  <2>1. profile.active \in Nat
    BY DEF IndexInv, IndexTypeOK, Profiles
  <2> QED
    BY <2>1 DEF IndexInv, Generations, HasCollection
<1>4. StaysSwitched
  <2>1. ASSUME Switched(profile) PROVE Switched(profile)'
    <3>1. Holds(profile.target)'
      BY <1>1, <2>1 DEF Switched
    <3>2. Steady \/ \E u \in Rebuilders : u # w /\ rebuilder[u].at = "swap"
      BY <2>1 DEF Switched
    <3> QED
      BY <2>1, <3>1, <3>2 DEF Switched, Steady
  <2> QED
    BY <2>1 DEF StaysSwitched
<1>5. Shaped(profile)' /\ RowMoves(profile, profile') /\ alias' \in Nat
  BY <1>2 DEF ProfileHolds, RowMoves, IndexInv, IndexTypeOK
<1>6. AliasTrue' /\ RepairTrue'
  BY <1>4, <1>5, ViewsKept
<1>7. profile.active # 0 => points[profile.active] \subseteq points'[profile.active]
  BY DEF IndexInv, ProfileHolds, Holds, HasCollection
<1> QED
  BY <1>2, <1>3, <1>5, <1>6, <1>7, RebuildMoves

LEMMA BuildTrueKept ==
  ASSUME UNCHANGED <<profile, points, document, indexScene>>
  PROVE  \A r : BuildTrue(r) => BuildTrue(r)'
BY DEF BuildTrue, Holds, HasCollection, Promised, Steady, Shaped

\* A step of a rebuild that changes its own state alone.
LEMMA RebuilderAloneKeeps ==
  ASSUME IndexInv, ~Still, NEW w \in Rebuilders, NEW r \in Rebuilds,
         rebuilder' = [rebuilder EXCEPT ![w] = r],
         \A u \in Rebuilders : u # w => rebuilder[u].at = "rest",
         UNCHANGED <<profile, alias, points, revision, document, indexTask, indexer, repair, removal, indexScene>>,
         rebuildTask' \in Messages,
         r.at # "rest" => ~r.adrift /\ rebuildTask'.state = "running",
         r.at = "begin" => BeginTrue(r),
         r.at \notin {"rest", "begin"} => BuildTrue(r),
         rebuilder[w].at = "swap" => Steady
  PROVE  IndexInv'
<1>1. r.at \notin {"rest", "begin"} => BuildTrue(r)'
  BY BuildTrueKept
<1>2. DOMAIN points \subseteq Nat \ {0} /\ \A g \in DOMAIN points : points[g] \subseteq Revisions
  BY DEF IndexInv, IndexTypeOK
<1> QED
  BY <1>1, <1>2, RebuilderStepKeeps

\* Who runs, runs alone.
LEMMA AloneAtWork ==
  ASSUME IndexInv, NEW w \in Rebuilders, rebuilder[w].at # "rest"
  PROVE  /\ ~Still /\ ~rebuilder[w].adrift /\ rebuildTask.state = "running"
         /\ \A u \in Rebuilders : u # w => rebuilder[u].at = "rest"
         /\ rebuilder[w] \in Rebuilds /\ rebuildTask \in Messages
         /\ rebuilder[w].at = "begin" => BeginTrue(rebuilder[w])
         /\ rebuilder[w].at # "begin" => BuildTrue(rebuilder[w])
BY DEF IndexInv, OneRebuild, RebuildersTrue, IndexTypeOK

LEMMA BegunFacts ==
  ASSUME NEW p, Shaped(p)
  PROVE  /\ p.state = "ready" => Begun(p) = ProfileIndex("rebuilding", p.active, p.active + 1)
         /\ p.state = "failed" => Begun(p) = ProfileIndex("rebuilding", 0, p.target + 1)
         /\ Building(p) => Begun(p) = p
         /\ RowMoves(p, Begun(p)) /\ Building(Begun(p))
         /\ Begun(p) = p => Building(p)
         /\ Begun(p).target <= MaxGeneration => Shaped(Begun(p))
<1>1. /\ p.active \in Nat /\ p.target \in Nat /\ (p.state = "failed" => p.active = 0)
      /\ p.state \in {"provisioning", "rebuilding", "ready", "failed"}
  BY ShapedFacts
<1>2. p.state = "failed" => Max({p.active, p.target}) = p.target
  <2>1. {p.active, p.target} \in SUBSET Nat /\ {p.active, p.target} # {}
    BY <1>1
  <2>2. IsFiniteSet({p.active, p.target})
    <3>1. IsFiniteSet({p.active}) /\ IsFiniteSet({p.target})
      BY FS_Singleton
    <3>2. IsFiniteSet({p.active} \cup {p.target})
      BY <3>1, FS_Union
    <3>3. {p.active} \cup {p.target} = {p.active, p.target}
      OBVIOUS
    <3> QED
      BY <3>2, <3>3
  <2>3. /\ Max({p.active, p.target}) \in {p.active, p.target}
        /\ \A k \in {p.active, p.target} : k <= Max({p.active, p.target})
    BY <2>1, <2>2, FiniteExtremes
  <2> QED
    BY <1>1, <2>3
<1>3. p.state = "ready" => Begun(p) = ProfileIndex("rebuilding", p.active, p.active + 1)
  BY DEF Begun
<1>4. p.state = "failed" => Begun(p) = ProfileIndex("rebuilding", 0, p.target + 1)
  BY <1>1, <1>2 DEF Begun
<1>5. Building(p) => Begun(p) = p
  BY DEF Begun, Building
<1>6. p.state \in {"ready", "failed"} => Begun(p).state = "rebuilding"
  BY <1>3, <1>4 DEF ProfileIndex
<1>7. RowMoves(p, Begun(p)) /\ Building(Begun(p)) /\ (Begun(p) = p => Building(p))
  BY <1>1, <1>3, <1>4, <1>5, <1>6 DEF RowMoves, Building
<1>8. ASSUME Begun(p).target <= MaxGeneration PROVE Shaped(Begun(p))
  <2>1. CASE p.state = "ready"
    <3>1. Begun(p) = ProfileIndex("rebuilding", p.active, p.active + 1)
      BY <1>3, <2>1
    <3>2. p.active # 0 /\ p.active <= MaxGeneration
      BY <2>1 DEF Shaped
    <3> QED
      BY <1>1, <1>8, <3>1, <3>2 DEF Shaped, ProfileIndex, Profiles
  <2>2. CASE p.state = "failed"
    <3>1. Begun(p) = ProfileIndex("rebuilding", 0, p.target + 1)
      BY <1>4, <2>2
    <3>2. p.target >= 1
      BY <2>2 DEF Shaped
    <3> QED
      BY <1>1, <1>8, <3>1, <3>2, IndexAssumption DEF Shaped, ProfileIndex, Profiles
  <2>3. CASE Building(p)
    BY <1>5, <2>3
  <2> QED
    BY <1>1, <2>1, <2>2, <2>3 DEF Building
<1> QED
  BY <1>3, <1>4, <1>5, <1>7, <1>8

LEMMA StartRebuildKeeps ==
  ASSUME IndexInv, NEW w \in Rebuilders, StartRebuild(w)
  PROVE  IndexInv'
<1> DEFINE r == [NoRebuild EXCEPT !.expected = profile, !.next = Begun(profile),
                   !.at = IF Begun(profile) = profile THEN "ensure" ELSE "begin"]
<1>1. /\ rebuildTask.state = "queued" /\ rebuilder[w].at = "rest"
      /\ Begun(profile).target <= MaxGeneration
      /\ rebuildTask' = [rebuildTask EXCEPT !.state = "running"]
      /\ rebuilder' = [rebuilder EXCEPT ![w] = r]
      /\ UNCHANGED <<profile, alias, points, revision, document, indexTask, indexer, repair, removal, indexScene>>
  BY DEF StartRebuild, SetRebuilder
<1>2. ~Still /\ Shaped(profile) /\ profile \in Profiles /\ rebuildTask \in Messages
  BY <1>1 DEF IndexInv, ProfileHolds, IndexTypeOK
<1>3. \A u \in Rebuilders : rebuilder[u].at = "rest"
  BY <1>1 DEF IndexInv, OneRebuild
<1>4. Shaped(Begun(profile)) /\ Building(Begun(profile)) /\ Begun(profile) \in Profiles
  BY <1>1, <1>2, BegunFacts DEF Shaped
<1>5. /\ r \in Rebuilds /\ r.expected = profile /\ r.next = Begun(profile) /\ ~r.adrift
      /\ r.at = IF Begun(profile) = profile THEN "ensure" ELSE "begin"
  BY <1>2, <1>4 DEF NoRebuild, Rebuilds
<1> HIDE DEF r
<1>6. r.at = "begin" => BeginTrue(r)
  BY <1>1, <1>2, <1>5, BegunFacts, ShapedFacts DEF BeginTrue, Building
<1>7. r.at # "begin" => BuildTrue(r)
  BY <1>4, <1>5 DEF BuildTrue
<1>8. rebuildTask' \in Messages /\ rebuildTask'.state = "running"
  BY <1>1, <1>2, MessageTyped DEF Messages
<1> QED
  BY <1>1, <1>2, <1>3, <1>5, <1>6, <1>7, <1>8, RebuilderAloneKeeps

\* What is promised is held where everything is enabled.
LEMMA PromisedIsHeld ==
  ASSUME IndexInv, ~Still
  PROVE  \A g : HasCollection(g) /\ Promised \subseteq points[g] => Holds(g)
BY DEF IndexInv, DocumentsTrue, Promised, Holds

LEMMA CompareKeeps ==
  ASSUME IndexInv, NEW w \in Rebuilders, Compare(w)
  PROVE  IndexInv'
<1> DEFINE r == rebuilder[w]
           q == [r EXCEPT !.at = "switch"]
<1>1. /\ r.at = "compare" /\ r.snapshot = Promised /\ HasCollection(r.next.target)
      /\ rebuilder' = [rebuilder EXCEPT ![w] = q]
      /\ UNCHANGED <<profile, alias, points, revision, document, rebuildTask, indexTask, indexer, repair, removal, indexScene>>
  BY DEF Compare, Promising, SetRebuilder
<1>2. /\ ~Still /\ ~r.adrift /\ rebuildTask.state = "running" /\ rebuildTask \in Messages
      /\ \A u \in Rebuilders : u # w => rebuilder[u].at = "rest"
      /\ r \in Rebuilds /\ BuildTrue(r)
  BY <1>1, AloneAtWork
<1>3. q \in Rebuilds /\ q.at = "switch" /\ q.next = r.next /\ ~q.adrift
  BY <1>2 DEF Rebuilds
<1>4. Holds(r.next.target)
  <2>1. HasCollection(r.next.target) /\ Promised \subseteq points[r.next.target]
    BY <1>1, <1>2 DEF BuildTrue
  <2> QED
    BY <1>2, <2>1, PromisedIsHeld
<1> HIDE DEF q
<1>5. BuildTrue(q)
  BY <1>1, <1>2, <1>3, <1>4 DEF BuildTrue
<1> QED
  BY <1>1, <1>2, <1>3, <1>5, RebuilderAloneKeeps

LEMMA FailRebuildKeeps ==
  ASSUME IndexInv, NEW w \in Rebuilders, FailRebuild(w)
  PROVE  IndexInv'
<1> DEFINE r == rebuilder[w]
           q == [r EXCEPT !.at = "delete"]
<1>1. /\ r.at \in {"ensure", "populate", "compare", "switch"}
      /\ Hopeless(w) \/ "provider" \in indexScene.events
      /\ rebuilder' = [rebuilder EXCEPT ![w] = q]
      /\ UNCHANGED <<profile, alias, points, revision, document, rebuildTask, indexTask, indexer, repair, removal, indexScene>>
  BY DEF FailRebuild, SetRebuilder, IndexFault
<1>2. /\ ~Still /\ ~r.adrift /\ rebuildTask.state = "running" /\ rebuildTask \in Messages
      /\ \A u \in Rebuilders : u # w => rebuilder[u].at = "rest"
      /\ r \in Rebuilds /\ BuildTrue(r)
  BY <1>1, AloneAtWork
<1>3. q \in Rebuilds /\ q.at = "delete" /\ q.next = r.next /\ ~q.adrift
  BY <1>2 DEF Rebuilds
<1>4. ~Steady
  <2>1. CASE "provider" \in indexScene.events
    BY <2>1 DEF Steady
  <2>2. CASE Hopeless(w)
    BY <1>2, <2>2 DEF Hopeless, BuildTrue, Promising
  <2> QED
    BY <1>1, <2>1, <2>2
<1> HIDE DEF q
<1>5. BuildTrue(q)
  BY <1>1, <1>2, <1>3, <1>4 DEF BuildTrue
<1> QED
  BY <1>1, <1>2, <1>3, <1>5, RebuilderAloneKeeps

LEMMA RebuilderStopsKeeps ==
  ASSUME CalmIndexing, IndexInv, NEW w \in Rebuilders, RebuilderStops(w)
  PROVE  IndexInv'
<1>1. rebuilder[w].at # "rest"
  BY DEF RebuilderStops
<1>2. /\ ~Still /\ rebuildTask \in Messages
      /\ \A u \in Rebuilders : u # w => rebuilder[u].at = "rest"
  BY <1>1, AloneAtWork
<1>3. /\ "crash" \in indexScene.events /\ rebuilder' = [rebuilder EXCEPT ![w] = NoRebuild]
      /\ rebuildTask' = Redelivered(rebuildTask)
      /\ UNCHANGED <<profile, alias, points, revision, document, indexTask, indexer, repair, removal, indexScene>>
  BY <1>2, CalmScene DEF RebuilderStops, SetRebuilder, IndexFault
<1>4. Steady /\ rebuildTask' \in Messages
  BY <1>2, <1>3, CalmScene, MessageTyped
<1> QED
  BY <1>2, <1>3, <1>4, NoneTyped, RebuilderAloneKeeps

LEMMA OrderRebuildKeeps ==
  ASSUME IndexInv, OrderRebuild
  PROVE  IndexInv'
<1>1. /\ "operator" \in indexScene.events /\ rebuildTask.state \in {"none", "archived"}
      /\ rebuildTask' = QueuedMessage
      /\ UNCHANGED <<profile, alias, points, revision, document, rebuilder, indexTask, indexer, repair, removal, indexScene>>
  BY DEF OrderRebuild, IndexFault
<1>2. ~Still
  BY <1>1 DEF Still
<1>3. \A w \in Rebuilders : rebuilder[w].at = "rest"
  BY <1>1 DEF IndexInv, OneRebuild
<1>4. IndexTypeOK' /\ DocumentsTrue' /\ Idle' /\ IndexersTrue'
  BY <1>1, NoneTyped DEF IndexInv, IndexTypeOK, DocumentsTrue, Idle, IndexersTrue, Still
<1>5. ProfileHolds' /\ Generations' /\ OneRebuild' /\ RebuildersTrue'
  BY <1>1, <1>2, <1>3
     DEF IndexInv, ProfileHolds, Generations, OneRebuild, RebuildersTrue, Holds, HasCollection, Still
<1>6. AliasTrue' /\ RepairTrue'
  BY <1>1 DEF IndexInv, AliasTrue, RepairTrue, Switched, Past, Holds, HasCollection, Steady
<1> QED
  BY <1>4, <1>5, <1>6 DEF IndexInv

\* What the row says of a build in progress.
LEMMA BuildFacts ==
  ASSUME IndexInv, NEW r, BuildTrue(r)
  PROVE  /\ r.next.target \in Nat /\ r.next.target # 0 /\ r.next.target <= MaxGeneration
         /\ r.next.active \in Nat /\ r.next.active < r.next.target
         /\ profile = r.next \/ profile = ProfileIndex("ready", r.next.target, 0)
         /\ profile = r.next => Building(profile) /\ profile.target = r.next.target
         /\ profile # r.next => profile.state = "ready" /\ profile.active = r.next.target
         /\ profile.state # "failed"
         /\ profile.active \in Nat /\ profile.active <= r.next.target
<1>1. Shaped(r.next) /\ Building(r.next)
      /\ (profile = r.next \/ profile = ProfileIndex("ready", r.next.target, 0))
  BY DEF BuildTrue
<1>2. /\ r.next.target \in Nat /\ r.next.active \in Nat /\ r.next.active < r.next.target
      /\ r.next.target <= MaxGeneration
  BY <1>1, ShapedFacts DEF Shaped
<1>3. \A s, u, t : /\ ProfileIndex(s, u, t).state = s /\ ProfileIndex(s, u, t).active = u
                   /\ ProfileIndex(s, u, t).target = t
  BY DEF ProfileIndex
<1>4. Building(r.next) => r.next.state # "failed"
  BY DEF Building
<1> QED
  BY <1>1, <1>2, <1>3, <1>4

LEMMA BeginRebuildKeeps ==
  ASSUME IndexInv, NEW w \in Rebuilders, BeginRebuild(w)
  PROVE  IndexInv'
<1> DEFINE r == rebuilder[w]
<1>1. /\ r.at = "begin"
      /\ UNCHANGED <<alias, points, revision, document, indexTask, indexer, repair, removal, indexScene>>
  BY DEF BeginRebuild
<1>2. /\ ~Still /\ ~r.adrift /\ rebuildTask.state = "running" /\ rebuildTask \in Messages
      /\ \A u \in Rebuilders : u # w => rebuilder[u].at = "rest"
      /\ r \in Rebuilds /\ BeginTrue(r)
  BY <1>1, AloneAtWork
<1>3. CASE profile # r.expected
  <2>1. /\ rebuilder' = [rebuilder EXCEPT ![w] = NoRebuild] /\ UNCHANGED profile
        /\ rebuildTask' = Redelivered(rebuildTask)
    BY <1>2, <1>3 DEF BeginRebuild, Return, SetRebuilder
  <2>2. rebuildTask' \in Messages
    BY <1>2, <2>1, MessageTyped
  <2> QED
    BY <1>1, <1>2, <2>1, <2>2, NoneTyped, RebuilderAloneKeeps
<1>4. CASE profile = r.expected
  <2>1. PICK q : q = [r EXCEPT !.at = "ensure"]
    OBVIOUS
  <2>2. profile' = r.next /\ rebuilder' = [rebuilder EXCEPT ![w] = q] /\ UNCHANGED rebuildTask
    BY <1>2, <1>4, <2>1 DEF BeginRebuild, SetRebuilder
  <2>3. q \in Rebuilds /\ q.at = "ensure" /\ q.next = r.next /\ ~q.adrift
    BY <1>2, <2>1 DEF Rebuilds
  <2>4. /\ Shaped(profile) /\ profile.state \in {"ready", "failed"}
        /\ profile' = Begun(profile) /\ Begun(profile).target <= MaxGeneration
    BY <1>2, <1>4, <2>2 DEF BeginTrue
  <2>5. RowMoves(profile, profile') /\ Shaped(profile') /\ Building(profile')
    BY <2>4, BegunFacts
  <2>6. /\ profile'.active = profile.active /\ profile'.state = "rebuilding"
        /\ profile.active \in Nat /\ profile.target \in Nat
    BY <2>4, BegunFacts, ShapedFacts DEF ProfileIndex
  <2>7. \A g \in DOMAIN points : g <= profile.active
    <3>1. profile.state = "ready" => profile.target = 0
      BY <2>4 DEF Shaped
    <3> QED
      BY <2>4, <3>1 DEF IndexInv, Generations, IndexTypeOK, HasCollection
  <2>8. ProfileHolds' /\ Generations'
    <3>1. Holds(profile.active) => Holds(profile.active)'
      BY <1>1, <2>6 DEF Holds, HasCollection
    <3>2. ProfileHolds'
      BY <1>1, <1>2, <2>5, <2>6, <3>1 DEF IndexInv, ProfileHolds, Still, Shaped
    <3>3. Generations'
      BY <1>1, <2>6, <2>7 DEF IndexInv, Generations
    <3> QED
      BY <3>2, <3>3
  <2>9. AliasTrue' /\ RepairTrue'
    <3>1. StaysSwitched
      BY <2>4 DEF StaysSwitched, Switched, Building
    <3>2. Shaped(profile)'
      BY <2>5 DEF Shaped
    <3> QED
      BY <1>1, <2>5, <3>1, <3>2, ViewsKept
  <2>10. BuildTrue(q)'
    BY <2>2, <2>3, <2>5 DEF BuildTrue, Shaped
  <2>11. /\ alias \in Nat /\ DOMAIN points \subseteq Nat \ {0}
         /\ \A g \in DOMAIN points : points[g] \subseteq Revisions
    BY DEF IndexInv, IndexTypeOK
  <2> QED
    BY <1>1, <1>2, <2>2, <2>3, <2>5, <2>8, <2>9, <2>10, <2>11, RebuildMoves
<1> QED
  BY <1>3, <1>4

LEMMA PromisedAreRevisions == IndexInv => Promised \subseteq Revisions
BY DEF IndexInv, IndexTypeOK, DocumentRows, Promised

LEMMA EnsureCollectionKeeps ==
  ASSUME IndexInv, NEW w \in Rebuilders, EnsureCollection(w)
  PROVE  IndexInv'
<1> DEFINE r == rebuilder[w]
<1>1. /\ r.at = "ensure" /\ points' = Put(points, r.next.target, {})
      /\ UNCHANGED <<profile, alias, revision, document, rebuildTask, indexTask, indexer, repair, removal, indexScene>>
  BY DEF EnsureCollection, PutPoints, Put, HasCollection
<1>2. /\ ~Still /\ ~r.adrift /\ rebuildTask.state = "running" /\ rebuildTask \in Messages
      /\ \A u \in Rebuilders : u # w => rebuilder[u].at = "rest"
      /\ r \in Rebuilds /\ BuildTrue(r)
  BY <1>1, AloneAtWork
<1>3. PICK q : q = [r EXCEPT !.at = "populate", !.snapshot = Promised]
  OBVIOUS
<1>4. rebuilder' = [rebuilder EXCEPT ![w] = q]
  BY <1>3 DEF EnsureCollection, SetRebuilder
<1>5. q \in Rebuilds /\ q.at = "populate" /\ q.next = r.next /\ ~q.adrift /\ q.snapshot = Promised
  BY <1>2, <1>3, PromisedAreRevisions DEF Rebuilds
<1>6. /\ r.next.target \in Nat \ {0} /\ profile.state # "failed"
      /\ r.next.target \in {profile.target, profile.active}
  BY <1>2, BuildFacts
<1>7. /\ DOMAIN points' = DOMAIN points \cup {r.next.target}
      /\ \A g \in DOMAIN points : points[g] \subseteq points'[g]
  BY ONLY <1>1, PutFacts
<1>8. /\ DOMAIN points \subseteq Nat \ {0} /\ \A g \in DOMAIN points : points[g] \subseteq Revisions
  BY DEF IndexInv, IndexTypeOK
<1>9. \A g \in DOMAIN points' : points'[g] \subseteq Revisions
  <2>1. \A g \in DOMAIN points \cup {r.next.target} : points'[g] \subseteq Revisions
    <3>1. \A g \in DOMAIN points : points[g] \subseteq Revisions
      BY <1>8
    <3>2. {} \subseteq Revisions
      OBVIOUS
    <3>3. points' = Put(points, r.next.target, {})
      BY <1>1
    <3> QED
      BY ONLY <3>1, <3>2, <3>3, PutStaysIn
  <2> QED
    BY <1>7, <2>1
<1>10. BuildTrue(q)'
  <2>1. Promised' = Promised /\ Steady' = Steady
    BY <1>1 DEF Promised, Steady
  <2>2. HasCollection(q.next.target)'
    BY <1>5, <1>7 DEF HasCollection
  <2> QED
    BY <1>1, <1>2, <1>5, <2>1, <2>2 DEF BuildTrue, Shaped
<1>11. /\ DOMAIN points \subseteq DOMAIN points' /\ DOMAIN points' \subseteq Nat \ {0}
       /\ \A g \in DOMAIN points' : g \in DOMAIN points \/ g = profile.target \/ g = profile.active
  BY <1>6, <1>7, <1>8
<1>12. rebuildTask' \in Messages /\ rebuildTask'.state = "running" /\ rebuilder[w].at # "swap"
  BY <1>1, <1>2
<1> QED
  BY <1>1, <1>2, <1>4, <1>5, <1>6, <1>7, <1>9, <1>10, <1>11, <1>12, RebuilderStepKeeps

LEMMA PopulateKeeps ==
  ASSUME IndexInv, NEW w \in Rebuilders, Populate(w)
  PROVE  IndexInv'
<1> DEFINE r == rebuilder[w]
<1>1. /\ r.at = "populate"
      /\ r.snapshot = {} \/ HasCollection(r.next.target)
      /\ \/ r.snapshot = {} /\ points' = points
         \/ points' = Put(points, r.next.target, r.snapshot)
      /\ UNCHANGED <<profile, alias, revision, document, rebuildTask, indexTask, indexer, repair, removal, indexScene>>
  BY DEF Populate, PutPoints, Put, HasCollection
<1>2. /\ ~Still /\ ~r.adrift /\ rebuildTask.state = "running" /\ rebuildTask \in Messages
      /\ \A u \in Rebuilders : u # w => rebuilder[u].at = "rest"
      /\ r \in Rebuilds /\ BuildTrue(r)
  BY <1>1, AloneAtWork
<1>3. PICK q : q = [r EXCEPT !.at = "compare"]
  OBVIOUS
<1>4. rebuilder' = [rebuilder EXCEPT ![w] = q]
  BY <1>3 DEF Populate, SetRebuilder
<1>5. q \in Rebuilds /\ q.at = "compare" /\ q.next = r.next /\ ~q.adrift /\ q.snapshot = r.snapshot
  BY <1>2, <1>3 DEF Rebuilds
<1>6. /\ HasCollection(r.next.target) /\ profile.state # "failed" /\ r.snapshot \subseteq Revisions
  BY <1>1, <1>2, BuildFacts DEF BuildTrue, Rebuilds
<1>7. /\ DOMAIN points \subseteq Nat \ {0} /\ \A g \in DOMAIN points : points[g] \subseteq Revisions
  BY DEF IndexInv, IndexTypeOK
<1>8. /\ DOMAIN points' = DOMAIN points
      /\ \A g \in DOMAIN points : points[g] \subseteq points'[g]
      /\ r.snapshot \subseteq points'[r.next.target]
      /\ \A g \in DOMAIN points' : points'[g] \subseteq Revisions
  <2>1. CASE r.snapshot = {} /\ points' = points
    BY <1>7, <2>1
  <2>2. CASE points' = Put(points, r.next.target, r.snapshot)
    <3>1. /\ DOMAIN points' = DOMAIN points \cup {r.next.target}
          /\ \A g \in DOMAIN points : points[g] \subseteq points'[g]
          /\ r.snapshot \subseteq points'[r.next.target]
      BY ONLY <2>2, PutFacts
    <3>2. \A g \in DOMAIN points \cup {r.next.target} : points'[g] \subseteq Revisions
      <4>1. r.snapshot \subseteq Revisions
        BY <1>6
      <4> QED
        BY ONLY <1>7, <2>2, <4>1, PutStaysIn
    <3> QED
      BY <1>6, <3>1, <3>2 DEF HasCollection
  <2> QED
    BY <1>1, <2>1, <2>2
<1>9. BuildTrue(q)'
  <2>1. Promised' = Promised /\ Steady' = Steady
    BY <1>1 DEF Promised, Steady
  <2>2. HasCollection(q.next.target)'
    BY <1>5, <1>6, <1>8 DEF HasCollection
  <2> QED
    BY <1>1, <1>2, <1>5, <1>8, <2>1, <2>2 DEF BuildTrue, Shaped
<1>10. rebuildTask' \in Messages /\ rebuildTask'.state = "running" /\ rebuilder[w].at # "swap"
  BY <1>1, <1>2
<1> QED
  BY <1>1, <1>2, <1>4, <1>5, <1>6, <1>7, <1>8, <1>9, <1>10, RebuilderStepKeeps

\* The end of a build: it is switched to and finished.
LEMMA SwitchToTargetKeeps ==
  ASSUME IndexInv, NEW w \in Rebuilders, SwitchToTarget(w)
  PROVE  IndexInv'
<1> DEFINE r == rebuilder[w]
<1>1. /\ r.at = "switch" /\ alias' = r.next.target
      /\ UNCHANGED <<profile, points, revision, document, rebuildTask, indexTask, indexer, repair, removal, indexScene>>
  BY DEF SwitchToTarget
<1>2. /\ ~Still /\ ~r.adrift /\ rebuildTask.state = "running" /\ rebuildTask \in Messages
      /\ \A u \in Rebuilders : u # w => rebuilder[u].at = "rest"
      /\ r \in Rebuilds /\ BuildTrue(r)
  BY <1>1, AloneAtWork
<1>3. PICK q : q = [r EXCEPT !.at = "swap"]
  OBVIOUS
<1>4. rebuilder' = [rebuilder EXCEPT ![w] = q]
  BY <1>3 DEF SwitchToTarget, SetRebuilder
<1>5. q \in Rebuilds /\ q.at = "swap" /\ q.next = r.next /\ ~q.adrift
  BY <1>2, <1>3 DEF Rebuilds
<1>6. rebuilder'[w] = q
  BY <1>4 DEF IndexInv, IndexTypeOK
<1>7. /\ Shaped(profile) /\ Holds(r.next.target)
      /\ profile.active # 0 => Holds(profile.active)
      /\ DOMAIN points \subseteq Nat \ {0} /\ \A g \in DOMAIN points : points[g] \subseteq Revisions
  BY <1>1, <1>2 DEF IndexInv, ProfileHolds, IndexTypeOK, BuildTrue
<1>8. \A g : Holds(g) => Holds(g)'
  BY <1>1 DEF Holds, HasCollection
<1>9. ProfileHolds' /\ Generations' /\ Shaped(profile)' /\ RowMoves(profile, profile')
  <2>1. Holds(profile.active) => Holds(profile.active)'
    BY <1>1, <1>8
  <2>2. ProfileHolds'
    BY <1>1, <2>1 DEF IndexInv, ProfileHolds, Still, Shaped
  <2>3. Generations'
    BY <1>1 DEF IndexInv, Generations, HasCollection
  <2> QED
    BY <1>1, <2>2, <2>3 DEF ProfileHolds, RowMoves
<1>10. /\ r.next.target \in Nat
       /\ profile = r.next \/ profile = ProfileIndex("ready", r.next.target, 0)
       /\ profile = r.next => Building(profile) /\ profile.target = r.next.target
       /\ profile # r.next => profile.active = r.next.target
  BY <1>2, BuildFacts
<1>11. AliasTrue'
  <2>1. CASE profile = r.next
    <3>1. Building(profile)' /\ Holds(profile.target)'
      <4>1. Holds(profile.target)
        BY <1>7, <2>1
      <4> QED
        BY <1>1, <1>8, <1>10, <2>1, <4>1 DEF Building
    <3>2. rebuilder'[w].at = "swap" /\ rebuilder'[w].next = profile'
      BY <1>1, <1>5, <1>6, <2>1
    <3> QED
      BY <1>1, <1>10, <2>1, <3>1, <3>2 DEF AliasTrue, Switched
  <2>2. CASE profile # r.next
    BY <1>1, <1>10, <2>2 DEF AliasTrue
  <2> QED
    BY <2>1, <2>2
<1>12. RepairTrue'
  <2>1. ASSUME Switched(profile) PROVE Switched(profile)'
    <3>1. Building(profile) /\ Holds(profile.target) /\ (Steady \/ \E u \in Rebuilders : rebuilder[u].at = "swap")
      BY <2>1 DEF Switched
    <3>2. Steady
      BY <1>1, <1>2, <3>1
    <3>3. Holds(profile.target)'
      BY <1>1, <1>8, <3>1
    <3> QED
      BY <1>1, <3>1, <3>2, <3>3 DEF Switched, Steady, Building
  <2>2. StaysSwitched
    BY <1>1, <2>1 DEF StaysSwitched
  <2> QED
    BY <1>1, <1>9, <2>2, ViewsKept
<1>13. BuildTrue(q)'
  <2>1. Holds(q.next.target)' /\ HasCollection(q.next.target)'
    <3>1. Holds(q.next.target)
      BY <1>5, <1>7
    <3> QED
      BY <1>8, <3>1 DEF Holds
  <2> QED
    BY <1>1, <1>2, <1>5, <2>1 DEF BuildTrue, Shaped, Steady
<1>14. rebuildTask' \in Messages /\ rebuildTask'.state = "running" /\ alias' \in Nat
  BY <1>1, <1>2, <1>10
<1> QED
  BY <1>1, <1>2, <1>4, <1>5, <1>7, <1>9, <1>11, <1>12, <1>13, <1>14, RebuildMoves

\* A row that is past the switch is finished.
LEMMA RowFinished ==
  ASSUME IndexInv, ~Still, Building(profile), Holds(profile.target),
         profile' = ProfileIndex("ready", profile.target, 0),
         UNCHANGED <<points, document, removal, indexScene>>
  PROVE  ProfileHolds' /\ Generations' /\ RowMoves(profile, profile')
<1>1. Shaped(profile) /\ profile.target \in Nat /\ profile.active \in Nat /\ profile.active < profile.target
  BY ShapedFacts DEF IndexInv, ProfileHolds
<1>2. profile'.state = "ready" /\ profile'.active = profile.target /\ profile'.target = 0
  BY DEF ProfileIndex
<1>3. profile' \in Profiles /\ profile.target <= MaxGeneration
  BY <1>1 DEF Shaped, Profiles, ProfileIndex
<1>4. Shaped(profile)'
  <2>1. 0 <= MaxGeneration
    BY IndexAssumption
  <2> QED
    BY <1>1, <1>2, <1>3, <2>1 DEF Shaped
<1>5. Holds(profile.active)'
  BY <1>2 DEF Holds, HasCollection
<1>6. ProfileHolds'
  BY <1>4, <1>5 DEF ProfileHolds, Still
<1>7. Generations'
  <2>1. /\ \A g \in DOMAIN points : g \in Nat /\ (g <= profile.active \/ g = profile.target)
        /\ removal # 0 => removal < profile.active
        /\ removal \in Nat
    BY DEF IndexInv, Generations, IndexTypeOK
  <2>2. \A g \in DOMAIN points : g <= profile'.active
    BY <1>1, <1>2, <2>1
  <2>3. removal # 0 => removal < profile'.active
    BY <1>1, <1>2, <2>1
  <2> QED
    BY <1>2, <2>2, <2>3 DEF Generations
<1> QED
  BY <1>6, <1>7 DEF RowMoves

LEMMA FinishRebuildKeeps ==
  ASSUME CalmIndexing, IndexInv, NEW w \in Rebuilders, FinishRebuild(w)
  PROVE  IndexInv'
<1> DEFINE r == rebuilder[w]
<1>1. /\ r.at = "swap"
      /\ UNCHANGED <<alias, points, revision, document, indexTask, indexer, repair, removal, indexScene>>
  BY DEF FinishRebuild
<1>2. /\ ~Still /\ ~r.adrift /\ rebuildTask.state = "running" /\ rebuildTask \in Messages
      /\ \A u \in Rebuilders : u # w => rebuilder[u].at = "rest"
      /\ r \in Rebuilds /\ BuildTrue(r)
  BY <1>1, AloneAtWork
<1>3. /\ rebuilder' = [rebuilder EXCEPT ![w] = NoRebuild] /\ rebuildTask' \in Messages
  BY <1>2, NoneTyped, MessageTyped DEF FinishRebuild, Return, SetRebuilder
<1>4. \/ profile = r.next /\ profile' = ProfileIndex("ready", r.next.target, 0)
      \/ profile' = profile /\ (profile # r.next \/ Steady)
  <2>1. "database" \in indexScene.events => Steady
    BY <1>2, CalmScene
  <2> QED
    BY <1>2, <2>1 DEF FinishRebuild, Swap, IndexFault
<1>5. /\ Shaped(profile) /\ Holds(r.next.target) /\ alias \in Nat
      /\ profile.active # 0 => Holds(profile.active)
      /\ DOMAIN points \subseteq Nat \ {0} /\ \A g \in DOMAIN points : points[g] \subseteq Revisions
  BY <1>1, <1>2 DEF IndexInv, ProfileHolds, IndexTypeOK, BuildTrue
<1>6. /\ profile = r.next => Building(profile) /\ profile.target = r.next.target
  BY <1>2, BuildFacts
<1>7. ProfileHolds' /\ Generations' /\ RowMoves(profile, profile')
  <2>1. CASE profile = r.next /\ profile' = ProfileIndex("ready", r.next.target, 0)
    BY <1>1, <1>2, <1>5, <1>6, <2>1, RowFinished
  <2>2. CASE profile' = profile
    <3>1. Holds(profile.active) => Holds(profile.active)'
      BY <1>1, <2>2 DEF Holds, HasCollection
    <3>2. ProfileHolds'
      BY <1>1, <1>2, <2>2, <3>1 DEF IndexInv, ProfileHolds, Still, Shaped
    <3>3. Generations'
      BY <1>1, <2>2 DEF IndexInv, Generations, HasCollection
    <3> QED
      BY <2>2, <3>2, <3>3 DEF RowMoves
  <2> QED
    BY <1>4, <2>1, <2>2
<1>8. StaysSwitched
  <2>1. CASE profile = r.next /\ profile' = ProfileIndex("ready", r.next.target, 0)
    BY <1>6, <2>1 DEF StaysSwitched
  <2>2. CASE profile' = profile /\ (profile # r.next \/ Steady)
    <3>1. ASSUME Switched(profile) PROVE Switched(profile)'
      <4>1. /\ Building(profile) /\ Holds(profile.target)
            /\ Steady \/ \E u \in Rebuilders : rebuilder[u].at = "swap" /\ rebuilder[u].next = profile
        BY <3>1 DEF Switched
      <4>2. Steady
        BY <1>2, <2>2, <4>1
      <4>3. Holds(profile.target)' /\ Building(profile)' /\ Steady'
        BY <1>1, <2>2, <4>1, <4>2 DEF Holds, HasCollection, Building, Steady
      <4> QED
        BY <4>3 DEF Switched
    <3> QED
      BY <2>2, <3>1 DEF StaysSwitched
  <2> QED
    BY <1>4, <2>1, <2>2
<1>9. AliasTrue' /\ RepairTrue'
  BY <1>1, <1>7, <1>8, ViewsKept DEF ProfileHolds
<1> QED
  BY <1>1, <1>2, <1>3, <1>5, <1>7, <1>9, NoneTyped, RebuildMoves

\* A collection is taken away: the others keep what they have.
Without(C, g) == [h \in DOMAIN C \ {g} |-> C[h]]

LEMMA WithoutFacts ==
  ASSUME NEW C, NEW g
  PROVE  /\ DOMAIN Without(C, g) = DOMAIN C \ {g}
         /\ \A h \in DOMAIN C \ {g} : Without(C, g)[h] = C[h]
BY DEF Without

LEMMA DropFacts ==
  ASSUME IndexInv, NEW g, DropCollection(g), UNCHANGED document
  PROVE  /\ DOMAIN points' = DOMAIN points \ {g}
         /\ \A h \in DOMAIN points' : points'[h] = points[h]
         /\ DOMAIN points' \subseteq Nat \ {0} /\ \A h \in DOMAIN points' : points'[h] \subseteq Revisions
         /\ alias' \in {alias, 0} /\ alias' \in Nat
         /\ \A h : HasCollection(h) /\ h # g => HasCollection(h)'
         /\ \A h : Holds(h) /\ h # g => Holds(h)'
<1>1. points' = Without(points, g) /\ alias' \in {alias, 0}
  BY DEF DropCollection, Without
<1>2. /\ DOMAIN points' = DOMAIN points \ {g}
      /\ \A h \in DOMAIN points \ {g} : points'[h] = points[h]
  BY ONLY <1>1, WithoutFacts
<1>3. /\ DOMAIN points \subseteq Nat \ {0} /\ \A h \in DOMAIN points : points[h] \subseteq Revisions
      /\ alias \in Nat
  BY DEF IndexInv, IndexTypeOK
<1>4. \A h : HasCollection(h) /\ h # g => HasCollection(h)'
  BY <1>2 DEF HasCollection
<1>5. \A h : Holds(h) /\ h # g => Holds(h)'
  BY <1>2 DEF Holds, HasCollection
<1> QED
  BY <1>1, <1>2, <1>3, <1>4, <1>5

\* A build that fails before its switch takes its target away, then the row back.
LEMMA DeleteTargetKeeps ==
  ASSUME IndexInv, NEW w \in Rebuilders, DeleteTarget(w)
  PROVE  IndexInv'
<1> DEFINE r == rebuilder[w]
<1>1. /\ r.at = "delete" /\ DropCollection(r.next.target)
      /\ UNCHANGED <<profile, revision, document, rebuildTask, indexTask, indexer, repair, removal, indexScene>>
  BY DEF DeleteTarget
<1>2. /\ ~Still /\ ~r.adrift /\ rebuildTask.state = "running" /\ rebuildTask \in Messages
      /\ \A u \in Rebuilders : u # w => rebuilder[u].at = "rest"
      /\ r \in Rebuilds /\ BuildTrue(r)
  BY <1>1, AloneAtWork
<1>3. PICK q : q = [r EXCEPT !.at = "failed"]
  OBVIOUS
<1>4. rebuilder' = [rebuilder EXCEPT ![w] = q]
  BY <1>3 DEF DeleteTarget, SetRebuilder
<1>5. q \in Rebuilds /\ q.at = "failed" /\ q.next = r.next /\ ~q.adrift
  BY <1>2, <1>3 DEF Rebuilds
<1>6. ~Steady /\ profile = r.next
  BY <1>1, <1>2 DEF BuildTrue
<1>7. /\ profile.active \in Nat /\ profile.active < r.next.target /\ r.next.target \in Nat
      /\ Building(profile) /\ profile.target = r.next.target
  BY <1>2, <1>6, BuildFacts
<1>8. PICK g : g = r.next.target
  OBVIOUS
<1>9. /\ DOMAIN points' = DOMAIN points \ {g}
      /\ \A h \in DOMAIN points' : points'[h] = points[h]
      /\ DOMAIN points' \subseteq Nat \ {0} /\ \A h \in DOMAIN points' : points'[h] \subseteq Revisions
      /\ alias' \in {alias, 0} /\ alias' \in Nat
      /\ \A h : Holds(h) /\ h # g => Holds(h)'
  <2>1. DropCollection(g) /\ UNCHANGED document
    BY <1>1, <1>8
  <2> QED
    BY <2>1, DropFacts
<1>10. profile.active # g
  BY <1>7, <1>8
<1>11. ProfileHolds' /\ Shaped(profile)' /\ RowMoves(profile, profile')
  <2>1. profile.active # 0 => Holds(profile.active)'
    <3>1. Holds(profile.active) => Holds(profile.active)'
      BY <1>1, <1>9, <1>10
    <3> QED
      BY <3>1 DEF IndexInv, ProfileHolds
  <2>2. ProfileHolds'
    BY <1>1, <1>2, <2>1 DEF IndexInv, ProfileHolds, Still, Shaped
  <2> QED
    BY <1>1, <2>2 DEF ProfileHolds, RowMoves
<1>12. Generations'
  BY <1>1, <1>7, <1>9 DEF IndexInv, Generations, Building
<1>13. AliasTrue' /\ RepairTrue'
  <2>1. ~Switched(profile)
    BY <1>1, <1>2, <1>6 DEF Switched
  <2> QED
    BY <1>1, <1>9, <1>11, <2>1, ViewsKept DEF StaysSwitched
<1>14. BuildTrue(q)'
  <2>1. ~HasCollection(q.next.target)' /\ ~Steady'
    BY <1>1, <1>5, <1>6, <1>8, <1>9 DEF HasCollection, Steady
  <2> QED
    BY <1>1, <1>2, <1>5, <1>6, <2>1 DEF BuildTrue, Shaped
<1>15. profile.active # 0 => points[profile.active] \subseteq points'[profile.active]
  <2>1. profile.active # 0 => profile.active \in DOMAIN points
    BY DEF IndexInv, ProfileHolds, Holds, HasCollection
  <2> QED
    BY <1>9, <1>10, <2>1
<1>16. rebuildTask' \in Messages /\ rebuildTask'.state = "running"
  BY <1>1, <1>2
<1> QED
  BY <1>1, <1>2, <1>4, <1>5, <1>9, <1>11, <1>12, <1>13, <1>14, <1>15, <1>16, RebuildMoves

LEMMA FailProfileKeeps ==
  ASSUME IndexInv, NEW w \in Rebuilders, FailProfile(w)
  PROVE  IndexInv'
<1> DEFINE r == rebuilder[w]
<1>1. /\ r.at = "failed" /\ Swap(r.next, TakeBack(r.next))
      /\ UNCHANGED <<alias, points, revision, document, indexTask, indexer, repair, removal, indexScene>>
  BY DEF FailProfile
<1>2. /\ ~Still /\ ~r.adrift /\ rebuildTask.state = "running" /\ rebuildTask \in Messages
      /\ \A u \in Rebuilders : u # w => rebuilder[u].at = "rest"
      /\ r \in Rebuilds /\ BuildTrue(r)
  BY <1>1, AloneAtWork
<1>3. rebuilder' = [rebuilder EXCEPT ![w] = NoRebuild] /\ rebuildTask' \in Messages
  BY <1>2, MessageTyped DEF FailProfile, Return, SetRebuilder
<1>4. ~Steady /\ profile = r.next /\ ~HasCollection(profile.target)
  BY <1>1, <1>2 DEF BuildTrue
<1>5. /\ profile.active \in Nat /\ profile.target \in Nat /\ profile.target # 0
      /\ Building(profile) /\ profile.target <= MaxGeneration /\ profile.active <= MaxGeneration
  <2>1. Shaped(profile)
    BY DEF IndexInv, ProfileHolds
  <2> QED
    BY <1>2, <1>4, <2>1, BuildFacts DEF Shaped
<1>6. \/ profile.active # 0 /\ profile' = ProfileIndex("ready", profile.active, 0)
      \/ profile.active = 0 /\ profile' = ProfileIndex("failed", 0, profile.target)
  BY <1>1, <1>4 DEF Swap, TakeBack
<1>7. /\ profile' \in Profiles /\ profile'.active = profile.active
      /\ \/ profile'.state = "ready" /\ profile'.target = 0 /\ profile.active # 0
         \/ profile'.state = "failed" /\ profile'.target = profile.target /\ profile.active = 0
  BY <1>5, <1>6 DEF ProfileIndex, Profiles
<1>8. Shaped(profile)' /\ RowMoves(profile, profile')
  <2>1. Shaped(profile)'
    <3>1. MaxGeneration \in Nat
      BY IndexAssumption
    <3> QED
      BY <1>5, <1>7, <3>1 DEF Shaped
  <2> QED
    BY <1>5, <1>6, <2>1 DEF RowMoves
<1>9. ProfileHolds'
  <2>1. profile.active # 0 => Holds(profile'.active)
    BY <1>7 DEF IndexInv, ProfileHolds
  <2>2. profile.active # 0 => Holds(profile.active)'
    BY <1>1, <2>1 DEF Holds, HasCollection
  <2> QED
    BY <1>1, <1>2, <1>7, <1>8, <2>2 DEF ProfileHolds, Still
<1>10. Generations'
  BY <1>1, <1>4, <1>7 DEF IndexInv, Generations, HasCollection
<1>11. AliasTrue' /\ RepairTrue'
  <2>1. ~Switched(profile)
    BY <1>1, <1>2, <1>4 DEF Switched
  <2> QED
    BY <1>1, <1>8, <2>1, ViewsKept DEF StaysSwitched
<1>12. /\ alias \in Nat /\ DOMAIN points \subseteq Nat \ {0}
       /\ \A g \in DOMAIN points : points[g] \subseteq Revisions
  BY DEF IndexInv, IndexTypeOK
<1> QED
  BY <1>1, <1>2, <1>3, <1>8, <1>9, <1>10, <1>11, <1>12, NoneTyped, RebuildMoves

-----------------------------------------------------------------------------
(* The reconciler and the removal of retired collections.                  *)

\* A step that is not of a rebuild.
LEMMA ReconcilerMoves ==
  ASSUME IndexInv,
         UNCHANGED <<revision, document, rebuildTask, rebuilder, indexTask, indexer, indexScene>>,
         repair' \in Repairs, removal' \in Nat, alias' \in Nat,
         DOMAIN points' \subseteq Nat \ {0}, \A g \in DOMAIN points' : points'[g] \subseteq Revisions,
         ProfileHolds', Generations', RowMoves(profile, profile'), AliasTrue', RepairTrue',
         \A w \in Rebuilders : rebuilder[w].at \notin {"rest", "begin"} => BuildTrue(rebuilder[w])',
         profile'.active = profile.active /\ profile.active # 0 =>
           points[profile.active] \subseteq points'[profile.active]
  PROVE  IndexInv'
<1>1. Shaped(profile)' /\ profile' \in Profiles
  BY DEF ProfileHolds, Shaped
<1>2. DocumentsTrue' /\ Idle' /\ IndexersTrue'
  BY <1>1, RowsKept
<1>3. IndexTypeOK'
  BY <1>1 DEF IndexInv, IndexTypeOK
<1>4. OneRebuild'
  BY DEF IndexInv, OneRebuild, Still
<1>5. RebuildersTrue'
  BY DEF IndexInv, RebuildersTrue, BeginTrue
<1> QED
  BY <1>2, <1>3, <1>4, <1>5 DEF IndexInv

\* A step of the reconciler that leaves the profile and the collections.
LEMMA RepairAloneKeeps ==
  ASSUME IndexInv,
         UNCHANGED <<profile, points, revision, document, rebuildTask, rebuilder, indexTask, indexer,
                     removal, indexScene>>,
         repair' \in Repairs, RepairTrue', alias' = alias \/ (alias' \in Nat /\ alias' <= profile.active)
  PROVE  IndexInv'
<1>1. \A g : Holds(g) => Holds(g)'
  BY DEF Holds, HasCollection
<1>2. ProfileHolds'
  <2>1. Holds(profile.active) => Holds(profile.active)'
    BY <1>1
  <2> QED
    BY <2>1 DEF IndexInv, ProfileHolds, Still, Shaped
<1>3. Generations' /\ RowMoves(profile, profile') /\ removal' \in Nat /\ alias' \in Nat
  BY DEF IndexInv, Generations, HasCollection, RowMoves, IndexTypeOK
<1>4. AliasTrue'
  <2>1. Switched(profile) => Switched(profile)'
    BY <1>1 DEF Switched, Steady, Building
  <2> QED
    BY <2>1 DEF IndexInv, AliasTrue
<1>5. ASSUME NEW w \in Rebuilders, rebuilder[w].at \notin {"rest", "begin"}
      PROVE  BuildTrue(rebuilder[w])'
  <2>1. BuildTrue(rebuilder[w])
    BY <1>5 DEF IndexInv, RebuildersTrue
  <2> QED
    BY <2>1 DEF BuildTrue, Holds, HasCollection, Promised, Steady, Shaped
<1>6. /\ DOMAIN points \subseteq Nat \ {0} /\ \A g \in DOMAIN points : points[g] \subseteq Revisions
  BY DEF IndexInv, IndexTypeOK
<1> QED
  BY <1>2, <1>3, <1>4, <1>5, <1>6, ReconcilerMoves

LEMMA ListProfileKeeps ==
  ASSUME IndexInv, ListProfile
  PROVE  IndexInv'
<1>1. /\ profile.state # "failed" /\ repair' = [at |-> "inspect", seen |-> profile, plan |-> "none"]
      /\ UNCHANGED <<profile, alias, points, revision, document, rebuildTask, rebuilder, indexTask, indexer,
                     removal, indexScene>>
  BY DEF ListProfile
<1>2. Shaped(profile) /\ profile \in Profiles
  BY DEF IndexInv, ProfileHolds, Shaped
<1>3. repair' \in Repairs /\ repair'.at = "inspect" /\ repair'.seen = profile
  BY <1>1, <1>2 DEF Repairs
<1>4. profile.active <= profile.active
  BY <1>2, ShapedFacts
<1>5. RepairTrue'
  BY <1>1, <1>2, <1>3, <1>4 DEF RepairTrue, Shaped
<1> QED
  BY <1>1, <1>3, <1>5, RepairAloneKeeps

\* The rows of one build are the same row.
LEMMA OneRowOfABuild ==
  ASSUME NEW p, NEW q, Shaped(p), Shaped(q), Building(p), Building(q),
         p.active = q.active, p.target = q.target
  PROVE  p = q
<1>1. /\ p = ProfileIndex(p.state, p.active, p.target) /\ q = ProfileIndex(q.state, q.active, q.target)
      /\ p.active \in Nat /\ p.target \in Nat
  BY ShapedFacts
<1>2. p.state = q.state
  BY <1>1 DEF Shaped, Building
<1> QED
  BY <1>1, <1>2

\* What the alias says of the row seen: it is past, or it is still the row and
\* its build is past the switch.
LEMMA SeenTarget ==
  ASSUME IndexInv, repair.at # "rest", Building(repair.seen), alias = repair.seen.target
  PROVE  Past(repair.seen) \/ (profile = repair.seen /\ Switched(profile))
<1> DEFINE seen == repair.seen
<1>1. Shaped(seen) /\ seen.active <= profile.active /\ Shaped(profile)
  BY DEF IndexInv, RepairTrue, ProfileHolds
<1>2. /\ seen.active \in Nat /\ seen.target \in Nat /\ seen.active < seen.target
      /\ profile.active \in Nat /\ profile.target \in Nat
  BY <1>1, ShapedFacts
<1>3. CASE alias <= profile.active
  <2>1. profile.active > seen.active
    BY <1>2, <1>3
  <2> QED
    BY <2>1 DEF Past
<1>4. CASE alias = profile.target /\ Switched(profile)
  <2>1. CASE profile.active > seen.active
    BY <2>1 DEF Past
  <2>2. CASE profile.active = seen.active
    <3>1. profile = seen
      BY <1>1, <1>4, <2>2, OneRowOfABuild DEF Switched
    <3> QED
      BY <1>4, <3>1
  <2> QED
    BY <1>1, <1>2, <2>1, <2>2
<1> QED
  BY <1>3, <1>4 DEF IndexInv, AliasTrue

\* What a collection holds verifies.
LEMMA HeldIsWhole ==
  ASSUME NEW g, Holds(g)
  PROVE  Whole(g)
BY DEF Holds, Whole, Promised

LEMMA InspectProfileKeeps ==
  ASSUME CalmIndexing, IndexInv, InspectProfile
  PROVE  IndexInv'
<1> DEFINE seen == repair.seen
           sound == {g \in 1..MaxGeneration : Whole(g)}
<1>1. /\ repair.at = "inspect"
      /\ repair' = [repair EXCEPT !.at = "apply", !.plan = Diagnosis(seen, sound)]
      /\ UNCHANGED <<profile, alias, points, revision, document, rebuildTask, rebuilder, indexTask, indexer,
                     removal, indexScene>>
  BY CalmScene DEF InspectProfile, IndexFault
<1>2. /\ Shaped(seen) /\ seen.state # "failed" /\ seen.active <= profile.active /\ repair \in Repairs
      /\ Shaped(profile) /\ (profile.active # 0 => Holds(profile.active))
  BY <1>1 DEF IndexInv, RepairTrue, IndexTypeOK, ProfileHolds
<1>3. Diagnosis(seen, sound) \in {"none", "finish", "restore", "fail", "point"}
  <2> HIDE DEF seen, sound
  <2> QED
    BY DEF Diagnosis
<1>4. /\ repair' \in Repairs /\ repair'.at = "apply" /\ repair'.seen = seen
      /\ repair'.plan = Diagnosis(seen, sound)
  <2>1. PICK remedy \in {"none", "finish", "restore", "fail", "point"} : remedy = Diagnosis(seen, sound)
    BY <1>3
  <2>2. repair' = [repair EXCEPT !.at = "apply", !.plan = remedy]
    BY <1>1, <2>1
  <2>3. /\ repair' \in Repairs /\ repair'.at = "apply" /\ repair'.seen = seen /\ repair'.plan = remedy
    BY <1>2, <2>2 DEF Repairs
  <2> QED
    BY <2>1, <2>3
<1>5. /\ seen.active \in Nat /\ seen.target \in Nat /\ profile.active \in Nat /\ profile.target \in Nat
      /\ MaxGeneration \in Nat
  BY <1>2, ShapedFacts, IndexAssumption
<1>6. seen.state # "ready" => Building(seen)
  BY <1>2, ShapedFacts DEF Building
<1>7. profile.active # 0 => profile.active \in sound
  <2>1. profile.active # 0 => Whole(profile.active)
    BY <1>2, HeldIsWhole
  <2>2. profile.active # 0 => profile.active \in 1..MaxGeneration
    BY <1>2, <1>5 DEF Shaped
  <2> QED
    BY <2>1, <2>2
<1>8. Switched(profile) => profile.target \in sound
  <2>1. ASSUME Switched(profile) PROVE profile.target \in sound
    <3>1. Whole(profile.target) /\ profile.target > profile.active
      BY <1>2, <2>1, HeldIsWhole, ShapedFacts DEF Switched
    <3>2. profile.target \in 1..MaxGeneration
      BY <1>2, <1>5, <3>1 DEF Shaped
    <3> QED
      BY <3>1, <3>2
  <2> QED
    BY <2>1
<1>9. seen.state # "ready" /\ alias = seen.target =>
        Past(seen) \/ (profile = seen /\ Switched(profile) /\ seen.target \in sound)
  BY <1>1, <1>6, <1>8, SeenTarget
<1>10. Diagnosis(seen, sound) = "finish" => Past(seen) \/ (profile = seen /\ Switched(profile))
  <2> HIDE DEF seen, sound
  <2> QED
    BY <1>9 DEF Diagnosis
<1>11. Diagnosis(seen, sound) \in {"fail", "restore"} => Past(seen)
  <2>1. CASE seen.state # "ready" /\ alias = seen.target
    <3> HIDE DEF seen, sound
    <3> QED
      BY <1>9, <2>1 DEF Diagnosis
  <2>2. CASE ~(seen.state # "ready" /\ alias = seen.target)
    <3>1. Diagnosis(seen, sound) \in {"fail", "restore"} => seen.active # 0 /\ seen.active \notin sound
      <4> HIDE DEF seen, sound
      <4> QED
        BY <2>2 DEF Diagnosis
    <3>2. seen.active # 0 /\ seen.active \notin sound => profile.active > seen.active
      <4> HIDE DEF seen, sound
      <4> QED
        BY <1>2, <1>5, <1>7
    <3> QED
      BY <3>1, <3>2 DEF Past
  <2> QED
    BY <2>1, <2>2
<1>12. RepairTrue'
  <2> HIDE DEF sound
  <2>1. PICK s, remedy : s = seen /\ remedy = Diagnosis(seen, sound)
    OBVIOUS
  <2>2. repair'.seen = s /\ repair'.plan = remedy /\ repair'.at = "apply"
    BY <1>4, <2>1
  <2>3. /\ Shaped(s) /\ s.state # "failed" /\ s.active <= profile.active
        /\ remedy \in {"fail", "restore"} => Past(s)
        /\ remedy = "finish" => Past(s) \/ (profile = s /\ Switched(profile))
    BY <1>2, <1>10, <1>11, <2>1
  <2>4. Switched(profile) => Switched(profile)'
    BY <1>1 DEF Switched, Steady, Building, Holds, HasCollection
  <2> QED
    BY <1>1, <2>2, <2>3, <2>4 DEF RepairTrue, Shaped, Past
<1> QED
  BY <1>1, <1>4, <1>12, RepairAloneKeeps

LEMMA PastIsGone ==
  ASSUME IndexInv, repair.at # "rest", Past(repair.seen)
  PROVE  profile # repair.seen
<1>1. Shaped(repair.seen) /\ repair.seen.state # "failed"
  BY DEF IndexInv, RepairTrue
<1>2. repair.seen.active \in Nat /\ repair.seen.target \in Nat
  BY <1>1, ShapedFacts
<1> QED
  BY <1>1, <1>2 DEF Past

\* The reconciler finishes a build that died after its switch.
LEMMA RepairFinishes ==
  ASSUME IndexInv, Switched(profile), profile' = ProfileIndex("ready", profile.target, 0),
         UNCHANGED <<alias, points, revision, document, rebuildTask, rebuilder, indexTask, indexer,
                     removal, indexScene>>,
         repair' = NoRepair
  PROVE  IndexInv'
<1>1. Building(profile) /\ Holds(profile.target) /\ ~Still
  BY DEF Switched, Building, IndexInv, ProfileHolds
<1>2. ProfileHolds' /\ Generations' /\ RowMoves(profile, profile')
  BY <1>1, RowFinished
<1>3. repair' \in Repairs /\ RepairTrue'
  BY NoneTyped DEF RepairTrue
<1>4. AliasTrue'
  BY <1>2, AliasKept DEF StaysSwitched, ProfileHolds
<1>5. ASSUME NEW w \in Rebuilders, rebuilder[w].at \notin {"rest", "begin"}
      PROVE  BuildTrue(rebuilder[w])'
  <2> DEFINE r == rebuilder[w]
  <2>1. BuildTrue(r) /\ \A u \in Rebuilders : u # w => rebuilder[u].at = "rest"
    BY <1>5 DEF IndexInv, RebuildersTrue, OneRebuild
  <2>2. profile = r.next
    <3>1. profile.state # "ready"
      BY <1>1 DEF Building
    <3> QED
      BY <2>1, <3>1, BuildFacts
  <2>3. Steady \/ r.at = "swap"
    BY <2>1 DEF Switched
  <2>4. profile' = ProfileIndex("ready", r.next.target, 0)
    BY <2>2
  <2> QED
    BY <2>1, <2>3, <2>4 DEF BuildTrue, Holds, HasCollection, Promised, Steady, Shaped
<1>6. /\ alias \in Nat /\ removal \in Nat /\ DOMAIN points \subseteq Nat \ {0}
      /\ \A g \in DOMAIN points : points[g] \subseteq Revisions
  BY DEF IndexInv, IndexTypeOK
<1> QED
  BY <1>2, <1>3, <1>4, <1>5, <1>6, ReconcilerMoves

LEMMA ApplyRepairKeeps ==
  ASSUME IndexInv, ApplyRepair
  PROVE  IndexInv'
<1> DEFINE seen == repair.seen
           remedy == repair.plan
           repointed == remedy \in {"point", "restore"} /\ HasCollection(seen.active)
<1>1. /\ repair.at = "apply"
      /\ remedy = "finish" => Swap(seen, ProfileIndex("ready", seen.target, 0))
      /\ remedy = "fail" => Swap(seen, [seen EXCEPT !.state = "failed"])
      /\ remedy \notin {"finish", "fail"} => UNCHANGED profile
      /\ IF repointed THEN alias' = seen.active ELSE UNCHANGED alias
      /\ repair' = IF remedy = "restore" /\ HasCollection(seen.active) THEN [repair EXCEPT !.at = "restore"]
                                                                     ELSE NoRepair
      /\ UNCHANGED <<points, revision, document, rebuildTask, rebuilder, indexTask, indexer, removal, indexScene>>
  BY DEF ApplyRepair
<1>2. /\ Shaped(seen) /\ seen.state # "failed" /\ seen.active <= profile.active /\ repair \in Repairs
      /\ remedy \in {"fail", "restore"} => Past(seen)
      /\ remedy = "finish" => Past(seen) \/ (profile = seen /\ Switched(profile))
  BY <1>1 DEF IndexInv, RepairTrue, IndexTypeOK
<1>3. seen.active \in Nat
  BY <1>2, ShapedFacts
<1>4. Past(seen) => profile # seen
  BY <1>1, PastIsGone
<1>5. CASE remedy = "finish" /\ profile = seen
  <2>1. /\ Switched(profile) /\ profile' = ProfileIndex("ready", profile.target, 0)
        /\ repair' = NoRepair /\ UNCHANGED alias
    BY <1>1, <1>2, <1>4, <1>5 DEF Swap
  <2> QED
    BY <1>1, <2>1, RepairFinishes
<1>6. CASE ~(remedy = "finish" /\ profile = seen)
  <2>1. UNCHANGED profile
    BY <1>1, <1>2, <1>4, <1>6 DEF Swap
  <2>2. alias' = alias \/ (alias' \in Nat /\ alias' <= profile.active)
    BY <1>1, <1>2, <1>3
  <2>3. CASE repair' = NoRepair
    <3>1. repair' \in Repairs /\ RepairTrue'
      BY <2>3, NoneTyped DEF RepairTrue
    <3> QED
      BY <1>1, <2>1, <2>2, <3>1, RepairAloneKeeps
  <2>4. CASE remedy = "restore" /\ repair' = [repair EXCEPT !.at = "restore"]
    <3>1. repair' \in Repairs /\ repair'.at = "restore" /\ repair'.seen = seen
      BY <1>2, <2>4 DEF Repairs
    <3>2. PICK s : s = seen
      OBVIOUS
    <3>3. Shaped(s) /\ s.state # "failed" /\ s.active <= profile.active /\ Past(s)
      BY <1>2, <2>4, <3>2
    <3>4. RepairTrue'
      BY <2>1, <3>1, <3>2, <3>3 DEF RepairTrue, Shaped, Past
    <3> QED
      BY <1>1, <2>1, <2>2, <3>1, <3>4, RepairAloneKeeps
  <2> QED
    BY <1>1, <2>3, <2>4
<1> QED
  BY <1>5, <1>6

LEMMA RestoreActiveKeeps ==
  ASSUME IndexInv, RestoreActive
  PROVE  IndexInv'
<1>1. /\ repair.at = "restore" /\ Swap(repair.seen, ProfileIndex("ready", repair.seen.active, 0))
      /\ repair' = NoRepair
      /\ UNCHANGED <<alias, points, revision, document, rebuildTask, rebuilder, indexTask, indexer, removal, indexScene>>
  BY DEF RestoreActive
<1>2. profile # repair.seen
  BY <1>1, PastIsGone DEF IndexInv, RepairTrue
<1>3. UNCHANGED profile /\ repair' \in Repairs /\ RepairTrue'
  BY <1>1, <1>2, NoneTyped DEF Swap, RepairTrue
<1> QED
  BY <1>1, <1>3, RepairAloneKeeps

LEMMA CheckRetiredKeeps ==
  ASSUME IndexInv, NEW g \in 1..MaxGeneration, CheckRetired(g)
  PROVE  IndexInv'
<1>1. /\ Retired(g) /\ removal' = g
      /\ UNCHANGED <<profile, alias, points, revision, document, rebuildTask, rebuilder, indexTask, indexer, repair, indexScene>>
  BY DEF CheckRetired
<1>2. g \in Nat /\ profile.active \in Nat /\ g < profile.active
  BY <1>1, IndexAssumption DEF Retired, IndexInv, Generations, IndexTypeOK, Profiles, HasCollection
<1>3. Generations' /\ IndexTypeOK'
  BY <1>1, <1>2 DEF IndexInv, Generations, IndexTypeOK, HasCollection
<1>4. ProfileHolds' /\ OneRebuild' /\ RebuildersTrue'
  BY <1>1 DEF IndexInv, ProfileHolds, OneRebuild, RebuildersTrue, BeginTrue, BuildTrue, Holds,
              HasCollection, Promised, Steady, Still, Shaped
<1>5. AliasTrue' /\ RepairTrue'
  BY <1>1 DEF IndexInv, AliasTrue, RepairTrue, Switched, Past, Holds, HasCollection, Steady, Shaped, Building
<1>6. DocumentsTrue' /\ Idle' /\ IndexersTrue'
  BY <1>1 DEF IndexInv, DocumentsTrue, Idle, IndexersTrue, Still
<1> QED
  BY <1>3, <1>4, <1>5, <1>6 DEF IndexInv

LEMMA DeleteRetiredKeeps ==
  ASSUME IndexInv, DeleteRetired
  PROVE  IndexInv'
<1>1. /\ removal # 0 /\ DropCollection(removal) /\ removal' = 0
      /\ UNCHANGED <<profile, revision, document, rebuildTask, rebuilder, indexTask, indexer, repair, indexScene>>
  BY DEF DeleteRetired
<1>2. PICK g : g = removal
  OBVIOUS
<1>3. /\ DOMAIN points' = DOMAIN points \ {g}
      /\ \A h \in DOMAIN points' : points'[h] = points[h]
      /\ DOMAIN points' \subseteq Nat \ {0} /\ \A h \in DOMAIN points' : points'[h] \subseteq Revisions
      /\ alias' \in {alias, 0} /\ alias' \in Nat
      /\ \A h : HasCollection(h) /\ h # g => HasCollection(h)'
      /\ \A h : Holds(h) /\ h # g => Holds(h)'
  <2>1. DropCollection(g) /\ UNCHANGED document
    BY <1>1, <1>2
  <2> QED
    BY <2>1, DropFacts
<1>4. /\ g \in Nat /\ g < profile.active /\ profile.active \in Nat /\ profile.target \in Nat
      /\ Shaped(profile) /\ repair \in Repairs
  BY <1>1, <1>2 DEF IndexInv, Generations, IndexTypeOK, Profiles, ProfileHolds
<1>5. ProfileHolds' /\ RowMoves(profile, profile')
  <2>1. profile.active # 0 => Holds(profile.active)'
    <3>1. Holds(profile.active) /\ profile.active # g => Holds(profile.active)'
      BY <1>1, <1>3
    <3> QED
      BY <1>4, <3>1 DEF IndexInv, ProfileHolds
  <2> QED
    BY <1>1, <2>1 DEF IndexInv, ProfileHolds, RowMoves, Still, Shaped
<1>6. Generations'
  BY <1>1, <1>3 DEF IndexInv, Generations, HasCollection
<1>7. AliasTrue' /\ RepairTrue'
  <2>1. ASSUME Switched(profile) PROVE Switched(profile)'
    <3>1. profile.target # g
      BY <1>4, <2>1, ShapedFacts DEF Switched
    <3>2. Holds(profile.target)'
      BY <1>1, <1>3, <2>1, <3>1 DEF Switched
    <3> QED
      BY <1>1, <2>1, <3>2 DEF Switched, Steady, Building
  <2>2. Shaped(profile)'
    BY <1>5 DEF ProfileHolds
  <2> QED
    BY <1>1, <1>3, <1>5, <2>1, <2>2, ViewsKept DEF StaysSwitched
<1>8. ASSUME NEW w \in Rebuilders, rebuilder[w].at \notin {"rest", "begin"}
      PROVE  BuildTrue(rebuilder[w])'
  <2> DEFINE r == rebuilder[w]
  <2>1. BuildTrue(r)
    BY <1>8 DEF IndexInv, RebuildersTrue
  <2>2. /\ r.next.target \in Nat /\ profile.active <= r.next.target
    BY <2>1, BuildFacts
  <2>3. PICK t : t = r.next.target
    OBVIOUS
  <2>4. t # g
    BY <1>4, <2>2, <2>3
  <2>5. /\ HasCollection(t) => HasCollection(t)' /\ points'[t] = points[t]
        /\ Holds(t) => Holds(t)'
        /\ ~HasCollection(t) => ~HasCollection(t)'
    BY <1>3, <2>4 DEF HasCollection
  <2>6. Promised' = Promised /\ Steady' = Steady
    BY <1>1 DEF Promised, Steady
  <2>7. r' = r
    BY <1>1
  <2>8. r.at = "compare" => HasCollection(r.next.target)
    BY <2>1 DEF BuildTrue
  <2> HIDE DEF r
  <2> QED
    BY <1>1, <2>1, <2>3, <2>5, <2>6, <2>7, <2>8 DEF BuildTrue, Shaped, r
<1>9. profile.active # 0 => points[profile.active] \subseteq points'[profile.active]
  <2>1. profile.active # 0 => profile.active \in DOMAIN points
    BY DEF IndexInv, ProfileHolds, Holds, HasCollection
  <2> QED
    BY <1>3, <1>4, <2>1
<1> QED
  BY <1>1, <1>3, <1>4, <1>5, <1>6, <1>7, <1>8, <1>9, ReconcilerMoves

-----------------------------------------------------------------------------
LEMMA IndexInvIsInductive ==
  ASSUME CalmIndexing, IndexInv, [IndexNext]_contextVars
  PROVE  IndexInv'
<1>1. CASE UNCHANGED contextVars
  BY <1>1 DEF contextVars, IndexInv, IndexTypeOK, ProfileHolds, Generations, OneRebuild, RebuildersTrue,
     AliasTrue, RepairTrue, DocumentsTrue, Idle, IndexersTrue, BeginTrue, BuildTrue, Holds, HasCollection,
     Promised, Steady, Still, Shaped, Switched, Past, Building
<1>2. ASSUME NEW v \in Revisions, CreateVersion(v) \/ VersionLeaseLapses(v) PROVE IndexInv'
  BY <1>2, CreateVersionKeeps, VersionLeaseLapsesKeeps
<1>3. ASSUME NEW d \in ContextDocuments, DeleteDocument(d) \/ ChangeDocumentStatus(d) PROVE IndexInv'
  BY <1>3, DocumentChangesKeep
<1>4. CASE OrderRebuild
  BY <1>4, OrderRebuildKeeps
<1>5. ASSUME NEW w \in Rebuilders, RebuilderStep(w) \/ FailRebuild(w) \/ RebuilderStops(w) PROVE IndexInv'
  BY <1>5, StartRebuildKeeps, BeginRebuildKeeps, EnsureCollectionKeeps, PopulateKeeps, CompareKeeps,
     SwitchToTargetKeeps, FinishRebuildKeeps, DeleteTargetKeeps, FailProfileKeeps, FailRebuildKeeps,
     RebuilderStopsKeeps DEF RebuilderStep
<1>6. ASSUME NEW w \in Indexers, IndexerStep(w) \/ IndexerStops(w) PROVE IndexInv'
  BY <1>6, AcquireVersionKeeps, PublishPointsKeeps, ActivateVersionKeeps, IndexingFailsKeeps,
     IndexerStopsKeeps DEF IndexerStep
<1>7. CASE ReconcileVersions
  BY <1>7, ReconcileVersionsKeeps
<1>8. CASE RepairStep
  BY <1>8, ListProfileKeeps, InspectProfileKeeps, ApplyRepairKeeps, RestoreActiveKeeps DEF RepairStep
<1>9. ASSUME NEW g \in 1..MaxGeneration, CheckRetired(g) PROVE IndexInv'
  BY <1>9, CheckRetiredKeeps
<1>10. CASE DeleteRetired
  BY <1>10, DeleteRetiredKeeps
<1> QED
  BY <1>1, <1>2, <1>3, <1>4, <1>5, <1>6, <1>7, <1>8, <1>9, <1>10 DEF IndexNext

LEMMA IndexInvAlways == ASSUME CalmIndexing PROVE IndexSpec => []IndexInv
<1>1. IndexInv /\ [IndexNext]_contextVars => IndexInv'
  BY IndexInvIsInductive
<1> QED
  BY <1>1, IndexInvHoldsAtInit, PTL DEF IndexSpec

\* What verifyProfileGeneration asks of the active collection is true whenever
\* a request may search it, at every step of rebuilds, their failures and
\* retries, the reconciler and the removal of retired collections.
THEOREM ProfilesStaySearchable ==
  ASSUME CalmIndexing
  PROVE  IndexSpec => []SearchableWhenReady
<1>1. IndexInv => SearchableWhenReady
  BY HeldIsWhole DEF IndexInv, ProfileHolds, SearchableWhenReady
<1> QED
  BY <1>1, IndexInvAlways, PTL

\* Only an activation moves a document, and it moves it to the newest version
\* that is ready.
LEMMA DocumentsMoveOn ==
  ASSUME IndexInv, NEW w \in Indexers, ActivateVersion(w)
  PROVE  \A d \in ContextDocuments : document'[d].active # document[d].active =>
           /\ document'[d].active > document[d].active
           /\ revision'[document'[d].active].state = "ready"
           /\ HasCollection(profile.active) /\ document'[d].active \in points[profile.active]
<1> DEFINE v == indexer[w].version
           d == DocumentOf[v]
<1>1. /\ v \in Revisions /\ d \in ContextDocuments
      /\ HasCollection(profile.active) /\ v \in points[profile.active]
      /\ \/ document' = document
         \/ document' = [document EXCEPT ![d].active = v] /\ document[d].active < v
  BY ActivatedVersion
<1>2. revision' = [revision EXCEPT ![v] = [revision[v] EXCEPT !.state = "ready", !.live = FALSE]]
  BY DEF ActivateVersion, SetRevision
<1>3. revision'[v].state = "ready"
  BY <1>1, <1>2 DEF IndexInv, IndexTypeOK, RevisionRows
<1>4. document \in [ContextDocuments -> DocumentRows] /\ document[d] \in DocumentRows
  BY <1>1 DEF IndexInv, IndexTypeOK
<1>5. ASSUME NEW e \in ContextDocuments, document'[e].active # document[e].active
      PROVE  e = d /\ document'[e].active = v /\ document[d].active < v
  <2>1. document' = [document EXCEPT ![d] = [document[d] EXCEPT !.active = v]] /\ document[d].active < v
    BY <1>1, <1>5
  <2>2. [document[d] EXCEPT !.active = v].active = v
    BY <1>4 DEF DocumentRows
  <2>3. e = d
    <3> HIDE DEF d, v
    <3> QED
      BY <1>4, <1>5, <2>1
  <2> QED
    BY <1>1, <1>4, <2>1, <2>2, <2>3
<1>6. ASSUME NEW e \in ContextDocuments, document'[e].active # document[e].active
      PROVE  document'[e].active > document[e].active
  <2>1. e = d /\ document'[e].active = v /\ document[d].active < v
    BY <1>5, <1>6
  <2> HIDE DEF d, v
  <2> QED
    BY <2>1
<1> HIDE DEF d, v
<1> QED
  BY <1>1, <1>3, <1>5, <1>6

\* A version that ended is not touched again.
EndedStays == \A v \in Revisions : revision[v].state \in {"ready", "failed"} => revision'[v].state = revision[v].state
DocumentsStay == \A d \in ContextDocuments : document'[d].active = document[d].active

LEMMA EndedVersionsStay ==
  ASSUME IndexInv, [IndexNext]_contextVars
  PROVE  EndedStays /\ (DocumentsStay \/ \E w \in Indexers : ActivateVersion(w))
<1>1. /\ revision \in [Revisions -> RevisionRows] /\ document \in [ContextDocuments -> DocumentRows]
  BY DEF IndexInv, IndexTypeOK
<1>2. ASSUME UNCHANGED <<revision, document>> PROVE EndedStays /\ DocumentsStay
  BY <1>2 DEF EndedStays, DocumentsStay
<1>3. ASSUME NEW v \in Revisions, CreateVersion(v) \/ VersionLeaseLapses(v)
      PROVE  EndedStays /\ DocumentsStay
  <2>1. /\ UNCHANGED document
        /\ \/ revision[v].state = "none" /\ revision' = [revision EXCEPT ![v] = [NoRevision EXCEPT !.state = "queued"]]
           \/ revision' = [revision EXCEPT ![v] = [revision[v] EXCEPT !.live = FALSE]]
    BY <1>3 DEF CreateVersion, VersionLeaseLapses, SetRevision
  <2>2. [revision[v] EXCEPT !.live = FALSE].state = revision[v].state
    BY <1>1 DEF RevisionRows
  <2> QED
    BY <1>1, <2>1, <2>2 DEF EndedStays, DocumentsStay
<1>4. ASSUME NEW d \in ContextDocuments, DeleteDocument(d) \/ ChangeDocumentStatus(d)
      PROVE  EndedStays /\ DocumentsStay
  <2>1. UNCHANGED revision
    BY <1>4 DEF DeleteDocument, ChangeDocumentStatus
  <2>2. \/ document' = [document EXCEPT ![d] = [document[d] EXCEPT !.deleted = TRUE]]
        \/ document' = [document EXCEPT ![d] = [document[d] EXCEPT !.enabled = ~document[d].enabled]]
    BY <1>4 DEF DeleteDocument, ChangeDocumentStatus
  <2>3. /\ [document[d] EXCEPT !.deleted = TRUE].active = document[d].active
        /\ [document[d] EXCEPT !.enabled = ~document[d].enabled].active = document[d].active
    BY <1>1 DEF DocumentRows
  <2> QED
    BY <1>1, <2>1, <2>2, <2>3 DEF EndedStays, DocumentsStay
<1>5. ASSUME NEW w \in Indexers, NEW v \in Revisions, AcquireVersion(w, v)
      PROVE  EndedStays /\ DocumentsStay
  <2>1. /\ UNCHANGED document
        /\ \/ UNCHANGED revision
           \/ /\ revision[v].state \notin {"ready", "failed"}
              /\ \E r : revision' = [revision EXCEPT ![v] = r]
    BY <1>5 DEF AcquireVersion, SetRevision
  <2> QED
    BY <1>1, <2>1 DEF EndedStays, DocumentsStay
<1>6. ASSUME NEW w \in Indexers, PublishPoints(w) \/ IndexerStops(w)
      PROVE  EndedStays /\ DocumentsStay
  BY <1>2, <1>6 DEF PublishPoints, IndexerStops
<1>7. ASSUME NEW w \in Indexers, IndexingFails(w)
      PROVE  EndedStays /\ DocumentsStay
  <2>1. /\ UNCHANGED document
        /\ \/ UNCHANGED revision
           \/ /\ revision[indexer[w].version].state = "processing"
              /\ \E r : revision' = [revision EXCEPT ![indexer[w].version] = r]
    BY <1>7 DEF IndexingFails, IndexingEnds, SetRevision, LeaseHeld
  <2> QED
    BY <1>1, <2>1 DEF EndedStays, DocumentsStay
<1>8. ASSUME NEW w \in Indexers, ActivateVersion(w)
      PROVE  EndedStays
  <2>1. /\ revision[indexer[w].version].state = "processing"
        /\ \E r : revision' = [revision EXCEPT ![indexer[w].version] = r]
    BY <1>8 DEF ActivateVersion, SetRevision, LeaseHeld
  <2> QED
    BY <1>1, <2>1 DEF EndedStays
<1>9. CASE ReconcileVersions
  BY <1>9 DEF ReconcileVersions, EndedStays, DocumentsStay
<1>10. CASE OrderRebuild \/ RepairStep \/ DeleteRetired \/ \E g \in 1..MaxGeneration : CheckRetired(g)
  BY <1>2, <1>10 DEF OrderRebuild, RepairStep, ListProfile, InspectProfile, ApplyRepair, RestoreActive,
                     DeleteRetired, CheckRetired
<1>11. ASSUME NEW w \in Rebuilders, RebuilderStep(w) \/ FailRebuild(w) \/ RebuilderStops(w)
       PROVE  EndedStays /\ DocumentsStay
  <2>1. UNCHANGED <<revision, document>>
    BY <1>11 DEF RebuilderStep, StartRebuild, BeginRebuild, EnsureCollection, Populate, Compare,
                 SwitchToTarget, FinishRebuild, DeleteTarget, FailProfile, FailRebuild, RebuilderStops
  <2> QED
    BY <1>2, <2>1
<1>12. CASE UNCHANGED contextVars
  BY <1>2, <1>12 DEF contextVars
<1> QED
  BY <1>3, <1>4, <1>5, <1>6, <1>7, <1>8, <1>9, <1>10, <1>11, <1>12 DEF IndexNext, IndexerStep

\* Of two workers that index versions of one document the later version stays
\* active, whichever activates first, and what is active can be found
\* (ActivateVersion, FailVersion, FinalizeVersion).
THEOREM VersionsOnlyAdvance ==
  ASSUME CalmIndexing
  PROVE  IndexSpec => RevisionsOnlyAdvance
<1> DEFINE Advances ==
      /\ \A v \in Revisions : revision[v].state \in {"ready", "failed"} => revision'[v].state = revision[v].state
      /\ \A d \in ContextDocuments : document'[d].active # document[d].active =>
           /\ document'[d].active > document[d].active
           /\ revision'[document'[d].active].state = "ready"
           /\ HasCollection(profile.active) /\ document'[d].active \in points[profile.active]
<1>1. IndexInv /\ [IndexNext]_contextVars => [Advances]_contextVars
  BY EndedVersionsStay, DocumentsMoveOn DEF EndedStays, DocumentsStay
<1>2. IndexSpec => [][Advances]_contextVars
  BY <1>1, IndexInvAlways, PTL DEF IndexSpec
<1> QED
  BY <1>2 DEF RevisionsOnlyAdvance
=============================================================================
