------------------------- MODULE EvaluatorWindowProofs -------------------------
(***************************************************************************)
(* EvaluatorWindow implements EvaluatorGroup, its window is that of the    *)
(* latest observations, and none of the first ones is flagged, for any     *)
(* workers, readings, faults, observations and sizes.                      *)
(***************************************************************************)
EXTENDS EvaluatorWindow, EvaluatorGroupProofs, WellFoundedInduction

Observations == [at : Nat, value : Int]

\* Every set of naturals has a least one.
LEMMA LeastExists ==
  ASSUME NEW C, C \subseteq Nat, C # {}
  PROVE  \E m \in C : \A k \in C : ~(k < m)
<1>1. IsWellFoundedOn(OpToRel(<, Nat), Nat)
  BY NatLessThanWellFounded
<1>2. PICK m \in C : \A k \in C : <<k, m>> \notin OpToRel(<, Nat)
  BY <1>1, WFMin
<1>3. \A k \in C : ~(k < m)
  BY <1>2 DEF OpToRel
<1> QED BY <1>3

Later(S, x) == {y \in S : y.at > x.at}

\* Latest in terms of Later.
LEMMA LatestIsLater == \A S, n : Latest(S, n) = {x \in S : Cardinality(Later(S, x)) < n}
BY DEF Latest, Later

\* What is later in a finite set can be counted.
LEMMA LaterIsFinite ==
  ASSUME NEW S, IsFiniteSet(S), NEW x
  PROVE  IsFiniteSet(Later(S, x)) /\ Cardinality(Later(S, x)) \in Nat
<1>1. Later(S, x) \in SUBSET S
  BY DEF Later
<1> QED BY <1>1, FS_Subset, FS_CardinalityType

\* A subset of a finite set is no larger.
LEMMA Fewer ==
  ASSUME NEW S, NEW T, IsFiniteSet(S), T \subseteq S
  PROVE  IsFiniteSet(T) /\ Cardinality(T) \in Nat /\ Cardinality(T) <= Cardinality(S)
BY FS_Subset, FS_CardinalityType

(* What is later than one of the latest is one of the latest.              *)
LEMMA LatestIsClosed ==
  ASSUME NEW R, R \subseteq Observations, IsFiniteSet(R), NEW n \in Nat, NEW z \in Latest(R, n)
  PROVE  Later(R, z) \subseteq Latest(R, n)
<1> SUFFICES ASSUME NEW y \in Later(R, z) PROVE y \in Latest(R, n)
  OBVIOUS
<1>1. z \in R /\ y \in R /\ y.at > z.at /\ y.at \in Nat /\ z.at \in Nat
  BY LatestIsLater DEF Later, Observations
<1>2. Later(R, y) \subseteq Later(R, z)
  BY <1>1 DEF Later, Observations
<1>3. Cardinality(Later(R, z)) < n
  BY LatestIsLater
<1>4. IsFiniteSet(Later(R, z)) /\ Cardinality(Later(R, z)) \in Nat
  BY LaterIsFinite
<1>5. Cardinality(Later(R, y)) \in Nat /\ Cardinality(Later(R, y)) <= Cardinality(Later(R, z))
  BY <1>2, <1>4, Fewer
<1>6. Cardinality(Later(R, y)) < n
  BY <1>3, <1>4, <1>5
<1> QED BY <1>1, <1>6, LatestIsLater

(* An observation with something later that is not among the latest n has  *)
(* n of them behind it: of what is not among them, the latest has.         *)
LEMMA TooLate ==
  ASSUME NEW R, R \subseteq Observations, IsFiniteSet(R), NEW n \in Nat,
         NEW x \in Observations, ~(Later(R, x) \subseteq Latest(R, n))
  PROVE  n <= Cardinality(Later(Latest(R, n), x))
<1> DEFINE L   == Latest(R, n)
           far == Later(R, x) \ L
           C   == {Cardinality(Later(R, y)) : y \in far}
<1>1. far # {}
  OBVIOUS
<1>2. C \subseteq Nat /\ C # {}
  BY <1>1, LaterIsFinite
<1>3. PICK m \in C : \A k \in C : ~(k < m)
  <2> HIDE DEF C
  <2> QED BY <1>2, LeastExists
<1>4. PICK y \in far : Cardinality(Later(R, y)) = m
  OBVIOUS
<1>5. y \in R /\ y.at > x.at /\ y \notin L /\ y.at \in Nat /\ x.at \in Nat
  BY <1>4 DEF Later, Observations
<1>6. IsFiniteSet(Later(R, y)) /\ Cardinality(Later(R, y)) \in Nat
  BY LaterIsFinite
<1>7. ASSUME NEW u \in Later(R, y), u \notin L PROVE FALSE
  <2>1. u \in R /\ u.at > y.at /\ u.at \in Nat
    BY <1>7 DEF Later, Observations
  <2>2. u \in far
    BY <1>5, <1>7, <2>1 DEF Later
  <2>3. Later(R, u) \subseteq Later(R, y) \ {u}
    BY <1>5, <2>1 DEF Later, Observations
  <2>4. /\ IsFiniteSet(Later(R, y) \ {u})
        /\ Cardinality(Later(R, y) \ {u}) = Cardinality(Later(R, y)) - 1
    BY <1>6, <1>7, FS_RemoveElement
  <2>5. /\ Cardinality(Later(R, u)) \in Nat
        /\ Cardinality(Later(R, u)) <= Cardinality(Later(R, y)) - 1
    BY <2>3, <2>4, Fewer
  <2>6. Cardinality(Later(R, u)) < m
    BY <1>4, <1>6, <2>5
  <2>7. Cardinality(Later(R, u)) \in C
    BY <2>2
  <2> QED BY <1>3, <2>6, <2>7
<1>8. Later(R, y) \subseteq Later(L, x)
  BY <1>5, <1>7 DEF Later, Observations
<1>9. n <= Cardinality(Later(R, y))
  BY <1>5, <1>6, LatestIsLater
<1>10. IsFiniteSet(L) /\ IsFiniteSet(Later(L, x)) /\ Cardinality(Later(L, x)) \in Nat
  <2>1. L \subseteq R
    BY LatestIsLater
  <2>2. IsFiniteSet(L)
    BY <2>1, Fewer
  <2> QED BY <2>2, LaterIsFinite
<1>11. Cardinality(Later(R, y)) <= Cardinality(Later(L, x))
  BY <1>8, <1>10, Fewer
<1> QED BY <1>6, <1>9, <1>10, <1>11

(* Trimming at every step leaves what trimming once would: the latest n of *)
(* the latest n and one more are the latest n of all.                      *)
LEMMA LatestOfLatest ==
  ASSUME NEW R, R \subseteq Observations, IsFiniteSet(R), NEW n \in Nat, NEW x \in Observations
  PROVE  Latest(Latest(R, n) \cup {x}, n) = Latest(R \cup {x}, n)
<1> DEFINE L == Latest(R, n)
<1>1. L \subseteq R
  BY LatestIsLater
<1>2. IsFiniteSet(R \cup {x}) /\ IsFiniteSet(L) /\ IsFiniteSet(L \cup {x})
  BY <1>1, Fewer, FS_AddElement
<1>3. ASSUME NEW z, Later(R, z) \subseteq L PROVE Later(L \cup {x}, z) = Later(R \cup {x}, z)
  BY <1>1, <1>3 DEF Later
<1>4. ASSUME NEW z \in L
      PROVE  z \in Latest(L \cup {x}, n) <=> z \in Latest(R \cup {x}, n)
  <2>1. Later(L \cup {x}, z) = Later(R \cup {x}, z)
    BY <1>3, <1>4, LatestIsClosed
  <2> QED BY <1>1, <1>4, <2>1, LatestIsLater
<1>5. x \in Latest(L \cup {x}, n) <=> x \in Latest(R \cup {x}, n)
  <2>1. CASE Later(R, x) \subseteq L
    <3>1. Later(L \cup {x}, x) = Later(R \cup {x}, x)
      BY <1>3, <2>1
    <3> QED BY <3>1, LatestIsLater
  <2>2. CASE ~(Later(R, x) \subseteq L)
    <3>1. n <= Cardinality(Later(L, x))
      BY <2>2, TooLate
    <3>2. Later(L, x) \subseteq Later(L \cup {x}, x) /\ Later(L, x) \subseteq Later(R \cup {x}, x)
      BY <1>1 DEF Later
    <3>3. /\ IsFiniteSet(Later(L \cup {x}, x)) /\ Cardinality(Later(L \cup {x}, x)) \in Nat
          /\ IsFiniteSet(Later(R \cup {x}, x)) /\ Cardinality(Later(R \cup {x}, x)) \in Nat
          /\ Cardinality(Later(L, x)) \in Nat
      BY <1>2, LaterIsFinite
    <3>4. /\ Cardinality(Later(L, x)) <= Cardinality(Later(L \cup {x}, x))
          /\ Cardinality(Later(L, x)) <= Cardinality(Later(R \cup {x}, x))
      BY <3>2, <3>3, Fewer
    <3>5. ~(Cardinality(Later(L \cup {x}, x)) < n) /\ ~(Cardinality(Later(R \cup {x}, x)) < n)
      BY <3>1, <3>3, <3>4
    <3> QED BY <3>5, LatestIsLater
  <2> QED BY <2>1, <2>2
<1>6. ASSUME NEW z \in R, z \notin L PROVE z \notin Latest(R \cup {x}, n)
  <2>1. ~(Cardinality(Later(R, z)) < n)
    BY <1>6, LatestIsLater
  <2>2. Later(R, z) \subseteq Later(R \cup {x}, z)
    BY DEF Later
  <2>3. /\ IsFiniteSet(Later(R \cup {x}, z)) /\ Cardinality(Later(R \cup {x}, z)) \in Nat
        /\ Cardinality(Later(R, z)) \in Nat
    BY <1>2, LaterIsFinite
  <2>4. Cardinality(Later(R, z)) <= Cardinality(Later(R \cup {x}, z))
    BY <2>2, <2>3, Fewer
  <2>5. ~(Cardinality(Later(R \cup {x}, z)) < n)
    BY <2>1, <2>3, <2>4
  <2> QED BY <2>5, LatestIsLater
<1>7. Latest(L \cup {x}, n) \subseteq L \cup {x} /\ Latest(R \cup {x}, n) \subseteq R \cup {x}
  BY LatestIsLater
<1>8. ASSUME NEW z PROVE z \in Latest(L \cup {x}, n) <=> z \in Latest(R \cup {x}, n)
  <2> HIDE DEF L
  <2> QED BY <1>1, <1>4, <1>5, <1>6, <1>7
<1>9. \A z : z \in Latest(L \cup {x}, n) <=> z \in Latest(R \cup {x}, n)
  BY <1>8
<1>10. Latest(L \cup {x}, n) = Latest(R \cup {x}, n)
  <2> HIDE DEF L
  <2> QED BY <1>9
<1> QED BY <1>10

-----------------------------------------------------------------------------
(***************************************************************************)
(* Sums over a set are defined by taking its elements out one by one.      *)
(* g[s] is the sum of f over s, for s a subset of S.                       *)
(***************************************************************************)
First(s) == CHOOSE x \in s : TRUE
Rest(s)  == s \ {First(s)}

SumsOver(f, D, g) == g = [s \in D |-> IF s = {} THEN 0 ELSE f[First(s)] + g[Rest(s)]]

\* The first of a set is one of it, and the rest is smaller by one.
LEMMA RestIsSmaller ==
  ASSUME NEW S, IsFiniteSet(S), NEW s \in SUBSET S, s # {}
  PROVE  /\ First(s) \in s /\ First(s) \in S
         /\ Rest(s) \in SUBSET S /\ IsFiniteSet(s) /\ IsFiniteSet(Rest(s))
         /\ Cardinality(s) \in Nat \ {0} /\ Cardinality(Rest(s)) = Cardinality(s) - 1
<1>1. First(s) \in s
  BY DEF First
<1>2. IsFiniteSet(s) /\ Cardinality(s) \in Nat /\ Cardinality(s) # 0
  BY FS_Subset, FS_CardinalityType, FS_EmptySet
<1>3. IsFiniteSet(s \ {First(s)}) /\ Cardinality(s \ {First(s)}) = Cardinality(s) - 1
  BY <1>1, <1>2, FS_RemoveElement
<1> QED BY <1>1, <1>2, <1>3 DEF Rest

\* The recursion has a solution, from the small subsets up to S itself.
LEMMA SumsExist ==
  ASSUME NEW S, IsFiniteSet(S), NEW f
  PROVE  \E g : SumsOver(f, SUBSET S, g)
<1> DEFINE UpTo(n) == {s \in SUBSET S : Cardinality(s) <= n}
           Bad == {n \in Nat : ~\E g : SumsOver(f, UpTo(n), g)}
<1>1. \A s \in SUBSET S : Cardinality(s) \in Nat /\ Cardinality(s) <= Cardinality(S)
  BY FS_Subset, FS_CardinalityType
<1>2. SumsOver(f, UpTo(0), [s \in UpTo(0) |-> 0])
  <2>1. \A s \in UpTo(0) : s = {}
    <3>1. ASSUME NEW s \in SUBSET S, Cardinality(s) <= 0 PROVE s = {}
      <4>1. IsFiniteSet(s) /\ Cardinality(s) = 0
        BY <1>1, <3>1, FS_Subset
      <4> QED BY <4>1, FS_EmptySet
    <3> QED BY <3>1
  <2> QED BY <2>1 DEF SumsOver
<1>3. ASSUME NEW n \in Nat, NEW g, SumsOver(f, UpTo(n), g)
      PROVE  \E h : SumsOver(f, UpTo(n + 1), h)
  <2> DEFINE h == [s \in UpTo(n + 1) |-> IF s = {} THEN 0 ELSE f[First(s)] + g[Rest(s)]]
  <2>1. UpTo(n) \subseteq UpTo(n + 1)
    BY <1>1
  <2>2. ASSUME NEW s \in UpTo(n + 1), s # {} PROVE Rest(s) \in UpTo(n)
    <3>1. /\ s \in SUBSET S /\ Cardinality(s) <= n + 1 /\ Cardinality(s) \in Nat
          /\ Rest(s) \in SUBSET S /\ Cardinality(Rest(s)) = Cardinality(s) - 1
      BY <1>1, <2>2, RestIsSmaller
    <3>2. Cardinality(s) - 1 <= n
      BY <3>1
    <3> QED BY <3>1, <3>2
  <2>3. ASSUME NEW s \in UpTo(n) PROVE h[s] = g[s]
    <3>1. s \in UpTo(n + 1)
      BY <2>1
    <3>2. g[s] = IF s = {} THEN 0 ELSE f[First(s)] + g[Rest(s)]
      <4> HIDE DEF UpTo
      <4> QED BY <1>3 DEF SumsOver
    <3> HIDE DEF UpTo
    <3> QED BY <3>1, <3>2
  <2>4. ASSUME NEW s \in UpTo(n + 1)
        PROVE  h[s] = IF s = {} THEN 0 ELSE f[First(s)] + h[Rest(s)]
    <3>1. s # {} => h[Rest(s)] = g[Rest(s)]
      BY <2>2, <2>3
    <3> HIDE DEF UpTo
    <3> QED BY <3>1
  <2>5. h = [s \in UpTo(n + 1) |-> IF s = {} THEN 0 ELSE f[First(s)] + h[Rest(s)]]
    <3>1. h = [s \in UpTo(n + 1) |-> h[s]]
      OBVIOUS
    <3> HIDE DEF h, UpTo
    <3> QED BY <2>4, <3>1
  <2> HIDE DEF h
  <2> QED BY <2>5 DEF SumsOver
<1>4. Bad = {}
  <2> SUFFICES ASSUME Bad # {} PROVE FALSE
    OBVIOUS
  <2>1. Bad \subseteq Nat
    OBVIOUS
  <2>2. PICK m \in Bad : \A k \in Bad : ~(k < m)
    <3> HIDE DEF Bad
    <3> QED BY <2>1, LeastExists
  <2>3. m \in Nat /\ m # 0
    BY <1>2
  <2>4. m - 1 \in Nat /\ m - 1 < m /\ (m - 1) + 1 = m
    BY <2>3
  <2>5. m - 1 \notin Bad
    <3> HIDE DEF Bad
    <3> QED BY <2>2, <2>4
  <2>6. PICK g : SumsOver(f, UpTo(m - 1), g)
    BY <2>4, <2>5
  <2>7. \E h : SumsOver(f, UpTo(m), h)
    <3> HIDE DEF UpTo
    <3>1. \E h : SumsOver(f, UpTo((m - 1) + 1), h)
      BY <1>3, <2>4, <2>6
    <3> QED BY <2>4, <3>1
  <2> QED BY <2>7
<1>5. UpTo(Cardinality(S)) = SUBSET S
  BY <1>1
<1> HIDE DEF UpTo
<1>6. Cardinality(S) \in Nat
  BY FS_CardinalityType
<1>7. \A n \in Nat : \E g : SumsOver(f, UpTo(n), g)
  BY <1>4
<1>8. \E g : SumsOver(f, UpTo(Cardinality(S)), g)
  BY <1>6, <1>7
<1> QED BY <1>5, <1>8

\* t[s] and q[s] are the sum and the sum of squares of the observations in s.
Sums(S, t, q) ==
  /\ t[{}] = 0 /\ q[{}] = 0
  /\ \A s \in SUBSET S : s # {} =>
        /\ t[s] = First(s).value + t[Rest(s)]
        /\ q[s] = First(s).value * First(s).value + q[Rest(s)]

\* What the library's sum over a set unfolds to.
LEMMA TotalIsASum ==
  ASSUME NEW S
  PROVE  Total(S) = (CHOOSE g : g = [s \in SUBSET S |->
                       IF s = {} THEN 0
                       ELSE (CHOOSE x \in s : TRUE).value + g[s \ {CHOOSE x \in s : TRUE}]])[S]
BY DEF Total, MapThenSumSet, MapThenFoldSet

\* The same of the squares.
LEMMA SquaresIsASum ==
  ASSUME NEW S
  PROVE  Squares(S) = (CHOOSE g : g = [s \in SUBSET S |->
                         IF s = {} THEN 0
                         ELSE (CHOOSE x \in s : TRUE).value * (CHOOSE x \in s : TRUE).value
                                + g[s \ {CHOOSE x \in s : TRUE}]])[S]
BY DEF Squares, MapThenSumSet, MapThenFoldSet

\* Total and Squares are such sums.
LEMMA WindowSums ==
  ASSUME NEW S, IsFiniteSet(S)
  PROVE  \E t, q : Sums(S, t, q) /\ Total(S) = t[S] /\ Squares(S) = q[S]
<1> DEFINE T(g) == g = [s \in SUBSET S |->
                          IF s = {} THEN 0 ELSE First(s).value + g[Rest(s)]]
           Q(g) == g = [s \in SUBSET S |->
                          IF s = {} THEN 0
                          ELSE First(s).value * First(s).value + g[Rest(s)]]
           t == CHOOSE g : T(g)
           q == CHOOSE g : Q(g)
<1>1. Total(S) = t[S] /\ Squares(S) = q[S]
  <2>1. Total(S) = t[S]
    BY TotalIsASum DEF First, Rest
  <2>2. Squares(S) = q[S]
    BY SquaresIsASum DEF First, Rest
  <2> QED BY <2>1, <2>2
<1>2. \A s \in SUBSET S : s # {} => First(s) \in S
  BY RestIsSmaller
<1>3. T(t)
  <2>1. PICK g : SumsOver([x \in S |-> x.value], SUBSET S, g)
    BY SumsExist
  <2>2. T(g)
    BY <1>2, <2>1 DEF SumsOver
  <2> HIDE DEF T
  <2> QED BY <2>2
<1>4. Q(q)
  <2>1. PICK g : SumsOver([x \in S |-> x.value * x.value], SUBSET S, g)
    BY SumsExist
  <2>2. Q(g)
    BY <1>2, <2>1 DEF SumsOver
  <2> HIDE DEF Q
  <2> QED BY <2>2
<1> HIDE DEF t, q
<1>5. \A s \in SUBSET S : t[s] = IF s = {} THEN 0 ELSE First(s).value + t[Rest(s)]
  BY <1>3
<1>6. \A s \in SUBSET S :
        q[s] = IF s = {} THEN 0 ELSE First(s).value * First(s).value + q[Rest(s)]
  BY <1>4
<1>7. Sums(S, t, q)
  BY <1>5, <1>6 DEF Sums
<1> QED BY <1>1, <1>7

\* One more value adds at least what it must to the squares.
LEMMA OneMore ==
  ASSUME NEW a \in Int, NEW b \in Int, NEW p \in Int, NEW k \in Nat,
         0 <= b, a * a <= k * b
  PROVE  0 <= b + p * p /\ (a + p) * (a + p) <= (k + 1) * (b + p * p)
<1>1. 0 <= p * p /\ p * p \in Int
  OBVIOUS
<1>2. (a + p) * (a + p) = a * a + 2 * (a * p) + p * p
  OBVIOUS
<1>3. (k + 1) * (b + p * p) = k * b + b + k * (p * p) + p * p
  OBVIOUS
<1>4. 2 * (a * p) <= b + k * (p * p)
  <2>1. CASE k = 0
    <3>1. a * a <= 0
      BY <2>1
    <3>2. a = 0
      BY <3>1
    <3> QED BY <2>1, <3>2
  <2>2. CASE k > 0
    <3>1. 0 <= (a - k * p) * (a - k * p)
      OBVIOUS
    <3>2. (a - k * p) * (a - k * p) = a * a - 2 * (k * (a * p)) + k * (k * (p * p))
      OBVIOUS
    <3>3. 0 <= k * b - 2 * (k * (a * p)) + k * (k * (p * p))
      BY <3>1, <3>2
    <3> DEFINE c == b - 2 * (a * p) + k * (p * p)
    <3>4. k * c = k * b - 2 * (k * (a * p)) + k * (k * (p * p)) /\ c \in Int
      OBVIOUS
    <3>5. 0 <= k * c
      BY <3>3, <3>4
    <3>6. 0 <= c
      <4> HIDE DEF c
      <4> QED BY <2>2, <3>4, <3>5
    <3> QED BY <3>6
  <2> QED BY <2>1, <2>2
<1>5. a * a \in Int /\ a * p \in Int /\ k * b \in Int /\ k * (p * p) \in Int
  OBVIOUS
<1> QED BY <1>1, <1>2, <1>3, <1>4, <1>5

(***************************************************************************)
(* The sum of n values squared is at most n times the sum of their         *)
(* squares, also when one of them is set apart.                            *)
(***************************************************************************)
Scattered(t, q, s) ==
  /\ t[s] \in Int /\ q[s] \in Int /\ 0 <= q[s]
  /\ t[s] * t[s] <= Cardinality(s) * q[s]
  /\ \A x \in s :
       LET a == t[s] - x.value
           b == q[s] - x.value * x.value
       IN  0 <= b /\ a * a <= (Cardinality(s) - 1) * b

\* The inequality of Cauchy and Schwarz, one value after the other.
LEMMA ScatterGrows ==
  ASSUME NEW S, S \subseteq Observations, IsFiniteSet(S), NEW t, NEW q, Sums(S, t, q),
         NEW s \in SUBSET S, s # {}, Scattered(t, q, Rest(s))
  PROVE  Scattered(t, q, s)
<1> DEFINE r == Rest(s)
           p == First(s).value
           k == Cardinality(r)
<1>1. /\ First(s) \in s /\ r \in SUBSET S
      /\ k \in Nat /\ Cardinality(s) = k + 1
  BY RestIsSmaller
<1>2. t[s] = p + t[r] /\ q[s] = p * p + q[r]
  BY DEF Sums
<1>3. p \in Int /\ \A x \in s : x.value \in Int
  BY <1>1 DEF Observations
<1>4. /\ t[r] \in Int /\ q[r] \in Int /\ 0 <= q[r] /\ t[r] * t[r] <= k * q[r]
      /\ \A x \in r : /\ 0 <= q[r] - x.value * x.value
                     /\ (t[r] - x.value) * (t[r] - x.value)
                          <= (k - 1) * (q[r] - x.value * x.value)
  BY DEF Scattered
<1>5. \A x \in s : x = First(s) \/ x \in r
  BY DEF Rest
<1> HIDE DEF r, p, k
<1>6. t[s] \in Int /\ q[s] \in Int /\ p * p \in Int
  BY <1>2, <1>3, <1>4
<1>7. 0 <= q[s] /\ t[s] * t[s] <= Cardinality(s) * q[s]
  <2>1. 0 <= q[r] + p * p /\ (t[r] + p) * (t[r] + p) <= (k + 1) * (q[r] + p * p)
    BY <1>1, <1>3, <1>4, OneMore
  <2>2. t[s] = t[r] + p /\ q[s] = q[r] + p * p
    BY <1>2, <1>3, <1>4, <1>6
  <2> QED BY <1>1, <2>1, <2>2
<1>8. ASSUME NEW x \in s
      PROVE  /\ 0 <= q[s] - x.value * x.value
             /\ (t[s] - x.value) * (t[s] - x.value)
                  <= (Cardinality(s) - 1) * (q[s] - x.value * x.value)
  <2> DEFINE v == x.value
  <2>0. v \in Int /\ v * v \in Int
    BY <1>3
  <2>1. CASE x = First(s)
    <3>1. t[s] - v = t[r] /\ q[s] - v * v = q[r] /\ Cardinality(s) - 1 = k
      <4>1. v = p
        BY <2>1 DEF p
      <4> HIDE DEF v
      <4> QED BY <1>1, <1>2, <1>4, <1>6, <2>0, <4>1
    <3> QED BY <1>4, <3>1
  <2>2. CASE x \in r
    <3> DEFINE a == t[r] - v
               b == q[r] - v * v
    <3>1. 0 <= b /\ a * a <= (k - 1) * b /\ a \in Int /\ b \in Int
      BY <1>4, <2>0, <2>2
    <3>2. k - 1 \in Nat
      <4>1. IsFiniteSet(r) /\ r # {}
        BY <1>1, <2>2, FS_Subset
      <4>2. k # 0
        BY <4>1, FS_EmptySet DEF k
      <4> QED BY <1>1, <4>2
    <3> HIDE DEF a, b
    <3>3. 0 <= b + p * p /\ (a + p) * (a + p) <= ((k - 1) + 1) * (b + p * p)
      BY <1>3, <3>1, <3>2, OneMore
    <3>4. a + p = t[s] - v /\ b + p * p = q[s] - v * v /\ (k - 1) + 1 = Cardinality(s) - 1
      <4> HIDE DEF v
      <4> QED BY <1>1, <1>2, <1>3, <1>4, <1>6, <2>0 DEF a, b
    <3> QED BY <3>3, <3>4
  <2> QED BY <1>5, <2>1, <2>2
<1> QED BY <1>6, <1>7, <1>8 DEF Scattered

\* It holds of every set of observations.
LEMMA AllScattered ==
  ASSUME NEW S, S \subseteq Observations, IsFiniteSet(S), NEW t, NEW q, Sums(S, t, q)
  PROVE  Scattered(t, q, S)
<1> DEFINE Bad == {n \in Nat : \E s \in SUBSET S : Cardinality(s) = n /\ ~Scattered(t, q, s)}
<1>1. SUFFICES ASSUME ~Scattered(t, q, S) PROVE FALSE
  OBVIOUS
<1>2. Cardinality(S) \in Bad /\ Bad \subseteq Nat
  BY <1>1, FS_CardinalityType
<1>3. PICK m \in Bad : \A k \in Bad : ~(k < m)
  <2> HIDE DEF Bad
  <2> QED BY <1>2, LeastExists
<1>4. PICK s \in SUBSET S : Cardinality(s) = m /\ ~Scattered(t, q, s)
  OBVIOUS
<1>5. CASE s = {}
  <2>1. t[s] = 0 /\ q[s] = 0 /\ Cardinality(s) = 0
    BY <1>5, FS_EmptySet DEF Sums
  <2> QED BY <1>4, <1>5, <2>1 DEF Scattered
<1>6. CASE s # {}
  <2>1. Rest(s) \in SUBSET S /\ Cardinality(Rest(s)) = m - 1 /\ m \in Nat \ {0}
    BY <1>4, <1>6, RestIsSmaller
  <2>2. m - 1 \in Nat /\ m - 1 < m
    BY <2>1
  <2>3. m - 1 \notin Bad
    <3> HIDE DEF Bad
    <3> QED BY <1>3, <2>2
  <2>4. Scattered(t, q, Rest(s))
    BY <2>1, <2>2, <2>3
  <2> QED BY <1>4, <1>6, <2>4, ScatterGrows
<1> QED BY <1>5, <1>6

\* A factor that is not negative keeps an inequality.
LEMMA Times ==
  ASSUME NEW i \in Int, NEW j \in Int, NEW k \in Int, 0 <= k, i <= j
  PROVE  i * k <= j * k
OBVIOUS

(***************************************************************************)
(* Of k + 1 values with sum c and sum of squares q, one value v is no      *)
(* further from the mean than the spread of all allows.                    *)
(***************************************************************************)
LEMMA DistanceBounded ==
  ASSUME NEW c \in Int, NEW q \in Int, NEW v \in Int, NEW k \in Nat \ {0},
         (c - v) * (c - v) <= k * (q - v * v)
  PROVE  LET spread == (k + 1) * q - c * c
             distance == (k + 1) * v - c
         IN  distance * distance <= k * spread
<1> DEFINE a == c - v
           b == q - v * v
           spread == (k + 1) * q - c * c
           distance == (k + 1) * v - c
<1>1. v * v \in Int
  OBVIOUS
<1>2. a \in Int /\ b \in Int /\ c = a + v /\ q = b + v * v
  BY <1>1
<1>3. a * a <= k * b
  OBVIOUS
<1> HIDE DEF a, b
<1>4. distance = k * v - a
  BY <1>2
<1>5. spread = (k + 1) * b + k * (v * v) - a * a - 2 * (a * v)
  <2>1. c * c = a * a + 2 * (a * v) + v * v
    BY <1>2
  <2>2. (k + 1) * q = (k + 1) * b + k * (v * v) + v * v
    BY <1>2
  <2> QED BY <1>2, <2>1, <2>2
<1>6. distance * distance = k * (k * (v * v)) - 2 * (k * (a * v)) + a * a
  <2>1. (k * v - a) * (k * v - a) = k * (k * (v * v)) - 2 * (k * (a * v)) + a * a
    BY <1>2
  <2> HIDE DEF distance
  <2> QED BY <1>4, <2>1
<1>7. k * spread = k * ((k + 1) * b) + k * (k * (v * v)) - k * (a * a) - 2 * (k * (a * v))
  <2>1. k * ((k + 1) * b + k * (v * v) - a * a - 2 * (a * v))
          = k * ((k + 1) * b) + k * (k * (v * v)) - k * (a * a) - 2 * (k * (a * v))
    BY <1>2
  <2> HIDE DEF spread
  <2> QED BY <1>5, <2>1
<1>8. k * ((k + 1) * b) - k * (a * a) - a * a = (k + 1) * (k * b - a * a)
  BY <1>2
<1>9. 0 <= (k + 1) * (k * b - a * a)
  <2>1. k * b - a * a \in Int /\ 0 <= k * b - a * a /\ k + 1 \in Int
    BY <1>2, <1>3
  <2>2. 0 * (k + 1) <= (k * b - a * a) * (k + 1)
    BY <2>1, Times
  <2> QED BY <2>1, <2>2
<1>10. /\ k * ((k + 1) * b) \in Int /\ k * (a * a) \in Int /\ a * a \in Int
       /\ k * (k * (v * v)) \in Int /\ k * (a * v) \in Int
  BY <1>2
<1> HIDE DEF spread, distance
<1>11. distance * distance <= k * spread
  BY <1>6, <1>7, <1>8, <1>9, <1>10
<1> QED BY <1>11 DEF distance, spread

\* Of the fewest samples that are judged, none is beyond the threshold.
LEMMA NoneStandsOut ==
  ASSUME NEW S, S \subseteq Observations, IsFiniteSet(S), Cardinality(S) = MinSamples,
         NEW x \in S
  PROVE  ~Outlier(x.value, S)
<1> DEFINE n == MinSamples
           k == MinSamples - 1
           v == x.value
           c == Total(S)
           q == Squares(S)
           spread == n * q - c * c
           distance == n * v - c
<1>1. n \in Nat /\ k \in Nat \ {0} /\ n = k + 1
  BY SizesFit
<1>2. v \in Int
  BY DEF Observations
<1>3. /\ c \in Int /\ q \in Int
      /\ (c - v) * (c - v) <= k * (q - v * v)
  BY WindowSums, AllScattered DEF Scattered
<1> HIDE DEF n, k, v, c, q
<1>4. distance * distance <= k * spread
  BY <1>1, <1>2, <1>3, DistanceBounded
<1>5. distance \in Int /\ spread \in Int /\ distance * distance \in Int /\ k * spread \in Int
  BY <1>1, <1>2, <1>3
<1>6. k * k <= Threshold * Threshold * n /\ Threshold \in Nat
  BY ThresholdBeyondMinimum DEF k, n
<1> HIDE DEF spread, distance
<1>7. ASSUME spread > 0 PROVE distance * distance * k <= Threshold * Threshold * n * spread
  <2>1. distance * distance * k <= (k * spread) * k
    BY <1>1, <1>4, <1>5, Times
  <2>2. (k * spread) * k = k * k * spread
    BY <1>1, <1>5
  <2>3. k * k \in Int /\ Threshold * Threshold * n \in Int
    BY <1>1, <1>6
  <2>4. k * k * spread <= Threshold * Threshold * n * spread
    BY <1>5, <1>6, <1>7, <2>3, Times
  <2>5. /\ distance * distance * k \in Int /\ k * k * spread \in Int
        /\ Threshold * Threshold * n * spread \in Int
    BY <1>1, <1>5, <2>3
  <2> QED BY <2>1, <2>2, <2>4, <2>5
<1>8. Outlier(x.value, S) => spread > 0 /\ distance * distance * k > Threshold * Threshold * n * spread
  BY DEF Outlier, n, k, v, c, q, spread, distance
<1>9. distance * distance * k \in Int /\ Threshold * Threshold * n * spread \in Int
  <2>1. Threshold * Threshold * n \in Int
    BY <1>1, <1>6
  <2> QED BY <1>1, <1>5, <2>1
<1> QED BY <1>7, <1>8, <1>9

-----------------------------------------------------------------------------
(* With the verdict of the window the evaluators do nothing that they may  *)
(* not do with any verdict: every step is one of EvaluatorGroup, or of     *)
(* Redis alone.                                                            *)
THEOREM ImplementsGroup == WSpec => Spec
<1>1. WInit => Init
  BY DEF WInit
<1>2. [WNext]_wvars => [Next]_vars
  <2> SUFFICES ASSUME [WNext]_wvars PROVE [Next]_vars
    OBVIOUS
  <2>1. CASE \E k \in Kinds : Ingest(k)
    BY <2>1 DEF Next
  <2>2. ASSUME NEW w \in Workers, WWorkerStep(w) \/ LoseVerdict(w) \/ Failure(w) PROVE Next
    <3>1. CASE Evaluate(w)
      BY <3>1 DEF Evaluate, Next, WorkerStep
    <3>2. CASE OtherStep(w)
      BY <3>2 DEF OtherStep, Next, WorkerStep
    <3>3. CASE LoseVerdict(w)
      BY <3>3 DEF LoseVerdict, Next, Failure
    <3>4. CASE Failure(w)
      BY <3>4 DEF Next
    <3> QED BY <2>2, <3>1, <3>2, <3>3, <3>4 DEF WWorkerStep
  <2>3. CASE ExpireWindow
    BY <2>3 DEF ExpireWindow
  <2>4. CASE UNCHANGED wvars
    BY <2>4 DEF wvars
  <2> QED BY <2>1, <2>2, <2>3, <2>4 DEF WNext
<1> QED BY <1>1, <1>2, PTL DEF WSpec, Spec

(* So the evaluators that share a window still judge each reading at most  *)
(* once and lose a batch per failure at most (anomaly_consumer.py:75).     *)
THEOREM HandledOnceWithWindow == WSpec => []HandledOnce
BY ImplementsGroup, HandledOnceAlways, PTL

-----------------------------------------------------------------------------
Recorded ==
  /\ IsFiniteSet(recorded) /\ recorded \subseteq Observations
  /\ WindowIsLatest

\* A reading at hand was ingested, so that its observation is one.
LEMMA AtHandObserved ==
  ASSUME TypeOK, NEW w \in Workers, NEW e \in batch[w]
  PROVE  Samples[e] \in Observations
<1>1. batch[w] \subseteq 1..cursor /\ cursor \in 0..Len(log) /\ Len(log) <= MaxEntries
  BY DEF TypeOK
<1>2. Len(log) \in Nat
  BY DEF TypeOK
<1>3. MaxEntries \in Nat
  BY BoundsAreNaturals
<1>4. e \in 1..MaxEntries
  BY <1>1, <1>2, <1>3
<1> QED BY <1>4, SamplesAreTimed DEF Observations

\* A new window is that of no observation.
LEMMA RecordedStarts == WInit => Recorded
<1> SUFFICES ASSUME WInit PROVE Recorded
  OBVIOUS
<1>1. Latest({}, WindowSize) = {}
  BY LatestIsLater
<1> QED BY <1>1, FS_EmptySet DEF WInit, Recorded, WindowIsLatest

\* One observation more is trimmed to the latest of all.
LEMMA RecordedOneMore ==
  ASSUME TypeOK, Recorded, NEW w \in Workers, NEW e \in batch[w], Observe(e)
  PROVE  Recorded'
<1>1. Samples[e] \in Observations
  BY AtHandObserved
<1>2. window' = Latest(Latest(recorded, WindowSize) \cup {Samples[e]}, WindowSize)
  BY DEF Observe, Record, Recorded, WindowIsLatest
<1>3. window' = Latest(recorded', WindowSize)
  BY <1>1, <1>2, LatestOfLatest, SizesFit DEF Observe, Recorded
<1>4. IsFiniteSet(recorded') /\ recorded' \subseteq Observations
  BY <1>1, FS_AddElement DEF Observe, Recorded
<1> QED BY <1>3, <1>4 DEF Recorded, WindowIsLatest

\* Every step keeps it: only an observation or the expiry of the key touches the window.
LEMMA RecordedStays == TypeOK /\ Recorded /\ [WNext]_wvars => Recorded'
<1> SUFFICES ASSUME TypeOK, Recorded, [WNext]_wvars PROVE Recorded'
  OBVIOUS
<1>1. CASE \E w \in Workers : \E e \in batch[w] : Observe(e)
  BY <1>1, RecordedOneMore
<1>2. CASE UNCHANGED <<window, recorded>>
  BY <1>2 DEF Recorded, WindowIsLatest
<1>3. CASE ExpireWindow
  <2>1. Latest({}, WindowSize) = {}
    BY LatestIsLater
  <2> QED BY <1>3, <2>1, FS_EmptySet DEF ExpireWindow, Recorded, WindowIsLatest
<1> QED
  BY <1>1, <1>2, <1>3 DEF WNext, WWorkerStep, Evaluate, LoseVerdict, wvars

(* The window is that of the latest observations of all that were          *)
(* recorded, in whatever order workers bring them, lose their verdicts and *)
(* bring them again (anomaly_service.py:28).                               *)
THEOREM WindowIsLatestAlways == WSpec => []WindowIsLatest
<1>1. Recorded => WindowIsLatest
  BY DEF Recorded
<1> QED BY <1>1, RecordedStarts, RecordedStays, ImplementsGroup, TypeCorrect, PTL DEF WSpec

-----------------------------------------------------------------------------
\* While no more than fit were recorded, the window is all of them.
LEMMA WindowFills ==
  ASSUME NEW R, R \subseteq Observations, IsFiniteSet(R), Cardinality(R) <= WindowSize
  PROVE  Latest(R, WindowSize) = R
<1> SUFFICES ASSUME NEW x \in R PROVE Cardinality(Later(R, x)) < WindowSize
  BY LatestIsLater
<1>1. Later(R, x) \subseteq R \ {x}
  BY DEF Later, Observations
<1>2. IsFiniteSet(R \ {x}) /\ Cardinality(R \ {x}) = Cardinality(R) - 1
  BY FS_RemoveElement
<1>3. Cardinality(Later(R, x)) \in Nat /\ Cardinality(Later(R, x)) <= Cardinality(R) - 1
  BY <1>1, <1>2, Fewer
<1>4. Cardinality(R) \in Nat
  BY FS_CardinalityType
<1> QED BY <1>3, <1>4, SizesFit

\* A flagged reading stands out of more than the fewest samples.
LEMMA FlaggedBeyondMinimum ==
  ASSUME TypeOK, Recorded, Recorded', NEW w \in Workers, NEW e \in batch[w],
         Observe(e), Outlier(Samples[e].value, window')
  PROVE  Cardinality(recorded') > MinSamples
<1>1. /\ recorded' \subseteq Observations /\ IsFiniteSet(recorded')
      /\ window' = Latest(recorded', WindowSize)
  BY DEF Recorded, WindowIsLatest
<1>2. window' \subseteq recorded'
  BY <1>1, LatestIsLater
<1>3. /\ Cardinality(window') \in Nat /\ Cardinality(recorded') \in Nat
      /\ Cardinality(window') <= Cardinality(recorded')
  BY <1>1, <1>2, Fewer, FS_CardinalityType
<1>4. Cardinality(window') >= MinSamples
  BY DEF Outlier
<1>5. Samples[e] \in recorded'
  BY DEF Observe
<1> SUFFICES ASSUME ~(Cardinality(recorded') > MinSamples) PROVE FALSE
  OBVIOUS
<1>6. Cardinality(recorded') = MinSamples /\ Cardinality(recorded') <= WindowSize
  BY <1>3, <1>4, SizesFit
<1>7. window' = recorded'
  BY <1>1, <1>6, WindowFills
<1> QED BY <1>1, <1>5, <1>6, <1>7, NoneStandsOut

(* No reading is flagged before more than the fewest samples have been     *)
(* recorded, whatever their values and in whatever order the workers bring *)
(* them: the check for ten samples comes after the reading itself has been *)
(* added (anomaly_service.py:34).                                          *)
THEOREM NoVerdictAtMinimumAlways == WSpec => NoVerdictAtMinimum
<1>1. TypeOK /\ Recorded /\ Recorded' /\ [WNext]_wvars
        => [flagged' # flagged => Cardinality(recorded') > MinSamples]_wvars
  <2> SUFFICES ASSUME TypeOK, Recorded, Recorded', WNext, flagged' # flagged
               PROVE  Cardinality(recorded') > MinSamples
    BY DEF wvars
  <2>1. PICK w \in Workers : Evaluate(w)
    <3>1. ASSUME NEW k \in Kinds, Ingest(k) PROVE FALSE
      BY <3>1 DEF Ingest, effects
    <3>2. ASSUME NEW w \in Workers, OtherStep(w) PROVE FALSE
      BY <3>2 DEF OtherStep, Read, IdleTurn, Tick, Unparseable, GiveUp, ApplyRules, Ack,
                  HandlerAck, Wake, effects, vars
    <3>3. ASSUME NEW w \in Workers, Failure(w) \/ LoseVerdict(w) PROVE FALSE
      BY <3>3 DEF LoseVerdict, Failure, RaiseInEntry, RaiseInHandler, RaiseInRead,
                  Crash, Restart, GiveUp, effects
    <3>4. ~ExpireWindow
      BY DEF ExpireWindow, vars, effects
    <3> QED BY <3>1, <3>2, <3>3, <3>4 DEF WNext, WWorkerStep
  <2>2. PICK e \in batch[w] :
          Observe(e) /\ flagged' = IF Outlier(Samples[e].value, window')
                                   THEN flagged \cup {e} ELSE flagged
    BY <2>1 DEF Evaluate
  <2>3. Outlier(Samples[e].value, window')
    BY <2>2
  <2> QED BY <2>2, <2>3, FlaggedBeyondMinimum
<1> QED
  BY <1>1, RecordedStarts, RecordedStays, ImplementsGroup, TypeCorrect, PTL
     DEF WSpec, NoVerdictAtMinimum
=============================================================================
