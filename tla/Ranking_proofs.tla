--------------------------- MODULE Ranking_proofs ---------------------------
\* A finite set has a ranking by every strict total order of it, and Ranked is it.  And
\* induction over the natural numbers, with a set in the place of the predicate.
EXTENDS Ranking, FiniteSetTheorems, FunctionTheorems, WellFoundedInduction, TLAPS

\* R orders the elements of S strictly and totally.
Orders(R, S) ==
    /\ \A x \in S : <<x, x>> \notin R
    /\ \A x, y, z \in S : <<x, y>> \in R /\ <<y, z>> \in R => <<x, z>> \in R
    /\ \A x, y \in S : x = y \/ <<x, y>> \in R \/ <<y, x>> \in R

\* s holds the elements of S, each once, in the order R.
SortedBy(s, S, R) ==
    /\ Cardinality(S) \in Nat
    /\ s \in [1..Cardinality(S) -> S]
    /\ \A x \in S : \E k \in 1..Cardinality(S) : s[k] = x
    /\ \A i, j \in 1..Cardinality(S) : i < j => <<s[i], s[j]>> \in R

UpTo(x, S, R) == {y \in S : y = x \/ <<y, x>> \in R}

\* As many elements come up to an element as its position says.
LEMMA PositionsAreDistinct ==
    ASSUME NEW S, IsFiniteSet(S), NEW R, Orders(R, S)
    PROVE  LET position == [x \in S |-> Cardinality(UpTo(x, S, R))]
           IN  /\ position \in Bijection(S, 1..Cardinality(S))
               /\ \A x, y \in S : <<x, y>> \in R => position[x] < position[y]
  <1> DEFINE position == [x \in S |-> Cardinality(UpTo(x, S, R))]
  <1>1. \A x \in S : /\ IsFiniteSet(UpTo(x, S, R)) /\ position[x] \in 1..Cardinality(S)
    <2> SUFFICES ASSUME NEW x \in S
                 PROVE  IsFiniteSet(UpTo(x, S, R)) /\ position[x] \in 1..Cardinality(S)
      OBVIOUS
    <2>1. UpTo(x, S, R) \in SUBSET S /\ x \in UpTo(x, S, R)
      BY DEF UpTo
    <2>2. /\ IsFiniteSet(UpTo(x, S, R)) /\ Cardinality(UpTo(x, S, R)) <= Cardinality(S)
      BY <2>1, FS_Subset
    <2>3. Cardinality(UpTo(x, S, R)) \in Nat /\ Cardinality(S) \in Nat
      BY <2>2, FS_CardinalityType
    <2>4. Cardinality(UpTo(x, S, R)) # 0
      BY <2>1, <2>2, FS_EmptySet
    <2> QED
      BY <2>2, <2>3, <2>4
  <1>2. ASSUME NEW x \in S, NEW y \in S, <<x, y>> \in R PROVE position[x] < position[y]
    <2>1. UpTo(x, S, R) \in SUBSET UpTo(y, S, R)
      BY <1>2 DEF UpTo, Orders
    <2>2. y \in UpTo(y, S, R) /\ y \notin UpTo(x, S, R)
      BY <1>2 DEF UpTo, Orders
    <2>3. /\ Cardinality(UpTo(x, S, R)) <= Cardinality(UpTo(y, S, R))
          /\ Cardinality(UpTo(x, S, R)) # Cardinality(UpTo(y, S, R))
      BY <1>1, <2>1, <2>2, FS_Subset
    <2>4. Cardinality(UpTo(x, S, R)) \in Nat /\ Cardinality(UpTo(y, S, R)) \in Nat
      BY <1>1, FS_CardinalityType
    <2> QED
      BY <2>3, <2>4
  <1>3. \A x \in S : position[x] \in Nat
    BY <1>1
  <1>4. ASSUME NEW x \in S, NEW y \in S, position[x] = position[y] PROVE x = y
    <2>1. CASE <<x, y>> \in R
      BY <1>2, <1>3, <1>4, <2>1
    <2>2. CASE <<y, x>> \in R
      BY <1>2, <1>3, <1>4, <2>2
    <2> QED
      BY <2>1, <2>2 DEF Orders
  <1>5. position \in Injection(S, 1..Cardinality(S))
    BY <1>1, <1>4 DEF Injection, IsInjective
  <1>6. Cardinality(S) \in Nat /\ IsFiniteSet(1..Cardinality(S))
        /\ Cardinality(1..Cardinality(S)) = Cardinality(S)
    BY FS_CardinalityType, FS_Interval
  <1>7. position \in Surjection(S, 1..Cardinality(S))
    BY <1>5, <1>6, FS_Injection
  <1> QED
    BY <1>2, <1>5, <1>7 DEF Bijection

\* Putting the element that k elements come up to at place k sorts a finite set.
LEMMA RankingSorts ==
    ASSUME NEW S, IsFiniteSet(S), NEW R, Orders(R, S),
           NEW s, s = [k \in 1..Cardinality(S) |-> s[k]],
           \A k \in 1..Cardinality(S) : (\E x \in S : Cardinality(UpTo(x, S, R)) = k) =>
                s[k] \in S /\ Cardinality(UpTo(s[k], S, R)) = k
    PROVE  SortedBy(s, S, R)
  <1> DEFINE position == [x \in S |-> Cardinality(UpTo(x, S, R))]
  <1>1. /\ position \in Bijection(S, 1..Cardinality(S))
        /\ \A x, y \in S : <<x, y>> \in R => position[x] < position[y]
    BY PositionsAreDistinct
  <1>2. /\ position \in [S -> 1..Cardinality(S)]
        /\ \A x, y \in S : position[x] = position[y] => x = y
        /\ \A k \in 1..Cardinality(S) : \E x \in S : position[x] = k
    BY <1>1 DEF Bijection, Injection, Surjection, IsInjective
  <1>3. \A k \in 1..Cardinality(S) : s[k] \in S /\ position[s[k]] = k
    BY <1>2
  <1> HIDE DEF position
  <1>4. Cardinality(S) \in Nat
    BY FS_CardinalityType
  <1>5. s \in [1..Cardinality(S) -> S]
    BY <1>3
  <1>6. \A x \in S : \E k \in 1..Cardinality(S) : s[k] = x
    BY <1>2, <1>3
  <1>7. ASSUME NEW i \in 1..Cardinality(S), NEW j \in 1..Cardinality(S), i < j
        PROVE  <<s[i], s[j]>> \in R
    <2>1. s[i] \in S /\ s[j] \in S /\ position[s[i]] = i /\ position[s[j]] = j
      BY <1>3
    <2>2. s[i] # s[j] /\ ~(<<s[j], s[i]>> \in R)
      <3>1. <<s[j], s[i]>> \in R => j < i
        BY <1>1, <2>1
      <3> QED
        BY <1>7, <2>1, <3>1
    <2> QED
      BY <2>1, <2>2 DEF Orders
  <1> QED
    BY <1>4, <1>5, <1>6, <1>7 DEF SortedBy

\* Each element has one place.
LEMMA SortedIsInjective ==
    ASSUME NEW S, NEW R, Orders(R, S), NEW s, SortedBy(s, S, R),
           NEW i \in 1..Cardinality(S), NEW j \in 1..Cardinality(S), s[i] = s[j]
    PROVE  i = j
  <1>1. CASE i < j
    BY <1>1 DEF SortedBy, Orders
  <1>2. CASE j < i
    BY <1>2 DEF SortedBy, Orders
  <1> QED
    BY <1>1, <1>2 DEF SortedBy

\* Induction: what is true of 0 and, with n, of n + 1 is true of every natural number.
LEMMA SetInduction ==
    ASSUME NEW S, 0 \in S, \A n \in Nat : n \in S => n + 1 \in S
    PROVE  Nat \subseteq S
  <1> DEFINE T == {n \in Nat : n \notin S}
  <1>1. SUFFICES ASSUME T # {} PROVE FALSE
    OBVIOUS
  <1>2. PICK n \in T : \A m \in T : <<m, n>> \notin OpToRel(<, Nat)
    <2>1. T \subseteq Nat
      OBVIOUS
    <2> HIDE DEF T
    <2> QED
      BY <1>1, <2>1, NatLessThanWellFounded, WFMin
  <1>3. n \in Nat /\ n # 0 /\ n \notin S
    OBVIOUS
  <1>4. n - 1 \in Nat /\ n - 1 < n /\ (n - 1) + 1 = n
    BY <1>3
  <1>5. n - 1 \notin T
    BY <1>2, <1>3, <1>4 DEF OpToRel
  <1> QED
    BY <1>3, <1>4, <1>5

=============================================================================
