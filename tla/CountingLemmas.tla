--------------------------- MODULE CountingLemmas ---------------------------
(***************************************************************************)
(* What the proofs about counters need.  Of Total: it is a natural number, *)
(* it is 0 when there is nothing to count, a change of one summand changes *)
(* it by as much, and no summand exceeds it.  Of %: the arithmetic of      *)
(* indices that wrap.  And that sets of numbers have a least and, below a  *)
(* bound, a greatest one.                                                  *)
(***************************************************************************)
EXTENDS Tally, FiniteSetTheorems, TLAPS

-----------------------------------------------------------------------------
(* Sets and sums                                                           *)

(* Two sets that differ in one element at most.                            *)
LEMMA OneElement ==
  ASSUME NEW S, NEW T, NEW x, IsFiniteSet(S), T \ {x} = S \ {x}
  PROVE  /\ IsFiniteSet(T) /\ Cardinality(S) \in Nat /\ Cardinality(T) \in Nat
         /\ Cardinality(T) = Cardinality(S) + (IF x \in T THEN 1 ELSE 0) - (IF x \in S THEN 1 ELSE 0)
  <1> DEFINE R == S \ {x}
  <1>1. IsFiniteSet(R) /\ Cardinality(R) = Cardinality(S) - (IF x \in S THEN 1 ELSE 0) /\ x \notin R
    BY FS_RemoveElement, FS_CardinalityType
  <1>2. Cardinality(R) \in Nat /\ Cardinality(S) \in Nat
    BY <1>1, FS_CardinalityType
  <1>3. T = IF x \in T THEN R \cup {x} ELSE R
    OBVIOUS
  <1> HIDE DEF R
  <1>4. IsFiniteSet(R \cup {x}) /\ Cardinality(R \cup {x}) = Cardinality(R) + 1
    BY <1>1, FS_AddElement
  <1>5. CASE x \in T
    <2>1. T = R \cup {x}
      BY <1>3, <1>5
    <2>2. IsFiniteSet(T) /\ Cardinality(T) = Cardinality(R) + 1
      BY <1>4, <2>1
    <2> QED
      BY <1>1, <1>2, <1>5, <2>2
  <1>6. CASE x \notin T
    BY <1>1, <1>2, <1>3, <1>6
  <1> QED
    BY <1>5, <1>6

(* What makes up Units.                                                    *)
LEMMA UnitsElements ==
  ASSUME NEW S, NEW f \in [S -> Nat], NEW u
  PROVE  u \in Units(f, S) <=> \E c \in S : u \in Row(c, f[c])
  BY DEF Units

(* The units of one index are as many as f says.                           *)
LEMMA RowCardinality ==
  ASSUME NEW c, NEW n \in Nat
  PROVE  IsFiniteSet(Row(c, n)) /\ Cardinality(Row(c, n)) = n
  <1> DEFINE pair == [i \in 1 .. n |-> <<c, i>>]
  <1>1. IsFiniteSet(1 .. n) /\ Cardinality(1 .. n) = n
    BY FS_Interval
  <1>2. pair \in Bijection(1 .. n, Row(c, n))
    BY DEF Bijection, Injection, Surjection, IsInjective, Row
  <1>3. ExistsBijection(1 .. n, Row(c, n))
    BY <1>2 DEF ExistsBijection
  <1> QED
    BY <1>1, <1>3, FS_Bijection

(* The rows of different indices share nothing.                            *)
LEMMA RowsDisjoint ==
  ASSUME NEW c, NEW d, NEW m, NEW n, NEW u, u \in Row(c, m), u \in Row(d, n)
  PROVE  c = d
  BY DEF Row

(* A sum over a finite set is a natural number.                            *)
LEMMA TotalType ==
  ASSUME NEW S, IsFiniteSet(S), NEW f \in [S -> Nat]
  PROVE  IsFiniteSet(Units(f, S)) /\ Total(f, S) \in Nat
  <1> DEFINE row == [c \in S |-> Row(c, f[c])]
             Rows == {Row(c, f[c]) : c \in S}
  <1>1. row \in Surjection(S, Rows)
    BY DEF Surjection
  <1>2. IsFiniteSet(Rows)
    BY <1>1, FS_Surjection
  <1>3. \A R \in Rows : IsFiniteSet(R)
    <2>1. TAKE R \in Rows
    <2>2. PICK c \in S : R = Row(c, f[c])
      OBVIOUS
    <2> QED
      BY <2>2, RowCardinality
  <1>4. IsFiniteSet(UNION Rows)
    <2> HIDE DEF Rows
    <2> QED
      BY <1>2, <1>3, FS_UNION
  <1>5. IsFiniteSet(Units(f, S))
    BY <1>4 DEF Units
  <1> QED
    BY <1>5, FS_CardinalityType DEF Total

(* Changing one summand changes the sum by the difference.                 *)
LEMMA TotalUpdate ==
  ASSUME NEW S, IsFiniteSet(S), NEW f \in [S -> Nat], NEW g \in [S -> Nat],
         NEW c \in S, \A d \in S \ {c} : g[d] = f[d]
  PROVE  Total(g, S) = Total(f, S) - f[c] + g[c]
  <1> DEFINE F == Units(f, S)
             G == Units(g, S)
             Fc == Row(c, f[c])
             Gc == Row(c, g[c])
             Rest == F \ Fc
  <1>1. IsFiniteSet(F) /\ IsFiniteSet(G) /\ IsFiniteSet(Rest)
    BY TotalType, FS_Difference
  <1>2. /\ IsFiniteSet(Fc) /\ Cardinality(Fc) = f[c]
        /\ IsFiniteSet(Gc) /\ Cardinality(Gc) = g[c]
    BY RowCardinality
  <1>3. F = Rest \cup Fc /\ Rest \cap Fc = {}
    BY UnitsElements
  <1>4. \A u : u \in Rest <=> \E d \in S \ {c} : u \in Row(d, f[d])
    BY UnitsElements, RowsDisjoint
  <1>5. G = Rest \cup Gc /\ Rest \cap Gc = {}
    <2>1. \A u : u \in G <=> u \in Rest \/ u \in Gc
      BY <1>4, UnitsElements
    <2>2. \A u : ~(u \in Rest /\ u \in Gc)
      BY <1>4, RowsDisjoint
    <2> QED
      BY <2>1, <2>2
  <1> HIDE DEF F, G, Fc, Gc, Rest
  <1>6. Cardinality(Rest) \in Nat
    BY <1>1, FS_CardinalityType
  <1>7. Cardinality(F) = Cardinality(Rest) + f[c]
    <2>1. Cardinality(F) = Cardinality(Rest) + Cardinality(Fc) - Cardinality(Rest \cap Fc)
      BY <1>1, <1>2, <1>3, FS_Union
    <2>2. Cardinality(Rest \cap Fc) = 0
      BY <1>3, FS_EmptySet
    <2> QED
      BY <2>1, <2>2, <1>2, <1>6
  <1>8. Cardinality(G) = Cardinality(Rest) + g[c]
    BY <1>1, <1>2, <1>5, <1>6, FS_Union, FS_EmptySet
  <1> QED
    BY <1>6, <1>7, <1>8 DEF Total, F, G

(* Nothing adds up to zero, and only that does.                            *)
LEMMA TotalZero ==
  ASSUME NEW S, IsFiniteSet(S), NEW f \in [S -> Nat]
  PROVE  (Total(f, S) = 0) <=> \A c \in S : f[c] = 0
  <1>1. (Total(f, S) = 0) <=> Units(f, S) = {}
    BY TotalType, FS_EmptySet DEF Total
  <1>2. \A c \in S : Row(c, f[c]) = {} <=> f[c] = 0
    BY RowCardinality, FS_EmptySet
  <1>3. Units(f, S) = {} <=> \A c \in S : Row(c, f[c]) = {}
    BY DEF Units
  <1> QED
    BY <1>1, <1>2, <1>3

(* A sum is at least each of its summands.                                 *)
LEMMA TotalAtLeast ==
  ASSUME NEW S, IsFiniteSet(S), NEW f \in [S -> Nat], NEW c \in S
  PROVE  f[c] <= Total(f, S)
  <1>1. Row(c, f[c]) \in SUBSET Units(f, S)
    BY UnitsElements
  <1> QED
    BY <1>1, TotalType, RowCardinality, FS_Subset DEF Total

(* A sum of summands of at most m each, and one summand of m.              *)
LEMMA TotalAtMost ==
  ASSUME NEW S, IsFiniteSet(S), NEW f \in [S -> Nat], NEW m \in Nat, \A c \in S : f[c] <= m
  PROVE  /\ Cardinality(S) * m \in Nat /\ Total(f, S) <= Cardinality(S) * m
         /\ \A c \in S : m <= Cardinality(S) * m
  <1> DEFINE P == S \X (1 .. m)
  <1>1. IsFiniteSet(1 .. m) /\ Cardinality(1 .. m) = m
    BY FS_Interval
  <1>2. IsFiniteSet(P) /\ Cardinality(P) = Cardinality(S) * m
    BY <1>1, FS_Product
  <1>3. Units(f, S) \in SUBSET P
    <2> SUFFICES ASSUME NEW u, u \in Units(f, S) PROVE u \in P
      OBVIOUS
    <2>1. PICK c \in S : u \in Row(c, f[c])
      BY UnitsElements
    <2>2. PICK i \in 1 .. f[c] : u = <<c, i>>
      BY <2>1 DEF Row
    <2>3. i \in 1 .. m
      BY <2>2
    <2> QED
      BY <2>2, <2>3
  <1>4. Total(f, S) <= Cardinality(S) * m /\ Cardinality(S) * m \in Nat
    BY <1>2, <1>3, FS_Subset, FS_CardinalityType DEF Total
  <1>5. ASSUME NEW c \in S PROVE m <= Cardinality(S) * m
    <2>1. {c} \X (1 .. m) \in SUBSET P
      BY <1>5
    <2>2. IsFiniteSet({c}) /\ Cardinality({c}) = 1
      BY FS_Singleton
    <2>3. Cardinality({c} \X (1 .. m)) = m
      <3> DEFINE A == {c}
                 B == 1 .. m
      <3>1. IsFiniteSet(A) /\ Cardinality(A) = 1 /\ IsFiniteSet(B) /\ Cardinality(B) = m
        BY <1>1, <2>2
      <3> HIDE DEF A, B
      <3>2. Cardinality(A \X B) = Cardinality(A) * Cardinality(B)
        BY <3>1, FS_Product
      <3>3. Cardinality(A \X B) = m
        BY <3>1, <3>2
      <3> QED
        BY <3>3 DEF A, B
    <2> QED
      BY <1>2, <2>1, <2>3, FS_Subset
  <1> QED
    BY <1>4, <1>5

-----------------------------------------------------------------------------
(* Remainders                                                              *)

(* Division with remainder.                                                *)
LEMMA DivMod ==
  ASSUME NEW n \in Nat \ {0}, NEW x \in Int
  PROVE  x \div n \in Int /\ (x % n) \in 0 .. n - 1 /\ x = n * (x \div n) + (x % n)
  OBVIOUS

(* The remainder is the only number below the divisor that leaves a        *)
(* multiple of it.                                                         *)
LEMMA ModUnique ==
  ASSUME NEW n \in Nat \ {0}, NEW q \in Int, NEW r \in 0 .. n - 1
  PROVE  (n * q + r) % n = r
  OBVIOUS

(* A multiple of the divisor does not change the remainder.                *)
LEMMA ModAddMultiple ==
  ASSUME NEW n \in Nat \ {0}, NEW x \in Int, NEW q \in Int
  PROVE  (x + n * q) % n = x % n
  <1> DEFINE d == x \div n
             r == x % n
  <1>1. d \in Int /\ r \in 0 .. n - 1 /\ x = n * d + r
    BY DivMod
  <1>2. n * (d + q) = n * d + n * q /\ d + q \in Int
    BY <1>1
  <1>3. (n * (d + q) + r) % n = r
    BY <1>1, <1>2, ModUnique
  <1> HIDE DEF d, r
  <1>4. x + n * q = n * (d + q) + r
    BY <1>1, <1>2
  <1> QED
    BY <1>3, <1>4 DEF r

(* Inner remainders may be dropped.                                        *)
LEMMA ModAdd ==
  ASSUME NEW n \in Nat \ {0}, NEW x \in Int, NEW y \in Int
  PROVE  ((x % n) + y) % n = (x + y) % n
  <1> DEFINE d == x \div n
             r == x % n
  <1>1. d \in Int /\ r \in 0 .. n - 1 /\ x = n * d + r
    BY DivMod
  <1>2. r + y \in Int
    BY <1>1
  <1> HIDE DEF d, r
  <1>3. (r + y + n * d) % n = (r + y) % n
    BY <1>1, <1>2, ModAddMultiple
  <1>4. r + y + n * d = x + y
    BY <1>1
  <1> QED
    BY <1>3, <1>4 DEF r

(* The same of what is subtracted.                                         *)
LEMMA ModSubtract ==
  ASSUME NEW n \in Nat \ {0}, NEW x \in Int, NEW y \in Int
  PROVE  (y - (x % n)) % n = (y - x) % n
  <1> DEFINE d == x \div n
             r == x % n
  <1>1. d \in Int /\ r \in 0 .. n - 1 /\ x = n * d + r
    BY DivMod
  <1>2. y - x \in Int
    BY <1>1
  <1> HIDE DEF d, r
  <1>3. (y - x + n * d) % n = (y - x) % n
    BY <1>1, <1>2, ModAddMultiple
  <1>4. y - x + n * d = y - r
    BY <1>1
  <1> QED
    BY <1>3, <1>4 DEF r

(* Remainders of numbers that are less than one divisor away.              *)
LEMMA ModSmall ==
  ASSUME NEW n \in Nat \ {0}, NEW x \in Int, 0 <= x, x < n
  PROVE  x % n = x
  OBVIOUS

(* One divisor is taken off.                                               *)
LEMMA ModOver ==
  ASSUME NEW n \in Nat \ {0}, NEW x \in Int, n <= x, x < 2 * n
  PROVE  x % n = x - n
  OBVIOUS

(* The difference of two remainders.                                       *)
LEMMA ModDifference ==
  ASSUME NEW n \in Nat \ {0}, NEW x \in Int, NEW y \in Int
  PROVE  ((x % n) - (y % n)) % n = (x - y) % n
  <1> DEFINE r == x % n
             s == y % n
             ms == 0 - s
  <1>1. r \in Int /\ s \in Int /\ ms \in Int /\ r - s = r + ms /\ x - s = x + ms
    BY DivMod
  <1> HIDE DEF ms
  <1>2. ((x % n) + ms) % n = (x + ms) % n
    BY <1>1, ModAdd
  <1>3. (x - (y % n)) % n = (x - y) % n
    BY ModSubtract
  <1> QED
    BY <1>1, <1>2, <1>3

(* A number of at least -n/2 whose remainder is below n/2 but not 0, as    *)
(* the negated remainder shows, is positive and not less than it.          *)
LEMMA SignedDifference ==
  ASSUME NEW n \in Nat \ {0}, NEW x \in Int, 0 - n <= 2 * x, (0 - (x % n)) % n > n \div 2
  PROVE  x > 0 /\ x % n <= x
  <1>1. CASE x > 0
    <2>1. x \div n \in Int /\ (x % n) \in 0 .. n - 1 /\ x = n * (x \div n) + (x % n)
      BY DivMod
    <2>2. x \div n >= 0
      BY <1>1, <2>1
    <2>3. n * (x \div n) >= 0
      BY <2>1, <2>2
    <2> QED
      BY <1>1, <2>1, <2>3
  <1>2. CASE x = 0
    BY <1>2
  <1>3. CASE x < 0
    <2> DEFINE y == x + n
    <2>1. y \in Int /\ 0 <= y /\ y < n /\ 0 < y
      BY <1>3
    <2>2. x % n = y
      BY <1>3
    <2>3. (0 - y) % n = 0 - x
      BY <1>3
    <2>4. n \div 2 \in Int /\ 2 * (n \div 2) >= n - 1
      OBVIOUS
    <2> QED
      BY <1>3, <2>2, <2>3, <2>4
  <1> QED
    BY <1>1, <1>2, <1>3

-----------------------------------------------------------------------------
(* Least and greatest numbers                                              *)

(* A set of natural numbers has a least one, which is what induction over  *)
(* them rests on.                                                          *)
LEMMA LeastNumber ==
  ASSUME NEW T, T \subseteq Nat, T # {}
  PROVE  \E m \in T : \A k \in T : m <= k
  <1>1. PICK R : R = OpToRel(<, Nat)
    OBVIOUS
  <1>2. IsWellFoundedOn(R, Nat)
    BY <1>1, NatLessThanWellFounded
  <1>3. \A x, y \in Nat : <<x, y>> \in R <=> x < y
    BY <1>1 DEF OpToRel
  <1>4. PICK m \in T : \A y \in T : ~(<<y, m>> \in R)
    BY <1>2, WFMin
  <1>5. \A y \in T : ~(y < m)
    BY <1>3, <1>4
  <1>6. m \in Nat /\ \A y \in T : y \in Nat
    OBVIOUS
  <1>7. \A y \in T : m <= y
    BY <1>5, <1>6
  <1> QED
    BY <1>7

(* A set of numbers up to a bound has a greatest one.                      *)
LEMMA GreatestNumber ==
  ASSUME NEW n \in Nat, NEW T, T \subseteq 0 .. n, T # {}
  PROVE  \E m \in T : \A k \in T : k <= m
  <1> DEFINE D == {i \in 0 .. n : n - i \in T}
  <1>1. D \subseteq Nat /\ D # {}
    <2>1. PICK x \in T : TRUE
      OBVIOUS
    <2>2. n - x \in 0 .. n /\ n - (n - x) = x
      BY <2>1
    <2>3. n - x \in D
      BY <2>1, <2>2
    <2>4. D \subseteq Nat
      OBVIOUS
    <2> HIDE DEF D
    <2> QED
      BY <2>3, <2>4
  <1>2. PICK m \in D : \A k \in D : m <= k
    BY <1>1, LeastNumber
  <1>3. ASSUME NEW k \in T PROVE k <= n - m
    <2>1. k \in 0 .. n /\ n - k \in 0 .. n /\ n - (n - k) = k
      BY <1>3
    <2>2. m <= n - k
      BY <1>2, <2>1
    <2> QED
      BY <2>1, <2>2
  <1> QED
    BY <1>2, <1>3
=============================================================================
