---------------------------- MODULE CommonLemmas ----------------------------
(***************************************************************************)
(* Facts that the proofs about several components rest on: about the       *)
(* natural numbers, recursion, ranks and finite orders, and about the      *)
(* operators of Identity and RepForest.                                    *)
(***************************************************************************)
EXTENDS Identity, RepForest, FiniteSetTheorems, WellFoundedInduction, TLAPS

(* A set of naturals with an element has a least one.                      *)
LEMMA LeastNatural ==
  ASSUME NEW S \in SUBSET Nat, S # {}
  PROVE  \E m \in S : \A k \in S : m <= k
<1>1. PICK m \in S : \A k \in S : <<k, m>> \notin OpToRel(<, Nat)
  BY NatLessThanWellFounded, WFMin
<1>2. \A k \in S : ~(k < m)
  BY <1>1 DEF OpToRel
<1> QED
  BY <1>2

\* A set of pairs of naturals has a least one, the first component first.
LEMMA LeastPair ==
  ASSUME NEW P \in SUBSET (Nat \X Nat), P # {}
  PROVE  \E p \in P : \A q \in P : p[1] < q[1] \/ (p[1] = q[1] /\ p[2] <= q[2])
<1>1. {p[1] : p \in P} \in SUBSET Nat /\ {p[1] : p \in P} # {}
  OBVIOUS
<1>2. PICK m \in {p[1] : p \in P} : \A k \in {p[1] : p \in P} : m <= k
  BY <1>1, LeastNatural
<1> DEFINE Q == {q \in P : q[1] = m}
<1>3. {q[2] : q \in Q} \in SUBSET Nat /\ {q[2] : q \in Q} # {}
  BY <1>2
<1>4. PICK k \in {q[2] : q \in Q} : \A j \in {q[2] : q \in Q} : k <= j
  BY <1>3, LeastNatural
<1>5. PICK p \in P : p[1] = m /\ p[2] = k
  BY <1>4
<1>6. \A q \in P : p[1] < q[1] \/ (p[1] = q[1] /\ p[2] <= q[2])
  <2> SUFFICES ASSUME NEW q \in P PROVE p[1] < q[1] \/ (p[1] = q[1] /\ p[2] <= q[2])
    OBVIOUS
  <2>1. m <= q[1] /\ m \in Nat /\ q[1] \in Nat
    BY <1>1, <1>2
  <2>2. q[1] = m => k <= q[2]
    BY <1>4
  <2> QED
    BY <1>5, <2>1, <2>2
<1> QED
  BY <1>5, <1>6

LEMMA Induction ==
  ASSUME NEW S, 0 \in S, \A n \in Nat : n \in S => n + 1 \in S
  PROVE  Nat \subseteq S
<1> SUFFICES ASSUME Nat \ S # {} PROVE FALSE
  OBVIOUS
<1>1. PICK m \in Nat \ S : \A k \in Nat \ S : m <= k
  BY LeastNatural
<1>2. m # 0
  BY <1>1
<1>3. m - 1 \in Nat /\ m - 1 \in S
  BY <1>1, <1>2
<1> QED
  BY <1>1, <1>3

LEMMA IntervalInduction ==
  ASSUME NEW n \in Nat, NEW S, 0 \in S,
         \A k \in 0 .. n : k \in S /\ k < n => k + 1 \in S
  PROVE  0 .. n \subseteq S
<1> DEFINE T == {k \in Nat : k <= n => k \in S}
<1>1. 0 \in T
  OBVIOUS
<1>2. \A k \in Nat : k \in T => k + 1 \in T
  OBVIOUS
<1> HIDE DEF T
<1>3. Nat \subseteq T
  BY <1>1, <1>2, Induction
<1> QED
  BY <1>3 DEF T

(* A recursion that starts from `base' and goes on with `step' defines a   *)
(* function.                                                               *)
Upto(V, base, step, n, g) ==
  /\ g \in [0 .. n -> V] /\ g[0] = base
  /\ \A k \in 0 .. n - 1 : g[k + 1] = step[k][g[k]]

LEMMA UptoExists ==
  ASSUME NEW V, NEW base \in V, NEW step \in [Nat -> [V -> V]], NEW n \in Nat
  PROVE  \E g : Upto(V, base, step, n, g)
<1> DEFINE T == {m \in Nat : \E g : Upto(V, base, step, m, g)}
<1>1. 0 \in T
  <2>1. Upto(V, base, step, 0, [k \in 0 .. 0 |-> base])
    BY DEF Upto
  <2> QED
    BY <2>1
<1>2. ASSUME NEW m \in Nat, m \in T PROVE m + 1 \in T
  <2>1. PICK g : Upto(V, base, step, m, g)
    BY <1>2
  <2> DEFINE h == [k \in 0 .. m + 1 |-> IF k = m + 1 THEN step[m][g[m]] ELSE g[k]]
  <2>2. h \in [0 .. m + 1 -> V] /\ h[0] = base
    BY <2>1 DEF Upto
  <2>3. \A k \in 0 .. (m + 1) - 1 : h[k + 1] = step[k][h[k]]
    BY <2>1 DEF Upto
  <2>4. Upto(V, base, step, m + 1, h)
    BY <2>2, <2>3 DEF Upto
  <2> HIDE DEF h
  <2>5. m + 1 \in Nat
    OBVIOUS
  <2> QED
    BY <2>4, <2>5
<1> HIDE DEF T
<1>3. Nat \subseteq T
  BY <1>1, <1>2, Induction
<1> QED
  BY <1>3 DEF T

LEMMA UptoAgree ==
  ASSUME NEW V, NEW base, NEW step, NEW m \in Nat, NEW n \in Nat, m <= n,
         NEW g, NEW h, Upto(V, base, step, m, g), Upto(V, base, step, n, h)
  PROVE  g[m] = h[m]
<1> DEFINE T == {k \in 0 .. m : g[k] = h[k]}
<1>1. 0 \in T
  BY DEF Upto
<1>2. \A k \in 0 .. m : k \in T /\ k < m => k + 1 \in T
  BY DEF Upto
<1> HIDE DEF T
<1>3. 0 .. m \subseteq T
  BY <1>1, <1>2, IntervalInduction
<1> QED
  BY <1>3 DEF T

Recurs(V, base, step, f) ==
  /\ f \in [Nat -> V] /\ f[0] = base
  /\ \A n \in Nat : f[n + 1] = step[n][f[n]]

LEMMA Recursion ==
  ASSUME NEW V, NEW base \in V, NEW step \in [Nat -> [V -> V]]
  PROVE  \E f : Recurs(V, base, step, f)
<1> DEFINE f == [n \in Nat |-> (CHOOSE g : Upto(V, base, step, n, g))[n]]
<1>1. ASSUME NEW n \in Nat PROVE \E g : Upto(V, base, step, n, g) /\ f[n] = g[n]
  <2> DEFINE g == CHOOSE g : Upto(V, base, step, n, g)
  <2>1. Upto(V, base, step, n, g)
    BY UptoExists
  <2>2. f[n] = g[n]
    OBVIOUS
  <2> HIDE DEF g, f
  <2> QED
    BY <2>1, <2>2
<1>2. DOMAIN f = Nat /\ f = [n \in Nat |-> f[n]]
  OBVIOUS
<1> HIDE DEF f
<1>3. \A n \in Nat : f[n] \in V
  BY <1>1 DEF Upto
<1>4. f \in [Nat -> V]
  BY <1>2, <1>3
<1>5. f[0] = base
  BY <1>1 DEF Upto
<1>6. ASSUME NEW n \in Nat PROVE f[n + 1] = step[n][f[n]]
  <2>1. PICK g : Upto(V, base, step, n, g) /\ f[n] = g[n]
    BY <1>1
  <2>2. PICK h : Upto(V, base, step, n + 1, h) /\ f[n + 1] = h[n + 1]
    BY <1>1
  <2>3. g[n] = h[n]
    BY <2>1, <2>2, UptoAgree
  <2> QED
    BY <2>1, <2>2, <2>3 DEF Upto
<1> QED
  BY <1>4, <1>5, <1>6 DEF Recurs

LEMMA TwoElements ==
  ASSUME NEW S, IsFiniteSet(S), NEW a \in S, NEW b \in S, a # b
  PROVE  Cardinality(S) \in Nat /\ Cardinality(S) > 1
<1>1. IsFiniteSet({a}) /\ Cardinality({a}) = 1
  BY FS_Singleton
<1>2. {a} \in SUBSET S /\ S # {a}
  OBVIOUS
<1>3. Cardinality({a}) <= Cardinality(S) /\ Cardinality(S) # Cardinality({a})
  BY <1>2, FS_Subset
<1>4. Cardinality(S) \in Nat
  BY FS_CardinalityType
<1> QED
  BY <1>1, <1>3, <1>4

(* The values of a function on a finite set are finitely many.             *)
LEMMA FiniteValues ==
  ASSUME NEW S, IsFiniteSet(S), NEW g
  PROVE  IsFiniteSet({g[x] : x \in S})
<1> DEFINE T == {g[x] : x \in S}
           h == [x \in S |-> g[x]]
<1>1. h \in Surjection(S, T)
  BY DEF Surjection
<1> QED
  BY <1>1, FS_Surjection DEF ExistsSurjection

(* As many values as arguments: the values are distinct.                   *)
LEMMA AllDistinct ==
  ASSUME NEW n \in Nat, NEW g, Cardinality({g[x] : x \in 1 .. n}) = n
  PROVE  \A x, y \in 1 .. n : g[x] = g[y] => x = y
<1> DEFINE T == {g[x] : x \in 1 .. n}
           h == [x \in 1 .. n |-> g[x]]
<1>1. h \in Surjection(1 .. n, T)
  BY DEF Surjection
<1>2. IsFiniteSet(1 .. n) /\ Cardinality(1 .. n) = n
  BY FS_Interval
<1>3. \A x \in 1 .. n : h[x] = g[x]
  OBVIOUS
<1> HIDE DEF h
<1>4. h \in Injection(1 .. n, T)
  BY <1>1, <1>2, FS_Surjection
<1>5. \A x, y \in 1 .. n : h[x] = h[y] => x = y
  BY <1>4 DEF Injection, IsInjective
<1> QED
  BY <1>3, <1>5

(* A function on 1 .. n is a sequence.                                     *)
LEMMA FunctionLen ==
  ASSUME NEW n \in Nat, NEW s, s = [k \in 1 .. n |-> s[k]]
  PROVE  Len(s) = n /\ DOMAIN s = 1 .. n
<1>1. s \in Seq({s[k] : k \in 1 .. n})
  OBVIOUS
<1>2. DOMAIN s = 1 .. Len(s) /\ Len(s) \in Nat
  BY <1>1
<1>3. DOMAIN s = 1 .. n
  OBVIOUS
<1> QED
  BY <1>2, <1>3

-----------------------------------------------------------------------------
(* Enumeration of a finite set in a strict total order, which is given as  *)
(* a set of pairs.                                                         *)

StrictOrder(R, S) ==
  /\ \A x \in S : <<x, x>> \notin R
  /\ \A x, y, z \in S : <<x, y>> \in R /\ <<y, z>> \in R => <<x, z>> \in R
  /\ \A x, y \in S : x = y \/ <<x, y>> \in R \/ <<y, x>> \in R

Below(R, S, k) == {j \in S : <<j, k>> \in R}
RankIn(R, S, k) == Cardinality(Below(R, S, k))

LEMMA RankInRange ==
  ASSUME NEW S, IsFiniteSet(S), NEW R, StrictOrder(R, S), NEW k \in S
  PROVE  /\ RankIn(R, S, k) \in Nat
         /\ RankIn(R, S, k) < Cardinality(S)
<1>1. Below(R, S, k) \in SUBSET S /\ Below(R, S, k) # S
  BY DEF Below, StrictOrder
<1>2. /\ IsFiniteSet(Below(R, S, k))
      /\ Cardinality(Below(R, S, k)) <= Cardinality(S)
      /\ Cardinality(S) = Cardinality(Below(R, S, k)) => S = Below(R, S, k)
  BY <1>1, FS_Subset
<1>3. Cardinality(Below(R, S, k)) \in Nat /\ Cardinality(S) \in Nat
  BY <1>2, FS_CardinalityType
<1> QED
  BY <1>1, <1>2, <1>3 DEF RankIn

LEMMA RankInMonotone ==
  ASSUME NEW S, IsFiniteSet(S), NEW R, StrictOrder(R, S),
         NEW j \in S, NEW k \in S, <<j, k>> \in R
  PROVE  RankIn(R, S, j) < RankIn(R, S, k)
<1> DEFINE A == Below(R, S, j)
           B == Below(R, S, k)
<1>1. A \in SUBSET B /\ A # B /\ B \in SUBSET S
  BY DEF Below, StrictOrder
<1>2. IsFiniteSet(B)
  BY <1>1, FS_Subset
<1>3. /\ IsFiniteSet(A)
      /\ Cardinality(A) <= Cardinality(B)
      /\ Cardinality(B) = Cardinality(A) => B = A
  BY <1>1, <1>2, FS_Subset
<1>4. Cardinality(A) \in Nat /\ Cardinality(B) \in Nat
  BY <1>2, <1>3, FS_CardinalityType
<1> QED
  BY <1>1, <1>3, <1>4 DEF RankIn

LEMMA RankInInjective ==
  ASSUME NEW S, IsFiniteSet(S), NEW R, StrictOrder(R, S),
         NEW j \in S, NEW k \in S, RankIn(R, S, j) = RankIn(R, S, k)
  PROVE  j = k
<1>1. RankIn(R, S, j) \in Nat /\ RankIn(R, S, k) \in Nat
  BY RankInRange
<1>2. <<j, k>> \notin R
  <2> SUFFICES ASSUME <<j, k>> \in R PROVE FALSE
    OBVIOUS
  <2>1. RankIn(R, S, j) < RankIn(R, S, k)
    BY RankInMonotone
  <2> QED
    BY <1>1, <2>1
<1>3. <<k, j>> \notin R
  <2> SUFFICES ASSUME <<k, j>> \in R PROVE FALSE
    OBVIOUS
  <2>1. RankIn(R, S, k) < RankIn(R, S, j)
    BY RankInMonotone
  <2> QED
    BY <1>1, <2>1
<1> QED
  BY <1>2, <1>3 DEF StrictOrder

(* Every rank below the number of elements belongs to an element.          *)
LEMMA RankInSurjective ==
  ASSUME NEW S, IsFiniteSet(S), NEW R, StrictOrder(R, S),
         NEW r \in 0 .. Cardinality(S) - 1
  PROVE  \E k \in S : RankIn(R, S, k) = r
<1> DEFINE T == 0 .. Cardinality(S) - 1
           f == [k \in S |-> RankIn(R, S, k)]
<1>1. Cardinality(S) \in Nat
  BY FS_CardinalityType
<1>2. IsFiniteSet(T) /\ Cardinality(T) = Cardinality(S)
  BY <1>1, FS_Interval
<1>3. f \in [S -> T]
  <2>1. \A k \in S : RankIn(R, S, k) \in Nat /\ RankIn(R, S, k) < Cardinality(S)
    BY RankInRange
  <2>2. \A k \in S : RankIn(R, S, k) \in T
    BY <1>1, <2>1
  <2> QED
    BY <2>2
<1>4. \A j, k \in S : f[j] = f[k] => j = k
  <2>1. \A j, k \in S : RankIn(R, S, j) = RankIn(R, S, k) => j = k
    BY RankInInjective
  <2> QED
    BY <2>1
<1>5. f \in Injection(S, T)
  BY <1>3, <1>4 DEF Injection, IsInjective
<1>6. f \in Surjection(S, T)
  BY <1>2, <1>5, FS_Injection
<1> QED
  BY <1>6 DEF Surjection

(* In one word: the ranks number the elements from 0.                      *)
RanksNumber(R, S) ==
  /\ Cardinality(S) \in Nat
  /\ \A k \in S : RankIn(R, S, k) \in Nat /\ RankIn(R, S, k) < Cardinality(S)
  /\ \A r \in 0 .. Cardinality(S) - 1 : \E k \in S : RankIn(R, S, k) = r
  /\ \A j, k \in S : RankIn(R, S, j) = RankIn(R, S, k) => j = k

LEMMA RanksAre ==
  ASSUME NEW S, IsFiniteSet(S), NEW R, StrictOrder(R, S)
  PROVE  RanksNumber(R, S)
<1>1. Cardinality(S) \in Nat
  BY FS_CardinalityType
<1>2. \A r \in 0 .. Cardinality(S) - 1 : \E k \in S : RankIn(R, S, k) = r
  BY <1>1, RankInSurjective
<1> QED
  BY <1>1, <1>2, RankInRange, RankInInjective DEF RanksNumber

(* A function that has at each position the element of that rank is a list *)
(* of the set, without repetition and in the order.                        *)
Enumerates(s, R, S) ==
  /\ DOMAIN s = 1 .. Cardinality(S)
  /\ \A i \in 1 .. Cardinality(S) : s[i] \in S /\ RankIn(R, S, s[i]) = i - 1

LEMMA EnumerationIs ==
  ASSUME NEW S, IsFiniteSet(S), NEW R, StrictOrder(R, S), NEW s, Enumerates(s, R, S)
  PROVE  /\ Cardinality(S) \in Nat
         /\ \A e \in S : RankIn(R, S, e) + 1 \in DOMAIN s /\ s[RankIn(R, S, e) + 1] = e
         /\ \A i, j \in DOMAIN s : i < j => <<s[i], s[j]>> \in R
         /\ \A i, j \in DOMAIN s : s[i] = s[j] => i = j
<1> DEFINE n == Cardinality(S)
<1>1. n \in Nat
  BY FS_CardinalityType
<1>2. DOMAIN s = 1 .. n
  BY DEF Enumerates
<1>3. \A i \in 1 .. n : s[i] \in S /\ RankIn(R, S, s[i]) = i - 1
  BY DEF Enumerates
<1>4. \A e \in S : RankIn(R, S, e) + 1 \in 1 .. n /\ s[RankIn(R, S, e) + 1] = e
  <2> TAKE e \in S
  <2>1. RankIn(R, S, e) \in Nat /\ RankIn(R, S, e) < n
    BY RankInRange
  <2>2. RankIn(R, S, e) + 1 \in 1 .. n
    BY <1>1, <2>1
  <2>3. RankIn(R, S, s[RankIn(R, S, e) + 1]) = RankIn(R, S, e)
    BY <1>3, <2>1, <2>2
  <2> QED
    BY <1>3, <2>2, <2>3, RankInInjective
<1>5. \A i, j \in 1 .. n : s[i] = s[j] => i = j
  BY <1>3
<1>6. \A i, j \in 1 .. n : i < j => <<s[i], s[j]>> \in R
  <2> SUFFICES ASSUME NEW i \in 1 .. n, NEW j \in 1 .. n, i < j, <<s[i], s[j]>> \notin R
               PROVE  FALSE
    OBVIOUS
  <2>1. s[i] \in S /\ s[j] \in S /\ s[i] # s[j]
    BY <1>3
  <2>2. <<s[j], s[i]>> \in R
    BY <2>1 DEF StrictOrder
  <2>3. RankIn(R, S, s[j]) < RankIn(R, S, s[i])
    BY <2>1, <2>2, RankInMonotone
  <2> QED
    BY <1>3, <2>3
<1> QED
  BY <1>1, <1>2, <1>4, <1>5, <1>6

LEMMA SameSize ==
  ASSUME NEW S, IsFiniteSet(S), NEW T, NEW h \in [S -> T],
         \A x, y \in S : h[x] = h[y] => x = y, \A y \in T : \E x \in S : h[x] = y
  PROVE  IsFiniteSet(T) /\ Cardinality(T) = Cardinality(S)
<1>1. h \in Injection(S, T)
  BY DEF Injection, IsInjective
<1>2. h \in Surjection(S, T)
  BY DEF Surjection
<1>3. ExistsBijection(S, T)
  BY <1>1, <1>2 DEF ExistsBijection, Bijection
<1> QED
  BY <1>3, FS_Bijection

(* The lists of two sets that correspond, order included, correspond.      *)
LEMMA EnumerationImage ==
  ASSUME NEW S, IsFiniteSet(S), NEW R, StrictOrder(R, S), NEW s, Enumerates(s, R, S),
         NEW T, NEW Q, StrictOrder(Q, T), NEW t, Enumerates(t, Q, T),
         NEW h \in [S -> T], \A y \in T : \E x \in S : h[x] = y,
         \A x, y \in S : h[x] = h[y] => x = y,
         \A x, y \in S : <<x, y>> \in R <=> <<h[x], h[y]>> \in Q
  PROVE  DOMAIN t = DOMAIN s /\ \A i \in DOMAIN s : s[i] \in S /\ t[i] = h[s[i]]
<1>1. IsFiniteSet(T) /\ Cardinality(T) = Cardinality(S)
  BY SameSize
<1>2. ASSUME NEW x \in S PROVE RankIn(Q, T, h[x]) = RankIn(R, S, x)
  <2> DEFINE A == Below(R, S, x)
             B == Below(Q, T, h[x])
             g == [y \in A |-> h[y]]
  <2>1. A \in SUBSET S /\ \A y \in S : y \in A <=> h[y] \in B
    BY DEF Below
  <2>2. B \in SUBSET T
    BY DEF Below
  <2> HIDE DEF A, B
  <2>3. g \in [A -> B] /\ \A y \in A : g[y] = h[y]
    BY <2>1
  <2> HIDE DEF g
  <2>4. \A y, z \in A : g[y] = g[z] => y = z
    BY <2>1, <2>3
  <2>5. \A y \in B : \E z \in A : g[z] = y
    BY <2>1, <2>2, <2>3
  <2>6. IsFiniteSet(A)
    BY <2>1, FS_Subset
  <2>7. Cardinality(A) = Cardinality(B)
    BY <2>3, <2>4, <2>5, <2>6, SameSize
  <2> QED
    BY <2>7 DEF RankIn, A, B
<1>3. DOMAIN t = DOMAIN s /\ DOMAIN s = 1 .. Cardinality(S)
  BY <1>1 DEF Enumerates
<1>4. ASSUME NEW i \in 1 .. Cardinality(S) PROVE s[i] \in S /\ t[i] = h[s[i]]
  <2>1. s[i] \in S /\ RankIn(R, S, s[i]) = i - 1 /\ t[i] \in T /\ RankIn(Q, T, t[i]) = i - 1
    BY <1>1, <1>4 DEF Enumerates
  <2>2. RankIn(Q, T, t[i]) = RankIn(Q, T, h[s[i]]) /\ h[s[i]] \in T
    BY <1>2, <2>1
  <2> QED
    BY <1>1, <2>1, <2>2, RankInInjective
<1> QED
  BY <1>3, <1>4

(* There is only one such list.                                            *)
LEMMA EnumerationUnique ==
  ASSUME NEW S, IsFiniteSet(S), NEW R, StrictOrder(R, S), NEW s, Enumerates(s, R, S),
         NEW t, Enumerates(t, R, S)
  PROVE  DOMAIN t = DOMAIN s /\ \A i \in DOMAIN s : t[i] = s[i]
<1> DEFINE h == [x \in S |-> x]
<1>1. h \in [S -> S] /\ \A x \in S : h[x] = x
  OBVIOUS
<1> HIDE DEF h
<1>2. \A y \in S : \E x \in S : h[x] = y
  BY <1>1
<1>3. \A x, y \in S : h[x] = h[y] => x = y
  BY <1>1
<1>4. \A x, y \in S : <<x, y>> \in R <=> <<h[x], h[y]>> \in R
  BY <1>1
<1>5. DOMAIN t = DOMAIN s /\ \A i \in DOMAIN s : s[i] \in S /\ t[i] = h[s[i]]
  BY <1>1, <1>2, <1>3, <1>4, EnumerationImage
<1> QED
  BY <1>1, <1>5

(* The sequence has every element of S once.                               *)
Lists(seq, S) ==
  /\ Len(seq) \in Nat /\ DOMAIN seq = 1 .. Len(seq)
  /\ \A i \in DOMAIN seq : seq[i] \in S
  /\ \A e \in S : \E i \in DOMAIN seq : seq[i] = e
  /\ \A i, j \in DOMAIN seq : seq[i] = seq[j] => i = j

LEMMA EnumerationLists ==
  ASSUME NEW S, IsFiniteSet(S), NEW R, StrictOrder(R, S), NEW s, Enumerates(s, R, S),
         s = [i \in DOMAIN s |-> s[i]]
  PROVE  Lists(s, S)
<1>1. Cardinality(S) \in Nat
  BY FS_CardinalityType
<1>2. DOMAIN s = 1 .. Cardinality(S) /\ \A i \in DOMAIN s : s[i] \in S
  BY DEF Enumerates
<1>3. Len(s) = Cardinality(S)
  BY <1>1, <1>2, FunctionLen
<1>4. /\ \A e \in S : RankIn(R, S, e) + 1 \in DOMAIN s /\ s[RankIn(R, S, e) + 1] = e
      /\ \A i, j \in DOMAIN s : s[i] = s[j] => i = j
  BY EnumerationIs
<1> QED
  BY <1>1, <1>2, <1>3, <1>4 DEF Lists

(* There is such a list, and it is the one that picks at each position an  *)
(* element of that rank.                                                   *)
LEMMA EnumerationByRank ==
  ASSUME NEW S, IsFiniteSet(S), NEW R, StrictOrder(R, S), NEW s,
         DOMAIN s = 1 .. Cardinality(S),
         \A i \in 1 .. Cardinality(S) :
           (\E e \in S : RankIn(R, S, e) = i - 1) => s[i] \in S /\ RankIn(R, S, s[i]) = i - 1
  PROVE  Enumerates(s, R, S)
<1>1. RanksNumber(R, S)
  BY RanksAre
<1>2. \A i \in 1 .. Cardinality(S) : \E e \in S : RankIn(R, S, e) = i - 1
  BY <1>1 DEF RanksNumber
<1> QED
  BY <1>2 DEF Enumerates

(* A finite set with an element has a least one.                           *)
LEMMA LeastElement ==
  ASSUME NEW S, IsFiniteSet(S), S # {}, NEW R, StrictOrder(R, S)
  PROVE  \E m \in S : \A k \in S : k = m \/ <<m, k>> \in R
<1>1. RanksNumber(R, S)
  BY RanksAre
<1>2. Cardinality(S) \in Nat /\ Cardinality(S) # 0
  BY FS_CardinalityType, FS_EmptySet
<1>3. 0 \in 0 .. Cardinality(S) - 1
  BY <1>2
<1>4. PICK m \in S : RankIn(R, S, m) = 0
  BY <1>1, <1>3 DEF RanksNumber
<1>5. ASSUME NEW k \in S PROVE <<k, m>> \notin R
  <2> SUFFICES ASSUME <<k, m>> \in R PROVE FALSE
    OBVIOUS
  <2>1. RankIn(R, S, k) < RankIn(R, S, m)
    BY RankInMonotone
  <2>2. RankIn(R, S, k) \in Nat
    BY RankInRange
  <2> QED
    BY <1>4, <2>1, <2>2
<1> QED
  BY <1>5 DEF StrictOrder

(* A finite set of naturals has a greatest element.                        *)
LEMMA GreatestNatural ==
  ASSUME NEW S \in SUBSET Nat, IsFiniteSet(S), S # {}
  PROVE  \E m \in S : \A k \in S : k <= m
<1> DEFINE R == {p \in S \X S : p[1] > p[2]}
<1>1. StrictOrder(R, S)
  BY DEF StrictOrder
<1> HIDE DEF R
<1>2. PICK m \in S : \A k \in S : k = m \/ <<m, k>> \in R
  BY <1>1, LeastElement
<1>3. ASSUME NEW k \in S PROVE k <= m
  <2>1. <<m, k>> \in R => m > k
    BY DEF R
  <2>2. m \in Nat /\ k \in Nat
    OBVIOUS
  <2> QED
    BY <1>2, <2>1, <2>2
<1> QED
  BY <1>3

(* seq lists S in the order R.                                             *)
InOrder(seq, R, S) ==
  /\ IsFiniteSet(S) /\ StrictOrder(R, S)
  /\ Enumerates(seq, R, S) /\ Lists(seq, S) /\ seq = [i \in DOMAIN seq |-> seq[i]]

LEMMA InOrderByRank ==
  ASSUME NEW S, IsFiniteSet(S), NEW R, StrictOrder(R, S), NEW s,
         DOMAIN s = 1 .. Cardinality(S), s = [i \in DOMAIN s |-> s[i]],
         \A i \in 1 .. Cardinality(S) :
           (\E e \in S : RankIn(R, S, e) = i - 1) => s[i] \in S /\ RankIn(R, S, s[i]) = i - 1
  PROVE  InOrder(s, R, S)
<1>1. Enumerates(s, R, S)
  BY EnumerationByRank
<1>2. Lists(s, S)
  BY <1>1, EnumerationLists
<1> QED
  BY <1>1, <1>2 DEF InOrder

LEMMA InOrderUnique ==
  ASSUME NEW S, NEW R, NEW s, InOrder(s, R, S), NEW t, InOrder(t, R, S)
  PROVE  t = s
<1>1. DOMAIN t = DOMAIN s /\ \A i \in DOMAIN s : t[i] = s[i]
  BY EnumerationUnique DEF InOrder
<1> QED
  BY <1>1 DEF InOrder

-----------------------------------------------------------------------------
(* Picking positions.                                                      *)

Rank(S, k) == Cardinality({j \in S : j < k})

\* Pos(S, k) is where the element at position k of a sequence ends up.
Pos(S, k) == Rank(S, k) + 1

LessIn(S) == {p \in S \X S : p[1] < p[2]}

LEMMA RankIsRankIn ==
  ASSUME NEW S, S \subseteq Nat
  PROVE  StrictOrder(LessIn(S), S) /\ \A k \in S : Rank(S, k) = RankIn(LessIn(S), S, k)
<1>1. StrictOrder(LessIn(S), S)
  BY DEF StrictOrder, LessIn
<1>2. ASSUME NEW k \in S PROVE {j \in S : j < k} = Below(LessIn(S), S, k)
  BY DEF Below, LessIn
<1> QED
  BY <1>1, <1>2 DEF Rank, RankIn

LEMMA PosBijective ==
  ASSUME NEW S, IsFiniteSet(S), S \subseteq Nat
  PROVE  /\ Cardinality(S) \in Nat
         /\ \A k \in S : Pos(S, k) \in 1 .. Cardinality(S)
         /\ \A i \in 1 .. Cardinality(S) : \E k \in S : i = Pos(S, k)
         /\ \A j, k \in S : Pos(S, j) = Pos(S, k) => j = k
<1>1. StrictOrder(LessIn(S), S) /\ \A k \in S : Rank(S, k) = RankIn(LessIn(S), S, k)
  BY RankIsRankIn
<1>2. RanksNumber(LessIn(S), S)
  BY <1>1, RanksAre
<1>3. /\ Cardinality(S) \in Nat
      /\ \A k \in S : Rank(S, k) \in Nat /\ Rank(S, k) < Cardinality(S)
      /\ \A r \in 0 .. Cardinality(S) - 1 : \E k \in S : Rank(S, k) = r
      /\ \A j, k \in S : Rank(S, j) = Rank(S, k) => j = k
  BY <1>1, <1>2 DEF RanksNumber
<1>4. ASSUME NEW i \in 1 .. Cardinality(S) PROVE \E k \in S : i = Pos(S, k)
  <2>1. i - 1 \in 0 .. Cardinality(S) - 1
    BY <1>3
  <2> QED
    BY <1>3, <2>1 DEF Pos
<1> QED
  BY <1>3, <1>4 DEF Pos

(* Picked keeps the elements at the positions in S and nothing else, each  *)
(* at a position of its own.                                               *)
LEMMA PickedElements ==
  ASSUME NEW seq, NEW S, IsFiniteSet(S), S \subseteq Nat
  PROVE  /\ Picked(seq, S) = [i \in 1 .. Cardinality(S) |-> Picked(seq, S)[i]]
         /\ \A k \in S : Picked(seq, S)[Pos(S, k)] = seq[k]
<1> DEFINE order == [i \in 1 .. Cardinality(S) |->
                       CHOOSE k \in S : Cardinality({j \in S : j < k}) = i - 1]
<1>1. Picked(seq, S) = [i \in DOMAIN order |-> seq[order[i]]]
  BY DEF Picked, SortedBy
<1>2. Enumerates(order, LessIn(S), S)
  <2>1. \A k \in S : Cardinality({j \in S : j < k}) = RankIn(LessIn(S), S, k)
    BY RankIsRankIn DEF Rank
  <2>2. \A i \in 1 .. Cardinality(S) :
          (\E e \in S : RankIn(LessIn(S), S, e) = i - 1)
            => order[i] \in S /\ RankIn(LessIn(S), S, order[i]) = i - 1
    BY <2>1
  <2>3. DOMAIN order = 1 .. Cardinality(S)
    OBVIOUS
  <2> HIDE DEF order
  <2> QED
    BY <2>2, <2>3, RankIsRankIn, EnumerationByRank
<1> HIDE DEF order
<1>2a. /\ \A k \in S : Rank(S, k) = RankIn(LessIn(S), S, k)
       /\ \A k \in S : RankIn(LessIn(S), S, k) + 1 \in DOMAIN order
                         /\ order[RankIn(LessIn(S), S, k) + 1] = k
  <2> DEFINE R == LessIn(S)
  <2> HIDE DEF R
  <2>1. StrictOrder(R, S) /\ Enumerates(order, R, S)
    BY <1>2, RankIsRankIn DEF R
  <2>2. \A k \in S : RankIn(R, S, k) + 1 \in DOMAIN order /\ order[RankIn(R, S, k) + 1] = k
    BY <2>1, EnumerationIs
  <2> QED
    BY <2>2, RankIsRankIn DEF R
<1>3. ASSUME NEW k \in S PROVE Pos(S, k) \in DOMAIN order /\ order[Pos(S, k)] = k
  BY <1>2a DEF Pos
<1>4. DOMAIN order = 1 .. Cardinality(S)
  BY DEF order
<1> QED
  BY <1>1, <1>3, <1>4

LEMMA FunctionIsSequence ==
  ASSUME NEW n \in Nat, NEW s, s = [k \in 1 .. n |-> s[k]]
  PROVE  IsSequence(s) /\ Len(s) = n
BY FunctionLen DEF IsSequence

LEMMA PositionsFinite ==
  ASSUME NEW s, IsSequence(s), NEW S \in SUBSET DOMAIN s
  PROVE  IsFiniteSet(S) /\ S \subseteq Nat
<1>1. IsFiniteSet(DOMAIN s)
  BY FS_Interval DEF IsSequence
<1> QED
  BY <1>1, FS_Subset DEF IsSequence

(* The positions of t are those of S, renumbered.                          *)
Renumbers(t, S) ==
  /\ IsSequence(t)
  /\ Len(t) = Cardinality(S)
  /\ \A k \in S : Pos(S, k) \in DOMAIN t
  /\ \A i \in DOMAIN t : \E k \in S : i = Pos(S, k)
  /\ \A j, k \in S : Pos(S, j) = Pos(S, k) => j = k

LEMMA PickedRenumbers ==
  ASSUME NEW s, IsSequence(s), NEW S \in SUBSET DOMAIN s
  PROVE  /\ Renumbers(Picked(s, S), S)
         /\ \A k \in S : Picked(s, S)[Pos(S, k)] = s[k]
<1>1. IsFiniteSet(S) /\ S \subseteq Nat
  BY PositionsFinite
<1>2. /\ Picked(s, S) = [i \in 1 .. Cardinality(S) |-> Picked(s, S)[i]]
      /\ \A k \in S : Picked(s, S)[Pos(S, k)] = s[k]
  BY <1>1, PickedElements
<1>3. /\ Cardinality(S) \in Nat
      /\ \A k \in S : Pos(S, k) \in 1 .. Cardinality(S)
      /\ \A i \in 1 .. Cardinality(S) : \E k \in S : i = Pos(S, k)
      /\ \A j, k \in S : Pos(S, j) = Pos(S, k) => j = k
  BY <1>1, PosBijective
<1>4. IsSequence(Picked(s, S)) /\ Len(Picked(s, S)) = Cardinality(S)
  BY <1>2, <1>3, FunctionIsSequence
<1>5. DOMAIN Picked(s, S) = 1 .. Cardinality(S)
  BY <1>4 DEF IsSequence
<1> QED
  BY <1>2, <1>3, <1>4, <1>5 DEF Renumbers

(* A part of a list lists the part.                                        *)
LEMMA PickedLists ==
  ASSUME NEW seq, NEW S, Lists(seq, S), NEW K \in SUBSET DOMAIN seq
  PROVE  Lists(Picked(seq, K), {seq[k] : k \in K})
<1> DEFINE t == Picked(seq, K)
<1>1. IsSequence(seq)
  BY DEF Lists, IsSequence
<1>2. Renumbers(t, K) /\ \A k \in K : t[Pos(K, k)] = seq[k]
  BY <1>1, PickedRenumbers
<1> HIDE DEF t
<1>3. Len(t) \in Nat /\ DOMAIN t = 1 .. Len(t)
  BY <1>2 DEF Renumbers, IsSequence
<1>4. \A i \in DOMAIN t : \E k \in K : i = Pos(K, k) /\ t[i] = seq[k]
  BY <1>2 DEF Renumbers
<1>5. \A k \in K : Pos(K, k) \in DOMAIN t
  BY <1>2 DEF Renumbers
<1>6. \A i, j \in DOMAIN t : t[i] = t[j] => i = j
  <2> SUFFICES ASSUME NEW i \in DOMAIN t, NEW j \in DOMAIN t, t[i] = t[j] PROVE i = j
    OBVIOUS
  <2>1. PICK k \in K : i = Pos(K, k) /\ t[i] = seq[k]
    BY <1>4
  <2>2. PICK l \in K : j = Pos(K, l) /\ t[j] = seq[l]
    BY <1>4
  <2>3. k = l
    BY <2>1, <2>2 DEF Lists
  <2> QED
    BY <2>1, <2>2, <2>3
<1> QED
  BY <1>2, <1>3, <1>4, <1>5, <1>6 DEF Lists, t

(* There is no external identifier when all are internal.                  *)
LEMMA ExternalEmpty ==
  ASSUME NEW ids, IsSequence(ids)
  PROVE  External(ids) = <<>> <=> \A i \in DOMAIN ids : ids[i].scheme = "internal"
<1> DEFINE S == {i \in DOMAIN ids : ids[i].scheme # "internal"}
<1>1. External(ids) = Picked(ids, S)
  BY DEF External
<1>2. S \in SUBSET DOMAIN ids
  OBVIOUS
<1>3. (\A i \in DOMAIN ids : ids[i].scheme = "internal") <=> S = {}
  OBVIOUS
<1> HIDE DEF S
<1>4. /\ IsFiniteSet(S) /\ S \subseteq Nat
      /\ Len(Picked(ids, S)) = Cardinality(S)
  BY <1>2, PositionsFinite, PickedRenumbers DEF Renumbers
<1>5. CASE S = {}
  <2>1. Cardinality(S) = 0
    BY <1>5, FS_EmptySet
  <2>2. Picked(ids, S) = [i \in 1 .. 0 |-> Picked(ids, S)[i]]
    BY <1>4, <2>1, PickedElements
  <2>3. 1 .. 0 = {}
    OBVIOUS
  <2>4. Picked(ids, S) = <<>>
    BY <2>2, <2>3
  <2> QED
    BY <1>1, <1>3, <1>5, <2>4
<1>6. CASE S # {}
  <2>1. Cardinality(S) # 0
    BY <1>4, <1>6, FS_EmptySet
  <2>2. Picked(ids, S) # <<>>
    BY <1>4, <2>1
  <2> QED
    BY <1>1, <1>3, <1>6, <2>2
<1> QED
  BY <1>5, <1>6

-----------------------------------------------------------------------------
(* One union.                                                              *)

Together(f, a, b) == f.rep[a] = f.rep[b]

Classes(f) == {ClassOf(f, r) : r \in Representatives(f)}

LEMMA UniteIs ==
  ASSUME NEW O, O \subseteq Int, NEW f, ForestOK(f, O), NEW a \in O, NEW b \in O,
         f.rep[a] # f.rep[b]
  PROVE  \E top, child \in O :
           /\ \/ top = f.rep[a] /\ child = f.rep[b]
              \/ top = f.rep[b] /\ child = f.rep[a]
           /\ Unite(f, a, b).rep = [o \in O |-> IF f.rep[o] = child THEN top ELSE f.rep[o]]
           /\ Unite(f, a, b).rank \in [O -> Nat]
<1> DEFINE r == f.rep[a]
           s == f.rep[b]
           top == Winner(f.rank, r, s)
           child == IF top = r THEN s ELSE r
<1>1. r \in O /\ s \in O /\ DOMAIN f.rep = O
  BY DEF ForestOK
<1>2. top \in {r, s}
  BY DEF Winner
<1>3. top \in O /\ child \in O /\ ((top = r /\ child = s) \/ (top = s /\ child = r))
  <2> HIDE DEF top
  <2> QED
    BY <1>1, <1>2
<1>4. Unite(f, a, b) =
        [rep  |-> [o \in DOMAIN f.rep |-> IF f.rep[o] = child THEN top ELSE f.rep[o]],
         rank |-> IF f.rank[r] = f.rank[s]
                  THEN [f.rank EXCEPT ![top] = f.rank[top] + 1] ELSE f.rank]
  BY DEF Unite
<1> HIDE DEF top, child
<1>5. Unite(f, a, b).rank \in [O -> Nat]
  <2>1. f.rank \in [O -> Nat]
    BY DEF ForestOK
  <2>2. Unite(f, a, b).rank \in {f.rank, [f.rank EXCEPT ![top] = f.rank[top] + 1]}
    BY <1>4
  <2>3. [f.rank EXCEPT ![top] = f.rank[top] + 1] \in [O -> Nat]
    BY <1>3, <2>1
  <2> QED
    BY <2>1, <2>2, <2>3
<1>6. Unite(f, a, b).rep = [o \in O |-> IF f.rep[o] = child THEN top ELSE f.rep[o]]
  BY <1>1, <1>4
<1> QED
  BY <1>3, <1>5, <1>6

LEMMA UniteKeeps ==
  ASSUME NEW O, O \subseteq Int, NEW f, ForestOK(f, O), NEW a \in O, NEW b \in O
  PROVE  /\ ForestOK(Unite(f, a, b), O)
         /\ Together(Unite(f, a, b), a, b)
         /\ \A x, y \in O : Together(f, x, y) => Together(Unite(f, a, b), x, y)
<1> USE DEF Together
<1>1. CASE f.rep[a] = f.rep[b]
  BY <1>1 DEF Unite
<1>2. CASE f.rep[a] # f.rep[b]
  <2>1. PICK top, child \in O :
           /\ \/ top = f.rep[a] /\ child = f.rep[b]
              \/ top = f.rep[b] /\ child = f.rep[a]
           /\ Unite(f, a, b).rep = [o \in O |-> IF f.rep[o] = child THEN top ELSE f.rep[o]]
           /\ Unite(f, a, b).rank \in [O -> Nat]
    BY <1>2, UniteIs
  <2> QED
    BY <1>2, <2>1 DEF ForestOK
<1> QED
  BY <1>1, <1>2

\* It puts nothing else together.
LEMMA UniteOnly ==
  ASSUME NEW O, O \subseteq Int, NEW f, ForestOK(f, O), NEW a \in O, NEW b \in O,
         NEW x \in O, NEW y \in O, Together(Unite(f, a, b), x, y)
  PROVE  \/ Together(f, x, y)
         \/ Together(f, x, a) /\ Together(f, y, b)
         \/ Together(f, x, b) /\ Together(f, y, a)
<1> USE DEF Together
<1>1. CASE f.rep[a] = f.rep[b]
  BY <1>1 DEF Unite
<1>2. CASE f.rep[a] # f.rep[b]
  <2>1. PICK top, child \in O :
           /\ \/ top = f.rep[a] /\ child = f.rep[b]
              \/ top = f.rep[b] /\ child = f.rep[a]
           /\ Unite(f, a, b).rep = [o \in O |-> IF f.rep[o] = child THEN top ELSE f.rep[o]]
           /\ Unite(f, a, b).rank \in [O -> Nat]
    BY <1>2, UniteIs
  <2> QED
    BY <1>2, <2>1
<1> QED
  BY <1>1, <1>2

\* The class of a and that of b are one in g.
ClassesJoined(f, g, a, b) ==
  \E c, d \in Classes(f) :
    /\ a \in c /\ b \in d /\ c # d
    /\ Classes(g) = (Classes(f) \ {c, d}) \cup {c \cup d}

\* It puts two classes together, or it changes nothing.
LEMMA UniteJoins ==
  ASSUME NEW O, O \subseteq Int, NEW f, ForestOK(f, O), NEW a \in O, NEW b \in O
  PROVE  Unite(f, a, b) = f \/ ClassesJoined(f, Unite(f, a, b), a, b)
<1>1. CASE f.rep[a] = f.rep[b]
  BY <1>1 DEF Unite
<1>2. CASE f.rep[a] # f.rep[b]
  <2>1. PICK top, child \in O :
           /\ \/ top = f.rep[a] /\ child = f.rep[b]
              \/ top = f.rep[b] /\ child = f.rep[a]
           /\ Unite(f, a, b).rep = [o \in O |-> IF f.rep[o] = child THEN top ELSE f.rep[o]]
           /\ Unite(f, a, b).rank \in [O -> Nat]
    BY <1>2, UniteIs
  <2> DEFINE g == Unite(f, a, b)
             c == ClassOf(f, f.rep[a])
             d == ClassOf(f, f.rep[b])
  <2>2. /\ f.rep \in [O -> O] /\ \A o \in O : f.rep[f.rep[o]] = f.rep[o]
        /\ f.rep[top] = top /\ f.rep[child] = child /\ top # child
    BY <1>2, <2>1 DEF ForestOK
  <2>3. g.rep \in [O -> O] /\ \A o \in O : g.rep[o] = IF f.rep[o] = child THEN top ELSE f.rep[o]
    BY <2>1, <2>2
  <2> HIDE DEF g
  <2>4. a \in c /\ b \in d /\ c # d /\ c \in Classes(f) /\ d \in Classes(f)
    BY <1>2, <2>2 DEF ClassOf, Classes, Representatives
  <2> DEFINE S == {o \in O : f.rep[o] = o} \ {top, child}
  <2>5. c \cup d = ClassOf(g, top)
    <3>1. c \cup d = {o \in O : f.rep[o] \in {top, child}}
      BY <2>1, <2>2 DEF ClassOf
    <3>2. ClassOf(g, top) = {o \in O : g.rep[o] = top}
      BY <2>3 DEF ClassOf
    <3>3. \A o \in O : g.rep[o] = top <=> f.rep[o] \in {top, child}
      BY <2>2, <2>3
    <3> QED
      BY <3>1, <3>2, <3>3
  <2>6. ASSUME NEW r \in S PROVE ClassOf(g, r) = ClassOf(f, r)
    BY <2>2, <2>3 DEF ClassOf
  <2>7. Representatives(f) = S \cup {top, child}
    <3>1. \A o \in O : f.rep[o] \in S \cup {top, child}
      BY <2>2
    <3>2. \A q \in S \cup {top, child} : q \in O /\ f.rep[q] = q
      BY <2>2
    <3>3. DOMAIN f.rep = O
      BY <2>2
    <3> HIDE DEF S
    <3> QED
      BY <3>1, <3>2, <3>3 DEF Representatives
  <2>8. Representatives(g) = S \cup {top}
    <3>1. \A o \in O : g.rep[o] \in S \cup {top}
      BY <2>2, <2>3
    <3>2. \A q \in S \cup {top} : q \in O /\ g.rep[q] = q
      BY <2>2, <2>3
    <3>3. DOMAIN g.rep = O
      BY <2>3
    <3> HIDE DEF S
    <3> QED
      BY <3>1, <3>2, <3>3 DEF Representatives
  <2>9. {c, d} = {ClassOf(f, top), ClassOf(f, child)}
    BY <2>1
  <2>10. Classes(g) = {ClassOf(f, r) : r \in S} \cup {c \cup d}
    <3> HIDE DEF S, c, d
    <3> QED
      BY <2>5, <2>6, <2>8 DEF Classes
  <2>11. Classes(f) \ {c, d} = {ClassOf(f, r) : r \in S}
    <3>1. \A q \in S : ClassOf(f, q) \notin {ClassOf(f, top), ClassOf(f, child)}
      BY <2>2 DEF ClassOf
    <3> HIDE DEF S, c, d
    <3> QED
      BY <2>7, <2>9, <3>1 DEF Classes
  <2> QED
    BY <2>4, <2>10, <2>11 DEF g, ClassesJoined
<1> QED
  BY <1>1, <1>2

LEMMA NewForestIs ==
  ASSUME NEW O
  PROVE  /\ ForestOK(NewForest(O), O)
         /\ \A o \in O : NewForest(O).rep[o] = o
BY DEF NewForest, ForestOK

-----------------------------------------------------------------------------
(* Texts and their byte order.                                             *)

Text == Seq(Nat)

LEMMA TextIs ==
  ASSUME NEW a \in Text
  PROVE  Len(a) \in Nat /\ DOMAIN a = 1 .. Len(a) /\ \A i \in 1 .. Len(a) : a[i] \in Nat
BY DEF Text

LEMMA TextLessIs ==
  ASSUME NEW a \in Text, NEW b \in Text
  PROVE  TextLess(a, b) <=>
           \E i \in 1 .. Len(b) :
             /\ i - 1 <= Len(a)
             /\ \A j \in 1 .. i - 1 : a[j] = b[j]
             /\ i <= Len(a) => a[i] < b[i]
<1>1. /\ Len(a) \in Nat /\ DOMAIN a = 1 .. Len(a)
      /\ Len(b) \in Nat /\ DOMAIN b = 1 .. Len(b)
  BY TextIs
<1>2. ASSUME NEW i \in 1 .. Len(b)
      PROVE  (\A j \in 1 .. i - 1 : j \in DOMAIN a) <=> i - 1 <= Len(a)
  BY <1>1
<1> QED
  BY <1>1, <1>2 DEF TextLess

LEMMA TextLessIrreflexive ==
  ASSUME NEW a \in Text
  PROVE  ~TextLess(a, a)
BY TextLessIs, TextIs

LEMMA TextLessTransitive ==
  ASSUME NEW a \in Text, NEW b \in Text, NEW c \in Text, TextLess(a, b), TextLess(b, c)
  PROVE  TextLess(a, c)
<1>1. /\ Len(a) \in Nat /\ \A i \in 1 .. Len(a) : a[i] \in Nat
      /\ Len(b) \in Nat /\ \A i \in 1 .. Len(b) : b[i] \in Nat
      /\ Len(c) \in Nat /\ \A i \in 1 .. Len(c) : c[i] \in Nat
  BY TextIs
<1>2. PICK i \in 1 .. Len(b) :
        /\ i - 1 <= Len(a)
        /\ \A j \in 1 .. i - 1 : a[j] = b[j]
        /\ i <= Len(a) => a[i] < b[i]
  BY TextLessIs
<1>3. PICK k \in 1 .. Len(c) :
        /\ k - 1 <= Len(b)
        /\ \A j \in 1 .. k - 1 : b[j] = c[j]
        /\ k <= Len(b) => b[k] < c[k]
  BY TextLessIs
<1> DEFINE m == IF i < k THEN i ELSE k
<1>4. /\ m \in 1 .. Len(c) /\ m - 1 <= Len(a)
      /\ \A j \in 1 .. m - 1 : a[j] = c[j]
      /\ m <= Len(a) => a[m] < c[m]
  BY <1>1, <1>2, <1>3
<1> QED
  BY <1>4, TextLessIs

LEMMA TextLessTotal ==
  ASSUME NEW a \in Text, NEW b \in Text, a # b
  PROVE  TextLess(a, b) \/ TextLess(b, a)
<1>1. /\ Len(a) \in Nat /\ DOMAIN a = 1 .. Len(a) /\ \A i \in 1 .. Len(a) : a[i] \in Nat
      /\ Len(b) \in Nat /\ DOMAIN b = 1 .. Len(b) /\ \A i \in 1 .. Len(b) : b[i] \in Nat
  BY TextIs
<1> DEFINE D == {i \in Nat \ {0} : i > Len(a) \/ i > Len(b) \/ a[i] # b[i]}
<1>2. D \in SUBSET Nat /\ D # {}
  <2>1. Len(a) + 1 \in D
    BY <1>1
  <2> QED
    BY <2>1
<1>3. PICK m \in D : \A k \in D : m <= k
  BY <1>2, LeastNatural
<1>4. m - 1 <= Len(a) /\ m - 1 <= Len(b) /\ \A j \in 1 .. m - 1 : a[j] = b[j]
  BY <1>1, <1>3
<1>5. CASE m <= Len(a) /\ m <= Len(b)
  <2>1. a[m] < b[m] \/ b[m] < a[m]
    BY <1>1, <1>3, <1>5
  <2>2. m \in 1 .. Len(a) /\ m \in 1 .. Len(b)
    BY <1>1, <1>3, <1>5
  <2> QED
    BY <1>4, <2>1, <2>2, TextLessIs
<1>6. CASE m > Len(a) /\ m <= Len(b)
  BY <1>1, <1>3, <1>4, <1>6, TextLessIs
<1>7. CASE m > Len(b) /\ m <= Len(a)
  BY <1>1, <1>3, <1>4, <1>7, TextLessIs
<1>8. CASE m > Len(a) /\ m > Len(b)
  <2>1. Len(a) = Len(b)
    <3>1. m \in Nat /\ m - 1 <= Len(a) /\ m - 1 <= Len(b) /\ m > Len(a) /\ m > Len(b)
      BY <1>3, <1>4, <1>8
    <3>2. Len(a) \in Nat /\ Len(b) \in Nat
      BY <1>1
    <3> HIDE DEF D
    <3> QED
      BY <3>1, <3>2
  <2>2. \A i \in 1 .. Len(a) : a[i] = b[i]
    BY <1>1, <1>3, <1>4, <1>8
  <2>3. a = [i \in 1 .. Len(a) |-> a[i]] /\ b = [i \in 1 .. Len(a) |-> b[i]]
    BY <2>1 DEF Text
  <2> QED
    BY <2>2, <2>3
<1> QED
  BY <1>1, <1>3, <1>5, <1>6, <1>7, <1>8

LEMMA TextsOrdered ==
  ASSUME NEW T \in SUBSET Text
  PROVE  StrictOrder({p \in T \X T : TextLess(p[1], p[2])}, T)
<1> DEFINE R == {p \in T \X T : TextLess(p[1], p[2])}
<1>1. \A x, y \in T : <<x, y>> \in R <=> TextLess(x, y)
  OBVIOUS
<1> HIDE DEF R
<1>2. \A x \in T : <<x, x>> \notin R
  BY <1>1, TextLessIrreflexive
<1>3. \A x, y, z \in T : <<x, y>> \in R /\ <<y, z>> \in R => <<x, z>> \in R
  BY <1>1, TextLessTransitive
<1>4. \A x, y \in T : x = y \/ <<x, y>> \in R \/ <<y, x>> \in R
  BY <1>1, TextLessTotal
<1>5. StrictOrder(R, T)
  BY <1>2, <1>3, <1>4 DEF StrictOrder
<1> QED
  BY <1>5 DEF R

-----------------------------------------------------------------------------
(* Identifiers and their canonical strings.                                *)

(* The external identifiers are those that are not internal.               *)
LEMMA ExternalIs ==
  ASSUME NEW ids, IsSequence(ids)
  PROVE  /\ IsSequence(External(ids))
         /\ \A i \in DOMAIN External(ids) :
              \E k \in DOMAIN ids : ids[k].scheme # "internal" /\ External(ids)[i] = ids[k]
         /\ \A k \in DOMAIN ids : ids[k].scheme # "internal" =>
              \E i \in DOMAIN External(ids) : External(ids)[i] = ids[k]
<1> DEFINE S == {i \in DOMAIN ids : ids[i].scheme # "internal"}
<1>1. External(ids) = Picked(ids, S) /\ S \in SUBSET DOMAIN ids
  BY DEF External
<1>2. \A k \in DOMAIN ids : k \in S <=> ids[k].scheme # "internal"
  OBVIOUS
<1> HIDE DEF S
<1>3. Renumbers(Picked(ids, S), S) /\ \A k \in S : Picked(ids, S)[Pos(S, k)] = ids[k]
  BY <1>1, PickedRenumbers
<1>4. /\ \A k \in S : Pos(S, k) \in DOMAIN External(ids) /\ External(ids)[Pos(S, k)] = ids[k]
      /\ \A i \in DOMAIN External(ids) : \E k \in S : External(ids)[i] = ids[k]
  BY <1>1, <1>3 DEF Renumbers
<1> QED
  BY <1>1, <1>2, <1>3, <1>4 DEF Renumbers

LEMMA PositionIs ==
  ASSUME NEW seq, NEW e, \E i \in DOMAIN seq : seq[i] = e
  PROVE  Position(seq, e) \in DOMAIN seq /\ seq[Position(seq, e)] = e
BY DEF Position

LEMMA CanonicalIdIs ==
  ASSUME NEW id, IsIdentifier(id)
  PROVE  /\ CanonicalId(id) \in Text
         /\ CanonicalId(id)[1] = Position(SchemeOrder, id.scheme)
         /\ SchemeOrder[Position(SchemeOrder, id.scheme)] = id.scheme
<1> DEFINE p == Position(SchemeOrder, id.scheme)
           authority == IF ~RequiresAuthority(id.scheme) THEN <<>>
                        ELSE IF id.auth = None THEN NoText ELSE id.auth
<1>1. p \in DOMAIN SchemeOrder /\ SchemeOrder[p] = id.scheme
  BY PositionIs DEF IsIdentifier
<1>2. p \in Nat
  BY <1>1 DEF SchemeOrder
<1>3. CanonicalId(id) = <<p>> \o authority \o id.value
  BY DEF CanonicalId
<1>4. authority \in Seq(Nat) /\ id.value \in Seq(Nat)
  <2>1. \A v \in Nat \X Nat : v = <<v[1], v[2]>> /\ v[1] \in Nat /\ v[2] \in Nat
    OBVIOUS
  <2>2. \A v \in Nat \X Nat : v \in Seq(Nat)
    <3> TAKE v \in Nat \X Nat
    <3>1. PICK m \in Nat, n \in Nat : v = <<m, n>>
      BY <2>1
    <3>2. <<m, n>> \in Seq(Nat)
      OBVIOUS
    <3> QED
      BY <3>1, <3>2
  <2>3. NoText \in Nat \X Nat /\ <<>> \in Seq(Nat)
    BY DEF NoText
  <2> QED
    BY <2>2, <2>3 DEF IsIdentifier
<1> HIDE DEF p, authority
<1>5. <<p>> \o authority \in Seq(Nat) /\ (<<p>> \o authority)[1] = p /\ Len(<<p>> \o authority) >= 1
  BY <1>2, <1>4
<1>6. (<<p>> \o authority) \o id.value \in Seq(Nat) /\ ((<<p>> \o authority) \o id.value)[1] = p
  BY <1>4, <1>5
<1> QED
  BY <1>1, <1>3, <1>6 DEF p, Text

LEMMA CanonicalIdScheme ==
  ASSUME NEW x, IsIdentifier(x), NEW y, IsIdentifier(y), CanonicalId(x) = CanonicalId(y)
  PROVE  x.scheme = y.scheme
BY CanonicalIdIs

\* What the canonical string tells: all but the case of the authority.
LEMMA CanonicalIdTells ==
  ASSUME NEW x, IsIdentifier(x), NEW y, IsIdentifier(y), CanonicalId(x) = CanonicalId(y)
  PROVE  /\ x.scheme = y.scheme /\ x.value[1] = y.value[1]
         /\ RequiresAuthority(x.scheme) =>
              (IF x.auth = None THEN NoText ELSE x.auth) = (IF y.auth = None THEN NoText ELSE y.auth)
<1> DEFINE p == Position(SchemeOrder, x.scheme)
           text(id) == IF id.auth = None THEN NoText ELSE id.auth
<1>1. x.scheme = y.scheme
  BY CanonicalIdScheme
<1>2. PICK v1 \in Nat, v2 \in Nat, w1 \in Nat, w2 \in Nat : x.value = <<v1, v2>> /\ y.value = <<w1, w2>>
  BY DEF IsIdentifier
<1>3. PICK s1 \in Nat, s2 \in Nat, t1 \in Nat, t2 \in Nat : text(x) = <<s1, s2>> /\ text(y) = <<t1, t2>>
  BY DEF IsIdentifier, NoText
<1>4. CASE ~RequiresAuthority(x.scheme)
  <2>1. (<<p>> \o <<>>) \o <<v1, v2>> = (<<p>> \o <<>>) \o <<w1, w2>>
    BY <1>1, <1>2, <1>4 DEF CanonicalId
  <2> HIDE DEF p
  <2>2. <<p, v1, v2>> = <<p, w1, w2>>
    BY <2>1
  <2>3. v1 = w1
    BY <2>2
  <2> QED
    BY <1>1, <1>2, <1>4, <2>3
<1>5. CASE RequiresAuthority(x.scheme)
  <2>1. (<<p>> \o text(x)) \o x.value = (<<p>> \o text(y)) \o y.value
    BY <1>1, <1>5 DEF CanonicalId
  <2> HIDE DEF p, text
  <2>2. (<<p>> \o <<s1, s2>>) \o <<v1, v2>> = (<<p>> \o <<t1, t2>>) \o <<w1, w2>>
    BY <1>2, <1>3, <2>1
  <2>3. <<p, s1, s2, v1, v2>> = <<p, t1, t2, w1, w2>>
    BY <2>2
  <2>4. v1 = w1 /\ s1 = t1 /\ s2 = t2
    BY <2>3
  <2>5. text(x) = text(y)
    BY <1>3, <2>4
  <2> QED
    BY <1>1, <1>2, <2>4, <2>5 DEF text
<1> QED
  BY <1>4, <1>5
=============================================================================
