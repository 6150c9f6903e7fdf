------------------------------- MODULE Numbers ------------------------------
(***************************************************************************)
(* What the proofs of several components need of numbers: the least and the *)
(* greatest of a set, induction, the history of a loop, and division by the *)
(* size of a block or a sector.                                             *)
(***************************************************************************)
EXTENDS Integers, FiniteSetTheorems, TLAPS

\* A set of naturals has a least element: among the intervals 0 .. x that it
\* spans, finite sets ordered by inclusion, one is minimal.
LEMMA LeastElement ==
    ASSUME NEW T, T \subseteq Nat, T # {}
    PROVE  \E x \in T : \A y \in T : x <= y
<1> DEFINE Spans == {0 .. x : x \in T}
           Order == StrictSubsetOrdering(Nat)
<1>1. Spans \subseteq FiniteSubsetsOf(Nat)
  <2> SUFFICES ASSUME NEW x \in T PROVE 0 .. x \in FiniteSubsetsOf(Nat)
    OBVIOUS
  <2>1. IsFiniteSet(0 .. x)
    BY FS_Interval
  <2> QED
    BY <2>1 DEF FiniteSubsetsOf
<1>2. Spans # {}
  OBVIOUS
<1>3. PICK s \in Spans : \A r \in Spans : <<r, s>> \notin Order
  <2> HIDE DEF Spans, Order
  <2>1. IsWellFoundedOn(Order, FiniteSubsetsOf(Nat))
    BY FS_StrictSubsetOrderingWellFounded DEF Order
  <2> QED
    BY <1>1, <1>2, <2>1, WFMin, SMT
<1>4. PICK x \in T : s = 0 .. x
  BY <1>3
<1>5. ASSUME NEW y \in T, y < x PROVE FALSE
  <2>1. 0 .. y \in Spans
    OBVIOUS
  <2>2. 0 .. y \subseteq 0 .. x /\ x \notin 0 .. y /\ x \in 0 .. x
    BY <1>5
  <2>3. <<0 .. y, s>> \in Order
    BY <2>2, <1>4 DEF StrictSubsetOrdering
  <2> QED
    BY <2>1, <2>3, <1>3
<1> QED
  BY <1>5

\* One that is bounded has a greatest.
LEMMA GreatestElement ==
    ASSUME NEW n \in Nat, NEW T, T \subseteq 0 .. n, T # {}
    PROVE  \E x \in T : \A y \in T : y <= x
<1> DEFINE Below == {n - y : y \in T}
<1>1. Below \subseteq Nat /\ Below # {}
  <2>1. \A y \in T : n - y \in Nat
    OBVIOUS
  <2>2. PICK y \in T : TRUE
    OBVIOUS
  <2>3. n - y \in Below
    OBVIOUS
  <2> QED
    BY <2>1, <2>3
<1>2. PICK d \in Below : \A e \in Below : d <= e
  <2> HIDE DEF Below
  <2> QED
    BY <1>1, LeastElement
<1>3. PICK x \in T : d = n - x
  BY <1>2
<1>4. ASSUME NEW y \in T PROVE y <= x
  <2>1. n - y \in Below
    OBVIOUS
  <2>2. n - x <= n - y
    BY <1>2, <1>3, <2>1
  <2>3. x \in Nat /\ y \in Nat
    OBVIOUS
  <2> QED
    BY <2>2, <2>3
<1> QED
  BY <1>4

-----------------------------------------------------------------------------
\* Induction, for a set: what holds at 0 and passes on to the successor.  (The
\* induction theorems of the library take a predicate.)
LEMMA Induct ==
    ASSUME NEW T, 0 \in T, \A n \in Nat : n \in T => n + 1 \in T
    PROVE  \A n \in Nat : n \in T
<1> SUFFICES ASSUME NEW n \in Nat, n \notin T PROVE FALSE
  OBVIOUS
<1> DEFINE U == {m \in Nat : m \notin T}
<1>1. U \subseteq Nat /\ U # {}
  OBVIOUS
<1>2. PICK x \in U : \A y \in U : x <= y
  <2> HIDE DEF U
  <2> QED
    BY <1>1, LeastElement
<1>3. x \in Nat /\ x # 0 /\ x - 1 \in Nat /\ (x - 1) + 1 = x
  BY <1>2
<1>4. x - 1 \in U => x <= x - 1
  BY <1>2
<1>5. x - 1 \in T
  BY <1>3, <1>4
<1> QED
  BY <1>2, <1>3, <1>5

\* A loop that keeps to a set of states has a history of any length.
Histories(A, base, step, n) ==
    {g \in [0 .. n -> A] : g[0] = base /\ \A k \in 1 .. n : g[k] = step[k][g[k - 1]]}

LEMMA Iterates ==
    ASSUME NEW A, NEW base \in A, NEW step, \A k \in Nat : step[k] \in [A -> A]
    PROVE  \A n \in Nat : Histories(A, base, step, n) # {}
<1> DEFINE Good(n, g) == /\ g \in [0 .. n -> A] /\ g[0] = base
                         /\ \A k \in 1 .. n : g[k] = step[k][g[k - 1]]
           T == {n \in Nat : \E g : Good(n, g)}
<1>1. 0 \in T
  <2>1. Good(0, [k \in 0 .. 0 |-> base])
    OBVIOUS
  <2> QED
    BY <2>1
<1>2. ASSUME NEW n \in Nat, n \in T PROVE n + 1 \in T
  <2>1. PICK g : Good(n, g)
    BY <1>2
  <2> DEFINE h == [k \in 0 .. n + 1 |-> IF k <= n THEN g[k] ELSE step[n + 1][g[n]]]
  <2>2. step[n + 1][g[n]] \in A
    <3>1. g[n] \in A /\ step[n + 1] \in [A -> A]
      BY <2>1
    <3> QED
      BY <3>1
  <2>3. h \in [0 .. n + 1 -> A] /\ h[0] = base
    BY <2>1, <2>2
  <2>4. ASSUME NEW k \in 1 .. n + 1 PROVE h[k] = step[k][h[k - 1]]
    <3>1. k - 1 \in 0 .. n /\ h[k - 1] = g[k - 1]
      OBVIOUS
    <3>2. CASE k <= n
      BY <2>1, <3>1, <3>2
    <3>3. CASE k = n + 1
      BY <3>1, <3>3
    <3> QED
      BY <3>2, <3>3
  <2>5. Good(n + 1, h)
    BY <2>3, <2>4
  <2> HIDE DEF Good, h
  <2> QED
    BY <2>5
<1>3. \A n \in Nat : n \in T
  <2> HIDE DEF T
  <2> QED
    BY <1>1, <1>2, Induct
<1>4. ASSUME NEW n \in Nat PROVE Histories(A, base, step, n) # {}
  <2>1. PICK g : Good(n, g)
    BY <1>3
  <2> QED
    BY <2>1 DEF Histories
<1> QED
  BY <1>4

-----------------------------------------------------------------------------
\* A number is its quotient's multiple and its remainder.
LEMMA Division ==
    ASSUME NEW R \in Nat \ {0}, NEW j \in Nat
    PROVE  /\ j \div R \in Nat /\ j % R \in 0 .. R - 1
           /\ j = (j \div R) * R + (j % R)
OBVIOUS

\* Multiples keep the order.
LEMMA LessTimes ==
    ASSUME NEW R \in Nat \ {0}, NEW a \in Int, NEW b \in Int
    PROVE  /\ a < b => a * R + R <= b * R
           /\ a <= b => a * R <= b * R
<1>1. \A m, r \in Nat : m * r >= 0
  OBVIOUS
<1>2. ASSUME a <= b PROVE a * R <= b * R
  <2>1. (b - a) * R >= 0
    BY <1>1, <1>2
  <2>2. (b - a) * R = b * R - a * R
    OBVIOUS
  <2> QED
    BY <2>1, <2>2
<1>3. ASSUME a < b PROVE a * R + R <= b * R
  <2>1. (b - a - 1) * R >= 0
    BY <1>1, <1>3
  <2>2. (b - a - 1) * R = b * R - a * R - R
    OBVIOUS
  <2> QED
    BY <2>1, <2>2
<1> QED
  BY <1>2, <1>3

\* The quotient is the one number of whole divisors that fits.
LEMMA QuotientUnique ==
    ASSUME NEW R \in Nat \ {0}, NEW j \in Nat, NEW q \in Nat,
           q * R <= j, j < (q + 1) * R
    PROVE  q = j \div R /\ j - q * R = j % R
<1> DEFINE d == j \div R
           m == j % R
<1>1. d \in Nat /\ m \in 0 .. R - 1 /\ j = d * R + m
  BY Division
<1> HIDE DEF d, m
<1>2. (q + 1) * R = q * R + R
  OBVIOUS
<1>3. ~(d < q)
  BY <1>1, LessTimes
<1>4. ~(q < d)
  BY <1>1, <1>2, LessTimes
<1>5. d = q
  BY <1>1, <1>3, <1>4
<1>6. j - q * R = m
  BY <1>1, <1>5
<1> QED
  BY <1>5, <1>6 DEF d, m

\* So a quotient is below a bound when the number is below so many divisors.
LEMMA QuotientBelow ==
    ASSUME NEW R \in Nat \ {0}, NEW j \in Nat, NEW K \in Nat
    PROVE  (j \div R < K) <=> (j < K * R)
<1>1. (j \div R) \in Nat /\ (j % R) \in 0 .. R - 1 /\ j = (j \div R) * R + (j % R)
  BY Division
<1> DEFINE d == j \div R
<1> HIDE DEF d
<1>2. d \in Nat /\ d * R <= j /\ j < d * R + R
  BY <1>1 DEF d
<1>3. d < K => d * R + R <= K * R
  BY <1>2, LessTimes
<1>4. ~(d < K) => K * R <= d * R
  BY <1>2, LessTimes
<1>5. K * R \in Nat /\ d * R \in Nat
  BY <1>2
<1> QED
  BY <1>2, <1>3, <1>4, <1>5 DEF d
=============================================================================
