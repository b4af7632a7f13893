------------------------------ MODULE Numbers ------------------------------
(***************************************************************************)
(* Facts about integers that the proofs of several components rest on:     *)
(* least and greatest elements, and remainders.                            *)
(***************************************************************************)
EXTENDS Integers, FiniteSetsExt, WellFoundedInduction, TLAPS

\* A well-founded relation that contains < gives a set of naturals a minimum.
LEMMA LeastElement ==
    ASSUME NEW R, IsWellFoundedOn(R, Nat),
           \A p, q \in Nat : p < q => <<p, q>> \in R,
           NEW S \in SUBSET Nat, S # {}
    PROVE  \E x \in S : \A y \in S : x <= y
<1>1. S \subseteq Nat
  OBVIOUS
<1>2. \E x \in S : \A y \in S : ~ (<<y, x>> \in R)
  BY ONLY <1>1, WFMin, S # {}, IsWellFoundedOn(R, Nat)
<1>3. PICK x \in S : \A y \in S : ~ (<<y, x>> \in R)
  BY <1>2
<1>4. \A y \in S : ~ (y < x)
  BY <1>3, Zenon
<1> QED
  BY <1>4

\* A nonempty set of naturals has its minimum (fence_from, derive_reap).
LEMMA MinOfNaturals ==
    ASSUME NEW S \in SUBSET Nat, S # {}
    PROVE  Min(S) \in S /\ \A y \in S : Min(S) <= y
<1>1. \A p, q \in Nat : p < q => <<p, q>> \in OpToRel(<, Nat)
  BY Zenon DEF OpToRel
<1>2. \E x \in S : \A y \in S : x <= y
  BY <1>1, NatLessThanWellFounded, LeastElement, Zenon
<1> QED
  BY <1>2 DEF Min

\* A set of naturals that holds a number whenever it holds all smaller ones
\* holds them all.
LEMMA SetInduction ==
    ASSUME NEW S \in SUBSET Nat,
           \A n \in Nat : (\A m \in Nat : m < n => m \in S) => n \in S
    PROVE  \A n \in Nat : n \in S
<1> DEFINE T == Nat \ S
<1>1. SUFFICES ASSUME T # {} PROVE FALSE
  OBVIOUS
<1>2. T \in SUBSET Nat
  OBVIOUS
<1> HIDE DEF T
<1>3. Min(T) \in T /\ \A y \in T : Min(T) <= y
  BY <1>1, <1>2, MinOfNaturals
<1>4. Min(T) \in Nat
  BY <1>2, <1>3
<1>5. \A m \in Nat : m < Min(T) => m \in S
  <2> TAKE m \in Nat
  <2>1. m \in T => Min(T) <= m
    BY <1>3
  <2>2. m \notin S => m \in T
    BY DEF T
  <2> QED
    BY <1>4, <2>1, <2>2
<1>6. Min(T) \in S
  BY <1>4, <1>5
<1> QED
  BY <1>3, <1>6 DEF T

\* The greatest element is the greatest element.
LEMMA MaxIs ==
    ASSUME NEW S \in SUBSET Int, NEW x \in S, \A y \in S : y <= x
    PROVE  Max(S) = x
<1>1. \A y \in S : x >= y
  OBVIOUS
<1>2. Max(S) \in S /\ \A y \in S : Max(S) >= y
  BY <1>1, Zenon DEF Max
<1>3. Max(S) \in Int /\ Max(S) >= x /\ Max(S) <= x
  BY <1>2
<1> QED
  BY <1>3

\* A nonempty set of integers with a bound has its maximum.
LEMMA MaxOfBounded ==
    ASSUME NEW S \in SUBSET Int, S # {}, NEW B \in Int, \A x \in S : x <= B
    PROVE  Max(S) \in S /\ \A y \in S : y <= Max(S)
<1> DEFINE T == {B - x : x \in S}
<1>1. T \in SUBSET Nat /\ T # {}
  <2>1. \A x \in S : B - x \in Nat
    OBVIOUS
  <2>2. \A t \in T : t \in Nat
    BY <2>1
  <2>3. PICK x \in S : TRUE
    OBVIOUS
  <2>4. B - x \in T
    BY <2>3
  <2> HIDE DEF T
  <2> QED
    BY <2>2, <2>4
<1>2. PICK x \in S : Min(T) = B - x /\ \A y \in T : Min(T) <= y
  <2>1. Min(T) \in T /\ \A y \in T : Min(T) <= y
    <3> HIDE DEF T
    <3> QED BY <1>1, MinOfNaturals
  <2> QED
    BY <2>1
<1>3. \A y \in S : y <= x
  <2> TAKE y \in S
  <2>1. B - y \in T
    OBVIOUS
  <2>2. B - x <= B - y
    BY <1>2, <2>1
  <2> QED
    BY <2>2
<1> QED
  BY <1>3, MaxIs

\* A remainder stays below its divisor, and leaves a whole number of laps.
LEMMA ModFacts ==
    ASSUME NEW m \in Int, NEW n \in Nat \ {0}
    PROVE  /\ m % n \in 0 .. (n - 1)
           /\ m = n * (m \div n) + (m % n)
           /\ m \div n \in Int
OBVIOUS

\* Within a lap, two cursors never share a position (Tract::position).
LEMMA ModUnique ==
    ASSUME NEW a \in Int, NEW b \in Int, NEW n \in Nat \ {0}, a < b, b < a + n
    PROVE  a % n # b % n
<1> DEFINE k == (b \div n) - (a \div n)
<1>1. /\ a = n * (a \div n) + (a % n) /\ a \div n \in Int /\ a % n \in Int
      /\ b = n * (b \div n) + (b % n) /\ b \div n \in Int /\ b % n \in Int
  BY ModFacts
<1>2. k \in Int /\ n * k = n * (b \div n) - n * (a \div n)
  BY <1>1
<1>3. \A x \in Int : x >= 1 => n * x >= n
  OBVIOUS
<1>4. \A x \in Int : x <= 0 => n * x <= 0
  OBVIOUS
<1>5. SUFFICES ASSUME a % n = b % n PROVE FALSE
  OBVIOUS
<1>6. n * k = b - a
  BY <1>1, <1>2, <1>5
<1> HIDE DEF k
<1> QED
  BY <1>2, <1>3, <1>4, <1>6

\* A remainder is the only number below the divisor a whole number of laps
\* away.
LEMMA ModIs ==
    ASSUME NEW a \in Int, NEW n \in Nat \ {0}, NEW r \in 0 .. (n - 1),
           NEW q \in Int, a = n * q + r
    PROVE  a % n = r
<1> DEFINE k == (a \div n) - q
<1>1. /\ a = n * (a \div n) + (a % n) /\ a \div n \in Int
      /\ a % n \in 0 .. (n - 1)
  BY ModFacts
<1>2. k \in Int /\ n * k = n * (a \div n) - n * q
  BY <1>1
<1>3. \A x \in Int : x >= 1 => n * x >= n
  OBVIOUS
<1>4. \A x \in Int : x <= -1 => n * x <= -n
  OBVIOUS
<1>5. n * k = r - (a % n)
  BY <1>1, <1>2
<1> HIDE DEF k
<1>6. k = 0
  BY <1>1, <1>2, <1>3, <1>4, <1>5
<1>7. n * k = 0
  BY <1>6
<1> QED
  BY <1>1, <1>5, <1>7

\* A lap further lies the same position.
LEMMA ModLap ==
    ASSUME NEW a \in Int, NEW n \in Nat \ {0}
    PROVE  (a + n) % n = a % n
<1> DEFINE q == a \div n
           r == a % n
           b == a + n
<1>1. a = n * q + r /\ q \in Int /\ r \in 0 .. (n - 1) /\ b = a + n /\ b \in Int
  BY ModFacts
<1> HIDE DEF q, r, b
<1>2. q + 1 \in Int /\ b = n * (q + 1) + r
  BY <1>1
<1>3. b % n = r
  BY <1>1, <1>2, ModIs
<1> QED
  BY <1>3 DEF b, r

\* Short of the tract's end, a position moves with its cursor.
LEMMA ModShift ==
    ASSUME NEW a \in Int, NEW n \in Nat \ {0}, NEW k \in Int,
           (a % n) + k \in 0 .. (n - 1)
    PROVE  (a + k) % n = (a % n) + k
<1>1. /\ a = n * (a \div n) + (a % n) /\ a \div n \in Int /\ a % n \in Int
  BY ModFacts
<1>2. a + k = n * (a \div n) + ((a % n) + k)
  BY <1>1
<1> QED
  BY <1>1, <1>2, ModIs

\* In the first lap a cursor is its position.
LEMMA ModSmall ==
    ASSUME NEW n \in Nat \ {0}, NEW m \in 0 .. (n - 1)
    PROVE  m % n = m
BY ModIs

\* One of finitely many integers is the greatest.
LEMMA GreatestOf ==
    ASSUME NEW n \in Nat, NEW f, \A s \in 0 .. n : f[s] \in Int
    PROVE  \E s \in 0 .. n : \A t \in 0 .. n : f[t] <= f[s]
<1> DEFINE S == {k \in Nat : k <= n => \E s \in 0 .. k : \A t \in 0 .. k : f[t] <= f[s]}
<1>1. ASSUME NEW k \in Nat, \A m \in Nat : m < k => m \in S
      PROVE  k \in S
  <2>1. SUFFICES ASSUME k <= n PROVE \E s \in 0 .. k : \A t \in 0 .. k : f[t] <= f[s]
    OBVIOUS
  <2>2. CASE k = 0
    BY <2>2
  <2>3. CASE k > 0
    <3>1. k - 1 \in Nat /\ k - 1 < k /\ k - 1 <= n
      BY <2>1, <2>3
    <3>2. PICK s \in 0 .. (k - 1) : \A t \in 0 .. (k - 1) : f[t] <= f[s]
      BY <1>1, <3>1
    <3>3. s \in 0 .. k /\ k \in 0 .. k /\ f[s] \in Int /\ f[k] \in Int
      BY <2>1, <3>1, <3>2
    <3>4. \A t \in 0 .. k : f[t] \in Int /\ (t = k \/ t \in 0 .. (k - 1))
      BY <2>1
    <3>5. CASE f[k] <= f[s]
      BY <3>2, <3>3, <3>4, <3>5
    <3>6. CASE f[s] <= f[k]
      BY <3>2, <3>3, <3>4, <3>6
    <3> QED
      BY <3>3, <3>5, <3>6
  <2> QED
    BY <2>2, <2>3
<1>2. S \in SUBSET Nat
  OBVIOUS
<1>3. n \in S
  <2> HIDE DEF S
  <2> QED BY <1>1, <1>2, SetInduction
<1> QED
  BY <1>3
=============================================================================
