---------------------------- MODULE SpineProofs ----------------------------
(***************************************************************************)
(* Proofs about Spine for every size of the ring, the band and the root    *)
(* ring, every residency, fence depth and number of lost slots.            *)
(***************************************************************************)
EXTENDS Spine, Numbers

\* The ring has at least two slots.
LEMMA RingSize == N \in Nat /\ N >= 2 /\ N \in Nat \ {0}
BY RingAssumption DEF N

(***************************************************************************)
(* The bisection (Ring::search).                                           *)
(***************************************************************************)
\* The function Search is defined with.
SearchFcn(ring) ==
    CHOOSE f : f = [p \in Spans |-> SearchStep(ring, f, p[1], p[2])]

\* The middle of a span parts it.
LEMMA Middle ==
    ASSUME NEW lo \in 0 .. N, NEW hi \in Slots, lo <= hi,
           NEW mid, mid = (lo + hi + 1) \div 2
    PROVE  /\ lo \in Slots /\ lo + 1 \in 0 .. N
           /\ lo < hi => /\ mid \in Slots /\ mid \in 0 .. N /\ lo < mid /\ mid <= hi
                         /\ mid - 1 \in Slots
<1>1. lo \in Int /\ hi \in Int /\ N \in Nat /\ hi <= N - 1 /\ 0 <= lo
  BY RingSize DEF Slots
<1>2. mid \in Int /\ 2 * mid <= lo + hi + 1 /\ lo + hi + 1 <= 2 * mid + 1
  BY <1>1
<1>3. lo \in Slots /\ lo + 1 \in 0 .. N
  BY <1>1 DEF Slots
<1>4. lo < hi => /\ mid \in Slots /\ mid \in 0 .. N /\ lo < mid /\ mid <= hi
                 /\ mid - 1 \in Slots
  BY <1>1, <1>2 DEF Slots
<1> QED
  BY <1>3, <1>4

\* Every part of a span that the bisection goes on with is a shorter span.
LEMMA Parts ==
    ASSUME NEW lo \in 0 .. N, NEW hi \in Slots, lo <= hi,
           NEW mid, mid = (lo + hi + 1) \div 2
    PROVE  /\ lo \in Slots /\ <<lo + 1, hi>> \in Spans
           /\ lo < hi => /\ mid \in Slots /\ lo < mid /\ mid <= hi
                         /\ <<lo, mid - 1>> \in Spans /\ <<mid, hi>> \in Spans
BY Middle DEF Spans

\* A step depends on the shorter spans only.
LEMMA StepAgrees ==
    ASSUME NEW ring, NEW f, NEW g, NEW lo \in 0 .. N, NEW hi \in Slots,
           \A p \in Spans : p[2] - p[1] < hi - lo => f[p] = g[p]
    PROVE  SearchStep(ring, f, lo, hi) = SearchStep(ring, g, lo, hi)
<1> DEFINE mid == (lo + hi + 1) \div 2
<1>1. CASE lo > hi
  BY <1>1 DEF SearchStep
<1>2. CASE lo <= hi
  <2>1. /\ <<lo + 1, hi>> \in Spans
        /\ lo < hi => /\ mid \in Int /\ lo < mid /\ mid <= hi
                      /\ <<lo, mid - 1>> \in Spans /\ <<mid, hi>> \in Spans
    BY <1>2, Parts DEF Slots
  <2>2. lo \in Int /\ hi \in Int
    BY RingSize DEF Slots
  <2> HIDE DEF mid
  <2>3. f[<<lo + 1, hi>>] = g[<<lo + 1, hi>>]
    BY <2>1, <2>2
  <2>4. lo < hi => /\ f[<<lo, mid - 1>>] = g[<<lo, mid - 1>>]
                   /\ f[<<mid, hi>>] = g[<<mid, hi>>]
    BY <2>1, <2>2
  <2>5. lo = hi \/ lo < hi
    BY <1>2, <2>2
  <2> QED
    BY <2>3, <2>4, <2>5, <1>2 DEF SearchStep, mid
<1> QED
  BY <1>1, <1>2, RingSize DEF Slots

\* The bisection is defined on every span.
LEMMA SearchDefined ==
    ASSUME NEW ring
    PROVE  \E f : f = [p \in Spans |-> SearchStep(ring, f, p[1], p[2])]
<1> DEFINE Upto(g, k) ==
               \A p \in Spans : (p[2] - p[1]) + 1 <= k
                   => g[p] = SearchStep(ring, g, p[1], p[2])
           S == {k \in Nat : \E g : g = [p \in Spans |-> g[p]] /\ Upto(g, k)}
<1>0. \A p \in Spans : /\ p = <<p[1], p[2]>> /\ p[1] \in 0 .. N /\ p[2] \in Slots
                       /\ p[1] \in Int /\ p[2] \in Int /\ p[1] >= 0 /\ p[2] <= N - 1
  BY RingSize DEF Spans, Slots
<1>1. ASSUME NEW k \in Nat, \A m \in Nat : m < k => m \in S
      PROVE  k \in S
  <2>1. CASE k = 0
    <3> DEFINE g == [p \in Spans |-> Empty]
    <3>1. Upto(g, 0)
      BY <1>0 DEF SearchStep
    <3>2. g = [p \in Spans |-> g[p]]
      OBVIOUS
    <3> QED
      BY <2>1, <3>1, <3>2
  <2>2. CASE k > 0
    <3>1. k - 1 \in Nat /\ k - 1 < k
      BY <2>2
    <3>2. k - 1 \in S
      BY <1>1, <3>1
    <3>3. PICK g : g = [p \in Spans |-> g[p]] /\ Upto(g, k - 1)
      BY <3>2
    <3> DEFINE h == [p \in Spans |-> SearchStep(ring, g, p[1], p[2])]
    <3>4. \A p \in Spans : (p[2] - p[1]) + 1 <= k - 1 => h[p] = g[p]
      BY <3>3
    <3>5. \A p \in Spans : h[p] = SearchStep(ring, g, p[1], p[2])
      OBVIOUS
    <3> HIDE DEF h
    <3>6. ASSUME NEW p \in Spans, (p[2] - p[1]) + 1 <= k
          PROVE  h[p] = SearchStep(ring, h, p[1], p[2])
      <4>1. \A q \in Spans : q[2] - q[1] < p[2] - p[1] => g[q] = h[q]
        BY <1>0, <3>4, <3>6
      <4>2. SearchStep(ring, g, p[1], p[2]) = SearchStep(ring, h, p[1], p[2])
        BY <1>0, <4>1, StepAgrees
      <4> QED
        BY <3>5, <4>2
    <3>7. h = [p \in Spans |-> h[p]]
      BY DEF h
    <3> QED
      BY <3>6, <3>7
  <2> QED
    BY <2>1, <2>2
<1>2. S \in SUBSET Nat
  OBVIOUS
<1>3. N \in S
  <2> HIDE DEF S
  <2> QED BY <1>1, <1>2, SetInduction, RingSize
<1>4. PICK f : f = [p \in Spans |-> f[p]] /\ Upto(f, N)
  BY <1>3
<1>5. \A p \in Spans : f[p] = SearchStep(ring, f, p[1], p[2])
  BY <1>0, <1>4, RingSize
<1> QED
  BY <1>4, <1>5

\* So the recursion can be unfolded.
LEMMA SearchUnfolds ==
    ASSUME NEW ring
    PROVE  /\ Search(ring) = SearchFcn(ring)[<<0, N - 1>>]
           /\ \A lo \in 0 .. N, hi \in Slots :
                 SearchFcn(ring)[<<lo, hi>>] = SearchStep(ring, SearchFcn(ring), lo, hi)
<1>1. Search(ring) = SearchFcn(ring)[<<0, N - 1>>]
  BY DEF Search, SearchFcn
<1> DEFINE f == SearchFcn(ring)
<1>2. f = [p \in Spans |-> SearchStep(ring, f, p[1], p[2])]
  BY SearchDefined DEF SearchFcn
<1> HIDE DEF f
<1>3. \A lo \in 0 .. N, hi \in Slots :
          f[<<lo, hi>>] = SearchStep(ring, f, lo, hi)
  BY <1>2 DEF Spans
<1> QED
  BY <1>1, <1>3 DEF f

\* A ring as the media may hold it.
IsRing(ring) == ring \in [Slots -> Int] /\ \A s \in Slots : ring[s] >= Corrupt

\* v is nothing, or an entry of the slots lo .. hi.
InSpan(v, ring, lo, hi) ==
    v \in Int /\ v >= Empty /\ (v = Empty \/ \E s \in lo .. hi : v = ring[s])

\* The greater of two.
LEMMA MaxOfTwo ==
    ASSUME NEW a \in Int, NEW b \in Int
    PROVE  /\ Max({a, b}) \in {a, b} /\ Max({a, b}) \in Int
           /\ a <= Max({a, b}) /\ b <= Max({a, b})
<1>1. CASE a <= b
  <2>1. Max({a, b}) = b
    BY <1>1, MaxIs
  <2> QED
    BY <1>1, <2>1
<1>2. CASE b <= a
  <2>1. Max({a, b}) = a
    BY <1>2, MaxIs
  <2> QED
    BY <1>2, <2>1
<1> QED
  BY <1>1, <1>2

\* What one step of the bisection answers, by the answers for the parts.
LEMMA StepCases ==
    ASSUME NEW ring, IsRing(ring), NEW f, NEW lo \in 0 .. N, NEW hi \in Slots,
           NEW mid, mid = (lo + hi + 1) \div 2
    PROVE  LET v == SearchStep(ring, f, lo, hi)
           IN  \/ lo > hi /\ v = Empty
               \/ lo <= hi /\ ring[lo] = Corrupt /\ v = f[<<lo + 1, hi>>]
               \/ lo = hi /\ ring[lo] >= Empty /\ v = ring[lo]
               \/ /\ lo < hi /\ ring[lo] >= Empty /\ ring[mid] = Corrupt
                  /\ v = Max({f[<<lo, mid - 1>>], f[<<mid, hi>>]})
               \/ /\ lo < hi /\ ring[lo] >= Empty /\ ring[mid] >= Empty
                  /\ ring[mid] > ring[lo] /\ v = f[<<mid, hi>>]
               \/ /\ lo < hi /\ ring[lo] >= Empty /\ ring[mid] >= Empty
                  /\ ring[mid] <= ring[lo] /\ v = f[<<lo, mid - 1>>]
<1>1. lo \in Int /\ hi \in Int
  BY RingSize DEF Slots
<1>2. CASE lo > hi
  BY <1>2 DEF SearchStep
<1>3. CASE lo <= hi
  <2>1. /\ ring[lo] \in Int /\ ring[lo] >= Corrupt
        /\ lo < hi => ring[mid] \in Int /\ ring[mid] >= Corrupt
    BY <1>3, Parts DEF IsRing
  <2>2. /\ ring[lo] # Corrupt => ring[lo] >= Empty
        /\ lo < hi /\ ring[mid] # Corrupt => ring[mid] >= Empty
    BY <2>1 DEF Empty, Corrupt
  <2>3. lo = hi \/ lo < hi
    BY <1>1, <1>3
  <2>4. lo < hi => ring[mid] > ring[lo] \/ ring[mid] <= ring[lo]
    BY <2>1
  <2>5. ~(lo > hi) /\ (lo < hi => lo # hi)
    BY <1>1, <1>3
  <2> QED
    BY <1>3, <2>2, <2>3, <2>4, <2>5 DEF SearchStep
<1> QED
  BY <1>1, <1>2, <1>3

\* Whatever the ring, the bisection answers nothing or one of its entries.
LEMMA SearchInSpan ==
    ASSUME NEW ring, IsRing(ring)
    PROVE  \A lo \in 0 .. N, hi \in Slots :
               InSpan(SearchFcn(ring)[<<lo, hi>>], ring, lo, hi)
<1> DEFINE f == SearchFcn(ring)
           S == {k \in Nat : \A lo \in 0 .. N, hi \in Slots :
                    (hi - lo) + 1 <= k => InSpan(f[<<lo, hi>>], ring, lo, hi)}
<1>1. \A lo \in 0 .. N, hi \in Slots : f[<<lo, hi>>] = SearchStep(ring, f, lo, hi)
  BY SearchUnfolds
<1> HIDE DEF f
<1>2. ASSUME NEW k \in Nat, \A m \in Nat : m < k => m \in S
      PROVE  k \in S
  <2> SUFFICES ASSUME NEW lo \in 0 .. N, NEW hi \in Slots, (hi - lo) + 1 <= k
               PROVE  InSpan(f[<<lo, hi>>], ring, lo, hi)
    OBVIOUS
  <2> DEFINE mid == (lo + hi + 1) \div 2
             v == f[<<lo, hi>>]
  <2>1. lo \in Int /\ hi \in Int /\ mid \in Int
    BY RingSize DEF Slots
  <2>2. ASSUME NEW a \in 0 .. N, NEW b \in Slots, b - a < hi - lo, lo <= hi
        PROVE  InSpan(f[<<a, b>>], ring, a, b)
    <3>1. a \in Int /\ b \in Int
      BY RingSize DEF Slots
    <3>2. k - 1 \in Nat /\ k - 1 < k /\ (b - a) + 1 <= k - 1
      BY <2>1, <2>2, <3>1
    <3>3. k - 1 \in S
      BY <1>2, <3>2
    <3> QED
      BY <3>2, <3>3
  <2>3. ASSUME lo <= hi
        PROVE  /\ lo \in Slots /\ lo + 1 \in 0 .. N
               /\ lo < hi => /\ mid \in Slots /\ mid \in 0 .. N /\ lo < mid
                             /\ mid <= hi /\ mid - 1 \in Slots
    <3>1. mid = (lo + hi + 1) \div 2
      OBVIOUS
    <3> HIDE DEF mid
    <3> QED
      BY <2>3, <3>1, Middle, SMTT(30)
  <2>4. \A s \in Slots : ring[s] \in Int
    BY DEF IsRing
  <2>5. \/ lo > hi /\ v = Empty
        \/ lo <= hi /\ v = f[<<lo + 1, hi>>]
        \/ lo = hi /\ ring[lo] >= Empty /\ v = ring[lo]
        \/ lo < hi /\ v = Max({f[<<lo, mid - 1>>], f[<<mid, hi>>]})
        \/ lo < hi /\ v = f[<<mid, hi>>]
        \/ lo < hi /\ v = f[<<lo, mid - 1>>]
    BY <1>1, StepCases
  <2> HIDE DEF mid, v, S
  <2>6. CASE lo > hi /\ v = Empty
    BY <2>6 DEF InSpan, v, Empty
  <2>7. CASE lo <= hi /\ v = f[<<lo + 1, hi>>]
    <3>1. InSpan(v, ring, lo + 1, hi)
      BY <2>1, <2>2, <2>3, <2>7
    <3> QED
      BY <2>1, <3>1 DEF InSpan, v
  <2>8. CASE lo = hi /\ ring[lo] >= Empty /\ v = ring[lo]
    BY <2>1, <2>3, <2>4, <2>8 DEF InSpan, v
  <2>9. ASSUME lo < hi
        PROVE  /\ InSpan(f[<<mid, hi>>], ring, lo, hi)
               /\ InSpan(f[<<lo, mid - 1>>], ring, lo, hi)
    <3>1. InSpan(f[<<mid, hi>>], ring, mid, hi)
      BY <2>1, <2>2, <2>3, <2>9
    <3>2. InSpan(f[<<lo, mid - 1>>], ring, lo, mid - 1)
      BY <2>1, <2>2, <2>3, <2>9
    <3>3. mid .. hi \subseteq lo .. hi /\ lo .. (mid - 1) \subseteq lo .. hi
      BY <2>1, <2>3, <2>9
    <3> QED
      BY <3>1, <3>2, <3>3 DEF InSpan
  <2>10. CASE lo < hi /\ v = Max({f[<<lo, mid - 1>>], f[<<mid, hi>>]})
    <3>1. f[<<mid, hi>>] \in Int /\ f[<<lo, mid - 1>>] \in Int
      BY <2>9, <2>10 DEF InSpan
    <3>2. v \in {f[<<lo, mid - 1>>], f[<<mid, hi>>]}
      BY <2>10, <3>1, MaxOfTwo
    <3> QED
      BY <2>9, <2>10, <3>2 DEF v
  <2> QED
    BY <2>1, <2>5, <2>6, <2>7, <2>8, <2>9, <2>10 DEF v
<1>3. S \in SUBSET Nat
  OBVIOUS
<1>4. N \in S
  <2> HIDE DEF S
  <2> QED BY <1>2, <1>3, SetInduction, RingSize
<1>5. \A lo \in 0 .. N, hi \in Slots : (hi - lo) + 1 <= N
  BY RingSize DEF Slots
<1> QED
  BY <1>4, <1>5 DEF f

\* The entries of a ring lie at the slot of their generation, all within one
\* lap of each other.
Lapped(ring) ==
    /\ \A s \in Slots : ring[s] >= 0 => ring[s] % N = s
    /\ \A s, t \in Slots : ring[s] >= 0 /\ ring[t] >= 0 => ring[s] - ring[t] < N

\* So along the slots they rise, but for one place at most: behind it, nothing
\* is as new as anything before it.
LEMMA LappedRises ==
    ASSUME NEW ring, IsRing(ring), Lapped(ring),
           NEW s \in Slots, NEW t \in Slots, s < t, ring[s] >= 0, ring[t] >= 0
    PROVE  /\ ring[s] < ring[t] => \A u \in s .. t : ring[u] <= ring[t]
           /\ ring[s] >= ring[t] => \A u \in Slots : t <= u => ring[u] <= ring[s]
<1> DEFINE q(x) == ring[x] \div N
<1>1. /\ N \in Nat \ {0} /\ s \in Int /\ t \in Int /\ 0 <= s /\ t < N
      /\ \A u \in s .. t : u \in Slots
  BY RingSize DEF Slots
<1>2. \A x \in Slots : /\ ring[x] \in Int /\ q(x) \in Int /\ x \in Int
                       /\ 0 <= x /\ x < N
                       /\ ring[x] >= 0 => ring[x] = N * q(x) + x
  <2> TAKE x \in Slots
  <2>1. ring[x] \in Int /\ x \in Int /\ 0 <= x /\ x < N
    BY RingSize DEF IsRing, Slots
  <2>2. ring[x] = N * q(x) + (ring[x] % N) /\ q(x) \in Int
    BY <1>1, <2>1, ModFacts
  <2> QED
    BY <2>1, <2>2 DEF Lapped
<1> HIDE DEF q
<1>3. ASSUME NEW a \in Int, NEW b \in Int, a < b PROVE N * a + N <= N * b
  <2>1. b - a \in Int /\ b - a >= 1 /\ N * (b - a) = N * b - N * a
    BY <1>1, <1>3
  <2>2. \A x \in Int : x >= 1 => N * x >= N
    BY <1>1
  <2>3. N * a \in Int /\ N * b \in Int
    BY <1>1
  <2> QED
    BY <1>1, <2>1, <2>2, <2>3
<1>4. ASSUME NEW a \in Slots, NEW b \in Slots, a < b, ring[a] >= 0, ring[b] >= 0
      PROVE  q(b) <= q(a) /\ q(a) <= q(b) + 1
  <2>1. /\ ring[b] - ring[a] < N /\ ring[a] - ring[b] < N
        /\ ring[a] = N * q(a) + a /\ ring[b] = N * q(b) + b
        /\ a \in Int /\ b \in Int /\ 0 <= a /\ b < N
        /\ q(a) \in Int /\ q(b) \in Int
        /\ N * q(a) \in Int /\ N * q(b) \in Int
    <3>1. ring[b] - ring[a] < N /\ ring[a] - ring[b] < N
      BY <1>4 DEF Lapped
    <3>2. /\ ring[a] = N * q(a) + a /\ ring[b] = N * q(b) + b
          /\ a \in Int /\ b \in Int /\ 0 <= a /\ b < N
          /\ q(a) \in Int /\ q(b) \in Int
      BY <1>2, <1>4
    <3>3. N * q(a) \in Int /\ N * q(b) \in Int
      BY <1>1, <3>2
    <3> QED
      BY <3>1, <3>2, <3>3
  <2>2. q(a) < q(b) => N * q(a) + N <= N * q(b)
    BY <1>3, <2>1
  <2>3. q(b) + 1 < q(a) => N * q(b) + N + N <= N * q(a)
    <3>1. q(b) + 1 \in Int /\ N * (q(b) + 1) = N * q(b) + N
      BY <1>1, <2>1
    <3> QED
      BY <1>3, <2>1, <3>1
  <2> QED
    BY <1>1, <1>4, <2>1, <2>2, <2>3
<1>5. /\ ring[s] = N * q(s) + s /\ ring[t] = N * q(t) + t
      /\ q(s) \in Int /\ q(t) \in Int /\ N * q(s) \in Int /\ N * q(t) \in Int
      /\ ring[s] \in Int /\ ring[t] \in Int
  BY <1>1, <1>2
<1>6. ASSUME ring[s] < ring[t], NEW u \in s .. t
      PROVE  ring[u] <= ring[t]
  <2>1. u \in Slots /\ u \in Int /\ ring[u] \in Int
    BY <1>1, <1>2
  <2>2. CASE ring[u] < 0
    BY <1>5, <2>1, <2>2
  <2>3. CASE u = t \/ u = s
    BY <1>5, <1>6, <2>3
  <2>4. CASE ring[u] >= 0 /\ u # t /\ u # s
    <3>1. s < u /\ u < t
      BY <1>1, <2>1, <2>4
    <3>2. q(t) <= q(u) /\ q(u) <= q(s) /\ q(s) <= q(t) + 1
      BY <1>4, <2>1, <2>4, <3>1
    <3>3. q(t) < q(s) => N * q(t) + N <= N * q(s)
      BY <1>3, <1>5
    <3>4. q(s) = q(t)
      <4>1. q(u) \in Int /\ q(t) <= q(s)
        BY <1>2, <1>5, <2>1, <3>2
      <4>2. ~(q(t) < q(s))
        BY <1>1, <1>5, <1>6, <3>3
      <4> QED
        BY <1>5, <4>1, <4>2
    <3>5. q(u) = q(t) /\ ring[u] = N * q(u) + u
      BY <1>2, <1>5, <2>1, <2>4, <3>2, <3>4
    <3> QED
      BY <1>1, <1>5, <2>1, <3>1, <3>5
  <2> QED
    BY <2>1, <2>2, <2>3, <2>4
<1>7. ASSUME ring[s] >= ring[t], NEW u \in Slots, t <= u
      PROVE  ring[u] <= ring[s]
  <2>1. u \in Int /\ ring[u] \in Int /\ u < N /\ q(u) \in Int /\ N * q(u) \in Int
    BY <1>1, <1>2
  <2>2. CASE ring[u] < 0
    BY <1>5, <2>1, <2>2
  <2>3. CASE ring[u] >= 0
    <3>1. q(t) <= q(s) /\ (q(s) = q(t) \/ q(t) < q(s))
      BY <1>4, <1>5
    <3>2. q(t) < q(s)
      BY <1>1, <1>5, <1>7, <3>1
    <3>3. N * q(t) + N <= N * q(s)
      BY <1>3, <1>5, <3>2
    <3>4. u = t \/ q(u) <= q(t)
      BY <1>1, <1>4, <1>7, <2>1, <2>3
    <3>5. q(u) <= q(t)
      BY <1>5, <3>4
    <3>6. N * q(u) <= N * q(t)
      <4>1. q(u) < q(t) => N * q(u) + N <= N * q(t)
        BY <1>3, <1>5, <2>1
      <4> QED
        BY <1>1, <1>5, <2>1, <3>5, <4>1
    <3>7. ring[u] = N * q(u) + u
      BY <1>2, <2>3
    <3> QED
      BY <1>1, <1>5, <2>1, <3>3, <3>6, <3>7
  <2> QED
    BY <2>1, <2>2, <2>3
<1> QED
  BY <1>6, <1>7

\* On a ring filled from slot 0, the bisection answers an upper bound of every
\* span (Ring::search).
LEMMA SearchBounds ==
    ASSUME NEW ring, IsRing(ring), Lapped(ring), FilledFromZero(ring)
    PROVE  \A lo \in 0 .. N, hi \in Slots :
               \A s \in lo .. hi : ring[s] <= SearchFcn(ring)[<<lo, hi>>]
<1> DEFINE f == SearchFcn(ring)
           S == {k \in Nat : \A lo \in 0 .. N, hi \in Slots :
                    (hi - lo) + 1 <= k => \A s \in lo .. hi : ring[s] <= f[<<lo, hi>>]}
<1>1. /\ \A lo \in 0 .. N, hi \in Slots : f[<<lo, hi>>] = SearchStep(ring, f, lo, hi)
      /\ \A lo \in 0 .. N, hi \in Slots : f[<<lo, hi>>] \in Int /\ f[<<lo, hi>>] >= Empty
  BY SearchUnfolds, SearchInSpan DEF InSpan
<1> HIDE DEF f
<1>2. ASSUME NEW k \in Nat, \A m \in Nat : m < k => m \in S
      PROVE  k \in S
  <2> SUFFICES ASSUME NEW lo \in 0 .. N, NEW hi \in Slots, (hi - lo) + 1 <= k,
                      NEW s \in lo .. hi
               PROVE  ring[s] <= f[<<lo, hi>>]
    OBVIOUS
  <2> DEFINE mid == (lo + hi + 1) \div 2
             v == f[<<lo, hi>>]
  <2>1. /\ lo \in Int /\ hi \in Int /\ mid \in Int /\ s \in Int /\ s \in Slots
        /\ lo <= s /\ s <= hi /\ lo <= hi
    BY RingSize DEF Slots
  <2>2. ASSUME NEW a \in 0 .. N, NEW b \in Slots, b - a < hi - lo
        PROVE  \A u \in a .. b : ring[u] <= f[<<a, b>>]
    <3>1. a \in Int /\ b \in Int
      BY RingSize DEF Slots
    <3>2. k - 1 \in Nat /\ k - 1 < k /\ (b - a) + 1 <= k - 1
      BY <2>1, <2>2, <3>1
    <3>3. k - 1 \in S
      BY <1>2, <3>2
    <3> QED
      BY <3>2, <3>3
  <2>3. /\ lo \in Slots /\ lo + 1 \in 0 .. N
        /\ lo < hi => /\ mid \in Slots /\ mid \in 0 .. N /\ lo < mid
                      /\ mid <= hi /\ mid - 1 \in Slots
    <3>1. mid = (lo + hi + 1) \div 2
      OBVIOUS
    <3> HIDE DEF mid
    <3> QED
      BY <2>1, <3>1, Middle, SMTT(30)
  <2>4. \A t \in Slots : ring[t] \in Int /\ t \in Int
    BY RingSize DEF IsRing, Slots
  <2>5. \/ ring[lo] = Corrupt /\ v = f[<<lo + 1, hi>>]
        \/ lo = hi /\ v = ring[lo]
        \/ lo < hi /\ v = Max({f[<<lo, mid - 1>>], f[<<mid, hi>>]})
        \/ /\ lo < hi /\ ring[lo] >= Empty /\ ring[mid] > ring[lo]
           /\ v = f[<<mid, hi>>]
        \/ /\ lo < hi /\ ring[lo] >= Empty /\ ring[mid] >= Empty
           /\ ring[mid] <= ring[lo] /\ v = f[<<lo, mid - 1>>]
    BY <1>1, <2>1, StepCases, SMTT(30)
  <2>6. v \in Int /\ v >= Empty
    BY <1>1
  <2> HIDE DEF mid, v, S
  <2>7. ASSUME lo < hi
        PROVE  /\ \A u \in mid .. hi : ring[u] <= f[<<mid, hi>>]
               /\ \A u \in lo .. (mid - 1) : ring[u] <= f[<<lo, mid - 1>>]
               /\ f[<<mid, hi>>] \in Int /\ f[<<lo, mid - 1>>] \in Int
               /\ s \in mid .. hi \/ s \in lo .. (mid - 1)
               /\ mid \in mid .. hi /\ lo \in lo .. (mid - 1)
    <3>1. hi - mid < hi - lo /\ (mid - 1) - lo < hi - lo
      BY <2>1, <2>3, <2>7
    <3>2. /\ \A u \in mid .. hi : ring[u] <= f[<<mid, hi>>]
          /\ \A u \in lo .. (mid - 1) : ring[u] <= f[<<lo, mid - 1>>]
      BY <2>2, <2>3, <2>7, <3>1
    <3>3. f[<<mid, hi>>] \in Int /\ f[<<lo, mid - 1>>] \in Int
      BY <1>1, <2>3, <2>7
    <3> QED
      BY <2>1, <2>3, <2>7, <3>2, <3>3
  <2>8. CASE ring[lo] = Corrupt /\ v = f[<<lo + 1, hi>>]
    <3>1. \A u \in (lo + 1) .. hi : ring[u] <= v
      BY <2>1, <2>2, <2>3, <2>8
    <3>2. CASE s = lo
      BY <2>6, <2>8, <3>2 DEF v, Empty, Corrupt
    <3>3. CASE s # lo
      <4>1. s \in (lo + 1) .. hi
        BY <2>1, <3>3
      <4> QED
        BY <3>1, <4>1 DEF v
    <3> QED
      BY <3>2, <3>3
  <2>9. CASE lo = hi /\ v = ring[lo]
    <3>1. s = lo
      BY <2>1, <2>9
    <3> QED
      BY <2>4, <2>3, <2>9, <3>1 DEF v
  <2>10. CASE lo < hi /\ v = Max({f[<<lo, mid - 1>>], f[<<mid, hi>>]})
    <3>1. f[<<lo, mid - 1>>] <= v /\ f[<<mid, hi>>] <= v
      BY <2>7, <2>10, MaxOfTwo
    <3> QED
      BY <2>1, <2>4, <2>6, <2>7, <2>10, <3>1 DEF v
  <2>11. CASE /\ lo < hi /\ ring[lo] >= Empty /\ ring[mid] > ring[lo]
              /\ v = f[<<mid, hi>>]
    <3>1. ring[mid] >= 0 /\ mid \in Slots /\ lo < mid /\ ring[mid] \in Int
          /\ ring[lo] \in Int
      BY <2>3, <2>4, <2>11 DEF Empty
    <3>2. ring[lo] # Empty
      BY <2>3, <3>1 DEF FilledFromZero
    <3>3. ring[lo] >= 0
      BY <2>11, <3>1, <3>2 DEF Empty
    <3>4. \A u \in lo .. mid : ring[u] <= ring[mid]
      BY <2>3, <2>11, <3>1, <3>3, LappedRises
    <3>5. ring[mid] <= v
      BY <2>7, <2>11
    <3>6. CASE s \in lo .. (mid - 1)
      <4>1. s \in lo .. mid
        BY <2>1, <3>6
      <4>2. ring[s] <= ring[mid]
        BY <3>4, <4>1
      <4> QED
        BY <2>1, <2>4, <2>6, <3>1, <3>5, <4>2 DEF v
    <3>7. CASE s \in mid .. hi
      BY <2>7, <2>11, <3>7 DEF v
    <3> QED
      BY <2>7, <2>11, <3>6, <3>7
  <2>12. CASE /\ lo < hi /\ ring[lo] >= Empty /\ ring[mid] >= Empty
              /\ ring[mid] <= ring[lo] /\ v = f[<<lo, mid - 1>>]
    <3>1. /\ mid \in Slots /\ lo < mid /\ ring[mid] \in Int /\ ring[lo] \in Int
          /\ ring[lo] <= v
      BY <2>3, <2>4, <2>7, <2>12
    <3>2. CASE s \in lo .. (mid - 1)
      BY <2>7, <2>12, <3>2 DEF v
    <3>3. CASE s \in mid .. hi /\ ring[mid] = Empty
      <4>1. s = mid \/ mid < s
        BY <2>1, <3>3
      <4>2. s = mid \/ ring[s] < 0
        BY <2>1, <3>1, <3>3, <4>1 DEF FilledFromZero
      <4>3. ring[s] <= Empty
        BY <2>1, <2>4, <3>3, <4>2 DEF Empty
      <4> QED
        BY <2>1, <2>4, <2>6, <4>3 DEF v, Empty
    <3>4. CASE s \in mid .. hi /\ ring[mid] # Empty
      <4>1. ring[mid] >= 0 /\ ring[lo] >= 0
        BY <2>12, <3>1, <3>4 DEF Empty
      <4>2. \A u \in Slots : mid <= u => ring[u] <= ring[lo]
        BY <2>3, <2>12, <3>1, <4>1, LappedRises
      <4>3. ring[s] <= ring[lo]
        BY <2>1, <3>4, <4>2
      <4> QED
        BY <2>1, <2>4, <2>6, <3>1, <4>3 DEF v
    <3> QED
      BY <2>7, <2>12, <3>2, <3>3, <3>4
  <2> QED
    BY <2>5, <2>8, <2>9, <2>10, <2>11, <2>12
<1>3. S \in SUBSET Nat
  OBVIOUS
<1>4. N \in S
  <2> HIDE DEF S
  <2> QED BY <1>2, <1>3, SetInduction, RingSize
<1>5. \A lo \in 0 .. N, hi \in Slots : (hi - lo) + 1 <= N
  BY RingSize DEF Slots
<1> QED
  BY <1>4, <1>5 DEF f

\* Whatever the ring, what the open takes for the head is nothing or an entry of
\* the ring (Ring::search).
LEMMA SearchIsEntry ==
    ASSUME NEW ring, IsRing(ring)
    PROVE  /\ Search(ring) \in Int /\ Search(ring) >= Empty
           /\ Search(ring) = Empty \/ \E s \in Slots : Search(ring) = ring[s]
<1>1. 0 \in 0 .. N /\ N - 1 \in Slots /\ 0 .. (N - 1) = Slots
  BY RingSize DEF Slots
<1>2. Search(ring) = SearchFcn(ring)[<<0, N - 1>>]
  BY SearchUnfolds
<1>3. InSpan(SearchFcn(ring)[<<0, N - 1>>], ring, 0, N - 1)
  BY <1>1, SearchInSpan, Zenon
<1> QED
  BY <1>1, <1>2, <1>3 DEF InSpan

\* The bisection is right for a ring of any size: on one filled from slot 0,
\* wherever it wrapped and whichever of its slots are corrupt, it finds the
\* newest entry (Ring::search).
THEOREM SearchIsRight ==
    ASSUME NEW ring, IsRing(ring), Lapped(ring), FilledFromZero(ring)
    PROVE  Search(ring) = Newest(ring)
<1> DEFINE S == {Empty} \cup {ring[s] : s \in Slots}
<1>1. 0 \in 0 .. N /\ N - 1 \in Slots /\ 0 .. (N - 1) = Slots
  BY RingSize DEF Slots
<1>2. Search(ring) \in S /\ Search(ring) \in Int /\ Search(ring) >= Empty
  BY SearchIsEntry
<1>3. \A s \in Slots : ring[s] <= Search(ring)
  BY <1>1, SearchUnfolds, SearchBounds
<1>4. S \in SUBSET Int /\ \A y \in S : y <= Search(ring)
  BY <1>2, <1>3 DEF IsRing, Empty
<1> HIDE DEF S
<1>5. Max(S) = Search(ring)
  BY <1>2, <1>4, MaxIs
<1> QED
  BY <1>5 DEF Newest, S

(***************************************************************************)
(* The inductive invariant.                                                *)
(***************************************************************************)
Band == 0 .. (Residences - 1)
Running == pc # "down"

\* Every ring is lapped.
AllLapped == \A r \in Band : Lapped(rings[r])

\* The ring a session appends to lies within a lap of its head: so one more
\* entry, in the slot of the one a lap older, leaves it lapped.
HeadNear ==
    Running => \A s \in Slots : rings[base][s] >= 0 =>
        head - rings[base][s] < N /\ rings[base][s] - head < N

\* A hop finds its next residence cleared.
NextCleared ==
    /\ pc = "zero" => zeroed < N /\ \A s \in Slots : s < zeroed => rings[NextRoot.at][s] = Empty
    /\ pc = "root" => \A s \in Slots : rings[NextRoot.at][s] = Empty

\* A write in flight stays within the bounds.
AppendBounded == pc \in {"append", "beat"} => head <= MaxGen

\* Root entries lie at the slot of their generation and name residences of the
\* band.
RootSlotted ==
    \A s \in 0 .. (RootSlots - 1) :
        /\ roots[s].at \in Band /\ roots[s].was \in Band
        /\ roots[s] # NoRoot => roots[s].gen >= 0 /\ roots[s].gen % RootSlots = s

\* A migrating session's root is on the media; before the first root nothing is.
NothingWritten == \A r \in Band, s \in Slots : rings[r][s] < 0
RootHeld ==
    migrating =>
        /\ Running /\ root # NoRoot =>
              root.gen >= 0 /\ roots[root.gen % RootSlots] = root
        /\ Running /\ root = NoRoot => pc = "root" /\ head = -1 /\ NothingWritten
        /\ NothingWritten \/ \E s \in 0 .. (RootSlots - 1) : roots[s] # NoRoot

\* The fixed profile keeps to one ring and writes no root.
FixedPlace ==
    ~migrating =>
        /\ root = NoRoot /\ base = 0 /\ pc \notin {"zero", "root"}
        /\ \A s \in 0 .. (RootSlots - 1) : roots[s] = NoRoot
        /\ \A r \in Band \ {0}, s \in Slots : rings[r][s] = Empty

SpineInv ==
    /\ TypeOK /\ AllLapped /\ HeadNear /\ NextCleared /\ AppendBounded
    /\ RootSlotted /\ RootHeld /\ FixedPlace

(***************************************************************************)
(* What the invariant's conjuncts say of the operators.                    *)
(***************************************************************************)
\* The profile never changes, so neither does the size of a ring.
LEMMA Sizes ==
    /\ MaxGen \in Nat /\ Band # {} /\ 0 \in Band /\ 0 \in Slots
    /\ Slots = 0 .. (N - 1) /\ Entries = 0 .. (MaxGen + 1)
    /\ migrating' = migrating =>
          /\ N' = N /\ Slots' = Slots /\ MaxGen' = MaxGen /\ Entries' = Entries
          /\ EmptyRing' = EmptyRing
<1>1. MaxGen \in Nat
  <2>1. \A a, b \in Nat : a * b \in Nat
    OBVIOUS
  <2> QED
    BY <2>1, RingSize, RingAssumption DEF MaxGen
<1>2. Band # {} /\ 0 \in Band /\ 0 \in Slots
  BY RingSize, RingAssumption DEF Band, Slots
<1>3. migrating' = migrating => N' = N
  BY DEF N
<1> QED
  BY <1>1, <1>2, <1>3 DEF Slots, MaxGen, Entries, EmptyRing

\* A ring of the media.
IsMedia(ring) == ring \in [Slots -> Entries \cup {Empty, Corrupt}]

\* What the media holds is a ring as the bisection takes it.
LEMMA MediaIsRing ==
    ASSUME NEW ring, IsMedia(ring)
    PROVE  IsRing(ring)
BY Sizes DEF IsMedia, IsRing, Empty, Corrupt

\* The newest entry is one, unless there is none.
LEMMA NewestFacts ==
    ASSUME NEW ring, IsMedia(ring)
    PROVE  /\ Newest(ring) \in Entries \cup {Empty} /\ Newest(ring) \in Int
           /\ \A s \in Slots : ring[s] \in Int /\ ring[s] <= Newest(ring)
           /\ Newest(ring) = Empty \/ \E s \in Slots : ring[s] = Newest(ring)
<1> DEFINE S == {Empty} \cup {ring[s] : s \in Slots}
<1>1. \A s \in Slots : ring[s] \in Int /\ ring[s] <= MaxGen + 1
                       /\ ring[s] \in Entries \cup {Empty, Corrupt}
  BY Sizes DEF IsMedia, Empty, Corrupt
<1>2. S \in SUBSET Int /\ S # {} /\ MaxGen + 1 \in Int /\ \A x \in S : x <= MaxGen + 1
  BY <1>1, Sizes DEF Empty
<1>3. Empty \in S /\ \A s \in Slots : ring[s] \in S
  OBVIOUS
<1>4. \A x \in S : x = Empty \/ \E s \in Slots : ring[s] = x
  OBVIOUS
<1>5. Newest(ring) = Max(S)
  BY DEF Newest
<1> HIDE DEF S
<1>6. Max(S) \in S /\ \A y \in S : y <= Max(S)
  BY <1>2, MaxOfBounded
<1>7. Max(S) # Corrupt
  BY <1>3, <1>6 DEF Empty, Corrupt
<1> QED
  BY <1>1, <1>2, <1>3, <1>4, <1>5, <1>6, <1>7

\* The newest of the root entries rs.
RootsOf == [0 .. (RootSlots - 1) -> RootEntry]
ReadOf(rs) ==
    CHOOSE e \in {rs[s] : s \in DOMAIN rs} : \A s \in DOMAIN rs : rs[s].gen <= e.gen

\* The root entry the open reads is a newest one (ring::read_root).
LEMMA ReadOfFacts ==
    ASSUME NEW rs \in RootsOf
    PROVE  /\ ReadOf(rs) \in RootEntry
           /\ \E s \in 0 .. (RootSlots - 1) : ReadOf(rs) = rs[s]
           /\ \A s \in 0 .. (RootSlots - 1) : rs[s].gen <= ReadOf(rs).gen
<1> DEFINE f == [s \in 0 .. (RootSlots - 1) |-> rs[s].gen]
<1>1. RootSlots - 1 \in Nat /\ DOMAIN rs = 0 .. (RootSlots - 1)
  BY RingAssumption DEF RootsOf
<1>2. \A s \in 0 .. (RootSlots - 1) :
          f[s] \in Int /\ f[s] = rs[s].gen /\ rs[s] \in RootEntry
  BY DEF RootsOf, RootEntry
<1> HIDE DEF f
<1>3. PICK m \in 0 .. (RootSlots - 1) : \A t \in 0 .. (RootSlots - 1) : f[t] <= f[m]
  BY <1>1, <1>2, GreatestOf
<1>4. \E e \in {rs[s] : s \in DOMAIN rs} : \A s \in DOMAIN rs : rs[s].gen <= e.gen
  BY <1>1, <1>2, <1>3
<1>5. /\ ReadOf(rs) \in {rs[s] : s \in DOMAIN rs}
      /\ \A s \in DOMAIN rs : rs[s].gen <= ReadOf(rs).gen
  BY <1>4 DEF ReadOf
<1> QED
  BY <1>1, <1>2, <1>5

\* The same of the root ring as it is.
LEMMA ReadRootFacts ==
    ASSUME roots \in [0 .. (RootSlots - 1) -> RootEntry]
    PROVE  /\ ReadRoot \in RootEntry
           /\ \E s \in 0 .. (RootSlots - 1) : ReadRoot = roots[s]
           /\ \A s \in 0 .. (RootSlots - 1) : roots[s].gen <= ReadRoot.gen
<1>1. ReadRoot = ReadOf(roots)
  BY DEF ReadRoot, ReadOf
<1> QED
  BY <1>1, ReadOfFacts DEF RootsOf

\* The root entry a session writes next (Vault::migrate_ring).
LEMMA NextRootFacts ==
    ASSUME root \in RootEntry, base \in Band, head \in Int, head >= -1
    PROVE  /\ NextRoot \in RootEntry /\ NextRoot # NoRoot
           /\ NextRoot.gen = root.gen + 1 /\ NextRoot.gen >= 0
           /\ NextRoot.was = base /\ NextRoot.at \in Band
           /\ root = NoRoot => NextRoot.at = 0
           /\ root # NoRoot => NextRoot.at # base
           /\ root # NoRoot => NextRoot.since = head + 1
<1>1. /\ NextRoot.gen = root.gen + 1 /\ NextRoot.was = base
      /\ NextRoot.at = IF root = NoRoot THEN 0 ELSE (base + 1) % Residences
      /\ NextRoot.since = IF root = NoRoot THEN 0 ELSE head + 1
  BY DEF NextRoot
<1>2. root.gen \in Nat \cup {-1}
  BY DEF RootEntry
<1>3. base \in Int /\ Residences \in Nat \ {0} /\ base < base + 1
      /\ base + 1 < base + Residences /\ base + 1 \in Int /\ base \in 0 .. (Residences - 1)
  BY RingAssumption DEF Band
<1>4. (base + 1) % Residences \in Band
  BY <1>3, ModFacts DEF Band
<1>5. base % Residences = base
  BY <1>3, ModSmall
<1>6. base % Residences # (base + 1) % Residences
  BY <1>3, ModUnique, Zenon
<1>7. NextRoot.gen \in Nat /\ NextRoot.at \in Nat /\ NextRoot.was \in Nat
      /\ NextRoot.since \in Nat
  BY <1>1, <1>2, <1>3, <1>4, Sizes DEF Band
<1>8. NextRoot \in RootEntry
  <2>1. NextRoot = [gen |-> NextRoot.gen, at |-> NextRoot.at,
                    was |-> NextRoot.was, since |-> NextRoot.since]
    BY DEF NextRoot
  <2> QED
    BY <1>7, <2>1 DEF RootEntry
<1>9. NextRoot # NoRoot
  BY <1>7 DEF NoRoot
<1> QED
  BY <1>1, <1>4, <1>5, <1>6, <1>7, <1>8, <1>9, Sizes

\* A root entry has its slot.
LEMMA RootSlot ==
    ASSUME NEW e \in RootEntry
    PROVE  e.gen \in Int /\ e.gen % RootSlots \in 0 .. (RootSlots - 1)
<1>1. e.gen \in Int /\ RootSlots \in Nat \ {0}
  BY RingAssumption DEF RootEntry
<1> QED
  BY <1>1, ModFacts

\* The entry of the next generation takes the slot of the one a lap older, so
\* the ring stays lapped (Ring::append).
LEMMA AppendLapped ==
    ASSUME NEW ring, IsRing(ring), Lapped(ring), NEW h \in Int, h >= -1,
           \A s \in Slots : ring[s] >= 0 => h - ring[s] < N /\ ring[s] - h < N,
           NEW new, new = [ring EXCEPT ![(h + 1) % N] = h + 1]
    PROVE  /\ Lapped(new) /\ (h + 1) % N \in Slots
           /\ \A s \in Slots : new[s] >= 0 =>
                 (h + 1) - new[s] < N /\ new[s] - (h + 1) < N
<1> DEFINE p == (h + 1) % N
<1>1. h + 1 \in Int /\ N \in Nat \ {0} /\ N \in Int /\ N > 0
  BY RingSize
<1>2. p \in Slots
  BY <1>1, ModFacts, Sizes
<1>3. p = (h + 1) % N
  OBVIOUS
<1> HIDE DEF p
<1>4. new[p] = h + 1 /\ \A s \in Slots : s # p => new[s] = ring[s]
  BY <1>2, <1>3 DEF IsRing
<1>5. \A s \in Slots : ring[s] \in Int /\ s \in Int
  BY RingSize DEF IsRing, Slots
<1>6. ASSUME NEW s \in Slots, s # p, ring[s] >= 0
      PROVE  (h + 1) - ring[s] < N /\ ring[s] - (h + 1) < N
  <2>1. ring[s] \in Int /\ h - ring[s] < N /\ ring[s] - h < N /\ ring[s] % N = s
    BY <1>5, <1>6 DEF Lapped
  <2>2. ring[s] + N = h + 1 => FALSE
    <3>1. (ring[s] + N) % N = ring[s] % N
      BY <1>1, <2>1, ModLap
    <3> QED
      BY <1>3, <1>6, <2>1, <3>1
  <2> QED
    BY <1>1, <2>1, <2>2
<1>7. \A s \in Slots : new[s] >= 0 => (h + 1) - new[s] < N /\ new[s] - (h + 1) < N
  BY <1>1, <1>4, <1>6
<1>8. ASSUME NEW s \in Slots, new[s] >= 0
      PROVE  new[s] % N = s
  BY <1>3, <1>4, <1>8 DEF Lapped
<1>9. ASSUME NEW s \in Slots, NEW t \in Slots, new[s] >= 0, new[t] >= 0
      PROVE  new[s] - new[t] < N
  <2>1. CASE s = p /\ t = p
    BY <1>1, <1>4, <2>1
  <2>2. CASE s = p /\ t # p
    BY <1>4, <1>7, <1>9, <2>2
  <2>3. CASE s # p /\ t = p
    BY <1>4, <1>7, <1>9, <2>3
  <2>4. CASE s # p /\ t # p
    BY <1>4, <1>9, <2>4 DEF Lapped
  <2> QED
    BY <2>1, <2>2, <2>3, <2>4
<1>10. Lapped(new)
  BY <1>8, <1>9 DEF Lapped
<1> QED
  BY <1>2, <1>3, <1>7, <1>10

\* A slot that loses its entry leaves the ring lapped.
LEMMA LossLapped ==
    ASSUME NEW ring, IsRing(ring), Lapped(ring), NEW p \in Slots,
           NEW v \in Int, v < 0, NEW new, new = [ring EXCEPT ![p] = v]
    PROVE  Lapped(new)
<1>1. \A s \in Slots : new[s] >= 0 => new[s] = ring[s]
  BY DEF IsRing
<1> QED
  BY <1>1 DEF Lapped

(***************************************************************************)
(* The invariant is kept by every action.                                  *)
(***************************************************************************)
\* What the invariant says at once.
LEMMA InvFacts ==
    ASSUME SpineInv
    PROVE  /\ \A r \in Band : IsMedia(rings[r]) /\ IsRing(rings[r]) /\ Lapped(rings[r])
           /\ DOMAIN rings = Band /\ rings \in [Band -> [Slots -> Entries \cup {Empty, Corrupt}]]
           /\ base \in Band /\ head \in Int /\ head >= -1 /\ head <= MaxGen + 1
           /\ root \in RootEntry /\ roots \in [0 .. (RootSlots - 1) -> RootEntry]
           /\ pc \in {"zero", "root"} => migrating
           /\ migrating /\ pc \in {"zero", "append", "beat", "idle"} => root # NoRoot
<1>1. /\ rings \in [Band -> [Slots -> Entries \cup {Empty, Corrupt}]]
      /\ base \in Band /\ head \in Entries \cup {-1} /\ root \in RootEntry
      /\ roots \in [0 .. (RootSlots - 1) -> RootEntry]
  BY DEF SpineInv, TypeOK, Band
<1>2. \A r \in Band : IsMedia(rings[r])
  BY <1>1 DEF IsMedia
<1>3. \A r \in Band : IsRing(rings[r]) /\ Lapped(rings[r])
  BY <1>2, MediaIsRing DEF SpineInv, AllLapped
<1>4. head \in Int /\ head >= -1 /\ head <= MaxGen + 1
  BY <1>1, Sizes
<1>5. pc \in {"zero", "root"} => migrating
  BY DEF SpineInv, FixedPlace
<1>6. migrating /\ pc \in {"zero", "append", "beat", "idle"} => root # NoRoot
  BY DEF SpineInv, RootHeld, Running
<1> QED
  BY <1>1, <1>2, <1>3, <1>4, <1>5, <1>6

\* The bound variables of the conjuncts range over the same sets afterwards.
LEMMA LappedNext ==
    ASSUME migrating' = migrating, \A r \in Band : Lapped(rings'[r])
    PROVE  AllLapped'
BY Sizes DEF AllLapped, Lapped, Band

\* A commit's entry, written or torn, leaves every ring lapped, and the one at
\* base near the new head (Ring::append).
LEMMA EntryWrite ==
    ASSUME SpineInv, pc \in {"append", "beat"}, NEW c \in {Corrupt, head + 1},
           rings' = [rings EXCEPT ![base][NextSlot] = c]
    PROVE  /\ rings' \in [Band -> [Slots -> Entries \cup {Empty, Corrupt}]]
           /\ \A r \in Band : Lapped(rings'[r]) /\ (r # base => rings'[r] = rings[r])
           /\ NextSlot \in Slots
           /\ rings'[base] = [rings[base] EXCEPT ![NextSlot] = c]
           /\ c = head + 1 => \A s \in Slots : rings'[base][s] >= 0 =>
                 (head + 1) - rings'[base][s] < N /\ rings'[base][s] - (head + 1) < N
<1>1. /\ head + 1 \in Entries /\ head \in Int /\ head >= -1
      /\ c \in Entries \cup {Empty, Corrupt} /\ Corrupt \in Int /\ Corrupt < 0
  BY InvFacts, Sizes DEF SpineInv, AppendBounded, Corrupt
<1>2. NextSlot \in Slots /\ NextSlot = (head + 1) % N
  BY <1>1, RingSize, ModFacts, Sizes DEF NextSlot
<1>3. /\ rings'[base] = [rings[base] EXCEPT ![NextSlot] = c]
      /\ \A r \in Band : r # base => rings'[r] = rings[r]
  BY InvFacts
<1>4. rings' \in [Band -> [Slots -> Entries \cup {Empty, Corrupt}]]
  BY <1>1, <1>2, InvFacts
<1>5. \A s \in Slots : rings[base][s] >= 0 =>
          head - rings[base][s] < N /\ rings[base][s] - head < N
  BY DEF SpineInv, HeadNear, Running
<1>6. CASE c = head + 1
  <2>1. /\ Lapped(rings'[base])
        /\ \A s \in Slots : rings'[base][s] >= 0 =>
              (head + 1) - rings'[base][s] < N /\ rings'[base][s] - (head + 1) < N
    BY <1>1, <1>2, <1>3, <1>5, <1>6, InvFacts, AppendLapped
  <2> QED
    BY <1>2, <1>3, <1>4, <2>1, InvFacts
<1>7. CASE c = Corrupt
  <2>1. Lapped(rings'[base])
    BY <1>1, <1>2, <1>3, <1>7, InvFacts, LossLapped
  <2>2. c # head + 1
    BY <1>1, <1>7 DEF Corrupt
  <2> QED
    BY <1>2, <1>3, <1>4, <2>1, <2>2, InvFacts
<1> QED
  BY <1>6, <1>7

\* A slot that is zeroed, torn or lost leaves every ring lapped.
LEMMA SlotLoss ==
    ASSUME SpineInv, NEW b \in Band, NEW p \in Slots, NEW c \in {Empty, Corrupt},
           rings' = [rings EXCEPT ![b][p] = c]
    PROVE  /\ rings' \in [Band -> [Slots -> Entries \cup {Empty, Corrupt}]]
           /\ \A r \in Band : Lapped(rings'[r]) /\ (r # b => rings'[r] = rings[r])
           /\ rings'[b] = [rings[b] EXCEPT ![p] = c]
           /\ \A r \in Band, s \in Slots :
                 rings'[r][s] >= 0 => rings'[r][s] = rings[r][s]
<1>1. c \in Int /\ c < 0
  BY DEF Empty, Corrupt
<1>2. /\ rings'[b] = [rings[b] EXCEPT ![p] = c]
      /\ \A r \in Band : r # b => rings'[r] = rings[r]
  BY InvFacts
<1>3. rings' \in [Band -> [Slots -> Entries \cup {Empty, Corrupt}]]
  BY InvFacts
<1>4. Lapped(rings'[b])
  BY <1>1, <1>2, InvFacts, LossLapped
<1>5. \A s \in Slots : rings'[b][s] >= 0 => rings'[b][s] = rings[b][s]
  BY <1>1, <1>2, InvFacts DEF IsRing
<1> QED
  BY <1>2, <1>3, <1>4, <1>5, InvFacts

\* The initial state.
LEMMA InitSpineInv == Init => SpineInv
<1> SUFFICES ASSUME Init PROVE SpineInv
  OBVIOUS
<1>1. \A r \in Band : rings[r] = EmptyRing
  BY DEF Init, Band
<1>2. \A s \in Slots : EmptyRing[s] = Empty
  BY DEF EmptyRing
<1>3. \A r \in Band, s \in Slots : rings[r][s] = Empty /\ ~(rings[r][s] >= 0) /\ rings[r][s] < 0
  BY <1>1, <1>2 DEF Empty
<1>4. NoRoot \in RootEntry /\ NoRoot.at = 0 /\ NoRoot.was = 0
  BY DEF NoRoot, RootEntry
<1>5. TypeOK
  <2>1. EmptyRing \in [Slots -> Entries \cup {Empty, Corrupt}]
    BY DEF EmptyRing
  <2>2. rings \in [0 .. (Residences - 1) -> [Slots -> Entries \cup {Empty, Corrupt}]]
    BY <2>1 DEF Init
  <2>3. 0 \in 0 .. N /\ 0 \in 0 .. (Residences - 1)
    BY RingSize, RingAssumption
  <2> QED
    BY <1>4, <2>2, <2>3, Zenon DEF Init, TypeOK
<1>6. AllLapped
  BY <1>3 DEF AllLapped, Lapped
<1>7. \A s \in 0 .. (RootSlots - 1) : roots[s] = NoRoot
  BY DEF Init
<1>8. RootSlotted
  BY <1>4, <1>7, Sizes DEF RootSlotted
<1>9. RootHeld /\ FixedPlace /\ HeadNear /\ NextCleared /\ AppendBounded
  BY <1>3, <1>7 DEF Init, RootHeld, FixedPlace, HeadNear, NextCleared, AppendBounded,
     Running, NothingWritten
<1> QED
  BY <1>5, <1>6, <1>8, <1>9 DEF SpineInv

\* Genesis keeps the invariant.
LEMMA GenesisKeeps ==
    ASSUME SpineInv, Genesis
    PROVE  SpineInv'
<1> USE DEF Genesis
<1>1. /\ rings' = [rings EXCEPT ![0] = EmptyRing] /\ migrating' = migrating
      /\ \A s \in Slots : EmptyRing[s] = Empty
  BY DEF EmptyRing
<1>2. /\ rings'[0] = EmptyRing
      /\ \A r \in Band : r # 0 => rings'[r] = rings[r]
  BY <1>1, InvFacts, Sizes
<1>3. NothingWritten
  <2>1. \A r \in Band : Newest(rings[r]) = Empty
    BY InvFacts DEF MayFormat, AnySealed
  <2> QED
    BY <2>1, InvFacts, NewestFacts DEF NothingWritten, Empty
<1>4. \A r \in Band, s \in Slots : rings'[r][s] < 0 /\ rings'[r][s] \in Int
  BY <1>1, <1>2, <1>3, InvFacts DEF NothingWritten, Empty, IsRing
<1>5. rings' \in [Band -> [Slots -> Entries \cup {Empty, Corrupt}]]
  <2>1. EmptyRing \in [Slots -> Entries \cup {Empty, Corrupt}]
    BY DEF EmptyRing
  <2> QED
    BY <1>1, <2>1, InvFacts
<1>6. NoRoot \in RootEntry /\ NoRoot.at = 0 /\ NoRoot.was = 0
  BY DEF NoRoot, RootEntry
<1>7. TypeOK'
  <2>1. 0 \in 0 .. N /\ 0 \in 0 .. (Residences - 1) /\ {} \subseteq Entries
    BY RingSize, RingAssumption
  <2>2. pc' \in {"down", "idle", "append", "beat", "zero", "root"}
    OBVIOUS
  <2>3. rings' \in [0 .. (Residences - 1) -> [Slots' -> Entries' \cup {Empty, Corrupt}]]
    BY <1>1, <1>5, Sizes DEF Band
  <2> QED
    BY <1>1, <1>6, <2>1, <2>2, <2>3, Sizes, Zenon DEF SpineInv, TypeOK, history
<1>8. AllLapped'
  <2>1. \A r \in Band : Lapped(rings'[r])
    BY <1>4 DEF Lapped
  <2> QED
    BY <1>1, <2>1, LappedNext
<1>9. HeadNear'
  BY <1>1, <1>4, Sizes DEF HeadNear
<1>10. NextCleared'
  <2>1. NextRoot'.at = 0
    BY DEF NextRoot
  <2> QED
    BY <1>1, <1>2, <2>1, Sizes DEF NextCleared
<1>11. AppendBounded'
  BY <1>1, Sizes DEF AppendBounded
<1>12. RootSlotted'
  BY DEF SpineInv, RootSlotted, Band
<1>13. RootHeld'
  <2>1. NothingWritten'
    BY <1>1, <1>4, Sizes DEF NothingWritten, Band
  <2> QED
    BY <1>1, <2>1 DEF SpineInv, RootHeld, Running
<1>14. FixedPlace'
  BY <1>1, <1>2, Sizes DEF SpineInv, FixedPlace, Band
<1> QED
  BY <1>7, <1>8, <1>9, <1>10, <1>11, <1>12, <1>13, <1>14 DEF SpineInv

\* Beginning a commit or a heartbeat keeps the invariant.
LEMMA BeginKeeps ==
    ASSUME SpineInv, Commit \/ AppendHeartbeat
    PROVE  SpineInv'
<1>1. /\ pc = "idle" /\ head < MaxGen /\ migrating' = migrating /\ rings' = rings
      /\ roots' = roots /\ base' = base /\ head' = head /\ root' = root
      /\ zeroed' = zeroed /\ window' = window /\ durable' = durable /\ rots' = rots
      /\ behind' = behind
      /\ pc' \in {"append", "beat"}
  BY DEF Commit, AppendHeartbeat, memory, media, history
<1>2. sealed' \in BOOLEAN
  <2>1. sealed \in BOOLEAN
    BY DEF SpineInv, TypeOK
  <2>2. sealed' = sealed \/ sealed' = TRUE
    BY DEF Commit, AppendHeartbeat, media
  <2> QED
    BY <2>1, <2>2, Zenon
<1>3. pc' \in {"down", "idle", "append", "beat", "zero", "root"} /\ pc' # "down"
      /\ pc' # "zero" /\ pc' # "root" /\ pc # "down"
  BY <1>1
<1>4. TypeOK'
  BY <1>1, <1>2, <1>3, Sizes DEF SpineInv, TypeOK
<1>5. AllLapped'
  BY <1>1, InvFacts, LappedNext
<1>6. HeadNear' /\ NextCleared' /\ AppendBounded'
  <2>1. HeadNear'
    BY <1>1, <1>3, Sizes DEF SpineInv, HeadNear, Running
  <2>2. AppendBounded'
    BY <1>1, Sizes, InvFacts DEF AppendBounded
  <2> QED
    BY <1>3, <2>1, <2>2 DEF NextCleared
<1>7. RootSlotted'
  BY <1>1 DEF SpineInv, RootSlotted, Band
<1>8. RootHeld'
  BY <1>1, <1>3, Sizes DEF SpineInv, RootHeld, Running, NothingWritten, Band
<1>9. FixedPlace'
  BY <1>1, <1>3, Sizes DEF SpineInv, FixedPlace, Band
<1> QED
  BY <1>4, <1>5, <1>6, <1>7, <1>8, <1>9 DEF SpineInv

\* The end of a commit or a heartbeat keeps the invariant.
LEMMA AppendKeeps ==
    ASSUME SpineInv, Append
    PROVE  SpineInv'
<1> USE DEF Append
<1>1. /\ migrating' = migrating /\ roots' = roots /\ base' = base /\ root' = root
      /\ pc \in {"append", "beat"} /\ pc # "down" /\ head' = head + 1
  OBVIOUS
<1>2. /\ rings' \in [Band -> [Slots -> Entries \cup {Empty, Corrupt}]]
      /\ \A r \in Band : Lapped(rings'[r]) /\ (r # base => rings'[r] = rings[r])
      /\ \A s \in Slots : rings'[base][s] >= 0 =>
            (head + 1) - rings'[base][s] < N /\ rings'[base][s] - (head + 1) < N
  BY EntryWrite
<1>3. head' \in Entries /\ head + 1 \in Int
  BY InvFacts, Sizes DEF SpineInv, AppendBounded
<1>4. /\ pc' \in {"idle", "zero"} /\ pc' # "down" /\ pc' # "root"
      /\ pc' = "zero" => migrating
      /\ pc' \notin {"append", "beat"}
  OBVIOUS
<1>5. TypeOK'
  <2>1. 0 \in 0 .. N
    BY RingSize
  <2>2. window' \subseteq Entries
    <3>1. \A g \in 0 .. (head + 1) : g \in Entries
      BY <1>3, Sizes
    <3> QED
      BY <3>1 DEF RecentEntries
  <2>3. rings' \in [0 .. (Residences - 1) -> [Slots' -> Entries' \cup {Empty, Corrupt}]]
    BY <1>1, <1>2, Sizes DEF Band
  <2>4. pc' \in {"down", "idle", "append", "beat", "zero", "root"}
    BY <1>4
  <2>5. durable' \in Entries \cup {-1} /\ head' \in Entries \cup {-1}
    BY <1>3
  <2> QED
    BY <1>1, <2>1, <2>2, <2>3, <2>4, <2>5, Sizes, Zenon DEF SpineInv, TypeOK
<1>6. AllLapped'
  BY <1>1, <1>2, LappedNext
<1>7. HeadNear'
  BY <1>1, <1>2, Sizes DEF HeadNear
<1>8. NextCleared'
  <2>1. N' > 0 /\ zeroed' = 0 /\ \A s \in Slots' : ~(s < 0)
    BY <1>1, RingSize, Sizes
  <2> QED
    BY <1>4, <2>1 DEF NextCleared
<1>9. AppendBounded'
  BY <1>4 DEF AppendBounded
<1>10. RootSlotted'
  BY <1>1 DEF SpineInv, RootSlotted, Band
<1>11. RootHeld'
  <2>1. migrating => root # NoRoot
    BY <1>1, InvFacts
  <2>2. migrating /\ root # NoRoot =>
            /\ root.gen >= 0 /\ roots[root.gen % RootSlots] = root
            /\ root.gen % RootSlots \in 0 .. (RootSlots - 1)
    <3>1. root.gen % RootSlots \in 0 .. (RootSlots - 1)
      BY InvFacts, RootSlot
    <3> QED
      BY <1>1, <3>1 DEF SpineInv, RootHeld, Running
  <2> QED
    BY <1>1, <2>1, <2>2 DEF RootHeld
<1>12. FixedPlace'
  BY <1>1, <1>2, <1>4, Sizes DEF SpineInv, FixedPlace, Band
<1> QED
  BY <1>5, <1>6, <1>7, <1>8, <1>9, <1>10, <1>11, <1>12 DEF SpineInv

\* Zeroing a slot of the next residence keeps the invariant.
LEMMA ZeroKeeps ==
    ASSUME SpineInv, ZeroRingAt
    PROVE  SpineInv'
<1> USE DEF ZeroRingAt
<1>1. /\ migrating' = migrating /\ roots' = roots /\ base' = base /\ root' = root
      /\ pc = "zero" /\ pc # "down" /\ head' = head /\ migrating /\ root # NoRoot
      /\ NextRoot' = NextRoot
  BY InvFacts DEF NextRoot
<1>2. NextRoot.at \in Band /\ NextRoot.at # base
  BY <1>1, InvFacts, NextRootFacts
<1>3. /\ zeroed \in Slots /\ zeroed \in Int /\ zeroed < N
      /\ \A s \in Slots : s < zeroed => rings[NextRoot.at][s] = Empty
  BY <1>1, Sizes, RingSize DEF SpineInv, NextCleared, TypeOK
<1>4. /\ rings' \in [Band -> [Slots -> Entries \cup {Empty, Corrupt}]]
      /\ \A r \in Band : Lapped(rings'[r]) /\ (r # NextRoot.at => rings'[r] = rings[r])
      /\ rings'[NextRoot.at] = [rings[NextRoot.at] EXCEPT ![zeroed] = Empty]
  BY <1>2, <1>3, SlotLoss
<1>5. zeroed' = zeroed + 1 /\ pc' = IF zeroed' = N THEN "root" ELSE "zero"
  OBVIOUS
<1>6. TypeOK'
  <2>1. zeroed' \in 0 .. N
    BY <1>3, <1>5, RingSize, Sizes
  <2>2. rings' \in [0 .. (Residences - 1) -> [Slots' -> Entries' \cup {Empty, Corrupt}]]
    BY <1>1, <1>4, Sizes DEF Band
  <2>3. pc' \in {"down", "idle", "append", "beat", "zero", "root"}
    BY <1>5
  <2> QED
    BY <1>1, <2>1, <2>2, <2>3, Sizes, Zenon DEF SpineInv, TypeOK, history
<1>7. AllLapped'
  BY <1>1, <1>4, LappedNext
<1>8. HeadNear'
  <2>1. rings'[base] = rings[base]
    BY <1>2, <1>4, InvFacts
  <2> QED
    BY <1>1, <2>1, Sizes DEF SpineInv, HeadNear, Running
<1>9. NextCleared'
  <2>1. \A s \in Slots : s < zeroed + 1 => rings'[NextRoot.at][s] = Empty
    <3>1. \A s \in Slots : s < zeroed + 1 => s = zeroed \/ s < zeroed
      BY <1>3, RingSize DEF Slots
    <3>2. DOMAIN rings[NextRoot.at] = Slots
      BY <1>2, InvFacts DEF IsRing
    <3> QED
      BY <1>3, <1>4, <3>1, <3>2
  <2>2. zeroed' = N => \A s \in Slots : s < zeroed + 1
    BY <1>5, RingSize DEF Slots
  <2>3. zeroed' # N => zeroed' < N
    BY <1>3, <1>5, RingSize
  <2> QED
    BY <1>1, <1>5, <2>1, <2>2, <2>3, Sizes DEF NextCleared
<1>10. AppendBounded'
  BY <1>5 DEF AppendBounded
<1>11. RootSlotted'
  BY <1>1 DEF SpineInv, RootSlotted, Band
<1>12. RootHeld'
  <2>1. /\ root.gen >= 0 /\ roots[root.gen % RootSlots] = root
        /\ root.gen % RootSlots \in 0 .. (RootSlots - 1)
    <3>1. root.gen % RootSlots \in 0 .. (RootSlots - 1)
      BY InvFacts, RootSlot
    <3> QED
      BY <1>1, <3>1 DEF SpineInv, RootHeld, Running
  <2> QED
    BY <1>1, <2>1 DEF RootHeld
<1>13. FixedPlace'
  BY <1>1 DEF FixedPlace
<1> QED
  BY <1>6, <1>7, <1>8, <1>9, <1>10, <1>11, <1>12, <1>13 DEF SpineInv

\* Writing a root entry touches neither the root a session has nor any slot but
\* the new entry's (RootRing::append).
LEMMA RootWrite ==
    ASSUME SpineInv, pc = "root", NEW e \in {NoRoot, NextRoot},
           roots' = [roots EXCEPT ![NextRoot.gen % RootSlots] = e]
    PROVE  /\ roots' \in [0 .. (RootSlots - 1) -> RootEntry]
           /\ NextRoot.gen % RootSlots \in 0 .. (RootSlots - 1)
           /\ roots'[NextRoot.gen % RootSlots] = e
           /\ \A s \in 0 .. (RootSlots - 1) :
                 s # NextRoot.gen % RootSlots => roots'[s] = roots[s]
           /\ root # NoRoot => /\ root.gen % RootSlots \in 0 .. (RootSlots - 1)
                               /\ roots'[root.gen % RootSlots] = root
           /\ RootSlotted'
<1>1. NextRoot \in RootEntry /\ NextRoot.gen = root.gen + 1 /\ NextRoot.gen >= 0
      /\ NextRoot.was = base /\ NextRoot.at \in Band /\ NextRoot # NoRoot
  BY InvFacts, NextRootFacts
<1>2. NoRoot \in RootEntry /\ NoRoot.at = 0 /\ NoRoot.was = 0
  BY DEF NoRoot, RootEntry
<1>3. root.gen \in Int /\ NextRoot.gen \in Int /\ RootSlots \in Nat \ {0}
      /\ root.gen < NextRoot.gen /\ NextRoot.gen < root.gen + RootSlots
  <2>1. root.gen \in Int /\ NextRoot.gen \in Int
    BY <1>1, InvFacts, RootSlot
  <2> QED
    BY <1>1, <2>1, RingAssumption
<1>4. /\ NextRoot.gen % RootSlots \in 0 .. (RootSlots - 1)
      /\ root.gen % RootSlots \in 0 .. (RootSlots - 1)
  BY <1>3, ModFacts
<1>5. root.gen % RootSlots # NextRoot.gen % RootSlots
  BY <1>3, ModUnique, Zenon
<1>6. /\ roots'[NextRoot.gen % RootSlots] = e
      /\ \A s \in 0 .. (RootSlots - 1) :
            s # NextRoot.gen % RootSlots => roots'[s] = roots[s]
  BY <1>4, InvFacts
<1>7. roots' \in [0 .. (RootSlots - 1) -> RootEntry]
  BY <1>1, <1>2, InvFacts
<1>8. migrating
  BY InvFacts
<1>9. root # NoRoot => roots'[root.gen % RootSlots] = root
  BY <1>4, <1>5, <1>6, <1>8 DEF SpineInv, RootHeld, Running
<1>10. RootSlotted'
  <2> SUFFICES ASSUME NEW s \in 0 .. (RootSlots - 1)
               PROVE  /\ roots'[s].at \in Band /\ roots'[s].was \in Band
                      /\ roots'[s] # NoRoot =>
                            roots'[s].gen >= 0 /\ roots'[s].gen % RootSlots = s
    BY DEF RootSlotted, Band
  <2>1. CASE s # NextRoot.gen % RootSlots
    BY <1>6, <2>1 DEF SpineInv, RootSlotted
  <2>2. CASE s = NextRoot.gen % RootSlots /\ e = NextRoot
    <3>1. roots'[s] = NextRoot
      BY <1>6, <2>2
    <3> QED
      BY <1>1, <2>2, <3>1, InvFacts
  <2>3. CASE s = NextRoot.gen % RootSlots /\ e = NoRoot
    BY <1>2, <1>6, <2>3, Sizes
  <2> QED
    BY <2>1, <2>2, <2>3
<1> QED
  BY <1>4, <1>6, <1>7, <1>9, <1>10

\* The end of a root write keeps the invariant: the session is at the next
\* residence, which is clear.
LEMMA AppendRootKeeps ==
    ASSUME SpineInv, AppendRoot
    PROVE  SpineInv'
<1> USE DEF AppendRoot
<1>1. /\ migrating' = migrating /\ base' = NextRoot.at /\ root' = NextRoot
      /\ pc = "root" /\ pc # "down" /\ head' = head /\ migrating /\ rings' = rings
      /\ zeroed' = zeroed
  BY InvFacts
<1>2. NextRoot.at \in Band /\ NextRoot \in RootEntry /\ NextRoot # NoRoot /\ NextRoot.gen >= 0
  BY InvFacts, NextRootFacts
<1>3. /\ roots' \in [0 .. (RootSlots - 1) -> RootEntry] /\ RootSlotted'
      /\ NextRoot.gen % RootSlots \in 0 .. (RootSlots - 1)
      /\ roots'[NextRoot.gen % RootSlots] = NextRoot
  <2>1. roots' = [roots EXCEPT ![NextRoot.gen % RootSlots] = NextRoot]
    OBVIOUS
  <2> QED
    BY <1>1, <2>1, RootWrite
<1>4. \A s \in Slots : rings[NextRoot.at][s] = Empty
  BY <1>1 DEF SpineInv, NextCleared
<1>5. pc' \in {"append", "idle"} /\ (pc' = "append" => root = NoRoot)
  OBVIOUS
<1>6. root = NoRoot => head = -1
  BY <1>1 DEF SpineInv, RootHeld, Running
<1>7. TypeOK'
  <2>1. pc' \in {"down", "idle", "append", "beat", "zero", "root"}
    BY <1>5
  <2>2. base' \in 0 .. (Residences - 1)
    BY <1>1, <1>2 DEF Band
  <2> QED
    BY <1>1, <1>2, <1>3, <2>1, <2>2, Sizes, Zenon DEF SpineInv, TypeOK, history
<1>8. AllLapped'
  BY <1>1, InvFacts, LappedNext
<1>9. HeadNear'
  BY <1>1, <1>4, Sizes DEF HeadNear, Empty
<1>10. NextCleared'
  BY <1>5 DEF NextCleared
<1>11. AppendBounded'
  BY <1>1, <1>5, <1>6, Sizes DEF AppendBounded
<1>12. RootHeld'
  BY <1>1, <1>2, <1>3 DEF RootHeld
<1>13. FixedPlace'
  BY <1>1 DEF FixedPlace
<1> QED
  BY <1>3, <1>7, <1>8, <1>9, <1>10, <1>11, <1>12, <1>13 DEF SpineInv

\* A power cut, whatever it leaves of the block in flight, keeps the invariant.
LEMMA PowerCutKeeps ==
    ASSUME SpineInv, PowerCut
    PROVE  SpineInv'
<1>1. /\ migrating' = migrating /\ base' = base /\ root' = root /\ head' = head
      /\ zeroed' = zeroed /\ window' = window /\ durable' = durable /\ rots' = rots
      /\ behind' = behind
      /\ pc # "down" /\ pc' = "down" /\ sealed' = sealed
  BY DEF PowerCut, memory, media, history, Tear
<1>2. HeadNear' /\ NextCleared' /\ AppendBounded'
  BY <1>1 DEF HeadNear, NextCleared, AppendBounded, Running
<1>3. ASSUME rings' \in [Band -> [Slots -> Entries \cup {Empty, Corrupt}]],
             roots' \in [0 .. (RootSlots - 1) -> RootEntry],
             \A r \in Band : Lapped(rings'[r]), RootSlotted', RootHeld', FixedPlace'
      PROVE  SpineInv'
  <2>1. rings' \in [0 .. (Residences - 1) -> [Slots' -> Entries' \cup {Empty, Corrupt}]]
    BY <1>1, <1>3, Sizes DEF Band
  <2>2. TypeOK'
    BY <1>1, <1>3, <2>1, Sizes, Zenon DEF SpineInv, TypeOK
  <2>3. AllLapped'
    BY <1>1, <1>3, LappedNext
  <2> QED
    BY <1>2, <1>3, <2>2, <2>3 DEF SpineInv
<1>4. ASSUME roots' = roots
      PROVE  RootSlotted'
  BY <1>4 DEF SpineInv, RootSlotted, Band
<1>5. ASSUME root # NoRoot, migrating
      PROVE  /\ root.gen % RootSlots \in 0 .. (RootSlots - 1)
             /\ roots[root.gen % RootSlots] = root
  BY <1>1, <1>5, InvFacts, RootSlot DEF SpineInv, RootHeld, Running
<1>6. CASE UNCHANGED media
  <2>1. rings' = rings /\ roots' = roots
    BY <1>6 DEF media
  <2>2. RootHeld'
    BY <1>1, <2>1, Sizes DEF SpineInv, RootHeld, Running, NothingWritten, Band
  <2>3. FixedPlace'
    BY <1>1, <2>1, Sizes DEF SpineInv, FixedPlace, Band
  <2> QED
    BY <1>3, <1>4, <2>1, <2>2, <2>3, InvFacts
<1>7. CASE /\ pc \in {"append", "beat"} /\ roots' = roots
           /\ \E c \in {Corrupt, head + 1} :
                  rings' = [rings EXCEPT ![base][NextSlot] = c]
  <2>1. PICK c \in {Corrupt, head + 1} : rings' = [rings EXCEPT ![base][NextSlot] = c]
    BY <1>7
  <2>2. /\ rings' \in [Band -> [Slots -> Entries \cup {Empty, Corrupt}]]
        /\ \A r \in Band : Lapped(rings'[r]) /\ (r # base => rings'[r] = rings[r])
    BY <1>7, <2>1, EntryWrite
  <2>3. RootHeld'
    <3>1. migrating => root # NoRoot
      BY <1>7, InvFacts
    <3> QED
      BY <1>1, <1>5, <1>7, <3>1 DEF RootHeld, Running
  <2>4. FixedPlace'
    BY <1>1, <1>7, <2>2, Sizes DEF SpineInv, FixedPlace, Band
  <2> QED
    BY <1>3, <1>4, <1>7, <2>2, <2>3, <2>4, InvFacts
<1>8. CASE /\ pc = "zero" /\ roots' = roots
           /\ \E c \in {Corrupt, Empty} :
                  rings' = [rings EXCEPT ![NextRoot.at][zeroed] = c]
  <2>1. PICK c \in {Empty, Corrupt} :
            rings' = [rings EXCEPT ![NextRoot.at][zeroed] = c]
    BY <1>8
  <2>2. NextRoot.at \in Band /\ migrating /\ root # NoRoot
    BY <1>8, InvFacts, NextRootFacts
  <2>3. zeroed \in Slots
    BY <1>8, Sizes, RingSize DEF SpineInv, NextCleared, TypeOK
  <2>4. /\ rings' \in [Band -> [Slots -> Entries \cup {Empty, Corrupt}]]
        /\ \A r \in Band : Lapped(rings'[r])
    BY <2>1, <2>2, <2>3, SlotLoss
  <2>5. RootHeld'
    BY <1>1, <1>5, <1>8, <2>2 DEF RootHeld, Running
  <2>6. FixedPlace'
    BY <1>1, <2>2 DEF FixedPlace
  <2> QED
    BY <1>3, <1>4, <1>8, <2>4, <2>5, <2>6, InvFacts
<1>9. CASE /\ pc = "root" /\ rings' = rings
           /\ \E e \in {NoRoot, NextRoot} :
                  roots' = [roots EXCEPT ![NextRoot.gen % RootSlots] = e]
  <2>1. PICK e \in {NoRoot, NextRoot} :
            roots' = [roots EXCEPT ![NextRoot.gen % RootSlots] = e]
    BY <1>9
  <2>2. /\ roots' \in [0 .. (RootSlots - 1) -> RootEntry] /\ RootSlotted'
        /\ root # NoRoot => /\ root.gen % RootSlots \in 0 .. (RootSlots - 1)
                            /\ roots'[root.gen % RootSlots] = root
    BY <1>9, <2>1, RootWrite
  <2>3. migrating
    BY <1>9, InvFacts
  <2>4. root = NoRoot => NothingWritten'
    BY <1>1, <1>9, <2>3, Sizes DEF SpineInv, RootHeld, Running, NothingWritten, Band
  <2>5. RootHeld'
    BY <1>1, <2>2, <2>4 DEF RootHeld, Running
  <2>6. FixedPlace'
    BY <1>1, <2>3 DEF FixedPlace
  <2> QED
    BY <1>3, <1>9, <2>2, <2>5, <2>6, InvFacts
<1> QED
  BY <1>6, <1>7, <1>8, <1>9 DEF PowerCut, Tear

\* The residence the open takes the ring from is one of the band.
LEMMA FoundInBand ==
    ASSUME SpineInv
    PROVE  /\ FoundAt \in Band /\ ReadRoot \in RootEntry
           /\ ReadRoot.at \in Band /\ ReadRoot.was \in Band
           /\ ReadRoot # NoRoot => /\ ReadRoot.gen >= 0
                                   /\ roots[ReadRoot.gen % RootSlots] = ReadRoot
           /\ (\E s \in 0 .. (RootSlots - 1) : roots[s] # NoRoot) => ReadRoot # NoRoot
<1>1. /\ ReadRoot \in RootEntry
      /\ \E s \in 0 .. (RootSlots - 1) : ReadRoot = roots[s]
      /\ \A s \in 0 .. (RootSlots - 1) : roots[s].gen <= ReadRoot.gen
  BY InvFacts, ReadRootFacts
<1>2. PICK s \in 0 .. (RootSlots - 1) : ReadRoot = roots[s]
  BY <1>1
<1>3. /\ ReadRoot.at \in Band /\ ReadRoot.was \in Band
      /\ ReadRoot # NoRoot => /\ ReadRoot.gen >= 0
                              /\ roots[ReadRoot.gen % RootSlots] = ReadRoot
  BY <1>2 DEF SpineInv, RootSlotted
<1>4. ASSUME NEW t \in 0 .. (RootSlots - 1), roots[t] # NoRoot
      PROVE  ReadRoot # NoRoot
  <2>1. roots[t].gen >= 0 /\ roots[t].gen <= ReadRoot.gen
    BY <1>1, <1>4 DEF SpineInv, RootSlotted
  <2>2. roots[t].gen \in Int /\ ReadRoot.gen \in Int
    BY <1>1, InvFacts, RootSlot
  <2>3. NoRoot.gen = -1
    BY DEF NoRoot
  <2> QED
    BY <2>1, <2>2, <2>3
<1> QED
  BY <1>1, <1>3, <1>4 DEF FoundAt

\* What is left of the durable generation when a slot is lost.
LEMMA RotDurable ==
    ASSUME SpineInv, NEW s \in Slots, Rot(s)
    PROVE  /\ durable' \in Entries \cup {-1}
           /\ durable' <= durable
           /\ \E r \in Named : r \in Band /\ durable' <= Newest(rings'[r])
           /\ durable' \in Int /\ durable \in Int
<1> DEFINE S == {Newest(rings'[r]) : r \in Named}
           M == Max(S)
<1>1. Named \subseteq Band /\ Named # {}
  BY FoundInBand DEF Named
<1>2. durable \in Entries \cup {-1} /\ durable \in Int
  BY Sizes DEF SpineInv, TypeOK
<1>3. \A r \in Band : IsMedia(rings'[r])
  <2>1. rings' = [rings EXCEPT ![base][s] = Corrupt]
    BY DEF Rot
  <2> QED
    BY <2>1, InvFacts, SlotLoss DEF IsMedia
<1>4. \A r \in Named : r \in Band /\ Newest(rings'[r]) \in Entries \cup {Empty}
  BY <1>1, <1>3, NewestFacts
<1>5. \A x \in S : x \in Int /\ x <= MaxGen + 1
  BY <1>4, Sizes DEF Empty
<1>6. S \in SUBSET Int /\ S # {} /\ MaxGen + 1 \in Int
  BY <1>1, <1>4, <1>5, Sizes
<1>7. \A x \in S : /\ x \in Entries \cup {Empty}
                   /\ \E r \in Named : r \in Band /\ x = Newest(rings'[r])
  BY <1>4
<1>8. durable' = Min({durable, M})
  BY <1>1 DEF Rot
<1>9. M \in S
  <2> HIDE DEF S
  <2> QED BY <1>5, <1>6, MaxOfBounded
<1>10. M \in Entries \cup {Empty} /\ M \in Int
       /\ \E r \in Named : r \in Band /\ M = Newest(rings'[r])
  BY <1>5, <1>7, <1>9
<1> HIDE DEF S, M
<1>11. Min({durable, M}) \in {durable, M} /\ Min({durable, M}) <= durable
       /\ Min({durable, M}) <= M
  <2>1. \E x \in {durable, M} : \A y \in {durable, M} : x <= y
    BY <1>2, <1>10
  <2>2. Min({durable, M}) \in {durable, M} /\ \A y \in {durable, M} : Min({durable, M}) <= y
    BY <2>1 DEF Min
  <2> QED
    BY <2>2
<1> QED
  BY <1>2, <1>8, <1>10, <1>11 DEF Empty

\* A slot the media loses keeps the invariant.
LEMMA RotKeeps ==
    ASSUME SpineInv, NEW s \in Slots, Rot(s)
    PROVE  SpineInv'
<1> USE DEF Rot
<1>1. /\ migrating' = migrating /\ base' = base /\ root' = root /\ head' = head
      /\ zeroed' = zeroed /\ window' = window /\ rots' = rots + 1 /\ roots' = roots
      /\ pc = "down" /\ pc' = "down" /\ sealed' = sealed
  BY DEF memory
<1>2. HeadNear' /\ NextCleared' /\ AppendBounded'
  BY <1>1 DEF HeadNear, NextCleared, AppendBounded, Running
<1>3. /\ rings' \in [Band -> [Slots -> Entries \cup {Empty, Corrupt}]]
      /\ \A r \in Band : Lapped(rings'[r]) /\ (r # base => rings'[r] = rings[r])
      /\ \A r \in Band, t \in Slots : rings'[r][t] >= 0 => rings'[r][t] = rings[r][t]
  BY InvFacts, SlotLoss
<1>4. \A r \in Band, t \in Slots : rings'[r][t] \in Int
  <2>1. Entries \cup {Empty, Corrupt} \subseteq Int
    BY Sizes DEF Empty, Corrupt
  <2> HIDE DEF Rot
  <2> QED
    BY <1>3, <2>1
<1>5. TypeOK'
  <2>1. rings' \in [0 .. (Residences - 1) -> [Slots' -> Entries' \cup {Empty, Corrupt}]]
    BY <1>1, <1>3, Sizes DEF Band
  <2>2. rots' \in Nat
    BY <1>1 DEF SpineInv, TypeOK
  <2>3. durable' \in Entries \cup {-1}
    BY RotDurable
  <2> QED
    BY <1>1, <2>1, <2>2, <2>3, Sizes, Zenon DEF SpineInv, TypeOK
<1>6. AllLapped'
  BY <1>1, <1>3, LappedNext
<1>7. RootSlotted'
  BY <1>1 DEF SpineInv, RootSlotted, Band
<1>8. RootHeld'
  <2>1. NothingWritten => NothingWritten'
    BY <1>1, <1>3, <1>4, Sizes DEF NothingWritten, Band
  <2> QED
    BY <1>1, <2>1 DEF SpineInv, RootHeld, Running
<1>9. FixedPlace'
  BY <1>1, <1>3, Sizes DEF SpineInv, FixedPlace, Band
<1> QED
  BY <1>2, <1>5, <1>6, <1>7, <1>8, <1>9 DEF SpineInv

\* What an open finds is an entry of the ring it is found in.
LEMMA HeadFound ==
    ASSUME SpineInv, NEW r \in Band, Search(rings[r]) # Empty
    PROVE  /\ Search(rings[r]) \in Entries
           /\ \E s \in Slots : Search(rings[r]) = rings[r][s]
<1>1. /\ Search(rings[r]) \in Int /\ Search(rings[r]) >= Empty
      /\ \E s \in Slots : Search(rings[r]) = rings[r][s]
  BY InvFacts, SearchIsEntry
<1> QED
  BY <1>1, InvFacts DEF IsMedia, Empty, Corrupt

\* An open keeps the invariant.
LEMMA OpenKeeps ==
    ASSUME SpineInv, Open
    PROVE  SpineInv'
<1> USE DEF Open
<1>1. /\ migrating' = migrating /\ base' = FoundAt /\ root' = ReadRoot
      /\ head' = Search(rings[FoundAt]) /\ rings' = rings /\ roots' = roots
      /\ sealed' = sealed /\ durable' = durable /\ rots' = rots
      /\ zeroed' = 0 /\ pc = "down" /\ pc' = "idle"
  BY DEF media
<1>2. FoundAt \in Band /\ ReadRoot \in RootEntry
  BY FoundInBand
<1>3. /\ head' \in Entries
      /\ \E s \in Slots : Search(rings[FoundAt]) = rings[FoundAt][s]
  BY <1>1, <1>2, HeadFound DEF Opens
<1>4. PICK h \in Slots : Search(rings[FoundAt]) = rings[FoundAt][h]
  BY <1>3
<1>5. head' \in Int /\ head' >= 0 /\ head' <= MaxGen + 1
  BY <1>3, Sizes
<1>6. NextCleared' /\ AppendBounded'
  BY <1>1 DEF NextCleared, AppendBounded
<1>7. HeadNear'
  <2>1. \A s \in Slots : rings[FoundAt][s] >= 0 =>
            head' - rings[FoundAt][s] < N /\ rings[FoundAt][s] - head' < N
    BY <1>1, <1>2, <1>4, <1>5, InvFacts DEF Lapped
  <2> QED
    BY <1>1, <2>1, Sizes DEF HeadNear
<1>8. TypeOK'
  <2>1. window' \subseteq Entries
    <3>1. \A g \in 0 .. head' : g \in Entries
      BY <1>5, Sizes
    <3> QED
      BY <3>1 DEF RecentEntries
  <2>2. pc' \in {"down", "idle", "append", "beat", "zero", "root"}
    BY <1>1
  <2>3. 0 \in 0 .. N /\ base' \in 0 .. (Residences - 1)
    BY <1>1, <1>2, RingSize DEF Band
  <2>4. head' \in Entries \cup {-1}
    BY <1>3
  <2>5. root' \in RootEntry
    BY <1>1, <1>2
  <2> QED
    BY <1>1, <2>1, <2>2, <2>3, <2>4, <2>5, Sizes, Zenon DEF SpineInv, TypeOK
<1>9. AllLapped'
  BY <1>1, InvFacts, LappedNext
<1>10. RootSlotted'
  BY <1>1 DEF SpineInv, RootSlotted, Band
<1>11. RootHeld'
  <2>1. SUFFICES ASSUME migrating PROVE RootHeld'
    BY <1>1 DEF RootHeld
  <2>2. ~NothingWritten
    BY <1>1, <1>2, <1>4, <1>5 DEF NothingWritten
  <2>3. ReadRoot # NoRoot
    BY <2>1, <2>2, FoundInBand DEF SpineInv, RootHeld
  <2>4. \E s \in 0 .. (RootSlots - 1) : roots[s] # NoRoot
    BY <2>1, <2>2 DEF SpineInv, RootHeld
  <2> QED
    BY <1>1, <2>3, <2>4, FoundInBand DEF RootHeld, Running
<1>12. FixedPlace'
  <2>1. SUFFICES ASSUME ~migrating PROVE FixedPlace'
    BY <1>1 DEF FixedPlace
  <2>2. ReadRoot = NoRoot
    BY <2>1, InvFacts, ReadRootFacts DEF SpineInv, FixedPlace
  <2>3. FoundAt = 0
    BY <2>2 DEF FoundAt, NoRoot
  <2> QED
    BY <1>1, <2>1, <2>2, <2>3, Sizes DEF SpineInv, FixedPlace, Band
<1> QED
  BY <1>6, <1>7, <1>8, <1>9, <1>10, <1>11, <1>12 DEF SpineInv

\* Every step keeps the invariant.
LEMMA NextSpineInv == SpineInv /\ [Next]_vars => SpineInv'
<1> SUFFICES ASSUME SpineInv, [Next]_vars PROVE SpineInv'
  OBVIOUS
<1>1. CASE UNCHANGED vars
  <2>1. /\ rings' = rings /\ roots' = roots /\ sealed' = sealed /\ migrating' = migrating
        /\ base' = base /\ head' = head /\ root' = root /\ zeroed' = zeroed
        /\ window' = window /\ pc' = pc /\ durable' = durable /\ rots' = rots
        /\ behind' = behind
    BY <1>1 DEF vars, media, memory, history
  <2>2. NextRoot' = NextRoot
    BY <2>1 DEF NextRoot
  <2>3. TypeOK'
    BY <2>1, Sizes DEF SpineInv, TypeOK
  <2>4. AllLapped'
    BY <2>1, InvFacts, LappedNext
  <2>5. HeadNear' /\ NextCleared' /\ AppendBounded'
    BY <2>1, <2>2, Sizes DEF SpineInv, HeadNear, NextCleared, AppendBounded, Running
  <2>6. RootSlotted' /\ RootHeld' /\ FixedPlace'
    BY <2>1, Sizes DEF SpineInv, RootSlotted, RootHeld, FixedPlace, Running,
       NothingWritten, Band
  <2> QED
    BY <2>3, <2>4, <2>5, <2>6 DEF SpineInv
<1>2. CASE Next
  BY <1>2, GenesisKeeps, BeginKeeps, AppendKeeps, ZeroKeeps, AppendRootKeeps,
     PowerCutKeeps, RotKeeps, OpenKeeps DEF Next
<1> QED
  BY <1>1, <1>2

\* Every reachable state satisfies the invariant.
THEOREM SpineInvariance == Spec => []SpineInv
BY InitSpineInv, NextSpineInv, PTL DEF Spec

\* Every state is well typed: the head stays within the bound, the ring within
\* the band, and every root entry names residences of the band.
THEOREM TypeCorrect == Spec => []TypeOK
<1>1. SpineInv => TypeOK
  BY DEF SpineInv
<1> QED
  BY <1>1, SpineInvariance, PTL

\* In every state after any power cuts, hops and losses the bisection finds the
\* newest readable entry of every ring filled from slot 0 (Ring::search).
THEOREM SearchAlwaysFinds == Spec => []SearchFindsNewest
<1>1. SpineInv => SearchFindsNewest
  <2> SUFFICES ASSUME SpineInv, NEW r \in DOMAIN rings, FilledFromZero(rings[r])
               PROVE  Search(rings[r]) = Newest(rings[r])
    BY DEF SearchFindsNewest
  <2>1. IsRing(rings[r]) /\ Lapped(rings[r])
    BY InvFacts
  <2> QED
    BY <2>1, SearchIsRight
<1> QED
  BY <1>1, SpineInvariance, PTL

(***************************************************************************)
(* The fixed profile: one ring, filled from slot 0.                        *)
(***************************************************************************)
\* h is the newest entry of the ring.
IsNewest(ring, h) == h >= 0 /\ ring[h % N] = h /\ \A s \in Slots : ring[s] <= h

\* The ring is filled from slot 0: below a generation no slot is empty.
Filled(ring) ==
    \A s, t \in Slots : ring[t] >= 0 /\ s <= ring[t] => ring[s] # Empty

\* The only hole is the slot after the newest entry.
Whole(ring) ==
    \A h \in Entries : IsNewest(ring, h) =>
        \A s \in Slots : s <= h /\ s # (h + 1) % N => ring[s] >= 0

\* A writer's head is the newest entry, or nothing is written yet.
AtHead(ring, h) ==
    (h = -1 /\ \A s \in Slots : ring[s] = Empty) \/ IsNewest(ring, h)

FixedFilled == ~migrating => Filled(rings[0])
FixedHead ==
    ~migrating /\ Running =>
        durable <= head /\ AtHead(rings[0], head) /\ (head = -1 => pc = "append")

\* What returned is still in the ring.
FixedDurable ==
    ~migrating /\ durable >= 0 => \E s \in Slots : rings[0][s] >= durable

\* With no slot lost, the ring is whole, and a sealed block has its entry.
FixedWhole ==
    ~migrating /\ rots = 0 =>
        Whole(rings[0]) /\ (sealed => \E s \in Slots : rings[0][s] >= 0)

FixedInv == FixedFilled /\ FixedHead /\ FixedDurable /\ FixedWhole

\* A generation is at or beyond its slot.
LEMMA SlotBelow ==
    ASSUME NEW g \in Int, g >= 0
    PROVE  g % N \in Slots /\ g % N \in Int /\ g % N <= g /\ (g < N => g % N = g)
<1>1. N \in Nat \ {0} /\ N \in Int /\ N > 0 /\ Slots = 0 .. (N - 1)
  BY RingSize DEF Slots
<1>2. g % N \in 0 .. (N - 1) /\ g = N * (g \div N) + (g % N) /\ g \div N \in Int
  BY <1>1, ModFacts
<1>3. \A x \in Int : x <= -1 => N * x <= -N
  BY <1>1
<1>4. \A x \in Int : x >= 0 => N * x >= 0
  BY <1>1
<1>5. g \div N >= 0
  BY <1>1, <1>2, <1>3
<1>6. N * (g \div N) >= 0 /\ N * (g \div N) \in Int
  BY <1>1, <1>2, <1>4, <1>5
<1>7. g < N => g % N = g
  <2>1. g < N => g \in 0 .. (N - 1)
    BY <1>1
  <2> QED
    BY <1>1, <2>1, ModSmall
<1> QED
  BY <1>1, <1>2, <1>6, <1>7

\* The newest entry is in a slot.
LEMMA NewestSlot ==
    ASSUME NEW ring, NEW h \in Entries, IsNewest(ring, h)
    PROVE  h \in Int /\ h >= 0 /\ \E t \in Slots : ring[t] = h
<1>1. h \in Int /\ h >= 0
  BY Sizes
<1>2. h % N \in Slots
  BY <1>1, SlotBelow
<1> QED
  BY <1>1, <1>2 DEF IsNewest

\* There is one newest entry.
LEMMA NewestUnique ==
    ASSUME NEW ring, NEW a \in Int, NEW b \in Int, IsNewest(ring, a), IsNewest(ring, b)
    PROVE  a = b
<1>1. a % N \in Slots /\ b % N \in Slots
  BY SlotBelow DEF IsNewest
<1>2. a <= b /\ b <= a
  BY <1>1 DEF IsNewest
<1> QED
  BY <1>2

\* A lapped ring that is filled from slot 0 is so as the bisection needs it.
LEMMA FilledIsFromZero ==
    ASSUME NEW ring, IsRing(ring), Lapped(ring), Filled(ring)
    PROVE  FilledFromZero(ring)
<1> SUFFICES ASSUME NEW s \in Slots, NEW t \in Slots, s < t, ring[s] = Empty, ring[t] >= 0
             PROVE  FALSE
  BY DEF FilledFromZero, IsRing
<1>1. ring[t] \in Int /\ ring[t] % N = t /\ s \in Int /\ t \in Int
  BY RingSize DEF IsRing, Lapped, Slots
<1>2. t <= ring[t]
  BY <1>1, SlotBelow
<1> QED
  BY <1>1, <1>2 DEF Filled

\* The next entry keeps the ring filled and whole, and is its newest.
LEMMA AppendFixed ==
    ASSUME NEW ring, IsRing(ring), Filled(ring), NEW h \in Int, h >= -1,
           AtHead(ring, h), NEW new, new = [ring EXCEPT ![(h + 1) % N] = h + 1]
    PROVE  /\ Filled(new) /\ IsNewest(new, h + 1)
           /\ h + 1 \in Entries /\ (h >= 0 => h \in Entries) /\ Whole(ring) => Whole(new)
<1> DEFINE p == (h + 1) % N
<1>1. /\ h + 1 \in Int /\ h + 1 >= 0 /\ p \in Slots
      /\ h + 1 < N => p = h + 1
  BY SlotBelow
<1>2. p = (h + 1) % N
  OBVIOUS
<1> HIDE DEF p
<1>3. new[p] = h + 1 /\ \A s \in Slots : s # p => new[s] = ring[s]
  BY <1>1, <1>2 DEF IsRing
<1>4. \A s \in Slots : s \in Int /\ 0 <= s /\ s < N /\ ring[s] \in Int /\ ring[s] <= h
  BY RingSize DEF IsRing, AtHead, IsNewest, Slots, Empty
<1>5. N \in Int
  BY RingSize
<1>6. ASSUME NEW s \in Slots, s <= h + 1, s # p PROVE s <= h
  BY <1>1, <1>4, <1>5, <1>6
<1>7. IsNewest(new, h + 1)
  BY <1>1, <1>2, <1>3, <1>4 DEF IsNewest
<1>8. ASSUME NEW s \in Slots, s <= h PROVE ring[s] # Empty
  <2>1. IsNewest(ring, h) /\ h >= 0
    BY <1>4, <1>8 DEF AtHead
  <2>2. h % N \in Slots /\ ring[h % N] = h
    BY <2>1, SlotBelow DEF IsNewest
  <2> QED
    BY <1>8, <2>1, <2>2 DEF Filled
<1>9. Filled(new)
  <2> SUFFICES ASSUME NEW s \in Slots, NEW t \in Slots, new[t] >= 0, s <= new[t]
               PROVE  new[s] # Empty
    BY DEF Filled
  <2>1. CASE s = p
    BY <1>1, <1>3, <2>1 DEF Empty
  <2>2. CASE s # p
    <3>1. s <= h
      BY <1>3, <1>4, <1>6, <2>2
    <3> QED
      BY <1>3, <1>8, <2>2, <3>1
  <2> QED
    BY <2>1, <2>2
<1>10. ASSUME Whole(ring), h + 1 \in Entries, h >= 0 => h \in Entries
       PROVE  Whole(new)
  <2> SUFFICES ASSUME NEW m \in Entries, IsNewest(new, m),
                      NEW s \in Slots, s <= m, s # (m + 1) % N
               PROVE  new[s] >= 0
    BY DEF Whole
  <2>1. m = h + 1
    BY <1>1, <1>7, NewestUnique, Sizes
  <2>2. CASE s = p
    BY <1>1, <1>3, <2>2
  <2>3. CASE s # p
    <3>1. s <= h /\ h >= 0
      BY <1>4, <1>6, <2>1, <2>3
    <3>2. IsNewest(ring, h) /\ h \in Entries
      BY <1>10, <3>1 DEF AtHead
    <3> QED
      BY <1>2, <1>3, <1>10, <2>3, <3>1, <3>2 DEF Whole
  <2> QED
    BY <2>2, <2>3
<1> QED
  BY <1>7, <1>9, <1>10

\* A torn next entry leaves the head the newest one.
LEMMA TearFixed ==
    ASSUME NEW ring, IsRing(ring), Filled(ring), NEW h \in Int, h >= -1,
           AtHead(ring, h), NEW new, new = [ring EXCEPT ![(h + 1) % N] = Corrupt]
    PROVE  /\ Filled(new)
           /\ h >= 0 => h % N \in Slots /\ IsNewest(new, h)
           /\ h = -1 => \A s \in Slots : new[s] < 0
           /\ Whole(ring) => Whole(new)
<1> DEFINE p == (h + 1) % N
<1>1. h + 1 \in Int /\ h + 1 >= 0 /\ p \in Slots
  BY SlotBelow
<1>2. p = (h + 1) % N
  OBVIOUS
<1> HIDE DEF p
<1>3. new[p] = Corrupt /\ \A s \in Slots : s # p => new[s] = ring[s]
  BY <1>1, <1>2 DEF IsRing
<1>4. \A s \in Slots : s \in Int /\ 0 <= s /\ s < N /\ ring[s] \in Int /\ ring[s] <= h
  BY RingSize DEF IsRing, AtHead, IsNewest, Slots, Empty
<1>5. \A s \in Slots : new[s] \in Int /\ new[s] <= h /\ (new[s] >= 0 => new[s] = ring[s])
                       /\ (ring[s] # Empty => new[s] # Empty)
  BY <1>3, <1>4 DEF Corrupt, Empty
<1>6. Filled(new)
  BY <1>5 DEF Filled
<1>7. ASSUME h >= 0
      PROVE  h % N \in Slots /\ IsNewest(new, h) /\ IsNewest(ring, h)
  <2>1. h % N \in Slots /\ IsNewest(ring, h)
    BY <1>7, SlotBelow DEF AtHead
  <2>2. h % N # p
    <3>1. h < h + 1 /\ h + 1 < h + N /\ N \in Nat \ {0}
      BY RingSize
    <3>2. h % N # (h + 1) % N
      BY <1>1, <3>1, ModUnique, Zenon
    <3> QED
      BY <1>2, <3>2
  <2> QED
    BY <1>3, <1>5, <2>1, <2>2 DEF IsNewest
<1>8. h = -1 => \A s \in Slots : new[s] < 0
  BY <1>5
<1>9. ASSUME Whole(ring) PROVE Whole(new)
  <2> SUFFICES ASSUME NEW m \in Entries, IsNewest(new, m),
                      NEW s \in Slots, s <= m, s # (m + 1) % N
               PROVE  new[s] >= 0
    BY DEF Whole
  <2>1. h >= 0
    <3>1. m \in Int /\ m >= 0 /\ \E t \in Slots : new[t] = m
      BY NewestSlot
    <3> QED
      BY <1>5, <3>1
  <2>2. m = h
    BY <1>7, <2>1, NewestUnique, Sizes
  <2> QED
    BY <1>2, <1>3, <1>7, <1>9, <2>1, <2>2 DEF Whole
<1> QED
  BY <1>6, <1>7, <1>8, <1>9

\* The same of the next state, and of the ring there.
LEMMA FixedNext ==
    ASSUME migrating' = migrating
    PROVE  /\ Filled(rings'[0]) => FixedFilled'
           /\ AtHead(rings'[0], head') => AtHead(rings[0], head)'
           /\ Whole(rings'[0]) => Whole(rings[0])'
<1>1. Filled(rings'[0]) => FixedFilled'
  BY Sizes DEF FixedFilled, Filled
<1>2. AtHead(rings'[0], head') => AtHead(rings[0], head)'
  BY Sizes DEF AtHead, IsNewest
<1>3. Whole(rings'[0]) => Whole(rings[0])'
  BY Sizes DEF Whole, IsNewest
<1> QED
  BY <1>1, <1>2, <1>3

\* What the invariants say of the fixed ring.
LEMMA FixedFacts ==
    ASSUME SpineInv, FixedInv, ~migrating
    PROVE  /\ IsMedia(rings[0]) /\ IsRing(rings[0]) /\ Lapped(rings[0])
           /\ Filled(rings[0]) /\ FilledFromZero(rings[0])
           /\ Search(rings[0]) = Newest(rings[0])
           /\ base = 0 /\ pc \notin {"zero", "root"}
           /\ ReadRoot = NoRoot /\ FoundAt = 0
           /\ \A r \in Band : r # 0 => Newest(rings[r]) = Empty
           /\ durable \in Int /\ durable >= -1
<1>1. IsMedia(rings[0]) /\ IsRing(rings[0]) /\ Lapped(rings[0]) /\ Filled(rings[0])
  BY InvFacts, Sizes DEF FixedInv, FixedFilled
<1>2. FilledFromZero(rings[0]) /\ Search(rings[0]) = Newest(rings[0])
  BY <1>1, FilledIsFromZero, SearchIsRight
<1>3. base = 0 /\ pc \notin {"zero", "root"}
  BY DEF SpineInv, FixedPlace
<1>4. ReadRoot = NoRoot
  BY InvFacts, ReadRootFacts DEF SpineInv, FixedPlace
<1>5. FoundAt = 0
  BY <1>4 DEF FoundAt, NoRoot
<1>6. \A r \in Band : r # 0 => Newest(rings[r]) = Empty
  <2> TAKE r \in Band
  <2> HAVE r # 0
  <2>1. \A s \in Slots : rings[r][s] = Empty
    BY DEF SpineInv, FixedPlace
  <2> QED
    BY <2>1, InvFacts, NewestFacts
<1>7. durable \in Int /\ durable >= -1
  BY Sizes DEF SpineInv, TypeOK
<1> QED
  BY <1>1, <1>2, <1>3, <1>4, <1>5, <1>6, <1>7

\* The newest entry found is the newest entry.
LEMMA NewestIsNewest ==
    ASSUME SpineInv, NEW r \in Band, Newest(rings[r]) # Empty
    PROVE  IsNewest(rings[r], Newest(rings[r])) /\ Newest(rings[r]) \in Entries
<1>1. /\ Newest(rings[r]) \in Entries
      /\ \A s \in Slots : rings[r][s] <= Newest(rings[r])
      /\ \E s \in Slots : rings[r][s] = Newest(rings[r])
  BY InvFacts, NewestFacts
<1>2. Newest(rings[r]) >= 0
  BY <1>1, Sizes
<1>3. rings[r][Newest(rings[r]) % N] = Newest(rings[r])
  BY <1>1, <1>2, InvFacts DEF Lapped
<1> QED
  BY <1>1, <1>2, <1>3 DEF IsNewest

\* The initial state.
LEMMA InitFixedInv == Init => FixedInv
<1> SUFFICES ASSUME Init PROVE FixedInv
  OBVIOUS
<1>1. rings[0] = EmptyRing
  BY Sizes DEF Init, Band
<1>2. \A s \in Slots : rings[0][s] = Empty /\ ~(rings[0][s] >= 0)
  BY <1>1 DEF EmptyRing, Empty
<1>3. \A h \in Entries : ~IsNewest(rings[0], h)
  BY <1>2, NewestSlot
<1>4. FixedFilled
  BY <1>2 DEF FixedFilled, Filled
<1>5. FixedHead /\ FixedDurable
  BY DEF Init, FixedHead, Running, FixedDurable
<1>6. FixedWhole
  BY <1>3 DEF Init, FixedWhole, Whole
<1> QED
  BY <1>4, <1>5, <1>6 DEF FixedInv

\* Every step keeps the fixed profile's invariant.
LEMMA NextFixedInv == SpineInv /\ FixedInv /\ [Next]_vars => FixedInv'
<1> SUFFICES ASSUME SpineInv, FixedInv, [Next]_vars PROVE FixedInv'
  OBVIOUS
<1>0. migrating' = migrating
  BY DEF Next, vars, Genesis, Commit, AppendHeartbeat, Append, ZeroRingAt, AppendRoot,
     PowerCut, Rot, Open
<1>1. CASE migrating
  BY <1>0, <1>1 DEF FixedInv, FixedFilled, FixedHead, FixedDurable, FixedWhole
<1>2. SUFFICES ASSUME ~migrating PROVE FixedInv'
  BY <1>1
<1>3. 0 \in Band /\ Slots' = Slots
  BY <1>0, Sizes
<1>4. ASSUME rings'[0] = rings[0], durable' = durable, rots' = rots, sealed' = sealed,
             pc' = "down" \/ (AtHead(rings'[0], head') /\ durable' <= head' /\ head' # -1)
      PROVE  FixedInv'
  <2>1. FixedFilled'
    BY <1>0, <1>2, <1>4, FixedNext DEF FixedInv, FixedFilled
  <2>2. FixedHead'
    BY <1>0, <1>4, FixedNext DEF FixedHead, Running
  <2>3. FixedDurable'
    BY <1>0, <1>3, <1>4 DEF FixedInv, FixedDurable
  <2>4. FixedWhole'
    BY <1>0, <1>3, <1>4, FixedNext DEF FixedInv, FixedWhole
  <2> QED
    BY <2>1, <2>2, <2>3, <2>4 DEF FixedInv
<1>5. CASE UNCHANGED vars
  <2>1. /\ rings' = rings /\ durable' = durable /\ rots' = rots /\ sealed' = sealed
        /\ pc' = pc /\ head' = head
    BY <1>5 DEF vars, media, memory, history
  <2>2. FixedFilled' /\ FixedDurable'
    BY <1>0, <1>2, <1>3, <2>1, FixedNext DEF FixedInv, FixedFilled, FixedDurable
  <2>3. FixedHead'
    BY <1>0, <1>2, <2>1, FixedNext DEF FixedInv, FixedHead, Running
  <2>4. FixedWhole'
    BY <1>0, <1>2, <1>3, <2>1, FixedNext DEF FixedInv, FixedWhole
  <2> QED
    BY <2>2, <2>3, <2>4 DEF FixedInv
<1>6. CASE Genesis
  <2>1. /\ rings'[0] = EmptyRing /\ head' = -1 /\ pc' = "append"
        /\ durable' = durable /\ rots' = rots /\ sealed' = sealed /\ ~sealed
    BY <1>2, <1>3, <1>6, InvFacts DEF Genesis, MayFormat, AnySealed, history
  <2>2. \A s \in Slots : rings'[0][s] = Empty /\ ~(rings'[0][s] >= 0)
    BY <2>1 DEF EmptyRing, Empty
  <2>3. durable = -1
    <3>1. Newest(rings[0]) = Empty
      BY <1>3, <1>6, InvFacts DEF Genesis, MayFormat, AnySealed
    <3>2. \A s \in Slots : rings[0][s] <= Empty /\ rings[0][s] \in Int
      BY <1>2, <3>1, FixedFacts, NewestFacts
    <3>3. ~(durable >= 0)
      BY <1>2, <3>2, FixedFacts DEF FixedInv, FixedDurable, Empty
    <3> QED
      BY <1>2, <3>3, FixedFacts
  <2>4. FixedFilled'
    BY <1>0, <2>2, FixedNext DEF Filled
  <2>5. FixedHead'
    <3>1. AtHead(rings'[0], head')
      BY <2>1, <2>2 DEF AtHead
    <3> QED
      BY <1>0, <2>1, <2>3, <3>1, FixedNext DEF FixedHead
  <2>6. FixedDurable'
    BY <2>1, <2>3 DEF FixedDurable
  <2>7. FixedWhole'
    <3>1. Whole(rings'[0])
      <4> SUFFICES ASSUME NEW h \in Entries, IsNewest(rings'[0], h) PROVE FALSE
        BY DEF Whole
      <4>1. h >= 0 /\ \E s \in Slots : rings'[0][s] = h
        BY NewestSlot
      <4> QED
        BY <2>2, <4>1
    <3> QED
      BY <1>0, <2>1, <3>1, FixedNext DEF FixedWhole
  <2> QED
    BY <2>4, <2>5, <2>6, <2>7 DEF FixedInv
<1>7. CASE Commit \/ AppendHeartbeat
  <2>1. /\ rings' = rings /\ durable' = durable /\ rots' = rots /\ head' = head
        /\ pc = "idle" /\ pc' # "down"
    BY <1>7 DEF Commit, AppendHeartbeat, memory, media, history
  <2>2. AtHead(rings[0], head) /\ head # -1 /\ durable <= head
    BY <1>2, <2>1 DEF FixedInv, FixedHead, Running
  <2>3. \E s \in Slots : rings[0][s] >= 0
    <3>1. IsNewest(rings[0], head) /\ head \in Int
      BY <2>2, InvFacts DEF AtHead
    <3> QED
      BY <3>1, SlotBelow DEF IsNewest
  <2>4. FixedFilled' /\ FixedDurable'
    BY <1>0, <1>2, <1>3, <2>1, FixedNext DEF FixedInv, FixedFilled, FixedDurable
  <2>5. FixedHead'
    BY <1>0, <2>1, <2>2, FixedNext DEF FixedHead
  <2>6. FixedWhole'
    BY <1>0, <1>2, <1>3, <2>1, <2>3, FixedNext DEF FixedInv, FixedWhole
  <2> QED
    BY <2>4, <2>5, <2>6 DEF FixedInv
<1>8. ASSUME pc \in {"append", "beat"}
      PROVE  /\ AtHead(rings[0], head) /\ durable <= head /\ base = 0
             /\ head \in Int /\ head >= -1 /\ head + 1 \in Entries
             /\ head >= 0 => head \in Entries
  BY <1>2, <1>8, InvFacts, Sizes, FixedFacts DEF SpineInv, FixedInv, FixedHead, Running,
     AppendBounded
<1>9. ASSUME pc \in {"append", "beat"},
             rings' = [rings EXCEPT ![base][NextSlot] = head + 1],
             rots' = rots, sealed' = sealed, durable' \in {durable, head + 1},
             pc' = "down" \/ (head' = head + 1 /\ durable' = head + 1)
      PROVE  FixedInv'
  <2>1. rings'[0] = [rings[0] EXCEPT ![(head + 1) % N] = head + 1]
    BY <1>8, <1>9, EntryWrite DEF NextSlot
  <2>2. /\ Filled(rings'[0]) /\ IsNewest(rings'[0], head + 1)
        /\ Whole(rings[0]) => Whole(rings'[0])
    BY <1>2, <1>8, <1>9, <2>1, FixedFacts, AppendFixed
  <2>3. \E s \in Slots : rings'[0][s] = head + 1
    BY <1>8, <1>9, <2>2, SlotBelow DEF IsNewest
  <2>4. head + 1 >= 0 /\ durable' <= head + 1 /\ head + 1 # -1
    BY <1>2, <1>8, <1>9, FixedFacts
  <2>5. FixedFilled'
    BY <1>0, <2>2, FixedNext
  <2>6. FixedHead'
    BY <1>0, <1>9, <2>2, <2>4, FixedNext DEF FixedHead, AtHead, Running
  <2>7. FixedDurable'
    BY <1>3, <2>3, <2>4 DEF FixedDurable
  <2>8. FixedWhole'
    BY <1>0, <1>2, <1>3, <1>9, <2>2, <2>3, <2>4, FixedNext DEF FixedInv, FixedWhole
  <2> QED
    BY <2>5, <2>6, <2>7, <2>8 DEF FixedInv
<1>10. CASE Append
  BY <1>9, <1>10 DEF Append
<1>11. CASE ZeroRingAt \/ AppendRoot
  BY <1>2, <1>11, FixedFacts DEF ZeroRingAt, AppendRoot
<1>12. CASE PowerCut
  <2>1. durable' = durable /\ rots' = rots /\ sealed' = sealed /\ pc' = "down" /\ pc # "down"
    BY <1>12 DEF PowerCut, memory, media, history, Tear
  <2>2. CASE UNCHANGED media
    BY <1>4, <2>1, <2>2 DEF media
  <2>3. CASE Tear
    <3>1. PICK c \in {Corrupt, head + 1} :
              pc \in {"append", "beat"} /\ rings' = [rings EXCEPT ![base][NextSlot] = c]
      BY <1>2, <2>3, FixedFacts DEF Tear
    <3>2. CASE c = head + 1
      BY <1>9, <2>1, <3>1, <3>2
    <3>3. CASE c = Corrupt
      <4>1. rings'[0] = [rings[0] EXCEPT ![(head + 1) % N] = Corrupt]
        BY <1>8, <3>1, <3>3, EntryWrite DEF NextSlot
      <4>2. /\ Filled(rings'[0]) /\ Whole(rings[0]) => Whole(rings'[0])
            /\ head >= 0 => head % N \in Slots /\ IsNewest(rings'[0], head)
        BY <1>2, <1>8, <3>1, <4>1, FixedFacts, TearFixed
      <4>3. Filled(rings'[0])
        BY <1>2, <1>8, <3>1, <4>1, FixedFacts, TearFixed
      <4>4. head >= 0 => \E s \in Slots : rings'[0][s] = head
        BY <4>2 DEF IsNewest
      <4>5. head < 0 => durable < 0 /\ \A s \in Slots : rings[0][s] = Empty
        BY <1>2, <1>8, <3>1, FixedFacts DEF AtHead, IsNewest
      <4>6. FixedFilled'
        BY <1>0, <4>3, FixedNext
      <4>7. FixedHead'
        BY <2>1 DEF FixedHead, Running
      <4>8. FixedDurable'
        BY <1>2, <1>3, <1>8, <2>1, <3>1, <4>4, <4>5, FixedFacts DEF FixedDurable
      <4>9. FixedWhole'
        <5>1. rots = 0 => (sealed => head >= 0)
          BY <1>2, <1>8, <3>1, <4>5 DEF FixedInv, FixedWhole, Empty
        <5>2. rots = 0 => Whole(rings'[0])
          BY <1>2, <4>2, <4>3 DEF FixedInv, FixedWhole
        <5> QED
          BY <1>0, <1>3, <2>1, <4>4, <5>1, <5>2, FixedNext DEF FixedWhole
      <4> QED
        BY <4>6, <4>7, <4>8, <4>9 DEF FixedInv
    <3> QED
      BY <3>2, <3>3
  <2> QED
    BY <1>12, <2>2, <2>3 DEF PowerCut
<1>13. ASSUME NEW s \in Slots, Rot(s) PROVE FixedInv'
  <2>1. /\ pc' = "down" /\ rots' = rots + 1
        /\ rings' = [rings EXCEPT ![0][s] = Corrupt]
    BY <1>2, <1>13, FixedFacts DEF Rot
  <2>2. /\ rings'[0] = [rings[0] EXCEPT ![s] = Corrupt]
        /\ \A r \in Band : r # 0 => rings'[r] = rings[r]
        /\ rings' \in [Band -> [Slots -> Entries \cup {Empty, Corrupt}]]
    BY <1>3, <2>1, SlotLoss
  <2>3. Filled(rings'[0])
    <3>1. \A t \in Slots : /\ rings'[0][t] >= 0 => rings'[0][t] = rings[0][t]
                           /\ rings[0][t] # Empty => rings'[0][t] # Empty
      BY <1>2, <2>2, FixedFacts DEF IsRing, Empty, Corrupt
    <3> QED
      BY <1>2, <3>1, FixedFacts DEF Filled
  <2>4. FixedFilled'
    BY <1>0, <2>3, FixedNext
  <2>5. FixedHead'
    BY <2>1 DEF FixedHead, Running
  <2>6. FixedDurable'
    <3>1. PICK r \in Band : durable' <= Newest(rings'[r]) /\ durable' \in Int
      BY <1>13, RotDurable
    <3>2. CASE r # 0
      <4>1. Newest(rings'[r]) = Empty
        BY <1>2, <2>2, <3>2, FixedFacts
      <4> QED
        BY <3>1, <4>1 DEF FixedDurable, Empty
    <3>3. CASE r = 0
      <4>1. IsMedia(rings'[0])
        BY <1>3, <2>2 DEF IsMedia
      <4>2. Newest(rings'[0]) = Empty \/ \E t \in Slots : rings'[0][t] = Newest(rings'[0])
        BY <4>1, NewestFacts
      <4> QED
        BY <1>3, <3>1, <3>3, <4>2 DEF FixedDurable, Empty
    <3> QED
      BY <3>2, <3>3
  <2>7. FixedWhole'
    BY <2>1 DEF SpineInv, TypeOK, FixedWhole
  <2> QED
    BY <2>4, <2>5, <2>6, <2>7 DEF FixedInv
<1>14. CASE Open
  <2>1. /\ rings' = rings /\ durable' = durable /\ rots' = rots /\ sealed' = sealed
        /\ head' = Newest(rings[0]) /\ Newest(rings[0]) # Empty
    BY <1>2, <1>14, FixedFacts DEF Open, Opens, media
  <2>2. IsNewest(rings[0], head') /\ head' \in Entries
    BY <1>3, <2>1, NewestIsNewest
  <2>3. durable <= head'
    <3>1. head' \in Int /\ head' >= 0 /\ \A s \in Slots : rings[0][s] <= head'
      BY <2>2, Sizes DEF IsNewest
    <3>2. \A s \in Slots : rings[0][s] \in Int
      BY <1>2, FixedFacts DEF IsRing
    <3> QED
      BY <1>2, <3>1, <3>2, FixedFacts DEF FixedInv, FixedDurable
  <2> QED
    BY <1>4, <2>1, <2>2, <2>3, Sizes DEF AtHead
<1> QED
  BY <1>5, <1>6, <1>7, <1>10, <1>11, <1>12, <1>13, <1>14 DEF Next

\* Every reachable state satisfies both invariants.
THEOREM FixedInvariance == Spec => [](SpineInv /\ FixedInv)
<1>1. Init => SpineInv /\ FixedInv
  BY InitSpineInv, InitFixedInv
<1>2. SpineInv /\ FixedInv /\ [Next]_vars => (SpineInv /\ FixedInv)'
  BY NextSpineInv, NextFixedInv
<1> QED
  BY <1>1, <1>2, PTL DEF Spec

\* With a fixed ring no open goes back behind a generation whose append
\* returned, whatever was torn or lost and is still readable (Ring::append,
\* Vault::open).
THEOREM FixedAlwaysKeepsCommits == Spec => []FixedKeepsCommits
<1>1. SpineInv /\ FixedInv => FixedKeepsCommits
  <2> SUFFICES ASSUME SpineInv, FixedInv, ~migrating, pc = "idle" PROVE head >= durable
    BY DEF FixedKeepsCommits, NoCommitLost
  <2>1. durable <= head
    BY DEF FixedInv, FixedHead, Running
  <2> QED
    BY <2>1, FixedFacts, InvFacts
<1> QED
  BY <1>1, FixedInvariance, PTL

\* With a fixed ring a power cut never leaves media that neither opens nor can
\* be formatted: the bootstrap's probe always meets an entry, since the two
\* first slots are never torn at once (Vault::open_with, Vault::genesis).
THEOREM FixedAlwaysOpens == Spec => []FixedOpens
<1>1. SpineInv /\ FixedInv => FixedOpens
  <2> SUFFICES ASSUME SpineInv, FixedInv, ~migrating, rots = 0 PROVE Opens \/ MayFormat
    BY DEF FixedOpens, Openable
  <2> DEFINE h == Newest(rings[0])
  <2>1. 0 \in Band /\ DOMAIN rings = Band
    BY Sizes, InvFacts
  <2>2. CASE h = Empty
    <3>1. \A s \in Slots : rings[0][s] \in Int /\ rings[0][s] <= Empty
      BY <2>2, FixedFacts, NewestFacts
    <3>2. ~sealed
      BY <3>1 DEF FixedInv, FixedWhole, Empty
    <3>3. ~BootstrapN
      BY <3>1 DEF BootstrapN, Empty
    <3>4. \A r \in Band : Newest(rings[r]) = Empty
      BY <2>2, FixedFacts
    <3> QED
      BY <2>1, <3>2, <3>3, <3>4, FixedFacts DEF MayFormat, AnySealed
  <2>3. CASE h # Empty
    <3>1. IsNewest(rings[0], h) /\ h \in Entries
      BY <2>1, <2>3, NewestIsNewest
    <3> HIDE DEF h
    <3>2. h \in Int /\ h >= 0
      BY <3>1, Sizes
    <3>3. \A s \in Slots : s <= h /\ s # (h + 1) % N => rings[0][s] >= 0
      BY <3>1 DEF FixedInv, FixedWhole, Whole
    <3>4. /\ 0 \in Slots /\ 1 \in Slots /\ 1 < N
          /\ 0 \in 0 .. (Probe - 1) /\ 1 \in 0 .. (Probe - 1)
      BY RingSize, RingAssumption DEF Slots
    <3>5. rings[0][0] >= 0 \/ rings[0][1] >= 0
      <4>1. CASE h >= 1
        BY <3>2, <3>3, <3>4, <4>1
      <4>2. CASE h = 0
        <5>1. (h + 1) % N = 1
          BY <3>4, <4>2, SlotBelow
        <5> QED
          BY <3>3, <3>4, <4>2, <5>1
      <4> QED
        BY <3>2, <4>1, <4>2
    <3>6. BootstrapN
      BY <3>4, <3>5 DEF BootstrapN
    <3>7. Search(rings[FoundAt]) # Empty
      BY <2>3, FixedFacts DEF h
    <3> QED
      BY <3>6, <3>7 DEF Opens
  <2> QED
    BY <2>2, <2>3
<1> QED
  BY <1>1, FixedInvariance, PTL

\* In a filled ring without a corrupt slot the last lap has no gap.
LEMMA LastLap ==
    ASSUME NEW ring, IsRing(ring), Lapped(ring), Filled(ring),
           \A s \in Slots : ring[s] # Corrupt, NEW h \in Int, IsNewest(ring, h),
           NEW g \in 0 .. h, h - N < g
    PROVE  ring[g % N] = g
<1> DEFINE s == g % N
<1>1. g \in Int /\ g >= 0 /\ g <= h /\ h >= 0 /\ N \in Nat \ {0} /\ N \in Int
  BY RingSize DEF IsNewest
<1>2. s \in Slots /\ s \in Int /\ s <= g /\ h % N \in Slots /\ ring[h % N] = h
  BY <1>1, SlotBelow DEF IsNewest
<1>3. s = g % N
  OBVIOUS
<1> HIDE DEF s
<1>4. ring[s] \in Int /\ ring[s] >= Corrupt /\ ring[s] # Corrupt
  BY <1>2 DEF IsRing
<1>5. ring[s] # Empty
  <2>1. s <= h
    BY <1>1, <1>2
  <2> QED
    BY <1>1, <1>2, <2>1 DEF Filled
<1>6. ring[s] >= 0
  BY <1>4, <1>5 DEF Empty, Corrupt
<1>7. ring[s] % N = s /\ h - ring[s] < N /\ ring[s] <= h
  BY <1>1, <1>2, <1>6 DEF Lapped, IsNewest
<1>8. ring[s] < g => FALSE
  <2>1. ring[s] < g => g < ring[s] + N
    BY <1>1, <1>4, <1>7
  <2> QED
    BY <1>1, <1>3, <1>4, <1>7, <2>1, ModUnique
<1>9. g < ring[s] => FALSE
  <2>1. g < ring[s] => ring[s] < g + N
    BY <1>1, <1>4, <1>7
  <2> QED
    BY <1>1, <1>3, <1>4, <1>7, <2>1, ModUnique
<1> QED
  BY <1>1, <1>3, <1>4, <1>8, <1>9

\* Where the inspector's walk stops: at no link of the first lap, and behind the
\* last lap later on.
LEMMA ChainStops ==
    ASSUME NEW h \in Int, h >= 0,
           \A g \in 0 .. h : h - N < g => rings[0][g % N] = g
    PROVE  /\ h < N => ChainStop(h) = 0
           /\ h >= N => ChainStop(h) >= h - N + 1 /\ ChainStop(h) \in Int
<1> DEFINE B == {g \in 1 .. h : rings[0][(g - 1) % N] # g - 1}
           S == {0} \cup B
<1>1. ChainStop(h) = Max(S)
  BY DEF ChainStop
<1>2. N \in Nat \ {0} /\ N \in Int /\ N > 0
  BY RingSize
<1>3. S \in SUBSET Int /\ S # {} /\ \A x \in S : x <= h
  OBVIOUS
<1>4. ASSUME h < N PROVE ChainStop(h) = 0
  <2>1. \A g \in 1 .. h : g - 1 \in 0 .. h /\ h - N < g - 1
    BY <1>2, <1>4
  <2>2. B = {}
    BY <2>1
  <2>3. 0 \in S /\ \A x \in S : x <= 0
    <3> HIDE DEF B
    <3> QED BY <2>2
  <2> HIDE DEF S, B
  <2> QED
    BY <1>1, <1>3, <2>3, MaxIs
<1>5. ASSUME h >= N PROVE ChainStop(h) >= h - N + 1 /\ ChainStop(h) \in Int
  <2>1. h - N \in Int /\ (h - N) + N = h /\ h \in 0 .. h /\ h - N < h
    BY <1>2, <1>5
  <2>2. (h - N) % N = h % N
    <3>1. ((h - N) + N) % N = (h - N) % N
      BY <1>2, <2>1, ModLap
    <3> QED
      BY <2>1, <3>1
  <2>3. rings[0][h % N] = h
    BY <2>1
  <2>4. (h - N + 1) - 1 = h - N /\ h - N + 1 \in 1 .. h /\ h - N # h
    BY <1>2, <1>5
  <2>5. h - N + 1 \in B
    BY <2>2, <2>3, <2>4
  <2>6. h - N + 1 \in S
    BY <2>5
  <2> HIDE DEF S, B
  <2>7. Max(S) \in S /\ \A y \in S : y <= Max(S)
    BY <1>3, MaxOfBounded
  <2> QED
    BY <1>1, <1>3, <2>1, <2>6, <2>7
<1> QED
  BY <1>4, <1>5

\* What the inspector passes is the last lap without a gap, and it passes every
\* whole ring in its first lap and from its third on (inspect::walk_chain,
\* build_checks).
THEOREM InspectorAlwaysRight == Spec => []InspectorRight
<1>1. SpineInv /\ FixedInv => InspectorRight
  <2> DEFINE h == Newest(rings[0])
             whole == \A g \in 0 .. h : h - N < g => rings[0][g % N] = g
             sound == \A s \in Slots : rings[0][s] # Corrupt
  <2> SUFFICES ASSUME SpineInv, FixedInv, ~migrating, h # Empty
               PROVE  /\ InspectPasses => whole
                      /\ whole /\ sound /\ (h < N \/ h >= 2 * N - 1) => InspectPasses
    BY DEF InspectorRight
  <2>1. IsNewest(rings[0], h) /\ h \in Int /\ h >= 0
    <3>1. 0 \in Band
      BY Sizes
    <3>2. IsNewest(rings[0], h) /\ h \in Entries
      BY <3>1, NewestIsNewest
    <3> HIDE DEF h
    <3> QED
      BY <3>2, Sizes
  <2>2. InspectPasses <=> sound /\ h # Empty /\ ChainStop(h) \notin 1 .. (N - 1)
    BY DEF InspectPasses
  <2>3. InspectPasses => whole
    <3>1. SUFFICES ASSUME InspectPasses PROVE whole
      OBVIOUS
    <3>2. \A s \in Slots : rings[0][s] # Corrupt
      BY <2>2, <3>1
    <3> HIDE DEF h
    <3> QED
      BY <2>1, <3>2, FixedFacts, LastLap
  <2>4. ASSUME whole, sound, h < N \/ h >= 2 * N - 1
        PROVE  InspectPasses
    <3>1. N \in Int /\ N >= 2
      BY RingSize
    <3>2. \A g \in 0 .. h : h - N < g => rings[0][g % N] = g
      BY <2>4
    <3> HIDE DEF h, whole, sound
    <3>3. /\ h < N => ChainStop(h) = 0
          /\ h >= N => ChainStop(h) >= h - N + 1 /\ ChainStop(h) \in Int
      BY <2>1, <3>2, ChainStops
    <3>4. ChainStop(h) \notin 1 .. (N - 1)
      BY <2>1, <2>4, <3>1, <3>3
    <3> QED
      BY <2>2, <2>4, <3>4
  <2> QED
    BY <2>3, <2>4
<1> QED
  BY <1>1, FixedInvariance, PTL

(***************************************************************************)
(* Both profiles: the newest generation is where the newest root says.     *)
(***************************************************************************)
\* The bisection may miss the newest entry of a ring that was not filled from
\* slot 0, but then it never answers the one before it: the two lie in
\* neighbouring slots, and no step parts them (Ring::search).
LEMMA SearchNotBefore ==
    ASSUME NEW ring, IsRing(ring), Lapped(ring), NEW v \in Int, v >= 1,
           NEW p \in Slots, ring[p] = v, \A s \in Slots : ring[s] <= v
    PROVE  Search(ring) # v - 1
<1> DEFINE f == SearchFcn(ring)
           S == {k \in Nat : \A lo \in 0 .. N, hi \in Slots :
                    (hi - lo) + 1 <= k =>
                       /\ lo = p /\ p <= hi => f[<<lo, hi>>] >= v
                       /\ lo <= p /\ p <= hi => f[<<lo, hi>>] # v - 1}
<1>0. \A lo \in 0 .. N, hi \in Slots : f[<<lo, hi>>] = SearchStep(ring, f, lo, hi)
  BY SearchUnfolds
<1>1. \A lo \in 0 .. N, hi \in Slots :
          /\ f[<<lo, hi>>] \in Int
          /\ f[<<lo, hi>>] = Empty \/ \E s \in lo .. hi : f[<<lo, hi>>] = ring[s]
  BY SearchInSpan DEF InSpan
<1> HIDE DEF f
<1>2. \A s \in Slots : /\ s \in Int /\ 0 <= s /\ s < N /\ ring[s] \in Int
                       /\ ring[s] >= 0 => ring[s] % N = s
  BY RingSize DEF Slots, IsRing, Lapped
<1>3. N \in Nat \ {0} /\ N \in Int /\ N >= 2
  BY RingSize
<1>4. ASSUME NEW s \in Slots, ring[s] = v - 1
      PROVE  s + 1 = p \/ (p = 0 /\ s = N - 1)
  <2>1. ring[s] % N = s /\ v % N = p /\ v - 1 \in Int /\ v \in Int /\ v - 1 >= 0
    BY <1>2, <1>4
  <2>2. CASE s < N - 1
    <3>1. ((v - 1) % N) + 1 \in 0 .. (N - 1)
      BY <1>2, <1>3, <1>4, <2>1, <2>2
    <3>2. ((v - 1) + 1) % N = ((v - 1) % N) + 1
      <4>1. 1 \in Int
        OBVIOUS
      <4> QED
        BY <1>3, <2>1, <3>1, <4>1, ModShift, Zenon
    <3>3. (v - 1) + 1 = v
      BY <2>1
    <3> QED
      BY <1>4, <2>1, <3>2, <3>3
  <2>3. CASE s = N - 1
    <3>1. v - N \in Int /\ ((v - 1) % N) + (1 - N) \in 0 .. (N - 1)
          /\ ((v - 1) % N) + (1 - N) = 0 /\ 1 - N \in Int
      BY <1>3, <1>4, <2>1, <2>3
    <3>2. ((v - 1) + (1 - N)) % N = ((v - 1) % N) + (1 - N)
      BY <1>3, <2>1, <3>1, ModShift
    <3>3. (v - 1) + (1 - N) = v - N /\ (v - N) + N = v
      BY <1>3, <2>1
    <3>4. ((v - N) + N) % N = (v - N) % N
      BY <1>3, <3>1, ModLap
    <3> QED
      BY <2>1, <2>3, <3>1, <3>2, <3>3, <3>4
  <2> QED
    BY <1>2, <1>3, <2>2, <2>3
<1>5. ASSUME NEW k \in Nat, \A m \in Nat : m < k => m \in S
      PROVE  k \in S
  <2> SUFFICES ASSUME NEW lo \in 0 .. N, NEW hi \in Slots, (hi - lo) + 1 <= k,
                      lo <= p, p <= hi
               PROVE  /\ lo = p => f[<<lo, hi>>] >= v
                      /\ f[<<lo, hi>>] # v - 1
    OBVIOUS
  <2> DEFINE mid == (lo + hi + 1) \div 2
             w == f[<<lo, hi>>]
  <2>1. /\ lo \in Int /\ hi \in Int /\ mid \in Int /\ p \in Int /\ lo <= hi
        /\ hi < N /\ 0 <= lo
    BY <1>2, <1>3
  <2>2. ASSUME NEW a \in 0 .. N, NEW b \in Slots, b - a < hi - lo, a <= p, p <= b
        PROVE  /\ a = p => f[<<a, b>>] >= v
               /\ f[<<a, b>>] # v - 1
    <3>1. a \in Int /\ b \in Int
      BY <1>2, <1>3
    <3>2. k - 1 \in Nat /\ k - 1 < k /\ (b - a) + 1 <= k - 1
      BY <2>1, <2>2, <3>1
    <3>3. k - 1 \in S
      BY <1>5, <3>2
    <3> QED
      BY <2>2, <3>2, <3>3
  <2>3. /\ lo \in Slots /\ lo + 1 \in 0 .. N
        /\ lo < hi => /\ mid \in Slots /\ mid \in 0 .. N /\ lo < mid
                      /\ mid <= hi /\ mid - 1 \in Slots
    <3>1. mid = (lo + hi + 1) \div 2
      OBVIOUS
    <3> HIDE DEF mid
    <3> QED
      BY <2>1, <3>1, Middle, SMTT(30)
  <2>4. \/ ring[lo] = Corrupt /\ w = f[<<lo + 1, hi>>]
        \/ lo = hi /\ w = ring[lo]
        \/ /\ lo < hi /\ ring[lo] >= Empty /\ ring[mid] = Corrupt
           /\ w = Max({f[<<lo, mid - 1>>], f[<<mid, hi>>]})
        \/ /\ lo < hi /\ ring[lo] >= Empty /\ ring[mid] > ring[lo]
           /\ w = f[<<mid, hi>>]
        \/ /\ lo < hi /\ ring[lo] >= Empty
           /\ ring[mid] <= ring[lo] /\ w = f[<<lo, mid - 1>>]
    BY <1>0, <2>1, StepCases
  <2> HIDE DEF mid, w, S
  <2>5. ASSUME NEW a \in 0 .. N, NEW b \in Slots, ~(a <= p /\ p <= b),
               \A s \in a .. b : s \in Slots /\ s + 1 # p /\ ~(p = 0 /\ s = N - 1)
        PROVE  f[<<a, b>>] # v - 1
    <3>1. CASE f[<<a, b>>] = Empty
      BY <3>1 DEF Empty
    <3>2. CASE \E s \in a .. b : f[<<a, b>>] = ring[s]
      BY <1>4, <2>5, <3>2
    <3> QED
      BY <1>1, <3>1, <3>2
  <2>6. CASE ring[lo] = Corrupt /\ w = f[<<lo + 1, hi>>]
    <3>1. lo # p
      BY <2>6 DEF Corrupt
    <3>2. lo + 1 <= p /\ hi - (lo + 1) < hi - lo
      BY <2>1, <3>1
    <3> QED
      BY <2>2, <2>3, <2>6, <3>1, <3>2 DEF w
  <2>7. CASE lo = hi /\ w = ring[lo]
    <3>1. lo = p
      BY <2>1, <2>7
    <3> QED
      BY <2>7, <3>1 DEF w
  <2>8. ASSUME lo < hi
        PROVE  /\ hi - mid < hi - lo /\ (mid - 1) - lo < hi - lo
               /\ f[<<mid, hi>>] \in Int /\ f[<<lo, mid - 1>>] \in Int
               /\ mid <= p => /\ f[<<mid, hi>>] # v - 1
                              /\ mid = p => f[<<mid, hi>>] >= v
               /\ p < mid => /\ p <= mid - 1 /\ f[<<lo, mid - 1>>] # v - 1
                             /\ lo = p => f[<<lo, mid - 1>>] >= v
    <3>1. hi - mid < hi - lo /\ (mid - 1) - lo < hi - lo
      BY <2>1, <2>3, <2>8
    <3>2. f[<<mid, hi>>] \in Int /\ f[<<lo, mid - 1>>] \in Int
      BY <1>1, <2>3, <2>8
    <3>3. mid <= p => f[<<mid, hi>>] # v - 1 /\ (mid = p => f[<<mid, hi>>] >= v)
      BY <2>2, <2>3, <2>8, <3>1
    <3>4. p < mid => p <= mid - 1
      BY <2>1
    <3>5. p < mid => f[<<lo, mid - 1>>] # v - 1 /\ (lo = p => f[<<lo, mid - 1>>] >= v)
      BY <2>2, <2>3, <2>8, <3>1, <3>4
    <3> QED
      BY <3>1, <3>2, <3>3, <3>4, <3>5
  <2>9. ASSUME lo < hi, mid # p, p < mid, p # 0
        PROVE  f[<<mid, hi>>] # v - 1
    <3>1. \A s \in mid .. hi : s \in Slots /\ s + 1 # p
      BY <1>2, <1>3, <2>1, <2>3, <2>9 DEF Slots
    <3> QED
      BY <2>1, <2>3, <2>5, <2>9, <3>1
  <2>10. ASSUME lo < hi, mid < p
         PROVE  f[<<lo, mid - 1>>] # v - 1
    <3>1. \A s \in lo .. (mid - 1) : s \in Slots /\ s + 1 # p /\ p # 0
      BY <1>2, <1>3, <2>1, <2>3, <2>10 DEF Slots
    <3> QED
      BY <2>1, <2>3, <2>5, <2>10, <3>1
  <2>11. CASE /\ lo < hi /\ ring[lo] >= Empty /\ ring[mid] = Corrupt
              /\ w = Max({f[<<lo, mid - 1>>], f[<<mid, hi>>]})
    <3>1. mid # p
      BY <2>11 DEF Corrupt
    <3>2. /\ w \in {f[<<lo, mid - 1>>], f[<<mid, hi>>]}
          /\ f[<<lo, mid - 1>>] <= w
      BY <2>8, <2>11, MaxOfTwo
    <3>3. CASE mid < p
      BY <2>1, <2>3, <2>8, <2>10, <2>11, <3>2, <3>3 DEF w
    <3>4. CASE p < mid /\ lo = p
      <4>1. f[<<lo, mid - 1>>] >= v /\ w \in Int /\ f[<<lo, mid - 1>>] \in Int
        BY <2>8, <2>11, <3>2, <3>4
      <4> QED
        BY <3>2, <4>1 DEF w
    <3>5. CASE p < mid /\ lo # p
      <4>1. p # 0
        BY <2>1, <3>5
      <4> QED
        BY <2>8, <2>9, <2>11, <3>1, <3>2, <3>5, <4>1 DEF w
    <3> QED
      BY <2>1, <3>1, <3>3, <3>4, <3>5
  <2>12. CASE /\ lo < hi /\ ring[lo] >= Empty /\ ring[mid] > ring[lo]
              /\ w = f[<<mid, hi>>]
    <3>1. lo # p
      <4>1. ring[mid] <= v /\ ring[mid] \in Int
        BY <1>2, <2>3, <2>12
      <4> QED
        BY <2>12, <4>1
    <3>2. CASE mid <= p
      BY <2>8, <2>12, <3>1, <3>2 DEF w
    <3>3. CASE p < mid
      <4>1. p # 0 /\ mid # p
        BY <2>1, <3>1, <3>3
      <4> QED
        BY <2>9, <2>12, <3>1, <3>3, <4>1 DEF w
    <3> QED
      BY <2>1, <3>2, <3>3
  <2>13. CASE /\ lo < hi /\ ring[lo] >= Empty
              /\ ring[mid] <= ring[lo] /\ w = f[<<lo, mid - 1>>]
    <3>1. mid # p
      <4>1. SUFFICES ASSUME mid = p PROVE FALSE
        OBVIOUS
      <4>2. ring[lo] = v /\ lo # p /\ lo \in Slots
        BY <1>2, <2>1, <2>3, <2>13, <4>1
      <4> QED
        BY <1>2, <4>2
    <3>2. CASE mid < p
      BY <2>1, <2>3, <2>10, <2>13, <3>2 DEF w
    <3>3. CASE p < mid
      BY <2>8, <2>13, <3>3 DEF w
    <3> QED
      BY <2>1, <3>1, <3>2, <3>3
  <2> QED
    BY <2>4, <2>6, <2>7, <2>11, <2>12, <2>13
<1>6. S \in SUBSET Nat
  OBVIOUS
<1>7. N \in S
  <2> HIDE DEF S
  <2> QED BY <1>5, <1>6, SetInduction, RingSize
<1>8. /\ 0 \in 0 .. N /\ N - 1 \in Slots /\ ((N - 1) - 0) + 1 <= N
      /\ 0 <= p /\ p <= N - 1
  BY <1>2, <1>3 DEF Slots
<1>9. f[<<0, N - 1>>] # v - 1
  BY <1>7, <1>8
<1> QED
  BY <1>9, SearchUnfolds DEF f

\* A session's root is the newest on the media.
RootNewest == Running => \A s \in 0 .. (RootSlots - 1) : roots[s].gen <= root.gen

\* A session is at one of the residences its root names.
BaseNamed == Running => base \in {root.at, root.was}

\* What returned is at one of the residences an open looks at; a session does
\* not write over the last copy of it.
Carried ==
    durable >= 0 =>
        /\ Running => \E r \in {root.at, root.was}, s \in Slots :
              ~(r = base /\ s = NextSlot) /\ rings[r][s] >= durable
        /\ ~Running => \E r \in Named, s \in Slots : rings[r][s] >= durable

\* A hop leaves behind what it was taken for.
HopCarries ==
    pc \in {"zero", "root"} /\ root # NoRoot =>
        head >= 0 /\ durable <= head /\ rings[base][head % N] = head

HomeInv == RootNewest /\ BaseNamed /\ Carried /\ HopCarries

\* An entry that no other is newer than is the one the open reads: a generation
\* has one root slot.
LEMMA ReadIs ==
    ASSUME NEW rs \in RootsOf, NEW e \in RootEntry,
           \A s \in 0 .. (RootSlots - 1) :
               rs[s] # NoRoot => rs[s].gen >= 0 /\ rs[s].gen % RootSlots = s,
           e = NoRoot \/ (e.gen >= 0 /\ rs[e.gen % RootSlots] = e),
           \A s \in 0 .. (RootSlots - 1) : rs[s].gen <= e.gen
    PROVE  ReadOf(rs) = e
<1>1. /\ ReadOf(rs) \in RootEntry
      /\ \A s \in 0 .. (RootSlots - 1) : rs[s].gen <= ReadOf(rs).gen
  BY ReadOfFacts
<1>2. PICK m \in 0 .. (RootSlots - 1) : ReadOf(rs) = rs[m]
  BY ReadOfFacts
<1>3. e.gen \in Int /\ ReadOf(rs).gen \in Int /\ e.gen % RootSlots \in 0 .. (RootSlots - 1)
  BY <1>1, RootSlot
<1>4. CASE e = NoRoot
  <2>1. ReadOf(rs).gen <= -1
    BY <1>2, <1>4 DEF NoRoot
  <2>2. ~(ReadOf(rs).gen >= 0)
    BY <1>3, <2>1
  <2> QED
    BY <1>2, <1>4, <2>2
<1>5. CASE e.gen >= 0 /\ rs[e.gen % RootSlots] = e
  <2>1. e.gen <= ReadOf(rs).gen /\ ReadOf(rs).gen <= e.gen
    BY <1>1, <1>2, <1>3, <1>5
  <2>2. ReadOf(rs).gen = e.gen /\ ReadOf(rs) # NoRoot
    BY <1>3, <1>5, <2>1 DEF NoRoot
  <2>3. e.gen % RootSlots = m
    BY <1>2, <2>2
  <2> QED
    BY <1>2, <1>5, <2>3
<1> QED
  BY <1>4, <1>5

\* The initial state.
LEMMA InitHomeInv == Init => HomeInv
BY DEF Init, HomeInv, RootNewest, BaseNamed, Carried, HopCarries, Running

\* After a power cut the open reads the session's root, or the one in flight.
LEMMA CutReads ==
    ASSUME SpineInv, HomeInv, PowerCut
    PROVE  \/ ReadRoot' = root
           \/ pc = "root" /\ rings' = rings /\ ReadRoot' = NextRoot
<1>0. pc # "down" /\ root \in RootEntry /\ roots \in RootsOf
  BY InvFacts DEF PowerCut, RootsOf
<1>1. ReadRoot' = ReadOf(roots')
  BY DEF ReadRoot, ReadOf
<1>2. \A s \in 0 .. (RootSlots - 1) : roots[s].gen <= root.gen
  BY <1>0 DEF HomeInv, RootNewest, Running
<1>3. root = NoRoot \/ (root.gen >= 0 /\ roots[root.gen % RootSlots] = root)
  BY <1>0 DEF SpineInv, RootHeld, FixedPlace, Running
<1>4. CASE roots' = roots
  <2>1. \A s \in 0 .. (RootSlots - 1) :
            roots[s] # NoRoot => roots[s].gen >= 0 /\ roots[s].gen % RootSlots = s
    BY DEF SpineInv, RootSlotted
  <2>2. ReadOf(roots) = root
    BY <1>0, <1>2, <1>3, <2>1, ReadIs
  <2> QED
    BY <1>1, <1>4, <2>2
<1>5. CASE /\ pc = "root" /\ rings' = rings
           /\ \E e \in {NoRoot, NextRoot} :
                  roots' = [roots EXCEPT ![NextRoot.gen % RootSlots] = e]
  <2> DEFINE q == NextRoot.gen % RootSlots
  <2>1. PICK e \in {NoRoot, NextRoot} : roots' = [roots EXCEPT ![q] = e]
    BY <1>5
  <2>2. /\ roots' \in RootsOf /\ roots'[q] = e /\ q \in 0 .. (RootSlots - 1)
        /\ \A s \in 0 .. (RootSlots - 1) : s # q => roots'[s] = roots[s]
        /\ root # NoRoot => roots'[root.gen % RootSlots] = root
    BY <1>5, <2>1, RootWrite DEF RootsOf
  <2>3. \A s \in 0 .. (RootSlots - 1) :
            roots'[s] # NoRoot => roots'[s].gen >= 0 /\ roots'[s].gen % RootSlots = s
    BY <1>5, <2>1, RootWrite DEF RootSlotted
  <2>4. NextRoot \in RootEntry /\ NextRoot.gen = root.gen + 1 /\ NextRoot.gen >= 0
        /\ NextRoot.gen \in Int /\ root.gen \in Int /\ root.gen >= -1
    <3>1. NextRoot \in RootEntry /\ NextRoot.gen = root.gen + 1 /\ NextRoot.gen >= 0
      BY InvFacts, NextRootFacts
    <3> QED
      BY <1>0, <3>1, RootSlot
  <2>5. q = NextRoot.gen % RootSlots
    OBVIOUS
  <2> HIDE DEF q
  <2>6. \A s \in 0 .. (RootSlots - 1) : roots[s].gen \in Int
    BY <1>0, RootSlot DEF RootsOf
  <2>7. CASE e = NextRoot
    <3>1. \A s \in 0 .. (RootSlots - 1) : roots'[s].gen <= NextRoot.gen
      BY <1>2, <2>2, <2>4, <2>6, <2>7
    <3>2. ReadOf(roots') = NextRoot
      BY <2>2, <2>3, <2>4, <2>5, <2>7, <3>1, ReadIs
    <3> QED
      BY <1>1, <1>5, <3>2
  <2>8. CASE e = NoRoot
    <3>1. \A s \in 0 .. (RootSlots - 1) : roots'[s].gen <= root.gen
      BY <1>2, <2>2, <2>4, <2>6, <2>8 DEF NoRoot
    <3>2. ReadOf(roots') = root
      BY <1>0, <1>3, <2>2, <2>3, <3>1, ReadIs
    <3> QED
      BY <1>1, <3>2
  <2> QED
    BY <2>7, <2>8
<1> QED
  BY <1>4, <1>5 DEF PowerCut, Tear, media

\* The open takes over what is carried: the head it finds is not one below the
\* last copy of what returned.
LEMMA OpenCarries ==
    ASSUME SpineInv, HomeInv, Open
    PROVE  HomeInv'
<1> USE DEF Open
<1>1. /\ migrating' = migrating /\ base' = FoundAt /\ root' = ReadRoot
      /\ head' = Search(rings[FoundAt]) /\ rings' = rings /\ roots' = roots
      /\ durable' = durable /\ pc = "down" /\ pc' = "idle"
  BY DEF media
<1>2. FoundAt \in Band /\ FoundAt \in Named /\ Named \subseteq Band
  BY FoundInBand DEF FoundAt, Named
<1>3. RootNewest'
  BY <1>1, InvFacts, ReadRootFacts DEF RootNewest
<1>4. BaseNamed'
  BY <1>1, <1>2 DEF BaseNamed, Named
<1>5. HopCarries'
  BY <1>1 DEF HopCarries
<1>6. Carried'
  <2>1. SUFFICES ASSUME durable >= 0
                 PROVE  \E r \in Named, s \in Slots :
                            ~(r = FoundAt /\ s = NextSlot') /\ rings[r][s] >= durable
    BY <1>1, Sizes DEF Carried, Running, Named
  <2>2. PICK r \in Named, s \in Slots : rings[r][s] >= durable
    BY <1>1, <2>1 DEF HomeInv, Carried, Running
  <2>3. CASE r # FoundAt
    BY <2>2, <2>3
  <2>4. CASE r = FoundAt
    <3> DEFINE ring == rings[FoundAt]
               v == Newest(ring)
               h == Search(ring)
    <3>1. IsMedia(ring) /\ IsRing(ring) /\ Lapped(ring)
      BY <1>2, InvFacts
    <3>2. h \in Entries /\ \E t \in Slots : h = ring[t]
      BY <1>2, HeadFound DEF Opens
    <3>3. /\ v \in Int /\ \A t \in Slots : ring[t] \in Int /\ ring[t] <= v
          /\ v = Empty \/ \E t \in Slots : ring[t] = v
      BY <3>1, NewestFacts
    <3>4. NextSlot' = (h + 1) % N
      BY <1>1, Sizes DEF NextSlot
    <3>5. s \in Slots /\ ring[s] >= durable /\ durable \in Int
      BY <2>2, <2>4, Sizes DEF SpineInv, TypeOK
    <3> HIDE DEF ring, v, h
    <3>6. v >= 0 /\ \E t \in Slots : ring[t] = v
      <4>1. ring[s] <= v /\ ring[s] \in Int
        BY <3>3, <3>5
      <4> QED
        BY <2>1, <3>3, <3>5, <4>1 DEF Empty
    <3>7. PICK p \in Slots : ring[p] = v
      BY <3>6
    <3>8. h \in Int /\ h >= 0 /\ h <= v
      BY <3>2, <3>3, Sizes
    <3>9. CASE p # NextSlot'
      <4>1. ring[p] >= durable
        BY <3>3, <3>5, <3>7
      <4> QED
        BY <1>2, <3>7, <3>9, <4>1 DEF ring
    <3>10. CASE p = NextSlot'
      <4>1. v % N = (h + 1) % N
        BY <3>1, <3>4, <3>6, <3>7, <3>10 DEF Lapped
      <4>2. v - h < N
        BY <3>1, <3>2, <3>6, <3>7, <3>8 DEF Lapped
      <4>3. v # h
        <5>1. h < h + 1 /\ h + 1 < h + N /\ h + 1 \in Int /\ N \in Nat \ {0}
          BY <3>8, RingSize
        <5>2. h % N # (h + 1) % N
          BY <3>8, <5>1, ModUnique, Zenon
        <5> QED
          BY <4>1, <5>2
      <4>4. v = h + 1
        <5>1. N \in Nat \ {0} /\ N \in Int /\ h + 1 \in Int /\ v \in Int
          BY <3>3, <3>8, RingSize
        <5>2. SUFFICES ASSUME h + 1 < v PROVE FALSE
          BY <3>3, <3>8, <4>3
        <5>3. v < (h + 1) + N
          BY <3>3, <3>8, <4>2, <5>1
        <5>4. (h + 1) % N # v % N
          BY <5>1, <5>2, <5>3, ModUnique, Zenon
        <5> QED
          BY <4>1, <5>4
      <4>5. h # v - 1
        BY <3>1, <3>3, <3>7, <3>8, <4>4, SearchNotBefore DEF h
      <4> QED
        BY <3>3, <3>8, <4>4, <4>5
    <3> QED
      BY <3>9, <3>10
  <2> QED
    BY <2>3, <2>4
<1> QED
  BY <1>3, <1>4, <1>5, <1>6 DEF HomeInv

\* Every step keeps the newest generation where an open looks for it.
LEMMA NextHomeInv == SpineInv /\ HomeInv /\ [Next]_vars => HomeInv'
<1> SUFFICES ASSUME SpineInv, HomeInv, [Next]_vars PROVE HomeInv'
  OBVIOUS
<1>0. migrating' = migrating
  BY DEF Next, vars, Genesis, Commit, AppendHeartbeat, Append, ZeroRingAt, AppendRoot,
     PowerCut, Rot, Open
<1>1. Slots' = Slots /\ N' = N
  BY <1>0, Sizes
<1>2. ASSUME rings' = rings, roots' = roots, base' = base, head' = head, root' = root,
             durable' = durable, (pc' = "down") <=> (pc = "down"),
             pc' \in {"zero", "root"} => pc' = pc
      PROVE  HomeInv'
  <2>1. NextSlot' = NextSlot /\ Named' = Named
    BY <1>1, <1>2 DEF NextSlot, Named, ReadRoot
  <2>2. RootNewest' /\ BaseNamed'
    BY <1>2 DEF HomeInv, RootNewest, BaseNamed, Running
  <2>3. Carried'
    BY <1>1, <1>2, <2>1 DEF HomeInv, Carried, Running
  <2>4. HopCarries'
    BY <1>1, <1>2 DEF HomeInv, HopCarries
  <2> QED
    BY <2>2, <2>3, <2>4 DEF HomeInv
<1>3. CASE UNCHANGED vars
  BY <1>2, <1>3 DEF vars, media, memory, history
<1>4. CASE Genesis
  <2>1. /\ base' = 0 /\ root' = NoRoot /\ pc' # "down" /\ roots' = roots
        /\ pc = "down" /\ durable' = durable /\ ReadRoot = NoRoot
    BY <1>4 DEF Genesis, MayFormat, history
  <2>2. RootNewest'
    BY <2>1, InvFacts, ReadRootFacts DEF RootNewest
  <2>3. BaseNamed'
    BY <2>1 DEF BaseNamed, NoRoot
  <2>4. ~(durable >= 0)
    <3>1. \A r \in Band : Newest(rings[r]) = Empty
      BY <1>4, InvFacts DEF Genesis, MayFormat, AnySealed
    <3>2. Named \subseteq Band /\ durable \in Int
      BY FoundInBand, Sizes DEF Named, SpineInv, TypeOK
    <3>3. \A r \in Band, s \in Slots : rings[r][s] \in Int /\ rings[r][s] <= Empty
      BY <3>1, InvFacts, NewestFacts
    <3> QED
      BY <2>1, <3>2, <3>3 DEF HomeInv, Carried, Running, Empty
  <2>5. Carried' /\ HopCarries'
    BY <2>1, <2>4 DEF Carried, HopCarries
  <2> QED
    BY <2>2, <2>3, <2>5 DEF HomeInv
<1>5. CASE Commit \/ AppendHeartbeat
  BY <1>2, <1>5 DEF Commit, AppendHeartbeat, media, memory, history
<1>6. CASE Append
  <2>1. /\ rings' = [rings EXCEPT ![base][NextSlot] = head + 1] /\ head' = head + 1
        /\ durable' = head + 1 /\ base' = base /\ root' = root /\ roots' = roots
        /\ pc' \in {"zero", "idle"} /\ pc \in {"append", "beat"}
    BY <1>6 DEF Append
  <2>2. NextSlot \in Slots /\ rings'[base] = [rings[base] EXCEPT ![NextSlot] = head + 1]
    BY <2>1, EntryWrite
  <2>3. rings'[base][NextSlot] = head + 1
    BY <2>2, InvFacts DEF IsRing
  <2>4. NextSlot' # NextSlot /\ NextSlot = (head + 1) % N
    <3>1. /\ head + 1 \in Int /\ head + 2 \in Int /\ head + 1 < head + 2
          /\ head + 2 < (head + 1) + N /\ N \in Nat \ {0}
      BY InvFacts, RingSize
    <3>2. (head + 1) % N # (head + 2) % N
      BY <3>1, ModUnique, Zenon
    <3>3. (head + 1) + 1 = head + 2
      BY InvFacts
    <3> QED
      BY <1>1, <2>1, <3>2, <3>3 DEF NextSlot
  <2>5. RootNewest' /\ BaseNamed'
    BY <2>1 DEF HomeInv, RootNewest, BaseNamed, Running
  <2>6. Carried'
    <3>1. base \in {root.at, root.was} /\ head + 1 >= head + 1
      BY <2>1, InvFacts DEF HomeInv, BaseNamed, Running
    <3> QED
      BY <1>1, <2>1, <2>2, <2>3, <2>4, <3>1 DEF Carried, Running
  <2>7. HopCarries'
    BY <1>1, <2>1, <2>3, <2>4, InvFacts DEF HopCarries
  <2> QED
    BY <2>5, <2>6, <2>7 DEF HomeInv
<1>7. ASSUME pc \in {"zero", "root"}, root # NoRoot
      PROVE  /\ head % N \in Slots /\ head % N # NextSlot /\ durable <= head
             /\ rings[base][head % N] = head /\ head \in Int
             /\ base \in {root.at, root.was} /\ durable \in Int
  <2>1. head >= 0 /\ durable <= head /\ rings[base][head % N] = head /\ head \in Int
        /\ base \in {root.at, root.was}
    BY <1>7, InvFacts DEF HomeInv, HopCarries, BaseNamed, Running
  <2>2. head % N \in Slots
    BY <2>1, SlotBelow
  <2>3. head < head + 1 /\ head + 1 < head + N /\ N \in Nat \ {0} /\ head + 1 \in Int
    BY <2>1, RingSize
  <2>4. head % N # (head + 1) % N
    BY <2>1, <2>3, ModUnique, Zenon
  <2>5. durable \in Int
    BY Sizes DEF SpineInv, TypeOK
  <2> QED
    BY <2>1, <2>2, <2>4, <2>5 DEF NextSlot
<1>8. CASE ZeroRingAt
  <2>1. /\ rings' = [rings EXCEPT ![NextRoot.at][zeroed] = Empty]
        /\ head' = head /\ base' = base /\ root' = root /\ roots' = roots
        /\ durable' = durable /\ pc' \in {"zero", "root"} /\ pc = "zero"
    BY <1>8 DEF ZeroRingAt, history
  <2>2. root # NoRoot /\ NextRoot.at \in Band /\ NextRoot.at # base /\ base \in Band
    BY <2>1, InvFacts, NextRootFacts
  <2>3. rings'[base] = rings[base] /\ NextSlot' = NextSlot
    BY <1>1, <2>1, <2>2, InvFacts DEF NextSlot
  <2>4. RootNewest' /\ BaseNamed'
    BY <2>1 DEF HomeInv, RootNewest, BaseNamed, Running
  <2>5. Carried'
    BY <1>1, <1>7, <2>1, <2>2, <2>3 DEF Carried, Running
  <2>6. HopCarries'
    BY <1>1, <2>1, <2>2, <2>3 DEF HomeInv, HopCarries
  <2> QED
    BY <2>4, <2>5, <2>6 DEF HomeInv
<1>9. ASSUME Running, root = NoRoot, migrating, durable >= 0 PROVE FALSE
  <2>1. NothingWritten
    BY <1>9 DEF SpineInv, RootHeld
  <2>2. PICK r \in {root.at, root.was}, s \in Slots : rings[r][s] >= durable
    BY <1>9 DEF HomeInv, Carried
  <2>3. r \in Band
    BY <1>9, <2>2, Sizes DEF NoRoot
  <2>4. rings[r][s] < 0
    BY <2>1, <2>3 DEF NothingWritten
  <2>5. rings[r] \in [Slots -> Int]
    BY <2>3, InvFacts DEF IsRing
  <2>6. rings[r][s] \in Int
    BY <2>5
  <2>7. durable \in Int
    BY Sizes DEF SpineInv, TypeOK
  <2> QED
    BY <1>9, <2>2, <2>4, <2>6, <2>7
<1>10. CASE AppendRoot
  <2>1. /\ rings' = rings /\ head' = head /\ base' = NextRoot.at /\ root' = NextRoot
        /\ roots' = [roots EXCEPT ![NextRoot.gen % RootSlots] = NextRoot]
        /\ durable' = durable /\ pc' \in {"append", "idle"} /\ pc = "root"
    BY <1>10 DEF AppendRoot, history
  <2>2. /\ NextRoot \in RootEntry /\ NextRoot.gen = root.gen + 1
        /\ NextRoot.was = base /\ (root # NoRoot => NextRoot.at # base)
    BY InvFacts, NextRootFacts
  <2>3. RootNewest'
    <3>1. \A s \in 0 .. (RootSlots - 1) : roots[s].gen <= root.gen /\ roots[s].gen \in Int
      BY <2>1, InvFacts, RootSlot DEF HomeInv, RootNewest, Running
    <3>2. root.gen \in Int /\ NextRoot.gen \in Int
      BY <2>2, InvFacts, RootSlot
    <3>3. \A s \in 0 .. (RootSlots - 1) : roots'[s] = NextRoot \/ roots'[s] = roots[s]
      BY <2>1, RootWrite
    <3>4. \A s \in 0 .. (RootSlots - 1) : roots'[s].gen <= NextRoot.gen
      BY <2>2, <3>1, <3>2, <3>3
    <3> QED
      BY <2>1, <3>4 DEF RootNewest
  <2>4. BaseNamed'
    BY <2>1 DEF BaseNamed
  <2>5. Carried'
    <3>1. CASE root = NoRoot
      BY <1>9, <2>1, <3>1, InvFacts DEF Carried, Running
    <3>2. CASE root # NoRoot
      BY <1>1, <1>7, <2>1, <2>2, <3>2 DEF Carried, Running
    <3> QED
      BY <3>1, <3>2
  <2>6. HopCarries'
    BY <2>1 DEF HopCarries
  <2> QED
    BY <2>3, <2>4, <2>5, <2>6 DEF HomeInv
<1>11. CASE PowerCut
  <2>1. /\ durable' = durable /\ pc' = "down" /\ pc # "down" /\ base' = base
    BY <1>11 DEF PowerCut, memory, history
  <2>2. RootNewest' /\ BaseNamed' /\ HopCarries'
    BY <2>1 DEF RootNewest, BaseNamed, HopCarries, Running
  <2>3. Carried'
    <3>1. SUFFICES ASSUME durable >= 0
                   PROVE  \E r \in {ReadRoot'.at, ReadRoot'.was}, s \in Slots :
                              rings'[r][s] >= durable
      BY <1>1, <2>1 DEF Carried, Running, Named
    <3>2. migrating => root # NoRoot
      BY <1>9, <2>1, <3>1 DEF Running
    <3>3. CASE pc \in {"zero", "root"}
      <4>1. root # NoRoot
        BY <3>2, <3>3, InvFacts
      <4>2. rings'[base] = rings[base]
        <5>1. CASE UNCHANGED media
          BY <5>1 DEF media
        <5>2. CASE pc = "root" /\ Tear
          BY <5>2 DEF Tear
        <5>3. CASE pc = "zero" /\ Tear
          <6>1. PICK c \in {Corrupt, Empty} :
                    rings' = [rings EXCEPT ![NextRoot.at][zeroed] = c]
            BY <5>3 DEF Tear
          <6>2. NextRoot.at # base /\ base \in Band
            BY <4>1, InvFacts, NextRootFacts
          <6> QED
            BY <6>1, <6>2, InvFacts
        <5> QED
          BY <1>11, <3>3, <5>1, <5>2, <5>3 DEF PowerCut
      <4>3. base \in {ReadRoot'.at, ReadRoot'.was}
        <5>1. CASE ReadRoot' = root
          BY <1>7, <3>3, <4>1, <5>1
        <5>2. CASE ReadRoot' = NextRoot
          BY <5>2, InvFacts, NextRootFacts
        <5> QED
          BY <1>11, <5>1, <5>2, CutReads
      <4> QED
        BY <1>7, <3>3, <4>1, <4>2, <4>3
    <3>4. CASE pc \notin {"zero", "root"}
      <4>1. ReadRoot' = root
        BY <1>11, <3>4, CutReads
      <4>2. PICK r \in {root.at, root.was}, s \in Slots :
                ~(r = base /\ s = NextSlot) /\ rings[r][s] >= durable
        BY <2>1, <3>1 DEF HomeInv, Carried, Running
      <4>3. r \in Band
        <5>1. CASE root = NoRoot
          BY <4>2, <5>1, Sizes DEF NoRoot
        <5>2. CASE root # NoRoot
          <6>1. /\ roots[root.gen % RootSlots] = root
                /\ root.gen % RootSlots \in 0 .. (RootSlots - 1)
            BY <2>1, <5>2, InvFacts, RootSlot DEF SpineInv, RootHeld, FixedPlace, Running
          <6> QED
            BY <4>2, <6>1 DEF SpineInv, RootSlotted
        <5> QED
          BY <5>1, <5>2
      <4>4. rings'[r][s] = rings[r][s]
        <5>1. CASE UNCHANGED media
          BY <5>1 DEF media
        <5>2. CASE Tear
          <6>1. PICK c \in {Corrupt, head + 1} :
                    /\ pc \in {"append", "beat"}
                    /\ rings' = [rings EXCEPT ![base][NextSlot] = c]
            BY <3>4, <5>2 DEF Tear
          <6>2. /\ \A x \in Band : x # base => rings'[x] = rings[x]
                /\ rings'[base] = [rings[base] EXCEPT ![NextSlot] = c]
            BY <6>1, EntryWrite
          <6> QED
            BY <4>2, <4>3, <6>2, InvFacts DEF IsRing
        <5> QED
          BY <1>11, <5>1, <5>2 DEF PowerCut
      <4> QED
        BY <4>1, <4>2, <4>4
    <3> QED
      BY <3>3, <3>4
  <2> QED
    BY <2>2, <2>3 DEF HomeInv
<1>12. ASSUME NEW x \in Slots, Rot(x) PROVE HomeInv'
  <2>1. pc' = "down" /\ roots' = roots /\ rings' = [rings EXCEPT ![base][x] = Corrupt]
    BY <1>12 DEF Rot
  <2>2. RootNewest' /\ BaseNamed' /\ HopCarries'
    BY <2>1 DEF RootNewest, BaseNamed, HopCarries, Running
  <2>3. Named' = Named
    BY <2>1 DEF Named, ReadRoot
  <2>4. Carried'
    <3>1. PICK r \in Named : r \in Band /\ durable' <= Newest(rings'[r]) /\ durable' \in Int
      BY <1>12, RotDurable
    <3>2. IsMedia(rings'[r])
      BY <2>1, <3>1, InvFacts, SlotLoss DEF IsMedia
    <3>3. Newest(rings'[r]) = Empty \/ \E s \in Slots : rings'[r][s] = Newest(rings'[r])
      BY <3>2, NewestFacts
    <3>4. Newest(rings'[r]) \in Int
      BY <3>2, NewestFacts
    <3> QED
      BY <1>1, <2>1, <2>3, <3>1, <3>3, <3>4 DEF Carried, Running, Empty
  <2> QED
    BY <2>2, <2>4 DEF HomeInv
<1>13. CASE Open
  BY <1>13, OpenCarries
<1> QED
  BY <1>3, <1>4, <1>5, <1>6, <1>8, <1>10, <1>11, <1>12, <1>13 DEF Next

\* Through hops, fallbacks, torn writes and lost slots the newest generation that
\* returned and can still be read stays at one of the two residences the newest
\* root names (Vault::migrate_ring).
THEOREM NewestAlwaysNamed == Spec => []NewestAtEitherResidence
<1>1. Init => SpineInv /\ HomeInv
  BY InitSpineInv, InitHomeInv
<1>2. SpineInv /\ HomeInv /\ [Next]_vars => (SpineInv /\ HomeInv)'
  BY NextSpineInv, NextHomeInv
<1>3. SpineInv /\ HomeInv => NewestAtEitherResidence
  <2> SUFFICES ASSUME SpineInv, HomeInv, pc = "down"
               PROVE  Max({Newest(rings[r]) : r \in Named}) >= durable
    BY DEF NewestAtEitherResidence
  <2> DEFINE S == {Newest(rings[r]) : r \in Named}
  <2>1. Named \subseteq Band /\ Named # {} /\ durable \in Int /\ durable >= -1
    BY FoundInBand, Sizes DEF Named, SpineInv, TypeOK
  <2>2. \A r \in Named : /\ Newest(rings[r]) \in Entries \cup {Empty}
                         /\ \A s \in Slots : rings[r][s] <= Newest(rings[r])
                                             /\ rings[r][s] \in Int
    BY <2>1, InvFacts, NewestFacts
  <2>3. /\ \A x \in S : x \in Int /\ x <= MaxGen + 1 /\ x >= -1
        /\ S # {} /\ MaxGen + 1 \in Int
    BY <2>1, <2>2, Sizes DEF Empty
  <2>4. \A r \in Named : Newest(rings[r]) \in S
    OBVIOUS
  <2> HIDE DEF S
  <2>5. S \in SUBSET Int
    BY <2>3
  <2>6. Max(S) \in S /\ \A y \in S : y <= Max(S)
    BY <2>3, <2>5, MaxOfBounded
  <2>7. CASE durable >= 0
    <3>1. PICK r \in Named, s \in Slots : rings[r][s] >= durable
      BY <2>7 DEF HomeInv, Carried, Running
    <3>2. rings[r][s] <= Newest(rings[r]) /\ rings[r][s] \in Int
          /\ Newest(rings[r]) \in S /\ Newest(rings[r]) <= Max(S)
      BY <2>2, <2>4, <2>6, <3>1
    <3>3. Newest(rings[r]) \in Int /\ Max(S) \in Int
      BY <2>3, <2>6, <3>2
    <3> QED
      BY <2>1, <3>1, <3>2, <3>3 DEF S
  <2>8. CASE ~(durable >= 0)
    <3>1. Max(S) >= -1 /\ Max(S) \in Int
      BY <2>3, <2>6
    <3> QED
      BY <2>1, <2>8, <3>1 DEF S
  <2> QED
    BY <2>7, <2>8
<1> QED
  BY <1>1, <1>2, <1>3, PTL DEF Spec
=============================================================================
