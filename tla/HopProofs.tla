----------------------------- MODULE HopProofs -----------------------------
(***************************************************************************)
(* Proofs about Spine: the fence's window, for every ring, band, residency *)
(* and fence depth, through hops, fallbacks and power cuts.                *)
(***************************************************************************)
EXTENDS SpineProofs

(***************************************************************************)
(* The bisection on a ring that was not filled from slot 0.                *)
(***************************************************************************)
\* Holes in a ring: behind one, everything is older than anything before it; a
\* torn slot has nothing before or nothing behind it; and from an empty slot on
\* the entries rise.
Shaped(ring) ==
    /\ \A p, m, s \in Slots :
          p < m /\ m < s /\ ring[p] = Empty /\ ring[m] = Corrupt => ring[s] < 0
    /\ \A p, m, s \in Slots :
          p < m /\ m < s /\ ring[p] = Empty /\ ring[m] >= 0 /\ ring[s] >= 0
          => ring[m] < ring[s]
    /\ \A p, m, s \in Slots :
          p < m /\ m < s /\ ring[p] >= 0 /\ ring[m] < 0 /\ ring[s] >= 0
          => ring[s] < ring[p]

\* v is nothing, or bounds the slots lo .. hi; it is not below the first of them.
Sure(v, ring, lo, hi) ==
    /\ v = Empty \/ \A s \in lo .. hi : ring[s] <= v
    /\ lo <= hi /\ ring[lo] >= 0 => ring[lo] <= v

\* On such a ring the bisection finds the newest entry or none, whatever the
\* span (Ring::search).
LEMMA SearchSure ==
    ASSUME NEW ring, IsRing(ring), Lapped(ring), Shaped(ring)
    PROVE  \A lo \in 0 .. N, hi \in Slots :
               Sure(SearchFcn(ring)[<<lo, hi>>], ring, lo, hi)
<1> DEFINE f == SearchFcn(ring)
           S == {k \in Nat : \A lo \in 0 .. N, hi \in Slots :
                    (hi - lo) + 1 <= k => Sure(f[<<lo, hi>>], ring, lo, hi)}
<1>1. /\ \A lo \in 0 .. N, hi \in Slots : f[<<lo, hi>>] = SearchStep(ring, f, lo, hi)
      /\ \A lo \in 0 .. N, hi \in Slots : InSpan(f[<<lo, hi>>], ring, lo, hi)
  BY SearchUnfolds, SearchInSpan
<1> HIDE DEF f
<1>2. ASSUME NEW k \in Nat, \A m \in Nat : m < k => m \in S
      PROVE  k \in S
  <2> SUFFICES ASSUME NEW lo \in 0 .. N, NEW hi \in Slots, (hi - lo) + 1 <= k
               PROVE  Sure(f[<<lo, hi>>], ring, lo, hi)
    OBVIOUS
  <2> DEFINE mid == (lo + hi + 1) \div 2
             v == f[<<lo, hi>>]
             l == f[<<lo, mid - 1>>]
             r == f[<<mid, hi>>]
  <2>1. lo \in Int /\ hi \in Int /\ mid \in Int /\ v \in Int /\ v >= Empty
    BY <1>1, RingSize DEF Slots, InSpan
  <2>2. ASSUME NEW a \in 0 .. N, NEW b \in Slots, b - a < hi - lo, lo <= hi
        PROVE  Sure(f[<<a, b>>], ring, a, b)
    <3>1. a \in Int /\ b \in Int
      BY RingSize DEF Slots
    <3>2. k - 1 \in Nat /\ k - 1 < k /\ (b - a) + 1 <= k - 1
      BY <2>1, <2>2, <3>1
    <3>3. k - 1 \in S
      BY <1>2, <3>2
    <3> QED
      BY <3>2, <3>3
  <2>3. ASSUME lo <= hi
        PROVE  /\ lo \in Slots /\ lo + 1 \in 0 .. N
               /\ lo < hi => /\ mid \in Slots /\ mid \in 0 .. N /\ lo < mid
                             /\ mid <= hi /\ mid - 1 \in Slots
    <3>1. mid = (lo + hi + 1) \div 2
      OBVIOUS
    <3> HIDE DEF mid
    <3> QED
      BY <2>3, <3>1, Middle, SMTT(30)
  <2>4. \A s \in Slots : ring[s] \in Int /\ ring[s] >= Corrupt /\ s \in Int
    BY RingSize DEF IsRing, Slots
  <2>5. \/ lo > hi /\ v = Empty
        \/ lo <= hi /\ ring[lo] = Corrupt /\ v = f[<<lo + 1, hi>>]
        \/ lo = hi /\ ring[lo] >= Empty /\ v = ring[lo]
        \/ lo < hi /\ ring[lo] >= Empty /\ ring[mid] = Corrupt /\ v = Max({l, r})
        \/ /\ lo < hi /\ ring[lo] >= Empty /\ ring[mid] >= Empty
           /\ ring[mid] > ring[lo] /\ v = r
        \/ /\ lo < hi /\ ring[lo] >= Empty /\ ring[mid] >= Empty
           /\ ring[mid] <= ring[lo] /\ v = l
    BY <1>1, StepCases, SMTT(30)
  <2>6. ASSUME lo < hi
        PROVE  /\ Sure(l, ring, lo, mid - 1) /\ InSpan(l, ring, lo, mid - 1)
               /\ Sure(r, ring, mid, hi) /\ InSpan(r, ring, mid, hi)
               /\ l \in Int /\ l >= Empty /\ r \in Int /\ r >= Empty
               /\ \A s \in lo .. hi :
                     /\ s \in Slots
                     /\ s \in lo .. (mid - 1) \/ s \in mid .. hi
                     /\ s \in lo .. (mid - 1) => s < mid /\ lo <= s
                     /\ s \in mid .. hi => mid <= s
               /\ lo .. (mid - 1) \subseteq lo .. hi /\ mid .. hi \subseteq lo .. hi
               /\ lo \in lo .. (mid - 1) /\ mid \in mid .. hi
    <3>1. hi - mid < hi - lo /\ (mid - 1) - lo < hi - lo
      BY <2>1, <2>3, <2>6
    <3>2. Sure(l, ring, lo, mid - 1) /\ Sure(r, ring, mid, hi)
      BY <2>1, <2>2, <2>3, <2>6, <3>1
    <3>3. InSpan(l, ring, lo, mid - 1) /\ InSpan(r, ring, mid, hi)
      BY <1>1, <2>1, <2>3, <2>6
    <3>4. l \in Int /\ l >= Empty /\ r \in Int /\ r >= Empty
      BY <3>3 DEF InSpan
    <3> HIDE DEF l, r, mid
    <3>5. /\ \A s \in lo .. hi :
                     /\ s \in Slots
                     /\ s \in lo .. (mid - 1) \/ s \in mid .. hi
                     /\ s \in lo .. (mid - 1) => s < mid /\ lo <= s
                     /\ s \in mid .. hi => mid <= s
          /\ lo .. (mid - 1) \subseteq lo .. hi /\ mid .. hi \subseteq lo .. hi
          /\ lo \in lo .. (mid - 1) /\ mid \in mid .. hi
      BY <2>1, <2>3, <2>6, RingSize DEF Slots
    <3> QED
      BY <3>2, <3>3, <3>4, <3>5
  <2> HIDE DEF mid, v, l, r, S
  <2>7. CASE lo > hi /\ v = Empty
    BY <2>1, <2>7 DEF Sure, v
  <2>8. CASE lo <= hi /\ ring[lo] = Corrupt /\ v = f[<<lo + 1, hi>>]
    <3>1. Sure(v, ring, lo + 1, hi)
      BY <2>1, <2>2, <2>3, <2>8
    <3>2. \A s \in lo .. hi : s = lo \/ s \in (lo + 1) .. hi
      BY <2>1
    <3>3. ring[lo] <= v /\ ~(ring[lo] >= 0)
      BY <2>1, <2>8 DEF Empty, Corrupt
    <3> QED
      BY <3>1, <3>2, <3>3 DEF Sure, v
  <2>9. CASE lo = hi /\ ring[lo] >= Empty /\ v = ring[lo]
    <3>1. \A s \in lo .. hi : s = lo
      BY <2>1, <2>9
    <3> QED
      BY <2>1, <2>9, <3>1 DEF Sure, v
  <2>10. CASE lo < hi /\ ring[lo] >= Empty /\ ring[mid] = Corrupt /\ v = Max({l, r})
    <3>0. /\ lo \in Slots /\ mid \in Slots /\ lo < mid /\ ring[lo] \in Int
          /\ ring[mid] < 0 /\ l \in Int /\ r \in Int
      BY <2>1, <2>3, <2>4, <2>6, <2>10 DEF Corrupt
    <3>1. l <= v /\ r <= v /\ v \in {l, r}
      BY <2>10, <3>0, MaxOfTwo
    <3>2. CASE ring[lo] >= 0
      <4>1. ring[lo] <= l /\ \A s \in lo .. (mid - 1) : ring[s] <= l
        <5>1. ring[lo] <= l
          BY <2>1, <2>6, <2>10, <3>0, <3>2 DEF Sure
        <5> QED
          BY <2>6, <2>10, <3>0, <3>2, <5>1 DEF Sure, Empty
      <4>2. ASSUME NEW s \in lo .. hi, s \in mid .. hi
            PROVE  ring[s] <= v
        <5>1. s \in Slots /\ mid <= s /\ ring[s] \in Int /\ s \in Int /\ v \in Int
          BY <2>1, <2>4, <2>6, <2>10, <4>2
        <5>2. s = mid \/ mid < s
          BY <2>1, <5>1
        <5>3. ring[s] < 0 \/ ring[s] < ring[lo]
          BY <3>0, <3>2, <5>1, <5>2 DEF Shaped
        <5> QED
          BY <3>0, <3>1, <3>2, <4>1, <5>1, <5>3
      <4>3. ASSUME NEW s \in lo .. hi, s \in lo .. (mid - 1)
            PROVE  ring[s] <= v
        <5>1. ring[s] <= l /\ ring[s] \in Int
          BY <2>4, <2>6, <2>10, <4>1, <4>3
        <5> QED
          BY <2>1, <3>0, <3>1, <5>1
      <4>4. ring[lo] <= v
        BY <2>1, <3>0, <3>1, <4>1
      <4> QED
        BY <2>6, <2>10, <4>2, <4>3, <4>4 DEF Sure, v
    <3>3. CASE ring[lo] = Empty
      <4>1. \A s \in mid .. hi : s \in Slots /\ ring[s] < 0 /\ ring[s] \in Int
        <5> TAKE s \in mid .. hi
        <5>1. s \in Slots /\ mid <= s /\ ring[s] \in Int /\ s \in Int
          BY <2>1, <2>4, <2>6, <2>10
        <5>2. s = mid \/ mid < s
          BY <2>1, <5>1
        <5> QED
          BY <2>10, <3>0, <3>3, <5>1, <5>2 DEF Shaped
      <4>2. r = Empty
        BY <2>6, <2>10, <4>1 DEF InSpan, Empty
      <4>3. v = l
        BY <2>1, <2>6, <2>10, <3>0, <3>1, <4>2
      <4>4. v = Empty \/ v >= 0
        BY <2>1 DEF Empty
      <4>5. ASSUME v # Empty, NEW s \in lo .. hi
            PROVE  ring[s] <= v
        <5>1. s \in lo .. (mid - 1) => ring[s] <= v
          BY <2>6, <2>10, <4>3, <4>5 DEF Sure
        <5>2. s \in mid .. hi => ring[s] <= v
          BY <2>1, <4>1, <4>4, <4>5
        <5> QED
          BY <2>6, <2>10, <5>1, <5>2
      <4> QED
        BY <3>0, <3>3, <4>5 DEF Sure, v, Empty
    <3> QED
      BY <2>10, <3>0, <3>2, <3>3 DEF Empty
  <2>11. CASE /\ lo < hi /\ ring[lo] >= Empty /\ ring[mid] >= Empty
              /\ ring[mid] > ring[lo] /\ v = r
    <3>1. /\ ring[mid] >= 0 /\ mid \in Slots /\ lo \in Slots /\ lo < mid
          /\ ring[mid] \in Int /\ ring[lo] \in Int /\ mid <= hi
      BY <2>1, <2>3, <2>4, <2>11 DEF Empty
    <3>2. ring[mid] <= v
      BY <2>6, <2>11, <3>1 DEF Sure
    <3>3. v # Empty
      BY <2>1, <3>1, <3>2 DEF Empty
    <3>4. ASSUME NEW s \in lo .. (mid - 1)
          PROVE  ring[s] <= ring[mid]
      <4>1. s \in Slots /\ s < mid /\ lo <= s /\ s \in Int /\ ring[s] \in Int
        BY <2>1, <2>4, <2>6, <2>11
      <4>2. CASE ring[lo] >= 0
        <5>1. s \in lo .. mid
          BY <2>1, <4>1
        <5> QED
          BY <2>11, <3>1, <4>2, <5>1, LappedRises
      <4>3. CASE ring[lo] = Empty
        <5>1. s = lo \/ lo < s
          BY <2>1, <4>1
        <5>2. s = lo \/ ring[s] < 0 \/ ring[s] < ring[mid]
          BY <3>1, <4>1, <4>3, <5>1 DEF Shaped
        <5> QED
          BY <3>1, <4>1, <4>3, <5>2 DEF Empty
      <4> QED
        BY <2>11, <3>1, <4>2, <4>3 DEF Empty
    <3>5. ASSUME NEW s \in lo .. hi
          PROVE  ring[s] <= v
      <4>1. s \in mid .. hi => ring[s] <= v
        BY <2>6, <2>11, <3>3 DEF Sure
      <4>2. ring[s] \in Int
        BY <2>4, <2>6, <2>11
      <4> QED
        BY <2>1, <2>6, <2>11, <3>1, <3>2, <3>4, <4>1, <4>2
    <3>6. lo \in lo .. hi
      BY <2>1, <2>11
    <3> QED
      BY <3>5, <3>6 DEF Sure, v
  <2>12. CASE /\ lo < hi /\ ring[lo] >= Empty /\ ring[mid] >= Empty
              /\ ring[mid] <= ring[lo] /\ v = l
    <3>1. /\ mid \in Slots /\ lo \in Slots /\ lo < mid /\ ring[mid] \in Int
          /\ ring[lo] \in Int /\ lo <= mid - 1
      BY <2>1, <2>3, <2>4, <2>12
    <3>2. CASE ring[lo] >= 0
      <4>1. ring[lo] <= v
        BY <2>6, <2>12, <3>1, <3>2 DEF Sure
      <4>2. v # Empty
        BY <2>1, <3>1, <3>2, <4>1 DEF Empty
      <4>3. ASSUME NEW s \in mid .. hi
            PROVE  ring[s] <= ring[lo]
        <5>1. s \in Slots /\ mid <= s /\ s \in Int /\ ring[s] \in Int
          BY <2>1, <2>4, <2>6, <2>12
        <5>2. CASE ring[mid] >= 0
          BY <2>12, <3>1, <3>2, <5>1, <5>2, LappedRises
        <5>3. CASE ring[mid] < 0
          <6>1. s = mid \/ mid < s
            BY <2>1, <5>1
          <6>2. ring[s] < 0 \/ ring[s] < ring[lo]
            BY <3>1, <3>2, <5>1, <5>3, <6>1 DEF Shaped
          <6> QED
            BY <3>1, <3>2, <5>1, <6>2
        <5> QED
          BY <3>1, <5>2, <5>3
      <4>4. ASSUME NEW s \in lo .. hi
            PROVE  ring[s] <= v
        <5>1. s \in lo .. (mid - 1) => ring[s] <= v
          BY <2>6, <2>12, <4>2 DEF Sure
        <5>2. ring[s] \in Int
          BY <2>4, <2>6, <2>12
        <5> QED
          BY <2>1, <2>6, <2>12, <3>1, <4>1, <4>3, <5>1, <5>2
      <4> QED
        BY <4>1, <4>4 DEF Sure, v
    <3>3. CASE ring[lo] = Empty /\ v # Empty
      <4>1. ring[mid] = Empty /\ v >= 0
        BY <2>1, <2>12, <3>1, <3>3 DEF Empty
      <4>2. PICK u \in lo .. (mid - 1) : v = ring[u]
        BY <2>6, <2>12, <3>3 DEF InSpan
      <4>3. u \in Slots /\ u < mid /\ u # lo /\ lo <= u /\ u \in Int
        BY <2>4, <2>6, <2>12, <3>3, <4>2
      <4>4. lo < u
        BY <2>1, <4>3
      <4>5. ASSUME NEW s \in mid .. hi
            PROVE  ring[s] <= v
        <5>1. s \in Slots /\ mid <= s /\ s \in Int /\ ring[s] \in Int
          BY <2>1, <2>4, <2>6, <2>12
        <5>2. s = mid \/ mid < s
          BY <2>1, <5>1
        <5>3. s = mid => ring[s] <= v
          BY <2>1, <4>1 DEF Empty
        <5>4. ASSUME mid < s, ring[s] >= 0 PROVE FALSE
          <6>1. ring[s] < ring[u]
            BY <4>1, <4>2, <4>3, <5>1, <5>4, <3>1 DEF Shaped, Empty
          <6>2. u < s
            BY <2>1, <4>3, <5>1
          <6>3. ring[u] < ring[s]
            BY <3>1, <3>3, <4>1, <4>2, <4>3, <4>4, <5>1, <5>4, <6>2 DEF Shaped
          <6> QED
            BY <2>1, <4>2, <5>1, <6>1, <6>3
        <5> QED
          BY <2>1, <4>1, <5>1, <5>2, <5>3, <5>4
      <4>6. \A s \in lo .. (mid - 1) : ring[s] <= v
        BY <2>6, <2>12, <3>3 DEF Sure
      <4>7. \A s \in lo .. hi : ring[s] <= v
        BY <2>6, <2>12, <4>5, <4>6
      <4>8. ~(ring[lo] >= 0)
        BY <3>3 DEF Empty
      <4> QED
        BY <4>7, <4>8 DEF Sure, v
    <3>4. CASE ring[lo] = Empty /\ v = Empty
      BY <3>4 DEF Sure, v, Empty
    <3> QED
      BY <2>12, <3>1, <3>2, <3>3, <3>4 DEF Empty
  <2> QED
    BY <2>5, <2>7, <2>8, <2>9, <2>10, <2>11, <2>12 DEF v
<1>3. S \in SUBSET Nat
  OBVIOUS
<1>4. N \in S
  <2> HIDE DEF S
  <2> QED BY <1>2, <1>3, SetInduction, RingSize
<1>5. \A lo \in 0 .. N, hi \in Slots : (hi - lo) + 1 <= N
  BY RingSize DEF Slots
<1> QED
  BY <1>4, <1>5 DEF f

(***************************************************************************)
(* Rings without a gap.                                                    *)
(***************************************************************************)
\* The ring holds the generations lo .. n without a gap, as far as a lap goes
\* back; only the slot of the next one may be torn.
Run(ring, lo, n) ==
    /\ \A s \in Slots : ring[s] >= 0 => lo <= ring[s] /\ ring[s] <= n
    /\ \A g \in 0 .. n : n - N + 1 < g /\ lo <= g => ring[g % N] = g
    /\ \A s \in Slots : ring[s] = Corrupt => s = (n + 1) % N
    /\ lo <= (n + 1) - N => ring[(n + 1) % N] # Empty

\* The last generation up to n whose slot is s.
LastAt(n, s) == IF s <= n % N THEN (n - (n % N)) + s ELSE ((n - (n % N)) + s) - N

\* There is one in each lap.
LEMMA LastAtFacts ==
    ASSUME NEW n \in Int, NEW s \in Slots
    PROVE  /\ LastAt(n, s) \in Int /\ n - N < LastAt(n, s) /\ LastAt(n, s) <= n
           /\ LastAt(n, s) % N = s
           /\ \A g \in Int : n - N < g /\ g <= n /\ g % N = s => g = LastAt(n, s)
<1> DEFINE w == LastAt(n, s)
           t == n % N
           q == n \div N
<1>1. N \in Nat \ {0} /\ N \in Int /\ N >= 2 /\ s \in 0 .. (N - 1) /\ s \in Int
  BY RingSize DEF Slots
<1>2. t \in 0 .. (N - 1) /\ n = N * q + t /\ q \in Int /\ t \in Int
  BY <1>1, ModFacts
<1>3. w = IF s <= t THEN (n - t) + s ELSE ((n - t) + s) - N
  BY DEF LastAt
<1> HIDE DEF w, t, q
<1>4. w \in Int /\ n - N < w /\ w <= n
  BY <1>1, <1>2, <1>3
<1>5. w % N = s
  <2>1. CASE s <= t
    <3>1. w = N * q + s
      BY <1>1, <1>2, <1>3, <2>1
    <3> QED
      BY <1>1, <1>2, <1>4, <3>1, ModIs
  <2>2. CASE ~(s <= t)
    <3>1. q - 1 \in Int /\ N * (q - 1) = N * q - N /\ N * q \in Int
      BY <1>1, <1>2
    <3>2. w = N * (q - 1) + s
      BY <1>1, <1>2, <1>3, <2>2, <3>1
    <3> QED
      BY <1>1, <1>4, <3>1, <3>2, ModIs
  <2> QED
    BY <2>1, <2>2
<1>6. ASSUME NEW g \in Int, n - N < g, g <= n, g % N = s
      PROVE  g = w
  <2>1. ASSUME g < w PROVE FALSE
    <3>1. w < g + N
      BY <1>1, <1>4, <1>6
    <3>2. g % N # w % N
      BY <1>1, <1>4, <2>1, <3>1, ModUnique, Zenon
    <3> QED
      BY <1>5, <1>6, <3>2
  <2>2. ASSUME w < g PROVE FALSE
    <3>1. g < w + N
      BY <1>1, <1>4, <1>6
    <3>2. w % N # g % N
      BY <1>1, <1>4, <2>2, <3>1, ModUnique, Zenon
    <3> QED
      BY <1>5, <1>6, <3>2
  <2> QED
    BY <1>4, <2>1, <2>2
<1> QED
  BY <1>4, <1>5, <1>6, Zenon DEF w

\* The slot of the next generation.
LEMMA NextSlotIs ==
    ASSUME NEW n \in Int
    PROVE  /\ n % N \in Slots /\ n % N \in Int /\ (n + 1) % N \in Slots
           /\ (n + 1) % N = (IF n % N = N - 1 THEN 0 ELSE (n % N) + 1)
           /\ (n + 1) % N # n % N
<1> DEFINE t == n % N
           q == n \div N
           e == (n + 1) % N
<1>1. N \in Nat \ {0} /\ N \in Int /\ N >= 2 /\ Slots = 0 .. (N - 1)
  BY RingSize DEF Slots
<1>2. t \in 0 .. (N - 1) /\ n = N * q + t /\ q \in Int /\ t \in Int
  <2>1. t \in 0 .. (N - 1) /\ n = N * q + t /\ q \in Int
    BY <1>1, ModFacts, Zenon
  <2> QED
    BY <1>1, <2>1
<1>3. e = (n + 1) % N /\ n + 1 \in Int
  OBVIOUS
<1> HIDE DEF t, q, e
<1>4. N * q \in Int /\ q + 1 \in Int /\ N * (q + 1) = N * q + N
  BY <1>1, <1>2
<1>5. ASSUME t = N - 1 PROVE e = 0
  <2>1. n + 1 = N * (q + 1) + 0 /\ 0 \in 0 .. (N - 1)
    BY <1>1, <1>2, <1>4, <1>5
  <2> QED
    BY <1>1, <1>3, <1>4, <2>1, ModIs, Zenon
<1>6. ASSUME t # N - 1 PROVE e = t + 1
  <2> DEFINE u == t + 1
             a == n + 1
  <2>1. a = N * q + u /\ u \in 0 .. (N - 1) /\ a \in Int
    BY <1>1, <1>2, <1>4, <1>6
  <2>2. e = a % N
    BY <1>3
  <2> HIDE DEF u, a
  <2>3. a % N = u
    BY <1>1, <1>2, <2>1, ModIs
  <2> QED
    BY <2>2, <2>3 DEF u
<1>7. e = (IF t = N - 1 THEN 0 ELSE t + 1)
  BY <1>5, <1>6
<1>8. t \in Slots /\ t \in Int /\ e \in Slots /\ e # t
  BY <1>1, <1>2, <1>7
<1> QED
  BY <1>7, <1>8 DEF t, e

\* What a ring without a gap holds, slot by slot.
LEMMA RunSlots ==
    ASSUME NEW ring, IsRing(ring), Lapped(ring), NEW lo \in Nat, NEW n \in Int,
           n >= -1, Run(ring, lo, n), NEW s \in Slots
    PROVE  /\ ring[s] >= 0 => ring[s] = LastAt(n, s) /\ lo <= LastAt(n, s)
           /\ LastAt(n, s) >= lo /\ s # (n + 1) % N => ring[s] = LastAt(n, s)
<1>1. N \in Int /\ N >= 2 /\ ring[s] \in Int
  BY RingSize DEF IsRing
<1>2. /\ LastAt(n, s) \in Int /\ n - N < LastAt(n, s) /\ LastAt(n, s) <= n
      /\ LastAt(n, s) % N = s
      /\ \A g \in Int : n - N < g /\ g <= n /\ g % N = s => g = LastAt(n, s)
  BY LastAtFacts
<1>3. ASSUME ring[s] >= 0
      PROVE  ring[s] = LastAt(n, s) /\ lo <= LastAt(n, s)
  <2>1. lo <= ring[s] /\ ring[s] <= n
    BY <1>3 DEF Run
  <2>2. n \in 0 .. n /\ n - N + 1 < n /\ lo <= n
    BY <1>1, <1>3, <2>1
  <2>3. ring[n % N] = n /\ n % N \in Slots
    BY <2>2, NextSlotIs DEF Run
  <2>4. n - ring[s] < N /\ ring[s] % N = s
    BY <1>3, <2>2, <2>3 DEF Lapped
  <2>5. n - N < ring[s]
    BY <1>1, <2>4
  <2>6. ring[s] = LastAt(n, s)
    BY <1>1, <1>2, <2>1, <2>4, <2>5
  <2> QED
    BY <2>1, <2>6
<1>4. ASSUME LastAt(n, s) >= lo, s # (n + 1) % N
      PROVE  ring[s] = LastAt(n, s)
  <2> DEFINE w == LastAt(n, s)
  <2>1. w # (n - N) + 1
    <3>1. SUFFICES ASSUME w = (n - N) + 1 PROVE FALSE
      OBVIOUS
    <3>2. w + N = n + 1 /\ w \in Int /\ N \in Nat \ {0}
      BY <1>1, <1>2, <3>1, RingSize
    <3>3. (w + N) % N = w % N
      BY <3>2, ModLap
    <3> QED
      BY <1>2, <1>4, <3>2, <3>3
  <2>2. w \in Int /\ n - N < w /\ w <= n /\ w >= lo
    BY <1>2, <1>4
  <2>3. w % N = s
    BY <1>2
  <2> HIDE DEF w
  <2>4. w \in 0 .. n /\ n - N + 1 < w /\ lo <= w
    BY <1>1, <2>1, <2>2
  <2> QED
    BY <2>3, <2>4 DEF Run, w
<1> QED
  BY <1>3, <1>4

\* So it is of the shape the bisection takes, wherever it begins.
LEMMA RunIsShaped ==
    ASSUME NEW ring, IsRing(ring), Lapped(ring), NEW lo \in Nat, NEW n \in Int,
           n >= -1, Run(ring, lo, n)
    PROVE  Shaped(ring)
<1> DEFINE t == n % N
           c == n - (n % N)
           e == (n + 1) % N
<1>1. /\ N \in Int /\ N >= 2 /\ t \in Int /\ c \in Int /\ e \in Int /\ 0 <= t /\ t < N
      /\ e = (IF t = N - 1 THEN 0 ELSE t + 1)
  BY RingSize, NextSlotIs DEF Slots
<1>2. \A s \in Slots : /\ s \in Int /\ 0 <= s /\ s < N /\ ring[s] \in Int
                       /\ LastAt(n, s) = (IF s <= t THEN c + s ELSE (c + s) - N)
                       /\ ring[s] = Corrupt => s = e
  BY RingSize DEF IsRing, Slots, LastAt, Run
<1>3. \A s \in Slots : /\ ring[s] >= 0 => ring[s] = LastAt(n, s) /\ lo <= LastAt(n, s)
                       /\ LastAt(n, s) >= lo /\ s # e => ring[s] = LastAt(n, s)
  BY RunSlots
<1> HIDE DEF t, c, e
<1>4. ASSUME NEW p \in Slots, NEW m \in Slots, NEW s \in Slots, p < m, m < s,
             ring[p] = Empty, ring[m] = Corrupt
      PROVE  ring[s] < 0
  <2>1. m = e /\ m = t + 1 /\ p <= t /\ ~(s <= t) /\ p # e
    BY <1>1, <1>2, <1>4
  <2>2. ~(c + p >= lo)
    <3>1. LastAt(n, p) = c + p
      BY <1>2, <2>1
    <3>2. ring[p] < 0
      BY <1>4 DEF Empty
    <3> QED
      BY <1>1, <1>2, <1>3, <2>1, <3>1, <3>2
  <2>3. LastAt(n, s) = (c + s) - N
    BY <1>2, <2>1
  <2>4. ~(lo <= LastAt(n, s))
    BY <1>1, <1>2, <2>2, <2>3
  <2> QED
    BY <1>2, <1>3, <2>4
<1>5. ASSUME NEW p \in Slots, NEW m \in Slots, NEW s \in Slots, p < m, m < s,
             ring[p] = Empty, ring[m] >= 0, ring[s] >= 0
      PROVE  ring[m] < ring[s]
  <2>1. CASE m <= t /\ ~(s <= t)
    <3>1. p <= t /\ p # e /\ ring[p] < 0
      BY <1>1, <1>2, <1>5, <2>1 DEF Empty
    <3>2. ~(c + p >= lo)
      BY <1>1, <1>2, <1>3, <3>1
    <3>3. lo <= (c + s) - N
      BY <1>2, <1>3, <1>5, <2>1
    <3> QED
      BY <1>1, <1>2, <3>2, <3>3
  <2>2. CASE ~(m <= t /\ ~(s <= t))
    <3>1. ring[m] = LastAt(n, m) /\ ring[s] = LastAt(n, s)
      BY <1>3, <1>5
    <3> QED
      BY <1>1, <1>2, <1>5, <2>2, <3>1
  <2> QED
    BY <2>1, <2>2
<1>6. ASSUME NEW p \in Slots, NEW m \in Slots, NEW s \in Slots, p < m, m < s,
             ring[p] >= 0, ring[m] < 0, ring[s] >= 0
      PROVE  ring[s] < ring[p]
  <2>1. ring[p] = LastAt(n, p) /\ ring[s] = LastAt(n, s) /\ lo <= LastAt(n, p)
    BY <1>3, <1>6
  <2>2. CASE p <= t /\ ~(s <= t)
    BY <1>1, <1>2, <2>1, <2>2
  <2>3. CASE ~(p <= t /\ ~(s <= t))
    <3>1. m # e /\ lo <= LastAt(n, m)
      BY <1>1, <1>2, <1>6, <2>1, <2>3
    <3>2. ring[m] = LastAt(n, m)
      BY <1>2, <1>3, <3>1
    <3> QED
      BY <1>2, <1>6, <3>1, <3>2
  <2> QED
    BY <2>2, <2>3
<1> QED
  BY <1>4, <1>5, <1>6 DEF Shaped

\* On a ring without a gap the bisection finds the newest entry or none; once a
\* lap is full, it finds it (Ring::search).
LEMMA RunFound ==
    ASSUME NEW ring, IsRing(ring), Lapped(ring), NEW lo \in Nat, NEW n \in Int,
           n >= lo - 1, Run(ring, lo, n)
    PROVE  /\ Search(ring) = Empty \/ Search(ring) = n
           /\ lo <= (n + 1) - N => Search(ring) = n
<1> DEFINE v == Search(ring)
<1>1. /\ 0 \in 0 .. N /\ N - 1 \in Slots /\ 0 .. (N - 1) = Slots
      /\ N \in Int /\ N >= 2 /\ n >= -1
  BY RingSize DEF Slots
<1>2. /\ v \in Int /\ v >= Empty
      /\ v = Empty \/ \E s \in Slots : v = ring[s]
  BY SearchIsEntry
<1>3. Shaped(ring)
  BY <1>1, RunIsShaped
<1>4. v = SearchFcn(ring)[<<0, N - 1>>]
  BY SearchUnfolds
<1>5. Sure(SearchFcn(ring)[<<0, N - 1>>], ring, 0, N - 1)
  BY <1>1, <1>3, SearchSure, Zenon
<1> HIDE DEF v
<1>6. v = Empty \/ \A s \in Slots : ring[s] <= v
  BY <1>1, <1>4, <1>5 DEF Sure
<1>7. ASSUME lo <= n PROVE ring[n % N] = n /\ n % N \in Slots
  <2>1. n \in 0 .. n /\ n - N + 1 < n
    BY <1>1, <1>7
  <2> QED
    BY <1>7, <2>1, NextSlotIs DEF Run
<1>8. ASSUME v # Empty PROVE v = n
  <2>1. v >= 0
    BY <1>2, <1>8 DEF Empty
  <2>2. lo <= v /\ v <= n
    BY <1>2, <1>8, <2>1 DEF Run
  <2>3. n <= v
    BY <1>2, <1>6, <1>7, <1>8, <2>2
  <2> QED
    BY <1>2, <2>2, <2>3
<1>9. ASSUME lo <= (n + 1) - N PROVE v # Empty
  <2>1. \A s \in Slots : ring[s] # Empty
    <3> TAKE s \in Slots
    <3>1. CASE s = (n + 1) % N
      BY <1>9, <3>1 DEF Run
    <3>2. CASE s # (n + 1) % N
      <4>1. LastAt(n, s) \in Int /\ n - N < LastAt(n, s)
        BY LastAtFacts
      <4>2. LastAt(n, s) >= lo /\ LastAt(n, s) >= 0
        BY <1>1, <1>9, <4>1
      <4>3. ring[s] = LastAt(n, s)
        BY <1>1, <3>2, <4>2, RunSlots
      <4> QED
        BY <4>2, <4>3 DEF Empty
    <3> QED
      BY <3>1, <3>2
  <2>2. FilledFromZero(ring)
    BY <2>1 DEF FilledFromZero
  <2>3. \A s \in Slots : ring[s] <= v
    BY <1>1, <1>4, <2>2, SearchBounds
  <2>4. lo <= n /\ n >= 0
    BY <1>1, <1>9
  <2>5. n <= v
    BY <1>7, <2>3, <2>4
  <2> QED
    BY <1>2, <2>4, <2>5 DEF Empty
<1> QED
  BY <1>8, <1>9 DEF v

\* The next entry leaves no gap (Ring::append).
LEMMA RunAppend ==
    ASSUME NEW ring, IsRing(ring), Lapped(ring), NEW lo \in Nat, NEW n \in Int,
           n >= lo - 1, Run(ring, lo, n),
           NEW new, new = [ring EXCEPT ![(n + 1) % N] = n + 1]
    PROVE  Run(new, lo, n + 1)
<1> DEFINE p == (n + 1) % N
           m == n + 1
<1>1. N \in Int /\ N >= 2 /\ N \in Nat \ {0} /\ n >= -1 /\ m \in Int /\ m >= 0 /\ m = n + 1
  BY RingSize
<1>2. p \in Slots /\ p = m % N
  BY NextSlotIs
<1>3. new[p] = m /\ \A s \in Slots : s # p => new[s] = ring[s]
  BY <1>2 DEF IsRing
<1>4. \A s \in Slots : ring[s] \in Int
  BY DEF IsRing
<1>5. (m + 1) % N \in Slots /\ (m + 1) % N # p
  BY <1>1, <1>2, NextSlotIs
<1>6. Run(ring, lo, n) /\ \A s \in Slots : ring[s] = Corrupt => s = p
  BY DEF Run
<1> HIDE DEF p, m
<1>7. \A s \in Slots : new[s] >= 0 => lo <= new[s] /\ new[s] <= m
  BY <1>1, <1>3, <1>4 DEF Run
<1>8. ASSUME NEW g \in 0 .. m, m - N + 1 < g, lo <= g
      PROVE  new[g % N] = g
  <2>1. CASE g = m
    BY <1>2, <1>3, <2>1
  <2>2. CASE g # m
    <3>1. g \in 0 .. n /\ n - N + 1 < g /\ g < m /\ m < g + N /\ g \in Int
      BY <1>1, <1>8, <2>2
    <3>2. ring[g % N] = g
      BY <1>8, <3>1 DEF Run
    <3>3. g % N # m % N
      BY <1>1, <3>1, ModUnique, Zenon
    <3>4. g % N \in Slots
      BY <3>1, NextSlotIs
    <3> QED
      BY <1>2, <1>3, <3>2, <3>3, <3>4
  <2> QED
    BY <2>1, <2>2
<1>9. ASSUME NEW s \in Slots, new[s] = Corrupt PROVE s = (m + 1) % N
  BY <1>1, <1>3, <1>6, <1>9 DEF Corrupt
<1>10. ASSUME lo <= (m + 1) - N PROVE new[(m + 1) % N] # Empty
  <2> DEFINE w == (m + 1) - N
             s == (m + 1) % N
  <2>1. w \in Int /\ n - N < w /\ w <= n /\ w >= 0 /\ w + N = m + 1 /\ w >= lo
    BY <1>1, <1>10
  <2>2. (w + N) % N = w % N
    BY <1>1, <2>1, ModLap
  <2>3. w % N = s /\ s \in Slots /\ s # p
    BY <1>5, <2>1, <2>2
  <2> HIDE DEF w, s
  <2>4. w = LastAt(n, s)
    BY <2>1, <2>3, LastAtFacts
  <2>5. s # (n + 1) % N
    BY <2>3 DEF p
  <2>6. ring[s] = w
    BY <1>1, <2>1, <2>3, <2>4, <2>5, RunSlots
  <2>7. new[s] = w
    BY <1>3, <2>3, <2>6
  <2> QED
    BY <2>1, <2>7 DEF Empty, s
<1> QED
  BY <1>7, <1>8, <1>9, <1>10 DEF Run, m

\* A torn one leaves none either.
LEMMA RunTorn ==
    ASSUME NEW ring, IsRing(ring), NEW lo \in Nat, NEW n \in Int, n >= -1,
           Run(ring, lo, n), NEW new, new = [ring EXCEPT ![(n + 1) % N] = Corrupt]
    PROVE  Run(new, lo, n)
<1> DEFINE p == (n + 1) % N
<1>1. N \in Int /\ N >= 2 /\ N \in Nat \ {0} /\ n + 1 \in Int
  BY RingSize
<1>2. p \in Slots /\ p = (n + 1) % N
  BY NextSlotIs
<1>3. new[p] = Corrupt /\ \A s \in Slots : s # p => new[s] = ring[s]
  BY <1>2 DEF IsRing
<1>4. \A s \in Slots : ring[s] = Corrupt => s = p
  BY DEF Run
<1> HIDE DEF p
<1>5. \A s \in Slots : new[s] >= 0 => lo <= new[s] /\ new[s] <= n
  BY <1>3 DEF Run, Corrupt
<1>6. ASSUME NEW g \in 0 .. n, n - N + 1 < g, lo <= g
      PROVE  new[g % N] = g
  <2>1. g \in Int /\ g < n + 1 /\ n + 1 < g + N
    BY <1>1, <1>6
  <2>2. ring[g % N] = g
    BY <1>6 DEF Run
  <2>3. g % N # (n + 1) % N
    BY <1>1, <2>1, ModUnique, Zenon
  <2>4. g % N \in Slots
    BY <2>1, NextSlotIs
  <2> QED
    BY <1>2, <1>3, <2>2, <2>3, <2>4
<1>7. \A s \in Slots : new[s] = Corrupt => s = p
  BY <1>3, <1>4
<1>8. new[p] # Empty
  BY <1>3 DEF Empty, Corrupt
<1> QED
  BY <1>2, <1>5, <1>6, <1>7, <1>8 DEF Run

\* Beyond a lap it does not matter where the ring began.
LEMMA RunLow ==
    ASSUME NEW ring, IsRing(ring), NEW lo \in Nat, NEW n \in Int,
           lo <= (n - N) + 1, Run(ring, lo, n)
    PROVE  Run(ring, 0, n)
<1>1. N \in Int /\ N >= 2 /\ lo <= (n + 1) - N
  BY RingSize
<1>2. \A g \in 0 .. n : n - N + 1 < g => lo <= g
  BY <1>1
<1>3. \A s \in Slots : ring[s] >= 0 => 0 <= ring[s] /\ ring[s] <= n
  BY DEF IsRing, Run
<1> QED
  BY <1>1, <1>2, <1>3 DEF Run

\* A cleared ring has no gap, whatever comes next (zero_ring_at).
LEMMA RunCleared ==
    ASSUME NEW ring, NEW lo \in Nat, \A s \in Slots : ring[s] = Empty
    PROVE  Run(ring, lo, lo - 1)
<1>1. N \in Int /\ N >= 2
  BY RingSize
<1>2. ~(lo <= ((lo - 1) + 1) - N)
  BY <1>1
<1>3. \A g \in 0 .. (lo - 1) : ~(lo <= g)
  OBVIOUS
<1>4. \A s \in Slots : ~(ring[s] >= 0) /\ ring[s] # Corrupt
  BY DEF Empty, Corrupt
<1> QED
  BY <1>2, <1>3, <1>4 DEF Run

(***************************************************************************)
(* The ring through hops and fallbacks.                                    *)
(***************************************************************************)
\* The ring is at the residence the root e names, from e.since on; until an
\* append returned there, the residence before still has a whole lap.
AtHome(rs, e, n, d) ==
    /\ Run(rs[e.at], e.since, n) /\ e.since - 1 <= n /\ d <= n
    /\ e.was # e.at => \A s \in Slots : rs[e.was][s] < e.since
    /\ e.was # e.at /\ d < e.since => Run(rs[e.was], 0, e.since - 1) /\ N <= e.since

\* The ring is at the residence before, where it goes on from a whole lap; what a
\* torn write left at the residence the root names is not found, until the hop
\* away from here clears it.
FellBack(rs, e, n, d) ==
    /\ e.was # e.at /\ Run(rs[e.was], 0, n) /\ N - 1 <= n /\ d <= n
    /\ \A s \in Slots : rs[e.at][s] < e.since + N
    /\ Search(rs[e.at]) = Empty \/ d >= e.since + N

\* The ring is at b, one of the two.
Placed(rs, e, b, n, d) ==
    \/ b = e.at /\ AtHome(rs, e, n, d)
    \/ b = e.was /\ FellBack(rs, e, n, d)

\* While no slot is lost and no open went back, a session has the ring at one of
\* the two, and an open will find it there; a hop begins with a whole lap.
Stays ==
    migrating /\ rots = 0 /\ ~behind =>
        /\ Running /\ root # NoRoot => Placed(rings, root, base, head, durable)
        /\ ~Running /\ ReadRoot # NoRoot =>
              \E n \in Entries \cup {-1} :
                  \/ AtHome(rings, ReadRoot, n, durable)
                  \/ FellBack(rings, ReadRoot, n, durable)
        /\ pc \in {"zero", "root"} /\ root # NoRoot =>
              head - root.since >= N /\ durable = head

\* The same of the next state.
LEMMA StaysNext ==
    ASSUME migrating' = migrating
    PROVE  /\ Placed(rings', root', base', head', durable')
                 => Placed(rings, root, base, head, durable)'
           /\ \A n \in Entries \cup {-1} :
                 /\ AtHome(rings', ReadRoot', n, durable')
                       => AtHome(rings, ReadRoot, n, durable)'
                 /\ FellBack(rings', ReadRoot', n, durable')
                       => FellBack(rings, ReadRoot, n, durable)'
<1>1. N' = N /\ Slots' = Slots
  BY Sizes
<1>2. Search(rings[root.at])' = Search(rings'[root'.at])
  BY <1>1 DEF Search, Spans
<1>3. Search(rings[ReadRoot.at])' = Search(rings'[ReadRoot'.at])
  BY <1>1 DEF Search, Spans
<1>4. AtHome(rings', root', head', durable') => AtHome(rings, root, head, durable)'
  BY <1>1 DEF AtHome, Run
<1>5. FellBack(rings', root', head', durable') => FellBack(rings, root, head, durable)'
  BY <1>1, <1>2 DEF FellBack, Run
<1>6. Placed(rings', root', base', head', durable')
         => Placed(rings, root, base, head, durable)'
  BY <1>4, <1>5 DEF Placed
<1>7. ASSUME NEW n \in Entries \cup {-1}
      PROVE  /\ AtHome(rings', ReadRoot', n, durable') => AtHome(rings, ReadRoot, n, durable)'
             /\ FellBack(rings', ReadRoot', n, durable')
                   => FellBack(rings, ReadRoot, n, durable)'
  <2>1. AtHome(rings', ReadRoot', n, durable') => AtHome(rings, ReadRoot, n, durable)'
    BY <1>1 DEF AtHome, Run
  <2>2. FellBack(rings', ReadRoot', n, durable') => FellBack(rings, ReadRoot, n, durable)'
    BY <1>1, <1>3 DEF FellBack, Run
  <2> QED
    BY <2>1, <2>2
<1> QED
  BY <1>6, <1>7

\* What a session's root names.
LEMMA RootNames ==
    ASSUME SpineInv, migrating, Running, root # NoRoot
    PROVE  /\ root.at \in Band /\ root.was \in Band /\ root.since \in Nat
           /\ durable \in Int /\ root \in RootEntry
<1>1. root \in RootEntry /\ durable \in Int
  BY InvFacts, Sizes DEF SpineInv, TypeOK
<1>2. roots[root.gen % RootSlots] = root
  BY DEF SpineInv, RootHeld
<1>3. root.gen % RootSlots \in 0 .. (RootSlots - 1)
  BY <1>1, RootSlot
<1>4. root.at \in Band /\ root.was \in Band
  BY <1>2, <1>3 DEF SpineInv, RootSlotted
<1>5. root.since \in Nat
  BY <1>1 DEF RootEntry
<1> QED
  BY <1>1, <1>4, <1>5

\* An entry, written or torn, leaves the ring where it is without a gap
\* (Ring::append).
LEMMA PlacedAppend ==
    ASSUME SpineInv, migrating, pc \in {"append", "beat"}, root # NoRoot,
           Placed(rings, root, base, head, durable), NEW c \in {Corrupt, head + 1},
           rings' = [rings EXCEPT ![base][NextSlot] = c],
           NEW n, (c = Corrupt /\ n = head) \/ (c = head + 1 /\ n = head + 1),
           NEW d, d = durable \/ (d = n /\ n = head + 1)
    PROVE  Placed(rings', root, base, n, d)
<1>1. /\ root.at \in Band /\ root.was \in Band /\ root.since \in Nat
      /\ durable \in Int /\ head \in Int /\ head >= -1 /\ base \in Band
  BY RootNames, InvFacts DEF Running
<1>2. /\ rings'[base] = [rings[base] EXCEPT ![(head + 1) % N] = c]
      /\ \A r \in Band : r # base => rings'[r] = rings[r]
  BY EntryWrite DEF NextSlot
<1>3. IsRing(rings[base]) /\ Lapped(rings[base])
  BY <1>1, InvFacts
<1>4. /\ n \in Int /\ head <= n /\ n <= head + 1 /\ d \in Int /\ N \in Int
      /\ d = durable \/ (d = head + 1 /\ n = head + 1)
  BY <1>1, RingSize
<1>5. ASSUME NEW lo \in Nat, head >= lo - 1, Run(rings[base], lo, head)
      PROVE  Run(rings'[base], lo, n)
  <2>1. CASE c = Corrupt /\ n = head
    BY <1>1, <1>2, <1>3, <1>5, <2>1, RunTorn
  <2>2. CASE c = head + 1 /\ n = head + 1
    BY <1>1, <1>2, <1>3, <1>5, <2>2, RunAppend
  <2> QED
    BY <2>1, <2>2
<1>6. CASE base = root.at /\ AtHome(rings, root, head, durable)
  <2>1. /\ Run(rings[base], root.since, head) /\ root.since - 1 <= head
        /\ durable <= head
    BY <1>6 DEF AtHome
  <2>2. Run(rings'[root.at], root.since, n) /\ root.since - 1 <= n /\ d <= n
    BY <1>1, <1>4, <1>5, <1>6, <2>1
  <2>3. root.was # root.at => rings'[root.was] = rings[root.was]
    BY <1>1, <1>2, <1>6
  <2>4. d < root.since => durable < root.since
    BY <1>1, <1>4, <2>1
  <2>5. AtHome(rings', root, n, d)
    BY <1>6, <2>2, <2>3, <2>4 DEF AtHome
  <2> QED
    BY <1>6, <2>5 DEF Placed
<1>7. CASE base = root.was /\ FellBack(rings, root, head, durable)
  <2>1. Run(rings[base], 0, head) /\ N - 1 <= head /\ durable <= head /\ root.was # root.at
    BY <1>7 DEF FellBack
  <2>2. Run(rings'[root.was], 0, n) /\ N - 1 <= n /\ d <= n /\ durable <= d
    BY <1>1, <1>4, <1>5, <1>7, <2>1
  <2>3. rings'[root.at] = rings[root.at]
    BY <1>1, <1>2, <1>7, <2>1
  <2>4. durable >= root.since + N => d >= root.since + N
    BY <1>1, <1>4, <2>2
  <2>5. FellBack(rings', root, n, d)
    BY <1>7, <2>1, <2>2, <2>3, <2>4 DEF FellBack
  <2> QED
    BY <1>7, <2>5 DEF Placed
<1> QED
  BY <1>6, <1>7 DEF Placed

\* So does the clearing of the next residence (zero_ring_at).
LEMMA PlacedZero ==
    ASSUME SpineInv, migrating, pc = "zero", root # NoRoot,
           Placed(rings, root, base, head, durable),
           head - root.since >= N, durable = head, NEW c \in {Empty, Corrupt},
           rings' = [rings EXCEPT ![NextRoot.at][zeroed] = c]
    PROVE  Placed(rings', root, base, head, durable)
<1>1. /\ root.at \in Band /\ root.was \in Band /\ root.since \in Nat
      /\ durable \in Int /\ head \in Int /\ head >= -1 /\ base \in Band
      /\ N \in Int /\ N >= 2
  BY RootNames, InvFacts, RingSize DEF Running
<1>2. NextRoot.at # base /\ NextRoot.at \in Band
  BY <1>1, InvFacts, NextRootFacts
<1>3. zeroed \in Slots
  BY <1>1 DEF SpineInv, NextCleared, TypeOK, Slots
<1>4. /\ \A r \in Band : r # NextRoot.at => rings'[r] = rings[r]
      /\ rings'[NextRoot.at] = [rings[NextRoot.at] EXCEPT ![zeroed] = c]
  BY <1>2, <1>3, SlotLoss
<1>5. \A r \in Band, s \in Slots : rings'[r][s] = rings[r][s] \/ rings'[r][s] < 0
  <2> TAKE r \in Band, s \in Slots
  <2>1. c < 0
    BY DEF Empty, Corrupt
  <2> QED
    BY <1>2, <1>3, <1>4, <2>1, InvFacts DEF IsRing
<1>6. ASSUME NEW r \in Band, NEW b \in Nat, \A s \in Slots : rings[r][s] < b
      PROVE  \A s \in Slots : rings'[r][s] < b
  <2> TAKE s \in Slots
  <2>1. rings'[r] \in [Slots -> Entries \cup {Empty, Corrupt}]
    BY <1>2, <1>3, SlotLoss
  <2>2. rings'[r][s] \in Int
    <3>1. rings'[r][s] \in Entries \cup {Empty, Corrupt}
      BY <2>1
    <3> QED
      BY <3>1, Sizes DEF Empty, Corrupt
  <2> QED
    BY <1>5, <1>6, <2>2
<1>7. rings'[base] = rings[base]
  BY <1>1, <1>2, <1>4
<1>8. CASE base = root.at /\ AtHome(rings, root, head, durable)
  <2>1. root.was # root.at => \A s \in Slots : rings'[root.was][s] < root.since
    BY <1>1, <1>6, <1>8 DEF AtHome
  <2>2. ~(durable < root.since)
    BY <1>1
  <2>3. AtHome(rings', root, head, durable)
    BY <1>7, <1>8, <2>1, <2>2 DEF AtHome
  <2> QED
    BY <1>8, <2>3 DEF Placed
<1>9. CASE base = root.was /\ FellBack(rings, root, head, durable)
  <2>1. root.since + N \in Nat /\ durable >= root.since + N
    BY <1>1
  <2>2. \A s \in Slots : rings'[root.at][s] < root.since + N
    BY <1>1, <1>6, <1>9, <2>1 DEF FellBack
  <2>3. FellBack(rings', root, head, durable)
    BY <1>7, <1>9, <2>1, <2>2 DEF FellBack
  <2> QED
    BY <1>9, <2>3 DEF Placed
<1> QED
  BY <1>8, <1>9 DEF Placed

\* The first root, and a hop, begin a ring at the residence they name
\* (Vault::migrate_ring).
LEMMA PlacedHop ==
    ASSUME SpineInv, HomeInv, migrating, pc = "root",
           root # NoRoot => /\ Placed(rings, root, base, head, durable)
                            /\ head - root.since >= N /\ durable = head
    PROVE  AtHome(rings, NextRoot, head, durable)
<1>1. \A s \in Slots : rings[NextRoot.at][s] = Empty
  BY DEF SpineInv, NextCleared
<1>2. /\ head \in Int /\ head >= -1 /\ base \in Band /\ N \in Int /\ N >= 2
      /\ durable \in Int
  <2>1. durable \in Entries \cup {-1}
    BY DEF SpineInv, TypeOK
  <2> QED
    BY <2>1, InvFacts, RingSize, Sizes
<1>3. /\ NextRoot.was = base /\ NextRoot \in RootEntry
      /\ root = NoRoot => NextRoot.at = 0
      /\ root # NoRoot => NextRoot.at # base
      /\ root # NoRoot => NextRoot.since = head + 1
  BY <1>2, InvFacts, NextRootFacts
<1>4. CASE root = NoRoot
  <2>1. head = -1 /\ NothingWritten
    BY <1>4 DEF SpineInv, RootHeld, Running
  <2>2. NextRoot.since = 0 /\ root.at = 0 /\ root.was = 0
    BY <1>4 DEF NextRoot, NoRoot
  <2>3. base = 0
    BY <2>2 DEF HomeInv, BaseNamed, Running
  <2>4. durable <= -1
    <3>1. SUFFICES ASSUME durable >= 0 PROVE FALSE
      BY <1>2
    <3>2. PICK r \in {root.at, root.was}, s \in Slots : rings[r][s] >= durable
      BY <3>1 DEF HomeInv, Carried, Running
    <3>3. rings[r][s] < 0 /\ rings[r][s] \in Int
      BY <2>1, <2>2, <3>2, Sizes, InvFacts DEF NothingWritten, IsRing
    <3> QED
      BY <1>2, <3>1, <3>2, <3>3
  <2>5. Run(rings[NextRoot.at], 0, 0 - 1)
    BY <1>1, RunCleared
  <2>6. 0 - 1 = -1
    OBVIOUS
  <2> QED
    BY <1>3, <1>4, <2>1, <2>2, <2>3, <2>4, <2>5, <2>6 DEF AtHome
<1>5. CASE root # NoRoot
  <2>1. /\ root.since \in Nat /\ root.at \in Band /\ root.was \in Band
        /\ NextRoot.since = head + 1 /\ durable = head /\ head >= N /\ head + 1 \in Nat
    BY <1>2, <1>3, <1>5, RootNames DEF Running
  <2>2. Run(rings[NextRoot.at], head + 1, (head + 1) - 1) /\ (head + 1) - 1 = head
    BY <1>1, <1>2, <2>1, RunCleared
  <2>3. Run(rings[base], 0, head)
    <3>1. CASE base = root.at /\ AtHome(rings, root, head, durable)
      <4>1. Run(rings[base], root.since, head) /\ root.since <= (head - N) + 1
        BY <1>2, <1>5, <2>1, <3>1 DEF AtHome
      <4> QED
        BY <1>2, <2>1, <4>1, InvFacts, RunLow
    <3>2. CASE base = root.was /\ FellBack(rings, root, head, durable)
      BY <3>2 DEF FellBack
    <3> QED
      BY <1>5, <3>1, <3>2 DEF Placed
  <2>4. \A s \in Slots : rings[base][s] < head + 1
    <3> TAKE s \in Slots
    <3>1. rings[base][s] \in Int
      BY <1>2, InvFacts DEF IsRing
    <3>2. rings[base][s] >= 0 => rings[base][s] <= head
      BY <2>3 DEF Run
    <3> QED
      BY <1>2, <2>1, <3>1, <3>2
  <2> QED
    BY <1>2, <1>3, <1>5, <2>1, <2>2, <2>3, <2>4 DEF AtHome
<1> QED
  BY <1>4, <1>5

\* An open finds the ring where it is, goes back to the residence before and goes
\* on there, or goes back behind what returned (Vault::resume_migrating).
LEMMA PlacedOpen ==
    ASSUME SpineInv, ReadRoot # NoRoot, NEW n \in Int, n >= -1,
           \/ AtHome(rings, ReadRoot, n, durable)
           \/ FellBack(rings, ReadRoot, n, durable),
           Search(rings[FoundAt]) # Empty, Search(rings[FoundAt]) >= durable
    PROVE  Placed(rings, ReadRoot, FoundAt, Search(rings[FoundAt]), durable)
<1> DEFINE e == ReadRoot
           v == Search(rings[FoundAt])
<1>1. /\ e \in RootEntry /\ e.at \in Band /\ e.was \in Band /\ FoundAt \in Band
      /\ e.since \in Nat /\ N \in Int /\ N >= 2 /\ durable \in Int
  BY FoundInBand, RingSize, Sizes DEF RootEntry, SpineInv, TypeOK
<1>2. v \in Int /\ v >= 0 /\ \E s \in Slots : v = rings[FoundAt][s]
  BY <1>1, HeadFound, Sizes
<1>3. FoundAt = IF Search(rings[e.at]) = Empty THEN e.was ELSE e.at
  BY DEF FoundAt
<1>4. \A r \in Band : IsRing(rings[r]) /\ Lapped(rings[r])
  BY InvFacts
<1>5. v = Search(rings[FoundAt]) /\ v # Empty /\ v >= durable
  OBVIOUS
<1> HIDE DEF e, v
<1>6. CASE AtHome(rings, e, n, durable)
  <2>1. /\ Run(rings[e.at], e.since, n) /\ n >= e.since - 1 /\ durable <= n
        /\ Search(rings[e.at]) = Empty \/ Search(rings[e.at]) = n
        /\ e.since <= (n + 1) - N => Search(rings[e.at]) = n
    <3>1. Run(rings[e.at], e.since, n) /\ n >= e.since - 1 /\ durable <= n
      BY <1>1, <1>6 DEF AtHome
    <3> QED
      BY <1>1, <1>4, <3>1, RunFound
  <2>2. CASE Search(rings[e.at]) # Empty
    <3>1. FoundAt = e.at /\ v = n
      BY <1>3, <1>5, <2>1, <2>2
    <3> QED
      BY <1>6, <3>1 DEF Placed, v, e
  <2>3. CASE Search(rings[e.at]) = Empty
    <3>1. FoundAt = e.was /\ e.was # e.at
      BY <1>3, <1>5, <2>3
    <3>2. v < e.since
      BY <1>2, <1>6, <3>1 DEF AtHome
    <3>3. durable < e.since
      BY <1>1, <1>2, <1>5, <3>2
    <3>4. Run(rings[e.was], 0, e.since - 1) /\ N <= e.since
      BY <1>6, <3>1, <3>3 DEF AtHome
    <3>5. e.since - 1 \in Int /\ e.since - 1 >= 0 - 1 /\ 0 <= ((e.since - 1) + 1) - N
      BY <1>1, <3>4
    <3>6. v = e.since - 1
      BY <1>1, <1>4, <1>5, <3>1, <3>4, <3>5, RunFound
    <3>7. n + 1 < e.since + N
      <4>1. n # Empty => ~(e.since <= (n + 1) - N)
        BY <2>1, <2>3
      <4> QED
        BY <1>1, <4>1 DEF Empty
    <3>8. \A s \in Slots : rings[e.at][s] < e.since + N
      <4> TAKE s \in Slots
      <4>1. rings[e.at][s] \in Int
        BY <1>1, <1>4 DEF IsRing
      <4>2. rings[e.at][s] >= 0 => rings[e.at][s] <= n
        BY <2>1 DEF Run
      <4> QED
        BY <1>1, <3>7, <4>1, <4>2
    <3>9. N - 1 <= v /\ durable <= v
      BY <1>1, <1>2, <1>5, <3>4, <3>6
    <3>10. FellBack(rings, e, v, durable)
      BY <2>3, <3>1, <3>4, <3>6, <3>8, <3>9 DEF FellBack
    <3> QED
      BY <3>1, <3>10 DEF Placed, v, e
  <2> QED
    BY <2>2, <2>3
<1>7. CASE FellBack(rings, e, n, durable)
  <2>1. Run(rings[e.was], 0, n) /\ N - 1 <= n /\ durable <= n /\ e.was # e.at
    BY <1>7 DEF FellBack
  <2>2. n >= 0 - 1 /\ 0 <= (n + 1) - N
    BY <1>1, <2>1
  <2>3. Search(rings[e.was]) = n
    BY <1>1, <1>4, <2>1, <2>2, RunFound
  <2>4. CASE Search(rings[e.at]) = Empty
    <3>1. FoundAt = e.was /\ v = n
      BY <1>3, <1>5, <2>3, <2>4
    <3> QED
      BY <1>7, <3>1 DEF Placed, v, e
  <2>5. CASE Search(rings[e.at]) # Empty
    <3>1. FoundAt = e.at /\ durable >= e.since + N
      BY <1>3, <1>7, <2>5 DEF FellBack
    <3>2. v < e.since + N
      BY <1>2, <1>7, <3>1 DEF FellBack
    <3> QED
      BY <1>1, <1>2, <1>5, <3>1, <3>2
  <2> QED
    BY <2>4, <2>5
<1> QED
  BY <1>6, <1>7 DEF e

\* The initial state.
LEMMA InitStays == Init => Stays
<1> SUFFICES ASSUME Init PROVE Stays
  OBVIOUS
<1>1. SpineInv
  BY InitSpineInv
<1>2. ReadRoot = NoRoot
  BY <1>1, InvFacts, ReadRootFacts DEF Init
<1> QED
  BY <1>2 DEF Init, Stays, Running

\* After a power cut the ring is at one of the two residences the newest root
\* names.
LEMMA CutStays ==
    ASSUME SpineInv, HomeInv, Stays, migrating, rots = 0, ~behind, PowerCut,
           ReadRoot' # NoRoot
    PROVE  \E n \in Entries \cup {-1} :
               \/ AtHome(rings', ReadRoot', n, durable)
               \/ FellBack(rings', ReadRoot', n, durable)
<1>1. pc # "down" /\ (Tear \/ UNCHANGED media)
  BY DEF PowerCut
<1>2. head \in Entries \cup {-1} /\ head \in Int
  BY InvFacts DEF SpineInv, TypeOK
<1>3. root # NoRoot => Placed(rings, root, base, head, durable)
  BY <1>1 DEF Stays, Running
<1>4. pc \in {"zero", "root"} /\ root # NoRoot => head - root.since >= N /\ durable = head
  BY DEF Stays
<1>5. CASE pc = "root" /\ rings' = rings /\ ReadRoot' = NextRoot
  <2>1. AtHome(rings, NextRoot, head, durable)
    BY <1>3, <1>4, <1>5, PlacedHop
  <2> QED
    BY <1>2, <1>5, <2>1
<1>6. CASE ReadRoot' = root
  <2>1. root # NoRoot /\ Placed(rings, root, base, head, durable)
    BY <1>3, <1>6
  <2>2. CASE rings' = rings
    BY <1>2, <1>6, <2>1, <2>2 DEF Placed
  <2>3. CASE /\ pc \in {"append", "beat"}
             /\ \E c \in {Corrupt, head + 1} : rings' = [rings EXCEPT ![base][NextSlot] = c]
    <3>1. PICK c \in {Corrupt, head + 1} : rings' = [rings EXCEPT ![base][NextSlot] = c]
      BY <2>3
    <3>2. head + 1 \in Entries
      BY <1>2, <2>3, InvFacts, Sizes DEF SpineInv, AppendBounded
    <3>3. CASE c = Corrupt
      <4>1. Placed(rings', root, base, head, durable)
        BY <2>1, <2>3, <3>1, <3>3, PlacedAppend
      <4> QED
        BY <1>2, <1>6, <4>1 DEF Placed
    <3>4. CASE c = head + 1
      <4>1. Placed(rings', root, base, head + 1, durable)
        BY <2>1, <2>3, <3>1, <3>4, PlacedAppend
      <4> QED
        BY <1>6, <3>2, <4>1 DEF Placed
    <3> QED
      BY <3>1, <3>3, <3>4
  <2>4. CASE /\ pc = "zero"
             /\ \E c \in {Corrupt, Empty} :
                    rings' = [rings EXCEPT ![NextRoot.at][zeroed] = c]
    <3>1. PICK c \in {Corrupt, Empty} : rings' = [rings EXCEPT ![NextRoot.at][zeroed] = c]
      BY <2>4
    <3>2. Placed(rings', root, base, head, durable)
      BY <1>4, <2>1, <2>4, <3>1, PlacedZero
    <3> QED
      BY <1>2, <1>6, <3>2 DEF Placed
  <2> QED
    BY <1>1, <2>2, <2>3, <2>4 DEF Tear, media
<1> QED
  BY <1>5, <1>6, CutReads

\* Every step keeps the ring at one of the two.
LEMMA NextStays == SpineInv /\ HomeInv /\ Stays /\ [Next]_vars => Stays'
<1> SUFFICES ASSUME SpineInv, HomeInv, Stays, [Next]_vars PROVE Stays'
  OBVIOUS
<1>0. migrating' = migrating
  BY DEF Next, vars, Genesis, Commit, AppendHeartbeat, Append, ZeroRingAt, AppendRoot,
     PowerCut, Rot, Open
<1>1. SUFFICES ASSUME migrating, rots' = 0, ~behind' PROVE Stays'
  BY <1>0 DEF Stays
<1>2. N' = N /\ N \in Int /\ N >= 2 /\ Entries' = Entries /\ durable \in Int /\ rots \in Nat
  <2>1. durable \in Entries \cup {-1} /\ rots \in Nat
    BY DEF SpineInv, TypeOK
  <2> QED
    BY <1>0, <2>1, Sizes, RingSize
<1>3. ASSUME rots = 0, ~behind
      PROVE  /\ Running /\ root # NoRoot => Placed(rings, root, base, head, durable)
             /\ pc \in {"zero", "root"} /\ root # NoRoot =>
                   head - root.since >= N /\ durable = head
  BY <1>1, <1>3 DEF Stays
<1>4. ASSUME Running', root' # NoRoot => Placed(rings', root', base', head', durable'),
             pc' \in {"zero", "root"} /\ root' # NoRoot =>
                 head' - root'.since >= N /\ durable' = head'
      PROVE  Stays'
  BY <1>0, <1>2, <1>4, StaysNext DEF Stays
<1>5. CASE Genesis
  <2>1. root' = NoRoot /\ pc' = "root"
    BY <1>1, <1>5 DEF Genesis
  <2> QED
    BY <1>4, <2>1 DEF Running
<1>6. CASE Commit \/ AppendHeartbeat
  <2>1. /\ rings' = rings /\ root' = root /\ base' = base /\ head' = head
        /\ durable' = durable /\ rots' = rots /\ behind' = behind
        /\ pc = "idle" /\ pc' \in {"append", "beat"}
    BY <1>6 DEF Commit, AppendHeartbeat, memory, history, media
  <2> QED
    BY <1>1, <1>3, <1>4, <2>1 DEF Running
<1>7. CASE Append
  <2>1. /\ rings' = [rings EXCEPT ![base][NextSlot] = head + 1] /\ root' = root
        /\ base' = base /\ head' = head + 1 /\ durable' = head + 1 /\ rots' = rots
        /\ behind' = behind /\ pc \in {"append", "beat"} /\ pc' \in {"zero", "idle"}
        /\ pc' = "zero" => head' - root.since >= Residency * N
    BY <1>7 DEF Append
  <2>2. root # NoRoot /\ Placed(rings, root, base, head, durable)
    BY <1>1, <1>3, <2>1, InvFacts DEF Running
  <2>3. head + 1 \in {Corrupt, head + 1}
    OBVIOUS
  <2>4. Placed(rings', root, base, head + 1, head + 1)
    BY <1>1, <2>1, <2>2, <2>3, PlacedAppend
  <2>5. pc' = "zero" => head' - root.since >= N
    <3>1. Residency * N \in Int /\ Residency * N >= N
      <4> DEFINE n == N
                 k == Residency
      <4>1. n \in Nat \ {0} /\ k \in Int /\ k >= 1
        BY RingSize, RingAssumption
      <4> HIDE DEF n, k
      <4>2. \A x \in Int : x >= 1 => n * x >= n
        BY <4>1
      <4>3. k * n = n * k /\ k * n \in Int
        BY <4>1
      <4> QED
        BY <4>1, <4>2, <4>3 DEF n, k
    <3>2. head' \in Int /\ root.since \in Int
      BY <1>1, <2>1, <2>2, InvFacts, RootNames DEF Running
    <3> QED
      BY <1>2, <2>1, <3>1, <3>2
  <2> QED
    BY <1>4, <2>1, <2>4, <2>5 DEF Running
<1>8. CASE ZeroRingAt
  <2>1. /\ rings' = [rings EXCEPT ![NextRoot.at][zeroed] = Empty] /\ root' = root
        /\ base' = base /\ head' = head /\ durable' = durable /\ rots' = rots
        /\ behind' = behind /\ pc = "zero" /\ pc' \in {"zero", "root"}
    BY <1>8 DEF ZeroRingAt, history
  <2>2. /\ root # NoRoot /\ Placed(rings, root, base, head, durable)
        /\ head - root.since >= N /\ durable = head
    BY <1>1, <1>3, <2>1, InvFacts DEF Running
  <2>3. Placed(rings', root, base, head, durable)
    BY <1>1, <2>1, <2>2, PlacedZero
  <2> QED
    BY <1>4, <2>1, <2>2, <2>3 DEF Running
<1>9. CASE AppendRoot
  <2>1. /\ rings' = rings /\ root' = NextRoot /\ base' = NextRoot.at /\ head' = head
        /\ durable' = durable /\ rots' = rots /\ behind' = behind
        /\ pc = "root" /\ pc' \in {"append", "idle"}
    BY <1>9 DEF AppendRoot, history
  <2>2. AtHome(rings, NextRoot, head, durable)
    BY <1>1, <1>3, <2>1, PlacedHop DEF Running
  <2>3. Placed(rings', root', base', head', durable')
    BY <2>1, <2>2 DEF Placed
  <2> QED
    BY <1>4, <2>1, <2>3 DEF Running
<1>10. CASE PowerCut
  <2>1. durable' = durable /\ rots' = rots /\ behind' = behind /\ pc' = "down"
    BY <1>10 DEF PowerCut, history
  <2>2. SUFFICES ASSUME ReadRoot' # NoRoot
                 PROVE  \E n \in Entries \cup {-1} :
                            \/ AtHome(rings, ReadRoot, n, durable)'
                            \/ FellBack(rings, ReadRoot, n, durable)'
    BY <1>2, <2>1 DEF Stays, Running
  <2>3. PICK n \in Entries \cup {-1} : \/ AtHome(rings', ReadRoot', n, durable)
                                       \/ FellBack(rings', ReadRoot', n, durable)
    BY <1>1, <1>10, <2>1, <2>2, CutStays
  <2> QED
    BY <1>0, <2>1, <2>3, StaysNext
<1>11. ASSUME NEW s \in Slots, Rot(s) PROVE Stays'
  BY <1>1, <1>2, <1>11 DEF Rot
<1>12. CASE Open
  <2>1. /\ rings' = rings /\ root' = ReadRoot /\ base' = FoundAt
        /\ head' = Search(rings[FoundAt]) /\ durable' = durable /\ rots' = rots
        /\ pc = "down" /\ pc' = "idle" /\ Search(rings[FoundAt]) # Empty
    BY <1>12 DEF Open, Opens, media
  <2>2. ~behind /\ ~(head' < durable)
    <3>1. behind' = (behind \/ head' < durable)
      BY <1>12 DEF Open
    <3> QED
      BY <1>1, <3>1
  <2>3. head' \in Int
    <3>1. FoundAt \in Band
      BY FoundInBand
    <3> QED
      BY <2>1, <3>1, HeadFound, Sizes
  <2>4. Search(rings[FoundAt]) >= durable
    BY <1>2, <2>1, <2>2, <2>3
  <2>5. ASSUME ReadRoot # NoRoot
        PROVE  Placed(rings, ReadRoot, FoundAt, Search(rings[FoundAt]), durable)
    <3>1. PICK n \in Entries \cup {-1} : \/ AtHome(rings, ReadRoot, n, durable)
                                         \/ FellBack(rings, ReadRoot, n, durable)
      BY <1>1, <2>1, <2>2, <2>5 DEF Stays, Running
    <3>2. n \in Int /\ n >= -1
      BY Sizes
    <3> QED
      BY <2>1, <2>4, <2>5, <3>1, <3>2, PlacedOpen
  <2> QED
    BY <1>4, <2>1, <2>5 DEF Running
<1>13. CASE UNCHANGED vars
  <2>1. /\ rings' = rings /\ roots' = roots /\ root' = root /\ base' = base
        /\ head' = head /\ durable' = durable /\ rots' = rots /\ behind' = behind
        /\ pc' = pc
    BY <1>13 DEF vars, media, memory, history
  <2>2. ReadRoot' = ReadRoot
    BY <2>1 DEF ReadRoot
  <2>3. CASE Running
    BY <1>1, <1>3, <1>4, <2>1, <2>3 DEF Running
  <2>4. CASE ~Running
    <3>1. pc = "down" /\ pc' = "down"
      BY <2>1, <2>4 DEF Running
    <3>2. SUFFICES ASSUME ReadRoot # NoRoot
                   PROVE  \E n \in Entries \cup {-1} :
                              \/ AtHome(rings, ReadRoot, n, durable)'
                              \/ FellBack(rings, ReadRoot, n, durable)'
      BY <1>2, <2>2, <3>1 DEF Stays, Running
    <3>3. PICK n \in Entries \cup {-1} : \/ AtHome(rings, ReadRoot, n, durable)
                                         \/ FellBack(rings, ReadRoot, n, durable)
      BY <1>1, <2>1, <3>1, <3>2 DEF Stays, Running
    <3> QED
      BY <1>0, <2>1, <2>2, <3>3, StaysNext
  <2> QED
    BY <2>3, <2>4
<1> QED
  BY <1>5, <1>6, <1>7, <1>8, <1>9, <1>10, <1>11, <1>12, <1>13 DEF Next

(***************************************************************************)
(* The fence's window.                                                     *)
(***************************************************************************)
\* The ring in use still has its last generations, but for those from before
\* the hop.
RingKeeps ==
    pc = "idle" /\ rots = 0 /\ ~behind =>
        \A g \in 0 .. head :
            head - N + 1 < g /\ (base = root.at => g >= root.since)
            => rings[base][g % N] = g

\* So it does in both profiles.
LEMMA InvRingKeeps == SpineInv /\ FixedInv /\ Stays => RingKeeps
<1> SUFFICES ASSUME SpineInv, FixedInv, Stays, pc = "idle", rots = 0, ~behind,
                    NEW g \in 0 .. head, head - N + 1 < g,
                    base = root.at => g >= root.since
             PROVE  rings[base][g % N] = g
  BY DEF RingKeeps
<1>1. head \in Int /\ N \in Int /\ N >= 2 /\ N \in Nat \ {0} /\ g \in Int /\ head >= 0
  BY InvFacts, RingSize
<1>2. CASE migrating
  <2>1. root # NoRoot /\ Placed(rings, root, base, head, durable)
    BY <1>2, InvFacts DEF Stays, Running
  <2>2. CASE base = root.at /\ AtHome(rings, root, head, durable)
    BY <2>2 DEF AtHome, Run
  <2>3. CASE base = root.was /\ FellBack(rings, root, head, durable)
    <3>1. 0 <= g
      BY <1>1
    <3> QED
      BY <2>3, <3>1 DEF FellBack, Run
  <2> QED
    BY <2>1, <2>2, <2>3 DEF Placed
<1>3. CASE ~migrating
  <2> DEFINE ring == rings[0]
             s == g % N
  <2>1. base = 0 /\ IsRing(ring) /\ Lapped(ring)
    BY <1>3, FixedFacts
  <2>2. AtHead(ring, head)
    BY <1>3 DEF FixedInv, FixedHead, Running
  <2>3. IsNewest(ring, head)
    BY <1>1, <2>2 DEF AtHead
  <2>4. head \in Entries
    BY <1>1, InvFacts, Sizes
  <2>5. s \in Slots /\ s \in Int /\ s <= g /\ s = g % N
    BY <1>1, SlotBelow
  <2>6. s # (head + 1) % N
    <3>1. g < head + 1 /\ head + 1 < g + N /\ head + 1 \in Int
      BY <1>1
    <3> QED
      BY <1>1, <3>1, ModUnique
  <2>7. Whole(ring)
    BY <1>3 DEF FixedInv, FixedWhole
  <2>8. head % N \in Slots /\ ring[head % N] = head
    BY <1>1, <2>3, NextSlotIs DEF IsNewest
  <2> HIDE DEF ring, s
  <2>9. s <= head
    BY <1>1, <2>5
  <2>10. ring[s] >= 0 /\ ring[s] <= head /\ ring[s] \in Int
    BY <2>1, <2>3, <2>4, <2>5, <2>6, <2>7, <2>9 DEF Whole, IsNewest, IsRing
  <2>11. ring[s] % N = s /\ head - ring[s] < N
    BY <1>1, <2>1, <2>5, <2>8, <2>10 DEF Lapped
  <2>12. head - N < ring[s] /\ head - N < g /\ g <= head
    BY <1>1, <2>10, <2>11
  <2>13. ring[s] = LastAt(head, s) /\ g = LastAt(head, s)
    BY <1>1, <2>5, <2>10, <2>11, <2>12, LastAtFacts
  <2> QED
    BY <2>1, <2>13 DEF ring, s
<1> QED
  BY <1>2, <1>3

\* For every ring, band, residency and fence depth, through hops, fallbacks and
\* power cuts: the fence's window holds every one of the last K generations that
\* was written where the ring now is, as long as no open went back and no slot
\* was lost (Ring::recent_entries).
THEOREM WindowAlwaysFills == Spec => []FenceWindowFills
<1>1. Init => SpineInv /\ FixedInv /\ HomeInv /\ Stays /\ FenceWindowFills
  <2>1. Init => FenceWindowFills
    BY DEF Init, FenceWindowFills
  <2> QED
    BY <2>1, InitSpineInv, InitFixedInv, InitHomeInv, InitStays
<1>2. SpineInv /\ FixedInv /\ HomeInv /\ Stays /\ [Next]_vars
          => (SpineInv /\ FixedInv /\ HomeInv /\ Stays)'
  BY NextSpineInv, NextFixedInv, NextHomeInv, NextStays
<1>3. SpineInv /\ FixedInv /\ Stays => RingKeeps
  BY InvRingKeeps
<1>4. SpineInv /\ FenceWindowFills /\ RingKeeps' /\ [Next]_vars => FenceWindowFills'
  <2> SUFFICES ASSUME SpineInv, FenceWindowFills, RingKeeps', [Next]_vars,
                      pc' = "idle", rots' = 0, ~behind',
                      NEW g \in 0 .. head', head' - K < g, head' - N' + 1 < g,
                      base' = root'.at => g >= root'.since
               PROVE  g \in window'
    BY DEF FenceWindowFills
  <2>0. migrating' = migrating
    BY DEF Next, vars, Genesis, Commit, AppendHeartbeat, Append, ZeroRingAt, AppendRoot,
       PowerCut, Rot, Open
  <2>1. N' = N
    BY <2>0, Sizes
  <2>2. rings'[base'][g % N] = g
    BY <2>1 DEF RingKeeps
  <2>3. CASE Append
    BY <2>2, <2>3 DEF Append, RecentEntries
  <2>4. CASE Open
    BY <2>2, <2>4 DEF Open, RecentEntries
  <2>5. CASE AppendRoot
    <3>1. /\ root' = NextRoot /\ base' = NextRoot.at /\ head' = head /\ root # NoRoot
      BY <2>5 DEF AppendRoot
    <3>2. NextRoot.since = head + 1 /\ head \in Int
      BY <3>1, InvFacts, NextRootFacts
    <3> QED
      BY <3>1, <3>2
  <2>6. CASE UNCHANGED vars
    BY <2>6 DEF vars, media, memory, history, FenceWindowFills, N
  <2>7. ASSUME Genesis \/ Commit \/ AppendHeartbeat \/ ZeroRingAt \/ PowerCut
               \/ \E s \in Slots : Rot(s)
        PROVE  FALSE
    BY <2>7 DEF Genesis, Commit, AppendHeartbeat, ZeroRingAt, PowerCut, Rot
  <2> QED
    BY <2>3, <2>4, <2>5, <2>6, <2>7 DEF Next
<1> QED
  BY <1>1, <1>2, <1>3, <1>4, PTL DEF Spec
=============================================================================
