----------------------------- MODULE TrieProofs -----------------------------
(*****************************************************************************)
(* The trie of Hamt for every set of keys and every fan-out: its paths, the  *)
(* runs of an extent, the slots of an arena over a tract, and what a change  *)
(* of the trie, a lost block or a flushed node makes of it.                  *)
(*****************************************************************************)
EXTENDS Hamt, Numbers, SequenceTheorems, FiniteSetTheorems, TLAPS

(***************************************************************************)
(* Paths.                                                                  *)
(***************************************************************************)
\* The paths of a key, and the length all keys have.
Along(k) == {Prefix(k, n) : n \in 0 .. Len(k)}
KeyLen == Len(CHOOSE k \in Keys : TRUE)

\* A prefix has the length and the elements it was cut to.
LEMMA PrefixIs ==
    ASSUME NEW X, NEW k \in Seq(X), NEW n \in 0 .. Len(k)
    PROVE  /\ Prefix(k, n) \in Seq(X) /\ Len(Prefix(k, n)) = n
           /\ \A i \in 1 .. n : Prefix(k, n)[i] = k[i]
<1>1. Len(k) \in Nat /\ \A i \in 1 .. Len(k) : k[i] \in X
  BY ElementOfSeq
<1>2. \A i \in 1 .. n : k[i] \in X
  BY <1>1
<1>3. /\ SubSeq(k, 1, n) \in Seq(X)
      /\ Len(SubSeq(k, 1, n)) = IF 1 <= n THEN n - 1 + 1 ELSE 0
      /\ \A i \in 1 .. (n - 1) + 1 : SubSeq(k, 1, n)[i] = k[(1 + i) - 1]
  BY <1>1, <1>2, SubSeqProperties
<1> QED
  BY <1>1, <1>3 DEF Prefix

\* A prefix of a prefix is a prefix, and the whole is one.
LEMMA PrefixPrefix ==
    ASSUME NEW X, NEW k \in Seq(X), NEW n \in 0 .. Len(k), NEW m \in 0 .. n
    PROVE  Prefix(Prefix(k, n), m) = Prefix(k, m)
<1> DEFINE p == Prefix(k, n)
<1>1. p \in Seq(X) /\ Len(p) = n /\ \A i \in 1 .. n : p[i] = k[i]
  BY PrefixIs
<1>2. Len(k) \in Nat /\ m \in 0 .. Len(p) /\ m \in 0 .. Len(k)
  BY <1>1
<1> HIDE DEF p
<1>3. /\ Prefix(p, m) \in Seq(X) /\ Len(Prefix(p, m)) = m
      /\ \A i \in 1 .. m : Prefix(p, m)[i] = p[i]
  BY <1>1, <1>2, PrefixIs
<1>4. /\ Prefix(k, m) \in Seq(X) /\ Len(Prefix(k, m)) = m
      /\ \A i \in 1 .. m : Prefix(k, m)[i] = k[i]
  BY <1>2, PrefixIs
<1>5. \A i \in 1 .. m : Prefix(p, m)[i] = Prefix(k, m)[i]
  BY <1>1, <1>2, <1>3, <1>4
<1>6. Prefix(p, m) = Prefix(k, m)
  BY <1>3, <1>4, <1>5, SeqEqual
<1> QED
  BY <1>6 DEF p

\* The whole of a sequence is its longest prefix.
LEMMA PrefixWhole ==
    ASSUME NEW X, NEW k \in Seq(X)
    PROVE  Prefix(k, Len(k)) = k
BY SubSeqFull DEF Prefix

\* The keys are sequences of chunks of one length.
LEMMA KeyFacts ==
    /\ Keys # {} /\ KeyLen \in Nat \ {0}
    /\ \A k \in Keys : k \in Seq(Chunks) /\ Len(k) = KeyLen
<1>1. Keys # {} /\ (\A k \in Keys : k \in Seq(Chunks))
      /\ \A j, k \in Keys : Len(j) = Len(k) /\ Len(k) > 0
  BY HamtAssumption, Zenon
<1>2. (CHOOSE k \in Keys : TRUE) \in Keys
  BY <1>1, Zenon
<1>3. KeyLen = Len(CHOOSE k \in Keys : TRUE)
  BY DEF KeyLen
<1>4. \A k \in Keys : Len(k) \in Nat /\ Len(k) = KeyLen /\ Len(k) > 0
  BY <1>1, <1>2, <1>3
<1> QED
  BY <1>1, <1>2, <1>3, <1>4

\* What lies along a key.
LEMMA AlongFacts ==
    ASSUME NEW k \in Keys
    PROVE  /\ \A n \in 0 .. KeyLen : Prefix(k, n) \in Along(k)
           /\ \A q \in Along(k) : /\ q \in Paths /\ q \in Routes /\ q \in Seq(Chunks)
                                  /\ Len(q) \in 0 .. KeyLen /\ q = Prefix(k, Len(q))
           /\ k \in Along(k) /\ <<>> \in Along(k)
<1>1. k \in Seq(Chunks) /\ Len(k) = KeyLen /\ KeyLen \in Nat
  BY KeyFacts
<1>2. Along(k) = {Prefix(k, n) : n \in 0 .. KeyLen}
  BY <1>1 DEF Along
<1>3. ASSUME NEW q \in Along(k)
      PROVE  /\ q \in Paths /\ q \in Routes /\ q \in Seq(Chunks)
             /\ Len(q) \in 0 .. KeyLen /\ q = Prefix(k, Len(q))
  <2>1. PICK n \in 0 .. KeyLen : q = Prefix(k, n)
    BY <1>2, <1>3
  <2>2. q \in Seq(Chunks) /\ Len(q) = n
    BY <1>1, <2>1, PrefixIs
  <2>3. q \in Paths
    BY <1>3, Zenon DEF Paths, Along
  <2> QED
    BY <2>1, <2>2, <2>3 DEF Routes
<1>4. k \in Along(k)
  BY <1>1, <1>2, PrefixWhole
<1>5. Prefix(k, 0) = <<>>
  BY <1>1, SubSeqEmpty DEF Prefix
<1> QED
  BY <1>1, <1>2, <1>3, <1>4, <1>5

\* A path is along some key, and a route is a path or one chunk more.
LEMMA PathFacts ==
    /\ <<>> \in Paths /\ Paths \subseteq Routes
    /\ \A q \in Paths : /\ q \in Seq(Chunks) /\ Len(q) \in 0 .. KeyLen
                        /\ \E k \in Keys : q \in Along(k)
<1>1. ASSUME NEW q \in Paths
      PROVE  q \in Seq(Chunks) /\ Len(q) \in 0 .. KeyLen /\ \E k \in Keys : q \in Along(k)
  <2>1. PICK k \in Keys : q \in Along(k)
    BY <1>1, Zenon DEF Paths, Along
  <2> QED
    BY <2>1, AlongFacts
<1>2. PICK k \in Keys : TRUE
  BY KeyFacts
<1>3. <<>> \in Paths
  BY <1>2, AlongFacts
<1>4. Paths \subseteq Routes
  BY DEF Routes
<1> QED
  BY <1>1, <1>3, <1>4

\* The prefixes of a path are paths.
LEMMA PathPrefix ==
    ASSUME NEW q \in Paths, NEW n \in 0 .. Len(q)
    PROVE  Prefix(q, n) \in Paths
<1>1. PICK k \in Keys : q \in Along(k)
  BY PathFacts
<1>2. Len(q) \in 0 .. KeyLen /\ q = Prefix(k, Len(q))
  BY <1>1, AlongFacts
<1>3. k \in Seq(Chunks) /\ Len(k) = KeyLen /\ KeyLen \in Nat
  BY KeyFacts
<1>4. Prefix(q, n) = Prefix(k, n) /\ n \in 0 .. KeyLen
  BY <1>2, <1>3, PrefixPrefix
<1> QED
  BY <1>4, AlongFacts

\* The last chunk of a route leads on from a path.
LEMMA RouteFront ==
    ASSUME NEW q \in Routes
    PROVE  /\ q \in Seq(Chunks) /\ Len(q) \in Nat /\ Len(q) <= KeyLen + 1
           /\ q # <<>> => /\ Len(q) > 0 /\ Front(q) \in Paths /\ Last(q) \in Chunks
                          /\ q = Append(Front(q), Last(q))
                          /\ Front(q) = Prefix(q, Len(q) - 1) /\ Len(Front(q)) = Len(q) - 1
<1>0. KeyLen \in Nat
  BY KeyFacts
<1>1. CASE q \in Paths
  <2>1. q \in Seq(Chunks) /\ Len(q) \in 0 .. KeyLen
    BY <1>1, PathFacts
  <2>2. SUFFICES ASSUME q # <<>>
                 PROVE  /\ Len(q) > 0 /\ Front(q) \in Paths /\ Last(q) \in Chunks
                        /\ q = Append(Front(q), Last(q))
                        /\ Front(q) = Prefix(q, Len(q) - 1) /\ Len(Front(q)) = Len(q) - 1
    BY <1>0, <2>1
  <2>3. Len(q) > 0 /\ Len(q) - 1 \in 0 .. Len(q)
    BY <2>1, <2>2, EmptySeq
  <2>4. Front(q) = Prefix(q, Len(q) - 1)
    BY DEF Front, Prefix
  <2>5. Front(q) \in Paths
    BY <1>1, <2>3, <2>4, PathPrefix
  <2>6. /\ Front(q) \in Seq(Chunks) /\ Len(Front(q)) = Len(q) - 1
        /\ \A i \in 1 .. (Len(q) - 1) : Front(q)[i] = q[i]
    BY <2>1, <2>3, <2>4, PrefixIs
  <2>7. Last(q) \in Chunks /\ Last(q) = q[Len(q)]
    BY <2>1, <2>3, ElementOfSeq DEF Last
  <2> DEFINE a == Append(Front(q), Last(q))
  <2>8. /\ a \in Seq(Chunks) /\ Len(a) = Len(Front(q)) + 1
        /\ \A i \in 1 .. Len(Front(q)) : a[i] = Front(q)[i]
        /\ a[Len(Front(q)) + 1] = Last(q)
    BY <2>6, <2>7, AppendProperties
  <2> HIDE DEF a
  <2>9. Len(a) = Len(q) /\ \A i \in 1 .. Len(q) : a[i] = q[i]
    BY <2>1, <2>3, <2>6, <2>7, <2>8
  <2>10. a = q
    BY <2>1, <2>8, <2>9, SeqEqual
  <2>11. q = Append(Front(q), Last(q))
    BY <2>10 DEF a
  <2> QED
    BY ONLY <2>3, <2>4, <2>5, <2>6, <2>7, <2>11
<1>2. CASE q \notin Paths
  <2>1. PICK p \in Paths, c \in Chunks : q = Append(p, c)
    BY <1>2 DEF Routes
  <2>2. p \in Seq(Chunks) /\ Len(p) \in 0 .. KeyLen
    BY PathFacts
  <2>3. /\ q \in Seq(Chunks) /\ Len(q) = Len(p) + 1
        /\ \A i \in 1 .. Len(p) : q[i] = p[i]
        /\ q[Len(p) + 1] = c
    BY <2>1, <2>2, AppendProperties
  <2>4. Last(q) = c /\ Front(q) = Prefix(q, Len(q) - 1) /\ Len(q) - 1 = Len(p)
    BY <2>2, <2>3 DEF Last, Front, Prefix
  <2>5. /\ Prefix(q, Len(p)) \in Seq(Chunks) /\ Len(Prefix(q, Len(p))) = Len(p)
        /\ \A i \in 1 .. Len(p) : Prefix(q, Len(p))[i] = q[i]
    <3>1. Len(p) \in 0 .. Len(q)
      BY <2>2, <2>3
    <3> QED
      BY <2>3, <3>1, PrefixIs
  <2>6. \A i \in 1 .. Len(p) : Prefix(q, Len(p))[i] = p[i]
    BY <2>3, <2>5
  <2>7. Prefix(q, Len(p)) = p
    BY <2>2, <2>5, <2>6, SeqEqual
  <2> QED
    BY <1>0, <2>1, <2>2, <2>3, <2>4, <2>7
<1> QED
  BY <1>1, <1>2

\* One chunk further from a path.
LEMMA RouteAppend ==
    ASSUME NEW p \in Paths, NEW c \in Chunks
    PROVE  /\ Append(p, c) \in Routes /\ Append(p, c) # <<>>
           /\ Front(Append(p, c)) = p /\ Last(Append(p, c)) = c
           /\ Len(Append(p, c)) = Len(p) + 1
<1> DEFINE q == Append(p, c)
<1>1. p \in Seq(Chunks) /\ Len(p) \in Nat
  BY PathFacts
<1>2. q \in Routes
  BY DEF Routes
<1>3. q \in Seq(Chunks) /\ q # <<>> /\ Len(q) = Len(p) + 1 /\ q[Len(p) + 1] = c
      /\ \A i \in 1 .. Len(p) : q[i] = p[i]
  BY <1>1, AppendProperties
<1> HIDE DEF q
<1>4. q = Append(Front(q), Last(q)) /\ Front(q) \in Seq(Chunks) /\ Last(q) \in Chunks
  BY <1>2, <1>3, RouteFront, PathFacts
<1>5. Append(p, c) = Append(Front(q), Last(q))
  BY <1>4 DEF q
<1>6. p = Front(q) /\ c = Last(q)
  BY <1>1, <1>4, <1>5, AppendInjective
<1> QED
  BY <1>2, <1>3, <1>6 DEF q

\* The routes above a route.
LEMMA AboveIs ==
    ASSUME NEW q \in Routes
    PROVE  /\ \A p \in Above(q) : /\ p \in Paths /\ Len(p) \in Nat /\ Len(p) < Len(q)
                                  /\ p = Prefix(q, Len(p))
           /\ \A n \in 0 .. (Len(q) - 1) : Prefix(q, n) \in Above(q)
<1>1. q \in Seq(Chunks) /\ Len(q) \in Nat
  BY RouteFront
<1>2. ASSUME NEW p \in Above(q)
      PROVE  p \in Paths /\ Len(p) \in Nat /\ Len(p) < Len(q) /\ p = Prefix(q, Len(p))
  <2>1. PICK n \in 0 .. (Len(q) - 1) : p = Prefix(q, n)
    BY <1>2 DEF Above
  <2>2. n \in 0 .. Len(q) /\ Len(q) - 1 \in 0 .. Len(q) /\ n \in 0 .. (Len(q) - 1) /\ q # <<>>
    BY <1>1, <2>1
  <2>3. Len(p) = n
    BY <1>1, <2>1, <2>2, PrefixIs
  <2>4. Front(q) = Prefix(q, Len(q) - 1) /\ Front(q) \in Paths /\ Len(Front(q)) = Len(q) - 1
    BY <2>2, RouteFront
  <2>5. Prefix(Front(q), n) = Prefix(q, n)
    BY <1>1, <2>2, <2>4, PrefixPrefix
  <2>6. Prefix(Front(q), n) \in Paths
    BY <2>2, <2>4, PathPrefix
  <2> QED
    BY <1>1, <2>1, <2>2, <2>3, <2>5, <2>6
<1> QED
  BY <1>2 DEF Above

\* Above a route are its front and what is above that.
LEMMA AboveFront ==
    ASSUME NEW q \in Routes
    PROVE  /\ q = <<>> => Above(q) = {}
           /\ q # <<>> => /\ Front(q) \in Above(q) /\ <<>> \in Above(q)
                          /\ Above(q) = Above(Front(q)) \cup {Front(q)}
           /\ q \notin Above(q)
<1>1. q \in Seq(Chunks) /\ Len(q) \in Nat
  BY RouteFront
<1>2. q \notin Above(q)
  BY <1>1, AboveIs
<1>3. q = <<>> => Above(q) = {}
  <2>1. q = <<>> => Len(q) = 0
    BY EmptySeq
  <2> QED
    BY <2>1, AboveIs, <1>1
<1>4. ASSUME q # <<>>
      PROVE  /\ Front(q) \in Above(q) /\ <<>> \in Above(q)
             /\ Above(q) = Above(Front(q)) \cup {Front(q)}
  <2>1. /\ Len(q) > 0 /\ Front(q) \in Paths /\ Front(q) = Prefix(q, Len(q) - 1)
        /\ Len(Front(q)) = Len(q) - 1
    BY <1>4, RouteFront
  <2>2. Front(q) \in Routes
    BY <2>1, PathFacts
  <2>3. Len(q) - 1 \in 0 .. (Len(q) - 1) /\ 0 \in 0 .. (Len(q) - 1) /\ Len(q) - 1 \in 0 .. Len(q)
    BY <1>1, <2>1
  <2>4. Front(q) \in Above(q)
    BY <2>1, <2>3, AboveIs
  <2>5. Prefix(q, 0) = <<>>
    BY SubSeqEmpty DEF Prefix
  <2>6. <<>> \in Above(q)
    BY <2>3, <2>5, AboveIs
  <2>7. \A n \in 0 .. (Len(q) - 1) : Prefix(Front(q), n) = Prefix(q, n)
    BY <1>1, <2>1, <2>3, PrefixPrefix
  <2>8. ASSUME NEW p \in Above(q) PROVE p \in Above(Front(q)) \cup {Front(q)}
    <3>1. Len(p) \in Nat /\ Len(p) < Len(q) /\ p = Prefix(q, Len(p))
      BY <2>8, AboveIs
    <3>2. CASE Len(p) = Len(q) - 1
      BY <2>1, <3>1, <3>2
    <3>3. CASE Len(p) # Len(q) - 1
      <4>1. Len(p) \in 0 .. (Len(Front(q)) - 1) /\ Len(p) \in 0 .. (Len(q) - 1)
        BY <1>1, <2>1, <3>1, <3>3
      <4>2. Prefix(Front(q), Len(p)) \in Above(Front(q))
        BY <2>2, <4>1, AboveIs
      <4> QED
        BY <2>7, <3>1, <4>1, <4>2
    <3> QED
      BY <3>2, <3>3
  <2>9. ASSUME NEW p \in Above(Front(q)) PROVE p \in Above(q)
    <3>1. Len(p) \in Nat /\ Len(p) < Len(Front(q)) /\ p = Prefix(Front(q), Len(p))
      BY <2>2, <2>9, AboveIs
    <3>2. Len(p) \in 0 .. (Len(q) - 1)
      BY <1>1, <2>1, <3>1
    <3> QED
      BY <2>7, <3>1, <3>2, AboveIs
  <2> QED
    BY <2>4, <2>6, <2>8, <2>9
<1> QED
  BY <1>2, <1>3, <1>4

\* Higher up is higher up still; and between a route and one above it lies the
\* next chunk.
LEMMA AboveAbove ==
    ASSUME NEW q \in Routes, NEW p \in Above(q)
    PROVE  /\ p \in Paths /\ p \in Routes /\ Above(p) \subseteq Above(q) /\ p # q
           /\ q \notin Above(p)
           /\ \E c \in Chunks : Append(p, c) \in Above(q) \cup {q}
<1>1. q \in Seq(Chunks) /\ Len(q) \in Nat
  BY RouteFront
<1>2. p \in Paths /\ Len(p) \in Nat /\ Len(p) < Len(q) /\ p = Prefix(q, Len(p))
  BY AboveIs
<1>3. p \in Routes
  BY <1>2, PathFacts
<1>4. ASSUME NEW r \in Above(p) PROVE r \in Above(q)
  <2>1. Len(r) \in Nat /\ Len(r) < Len(p) /\ r = Prefix(p, Len(r))
    BY <1>3, <1>4, AboveIs
  <2>2. Len(r) \in 0 .. Len(p) /\ Len(p) \in 0 .. Len(q) /\ Len(r) \in 0 .. (Len(q) - 1)
    BY <1>1, <1>2, <2>1
  <2>3. r = Prefix(q, Len(r))
    BY <1>1, <1>2, <2>1, <2>2, PrefixPrefix
  <2> QED
    BY <2>2, <2>3, AboveIs
<1>5. q \notin Above(p)
  BY <1>2, <1>3, AboveIs
<1>6. \E c \in Chunks : Append(p, c) \in Above(q) \cup {q}
  <2> DEFINE n == Len(p) + 1
             r == Prefix(q, n)
  <2>1. n \in 1 .. Len(q) /\ n \in 0 .. Len(q) /\ Len(p) \in 0 .. n /\ n - 1 = Len(p)
    BY <1>1, <1>2
  <2>2. r \in Seq(Chunks) /\ Len(r) = n
    BY <1>1, <2>1, PrefixIs
  <2>3. r \in Above(q) \cup {q}
    <3>1. CASE n = Len(q)
      BY <1>1, <3>1, PrefixWhole
    <3>2. CASE n # Len(q)
      <4>1. n \in 0 .. (Len(q) - 1)
        BY <1>1, <2>1, <3>2
      <4> QED
        BY <4>1, AboveIs
    <3> QED
      BY <3>1, <3>2
  <2>4. r \in Routes
    BY <2>3, AboveIs, PathFacts
  <2>5. Prefix(r, Len(p)) = p
    BY <1>1, <1>2, <2>1, PrefixPrefix
  <2> HIDE DEF r
  <2>6. r # <<>>
    BY <2>1, <2>2, EmptySeq
  <2>7. r = Append(Front(r), Last(r)) /\ Last(r) \in Chunks /\ Front(r) = Prefix(r, Len(r) - 1)
    BY <2>4, <2>6, RouteFront
  <2>8. Front(r) = p
    BY <2>1, <2>2, <2>5, <2>7
  <2> QED
    BY <2>3, <2>7, <2>8
<1> QED
  BY <1>2, <1>3, <1>4, <1>5, <1>6

\* The paths along one key are a chain.
LEMMA AlongChain ==
    ASSUME NEW k \in Keys, NEW p \in Along(k), NEW q \in Along(k)
    PROVE  /\ p = q \/ p \in Above(q) \/ q \in Above(p)
           /\ Above(q) \subseteq Along(k)
           /\ q # k => \E c \in Chunks : Append(q, c) \in Along(k)
           /\ Len(q) < KeyLen <=> q # k
<1>1. k \in Seq(Chunks) /\ Len(k) = KeyLen /\ KeyLen \in Nat
  BY KeyFacts
<1>2. \A r \in Along(k) : /\ r \in Routes /\ Len(r) \in 0 .. KeyLen /\ r = Prefix(k, Len(r))
  BY AlongFacts
<1>3. ASSUME NEW r \in Along(k), NEW n \in 0 .. (Len(r) - 1)
      PROVE  Prefix(r, n) = Prefix(k, n) /\ n \in 0 .. KeyLen
  <2>1. r = Prefix(k, Len(r)) /\ Len(r) \in 0 .. Len(k) /\ n \in 0 .. Len(r) /\ n \in 0 .. KeyLen
    BY <1>1, <1>2, <1>3
  <2>2. Prefix(Prefix(k, Len(r)), n) = Prefix(k, n)
    BY <1>1, <2>1, PrefixPrefix
  <2> QED
    BY <2>1, <2>2
<1>4. ASSUME NEW r \in Along(k), NEW s \in Along(k), Len(r) < Len(s) PROVE r \in Above(s)
  <2>1. Len(r) \in 0 .. (Len(s) - 1)
    BY <1>2, <1>4
  <2>2. Prefix(s, Len(r)) = Prefix(k, Len(r))
    BY <1>3, <2>1
  <2>3. Prefix(s, Len(r)) \in Above(s)
    BY <1>2, <2>1, AboveIs
  <2> QED
    BY <1>2, <2>2, <2>3
<1>5. p = q \/ p \in Above(q) \/ q \in Above(p)
  <2>1. Len(p) = Len(q) => p = q
    BY <1>2
  <2>2. Len(p) \in Nat /\ Len(q) \in Nat
    BY <1>1, <1>2
  <2> QED
    BY <1>4, <2>1, <2>2
<1>6. ASSUME NEW r \in Above(q) PROVE r \in Along(k)
  <2>1. Len(r) \in 0 .. (Len(q) - 1) /\ r = Prefix(q, Len(r))
    BY <1>2, AboveIs
  <2>2. r = Prefix(k, Len(r)) /\ Len(r) \in 0 .. KeyLen
    BY <1>3, <2>1
  <2> QED
    BY <2>2, AlongFacts
<1>7. Len(q) < KeyLen <=> q # k
  <2>1. Prefix(k, Len(k)) = k
    BY <1>1, PrefixWhole
  <2> QED
    BY <1>1, <1>2, <2>1
<1>8. q # k => \E c \in Chunks : Append(q, c) \in Along(k)
  <2>1. k \in Along(k) /\ k \in Routes
    BY AlongFacts
  <2>2. q # k => q \in Above(k)
    BY <1>1, <1>4, <1>7, <2>1
  <2>3. Above(k) \cup {k} \subseteq Along(k)
    <3>1. ASSUME NEW r \in Above(k) PROVE r \in Along(k)
      <4>1. Len(r) \in 0 .. KeyLen /\ r = Prefix(k, Len(r))
        BY <1>1, <2>1, AboveIs
      <4> QED
        BY <4>1, AlongFacts
    <3> QED
      BY <2>1, <3>1
  <2>4. q # k => \E c \in Chunks : Append(q, c) \in Above(k) \cup {k}
    BY <2>1, <2>2, AboveAbove
  <2> QED
    BY <2>3, <2>4
<1> QED
  BY <1>5, <1>6, <1>7, <1>8

\* IsPrefix is being along the key.
LEMMA PrefixAlong ==
    ASSUME NEW k \in Keys, NEW q \in Paths
    PROVE  IsPrefix(q, k) <=> q \in Along(k)
<1>1. q \in Seq(Chunks) /\ Len(q) \in 0 .. KeyLen
  BY PathFacts
<1>2. k \in Seq(Chunks) /\ Len(k) = KeyLen /\ KeyLen \in Nat
  BY KeyFacts
<1>3. SubSeq(q, 1, Len(q)) = q
  BY <1>1, SubSeqFull
<1>4. IsPrefix(q, k) <=> q = Prefix(k, Len(q))
  BY <1>1, <1>2, <1>3 DEF IsPrefix, Prefix
<1> QED
  BY <1>1, <1>4, AlongFacts

\* Two keys part at the chunk after what they have in common (insert_child).
LEMMA CommonIs ==
    ASSUME NEW o \in Keys, NEW k \in Keys, o # k
    PROVE  /\ Common(o, k) \in 0 .. (KeyLen - 1)
           /\ Prefix(o, Common(o, k)) = Prefix(k, Common(o, k))
           /\ o[Common(o, k) + 1] # k[Common(o, k) + 1]
<1>1. /\ k \in Seq(Chunks) /\ Len(k) = KeyLen /\ KeyLen \in Nat
      /\ o \in Seq(Chunks) /\ Len(o) = KeyLen
  BY KeyFacts
<1> DEFINE D == {n \in 0 .. KeyLen : n = KeyLen \/ o[n + 1] # k[n + 1]}
           C(n) == Prefix(o, n) = Prefix(k, n) /\ (n = Len(k) \/ o[n + 1] # k[n + 1])
<1>2. D \in SUBSET Nat /\ KeyLen \in D
  BY <1>1
<1> DEFINE x == Min(D)
<1>3. x \in D /\ \A n \in D : x <= n
  <2> HIDE DEF D
  <2> QED BY <1>2, MinOfNaturals
<1> HIDE DEF x
<1>4. x \in 0 .. KeyLen /\ (x = KeyLen \/ o[x + 1] # k[x + 1])
  BY <1>3
<1>5. \A i \in 1 .. x : o[i] = k[i]
  <2> SUFFICES ASSUME NEW i \in 1 .. x PROVE o[i] = k[i]
    OBVIOUS
  <2>1. i - 1 \in 0 .. KeyLen /\ i - 1 < x /\ (i - 1) + 1 = i
    BY <1>1, <1>4
  <2>2. i - 1 \notin D
    BY <1>3, <1>4, <2>1
  <2> QED
    BY <2>1, <2>2
<1> HIDE DEF D
<1>6. /\ Prefix(o, x) \in Seq(Chunks) /\ Len(Prefix(o, x)) = x
      /\ \A i \in 1 .. x : Prefix(o, x)[i] = o[i]
  BY <1>1, <1>4, PrefixIs
<1>7. /\ Prefix(k, x) \in Seq(Chunks) /\ Len(Prefix(k, x)) = x
      /\ \A i \in 1 .. x : Prefix(k, x)[i] = k[i]
  BY <1>1, <1>4, PrefixIs
<1>8. \A i \in 1 .. x : Prefix(o, x)[i] = Prefix(k, x)[i]
  BY <1>5, <1>6, <1>7
<1>9. Prefix(o, x) = Prefix(k, x)
  BY <1>6, <1>7, <1>8, SeqEqual
<1>10. x \in 0 .. Len(k) /\ C(x)
  BY <1>1, <1>4, <1>9
<1>11. Common(o, k) = CHOOSE n \in 0 .. Len(k) : C(n)
  BY DEF Common
<1> DEFINE y == Common(o, k)
<1>12. y \in 0 .. Len(k) /\ C(y)
  <2> HIDE DEF C
  <2> QED BY <1>10, <1>11, Zenon
<1> HIDE DEF y
<1>13. y # KeyLen
  <2>1. y = KeyLen => Prefix(o, Len(o)) = Prefix(k, Len(k))
    BY <1>1, <1>12
  <2> QED
    BY <1>1, <2>1, PrefixWhole
<1>14. y \in 0 .. (KeyLen - 1) /\ Prefix(o, y) = Prefix(k, y) /\ o[y + 1] # k[y + 1]
  BY <1>1, <1>12, <1>13
<1> QED
  BY <1>14 DEF y

\* The two paths a split creates part right below the chain they share.
LEMMA SplitFacts ==
    ASSUME NEW o \in Keys, NEW k \in Keys, o # k, NEW n, n = Common(o, k) + 1
    PROVE  /\ Prefix(k, n) \in Along(k) /\ Prefix(o, n) \in Along(o)
           /\ Prefix(k, n) \notin Along(o) /\ Prefix(o, n) \notin Along(k)
           /\ Above(Prefix(k, n)) = Above(Prefix(o, n))
           /\ \A q \in Along(k) : q \in Along(o) => q \in Above(Prefix(k, n))
<1>1. /\ k \in Seq(Chunks) /\ Len(k) = KeyLen /\ KeyLen \in Nat
      /\ o \in Seq(Chunks) /\ Len(o) = KeyLen
  BY KeyFacts
<1>2. /\ n - 1 \in 0 .. (KeyLen - 1) /\ Prefix(o, n - 1) = Prefix(k, n - 1) /\ o[n] # k[n]
  <2> DEFINE x == Common(o, k)
  <2>1. x \in 0 .. (KeyLen - 1) /\ Prefix(o, x) = Prefix(k, x) /\ o[x + 1] # k[x + 1]
    BY CommonIs
  <2> HIDE DEF x
  <2>2. n = x + 1
    BY DEF x
  <2>3. n - 1 = x
    BY <1>1, <2>1, <2>2
  <2> QED
    BY <2>1, <2>2, <2>3
<1>3. n \in 0 .. KeyLen /\ n \in 1 .. KeyLen /\ n \in 0 .. Len(k) /\ n \in 0 .. Len(o)
  BY <1>1, <1>2
<1>4. ASSUME NEW j \in Keys, NEW m \in 0 .. KeyLen
      PROVE  Prefix(j, m) \in Along(j) /\ Len(Prefix(j, m)) = m
  <2>1. j \in Seq(Chunks) /\ m \in 0 .. Len(j)
    BY KeyFacts
  <2>2. Len(Prefix(j, m)) = m
    BY <2>1, PrefixIs
  <2> QED
    BY <2>2, AlongFacts
<1>5. Prefix(k, n)[n] = k[n] /\ Prefix(o, n)[n] = o[n]
  <2>1. \A i \in 1 .. n : Prefix(k, n)[i] = k[i]
    BY <1>1, <1>3, PrefixIs
  <2>2. \A i \in 1 .. n : Prefix(o, n)[i] = o[i]
    BY <1>1, <1>3, PrefixIs
  <2>3. n \in 1 .. n
    BY <1>3
  <2> QED
    BY <2>1, <2>2, <2>3
<1>6. Prefix(k, n) # Prefix(o, n)
  BY <1>2, <1>5
<1>7. ASSUME NEW q, q \in Along(k), q \in Along(o) PROVE Len(q) < n
  <2>1. Len(q) \in 0 .. KeyLen /\ q = Prefix(k, Len(q)) /\ q = Prefix(o, Len(q))
    BY <1>7, AlongFacts
  <2>2. SUFFICES ASSUME ~(Len(q) < n) PROVE FALSE
    OBVIOUS
  <2>3. n \in 1 .. Len(q) /\ Len(q) \in 0 .. Len(k) /\ Len(q) \in 0 .. Len(o)
    BY <1>1, <1>3, <2>1, <2>2
  <2>4. Prefix(k, Len(q))[n] = k[n] /\ Prefix(o, Len(q))[n] = o[n]
    BY <1>1, <2>3, PrefixIs
  <2> QED
    BY <1>2, <2>1, <2>4
<1>8. Prefix(k, n) \in Along(k) /\ Prefix(o, n) \in Along(o)
  BY <1>3, <1>4
<1>9. Prefix(k, n) \notin Along(o) /\ Prefix(o, n) \notin Along(k)
  BY <1>3, <1>4, <1>7, <1>8
<1>10. ASSUME NEW j \in Keys
       PROVE  /\ Front(Prefix(j, n)) = Prefix(j, n - 1)
              /\ Above(Prefix(j, n)) = Above(Prefix(j, n - 1)) \cup {Prefix(j, n - 1)}
  <2> DEFINE p == Prefix(j, n)
  <2>1. p \in Along(j) /\ Len(p) = n
    BY <1>3, <1>4
  <2>2. p \in Routes /\ p \in Seq(Chunks)
    BY <2>1, AlongFacts
  <2>3. j \in Seq(Chunks) /\ n \in 0 .. Len(j) /\ n - 1 \in 0 .. n
    BY <1>1, <1>3, KeyFacts
  <2>4. Prefix(p, n - 1) = Prefix(j, n - 1)
    BY <2>3, PrefixPrefix
  <2> HIDE DEF p
  <2>5. p # <<>>
    BY <1>3, <2>1, <2>2, EmptySeq
  <2>6. Front(p) = Prefix(j, n - 1) /\ Above(p) = Above(Front(p)) \cup {Front(p)}
    BY <2>1, <2>2, <2>4, <2>5, RouteFront, AboveFront
  <2> QED
    BY <2>6 DEF p
<1>11. Above(Prefix(k, n)) = Above(Prefix(o, n))
  BY <1>2, <1>10
<1>12. ASSUME NEW q \in Along(k), q \in Along(o) PROVE q \in Above(Prefix(k, n))
  <2> DEFINE p == Prefix(k, n)
  <2>1. Len(q) < n /\ p \in Along(k) /\ Len(p) = n
    BY <1>3, <1>4, <1>7, <1>12
  <2> HIDE DEF p
  <2>2. q = p \/ q \in Above(p) \/ p \in Above(q)
    BY <2>1, AlongChain
  <2>3. q \in Routes /\ Len(q) \in Nat
    BY <1>12, AlongFacts, RouteFront
  <2>4. p \in Above(q) => Len(p) < Len(q)
    BY <2>3, AboveIs
  <2>5. q \in Above(p)
    BY <1>3, <2>1, <2>2, <2>3, <2>4
  <2> QED
    BY <2>5 DEF p
<1> QED
  BY <1>8, <1>9, <1>11, <1>12

(***************************************************************************)
(* Sequences of anything: blocks, positions, runs.                         *)
(***************************************************************************)
IsSeq(s) == s \in Seq(ToSet(s))

\* A sequence over any set is one over its own elements.
LEMMA SeqIs ==
    ASSUME NEW X, NEW s \in Seq(X)
    PROVE  IsSeq(s) /\ Len(s) \in Nat /\ DOMAIN s = 1 .. Len(s)
<1>1. Len(s) \in Nat /\ DOMAIN s = 1 .. Len(s) /\ s \in [1 .. Len(s) -> X]
  BY LenProperties
<1>2. s \in Seq(Range(s))
  BY SeqOfRange
<1>3. ToSet(s) = Range(s)
  BY DEF ToSet, Range
<1> QED
  BY <1>1, <1>2, <1>3 DEF IsSeq

\* What being a sequence gives the provers.
LEMMA SeqFacts ==
    ASSUME NEW s, IsSeq(s)
    PROVE  /\ Len(s) \in Nat /\ DOMAIN s = 1 .. Len(s)
           /\ s # <<>> <=> Len(s) > 0
           /\ \A X : (\A i \in 1 .. Len(s) : s[i] \in X) => s \in Seq(X)
           /\ ToSet(s) = {s[i] : i \in 1 .. Len(s)}
<1>1. Len(s) \in Nat /\ DOMAIN s = 1 .. Len(s) /\ s \in Seq(ToSet(s))
  BY SeqIs DEF IsSeq
<1>2. s \in [1 .. Len(s) -> ToSet(s)]
  BY <1>1, LenProperties
<1>3. ASSUME NEW X, \A i \in 1 .. Len(s) : s[i] \in X PROVE s \in Seq(X)
  <2>1. ToSet(s) \subseteq X
    BY <1>1, <1>3 DEF ToSet
  <2> QED
    BY <1>1, <2>1, SeqMonotonic
<1>4. s # <<>> <=> Len(s) > 0
  BY <1>1, EmptySeq
<1> QED
  BY <1>1, <1>3, <1>4 DEF ToSet

\* A function on 1 .. n is a sequence.
LEMMA SeqOfFcn ==
    ASSUME NEW n \in Nat, NEW f, f = [i \in 1 .. n |-> f[i]]
    PROVE  IsSeq(f) /\ Len(f) = n /\ DOMAIN f = 1 .. n
<1> DEFINE X == ToSet(f)
<1>1. DOMAIN f = 1 .. n
  OBVIOUS
<1>2. \A i \in 1 .. n : f[i] \in X
  BY <1>1 DEF ToSet
<1> HIDE DEF X
<1>3. f \in [1 .. n -> X]
  BY <1>1, <1>2
<1>4. f \in Seq(X) /\ Len(f) = n
  BY <1>3
<1> QED
  BY <1>1, <1>4 DEF X, IsSeq

\* Sequences with the same elements are the same.
LEMMA SeqEq ==
    ASSUME NEW s, NEW u, IsSeq(s), IsSeq(u), Len(s) = Len(u),
           \A i \in 1 .. Len(s) : s[i] = u[i]
    PROVE  s = u
<1> DEFINE X == ToSet(s) \cup ToSet(u)
<1>1. s \in Seq(X)
  BY SeqMonotonic DEF IsSeq
<1>2. u \in Seq(X)
  BY SeqMonotonic DEF IsSeq
<1> HIDE DEF X
<1> QED
  BY <1>1, <1>2, SeqEqual

\* Concatenation, element by element.
LEMMA SeqConcat ==
    ASSUME NEW s, NEW u, IsSeq(s), IsSeq(u)
    PROVE  /\ IsSeq(s \o u) /\ Len(s \o u) = Len(s) + Len(u)
           /\ Len(s) \in Nat /\ Len(u) \in Nat
           /\ \A i \in 1 .. Len(s) : (s \o u)[i] = s[i]
           /\ \A j \in 1 .. Len(u) : (s \o u)[Len(s) + j] = u[j]
           /\ ToSet(s \o u) = ToSet(s) \cup ToSet(u)
<1> DEFINE X == ToSet(s) \cup ToSet(u)
           w == s \o u
<1>1. s \in Seq(X)
  BY SeqMonotonic DEF IsSeq
<1>2. u \in Seq(X)
  BY SeqMonotonic DEF IsSeq
<1>3. Len(s) \in Nat /\ Len(u) \in Nat
  BY SeqFacts
<1> HIDE DEF X
<1>4. /\ w \in Seq(X) /\ Len(w) = Len(s) + Len(u)
      /\ \A i \in 1 .. Len(s) + Len(u) : w[i] =
                     IF i <= Len(s) THEN s[i] ELSE u[i - Len(s)]
  BY <1>1, <1>2, ConcatProperties
<1> HIDE DEF w
<1>5. IsSeq(w) /\ DOMAIN w = 1 .. Len(w)
  BY <1>4, SeqIs
<1>6. \A i \in 1 .. Len(s) : w[i] = s[i]
  BY <1>3, <1>4
<1>7. \A j \in 1 .. Len(u) : w[Len(s) + j] = u[j]
  <2> TAKE j \in 1 .. Len(u)
  <2>1. Len(s) + j \in 1 .. Len(s) + Len(u) /\ ~(Len(s) + j <= Len(s)) /\ (Len(s) + j) - Len(s) = j
    BY <1>3
  <2> QED
    BY <1>4, <2>1
<1>8. ToSet(w) = ToSet(s) \cup ToSet(u)
  <2>1. /\ ToSet(w) = {w[i] : i \in 1 .. Len(w)} /\ ToSet(s) = {s[i] : i \in 1 .. Len(s)}
        /\ ToSet(u) = {u[i] : i \in 1 .. Len(u)}
    BY <1>5, SeqFacts
  <2>2. \A i \in 1 .. Len(w) : w[i] \in ToSet(s) \cup ToSet(u)
    <3> TAKE i \in 1 .. Len(w)
    <3>1. CASE i <= Len(s)
      BY <1>3, <1>6, <2>1, <3>1
    <3>2. CASE ~(i <= Len(s))
      <4>1. i - Len(s) \in 1 .. Len(u) /\ w[i] = u[i - Len(s)]
        BY <1>3, <1>4, <3>2
      <4> QED
        BY <2>1, <4>1
    <3> QED
      BY <3>1, <3>2
  <2>3. \A i \in 1 .. Len(s) : i \in 1 .. Len(w)
    BY <1>3, <1>4
  <2>4. \A j \in 1 .. Len(u) : Len(s) + j \in 1 .. Len(w)
    BY <1>3, <1>4
  <2>5. ToSet(s) \subseteq ToSet(w)
    BY <1>6, <2>1, <2>3
  <2>6. ToSet(u) \subseteq ToSet(w)
    BY <1>7, <2>1, <2>4
  <2> QED
    BY <2>1, <2>2, <2>5, <2>6
<1> QED
  BY <1>3, <1>4, <1>5, <1>6, <1>7, <1>8 DEF w

\* Append, element by element, and its inverses.
LEMMA SeqAppend ==
    ASSUME NEW s, NEW x, IsSeq(s)
    PROVE  /\ IsSeq(Append(s, x)) /\ Len(Append(s, x)) = Len(s) + 1 /\ Len(s) \in Nat
           /\ \A i \in 1 .. Len(s) : Append(s, x)[i] = s[i]
           /\ Append(s, x)[Len(s) + 1] = x
           /\ ToSet(Append(s, x)) = ToSet(s) \cup {x}
           /\ Append(s, x) # <<>> /\ Last(Append(s, x)) = x /\ Front(Append(s, x)) = s
           /\ Append(s, x) = s \o <<x>>
<1> DEFINE X == ToSet(s) \cup {x}
           w == Append(s, x)
<1>1. s \in Seq(X) /\ x \in X
  BY SeqMonotonic DEF IsSeq
<1>2. Len(s) \in Nat /\ DOMAIN s = 1 .. Len(s)
  BY SeqFacts
<1> HIDE DEF X
<1>3. /\ w \in Seq(X) /\ Len(w) = Len(s) + 1 /\ w # <<>>
      /\ \A i \in 1 .. Len(s) : w[i] = s[i]
      /\ w[Len(s) + 1] = x
  BY <1>1, AppendProperties
<1>4. w = s \o <<x>>
  BY <1>1, AppendIsConcat
<1> HIDE DEF w
<1>5. IsSeq(w) /\ DOMAIN w = 1 .. Len(w)
  BY <1>3, SeqIs
<1>6. ToSet(w) = ToSet(s) \cup {x}
  <2>1. 1 .. Len(w) = (1 .. Len(s)) \cup {Len(s) + 1}
    BY <1>2, <1>3
  <2> QED
    BY <1>2, <1>3, <1>5, <2>1 DEF ToSet
<1>7. Last(w) = x
  BY <1>3 DEF Last
<1>8. Front(w) = s
  <2>1. Front(w) = SubSeq(w, 1, Len(s))
    BY <1>2, <1>3 DEF Front
  <2>2. \A i \in 1 .. Len(s) : w[i] \in X
    BY <1>1, <1>3, ElementOfSeq
  <2>3. /\ SubSeq(w, 1, Len(s)) \in Seq(X)
        /\ Len(SubSeq(w, 1, Len(s))) = Len(s)
        /\ \A i \in 1 .. Len(s) : SubSeq(w, 1, Len(s))[i] = w[i]
    <3>1. w \in Seq(X) /\ Len(s) \in 0 .. Len(w)
      BY <1>2, <1>3
    <3> QED
      BY <3>1, PrefixIs DEF Prefix
  <2>4. \A i \in 1 .. Len(s) : SubSeq(w, 1, Len(s))[i] = s[i]
    BY <1>3, <2>3
  <2> QED
    BY <1>1, <2>1, <2>3, <2>4, SeqEqual
<1> QED
  BY <1>2, <1>3, <1>4, <1>5, <1>6, <1>7, <1>8 DEF w

\* Every nonempty sequence is its front and its last element.
LEMMA SeqFront ==
    ASSUME NEW s, IsSeq(s), s # <<>>
    PROVE  /\ IsSeq(Front(s)) /\ Len(Front(s)) = Len(s) - 1 /\ Len(s) \in Nat \ {0}
           /\ \A i \in 1 .. (Len(s) - 1) : Front(s)[i] = s[i]
           /\ Last(s) = s[Len(s)] /\ Append(Front(s), Last(s)) = s
<1>1. s \in Seq(ToSet(s)) /\ Len(s) \in Nat \ {0}
  BY SeqFacts DEF IsSeq
<1>2. Len(s) - 1 \in 0 .. Len(s)
  BY <1>1
<1>3. /\ Front(s) \in Seq(ToSet(s)) /\ Len(Front(s)) = Len(s) - 1
      /\ \A i \in 1 .. (Len(s) - 1) : Front(s)[i] = s[i]
  BY <1>1, <1>2, PrefixIs DEF Prefix, Front
<1>4. IsSeq(Front(s))
  BY <1>3, SeqIs
<1>5. Last(s) = s[Len(s)]
  BY DEF Last
<1> DEFINE f == Front(s)
           a == Append(f, Last(s))
<1>6. /\ IsSeq(a) /\ Len(a) = Len(f) + 1
      /\ \A i \in 1 .. Len(f) : a[i] = f[i]
      /\ a[Len(f) + 1] = Last(s)
  BY <1>4, SeqAppend
<1> HIDE DEF a
<1>7. Len(a) = Len(s) /\ \A i \in 1 .. Len(a) : a[i] = s[i]
  BY <1>1, <1>3, <1>5, <1>6
<1>8. a = s
  BY <1>6, <1>7, SeqEq
<1>9. Append(Front(s), Last(s)) = s
  BY <1>8 DEF a
<1> QED
  BY <1>1, <1>3, <1>4, <1>5, <1>9

(***************************************************************************)
(* Flattening a sequence of sequences (FlattenSeq), and the runs.          *)
(***************************************************************************)
FlatStep(ss, f, i) == IF i = 1 THEN ss[i] ELSE f[i - 1] \o ss[i]
FlatFcn(ss) == CHOOSE f : f = [i \in 1 .. Len(ss) |-> FlatStep(ss, f, i)]

\* The recursive function under FlattenSeq exists...
LEMMA FlatDefined ==
    ASSUME NEW ss, Len(ss) \in Nat
    PROVE  \E f : f = [i \in 1 .. Len(ss) |-> FlatStep(ss, f, i)]
<1> DEFINE N == Len(ss)
           Upto(g, k) == \A i \in 1 .. N : i <= k => g[i] = FlatStep(ss, g, i)
           S == {k \in Nat : \E g : g = [i \in 1 .. N |-> g[i]] /\ Upto(g, k)}
<1>1. ASSUME NEW k \in Nat, \A m \in Nat : m < k => m \in S
      PROVE  k \in S
  <2>1. CASE k = 0
    <3> DEFINE g == [i \in 1 .. N |-> <<>>]
    <3>1. Upto(g, 0)
      OBVIOUS
    <3>2. g = [i \in 1 .. N |-> g[i]]
      OBVIOUS
    <3> QED
      BY <2>1, <3>1, <3>2
  <2>2. CASE k > 0
    <3>1. k - 1 \in Nat /\ k - 1 < k
      BY <2>2
    <3>2. k - 1 \in S
      BY <1>1, <3>1
    <3>3. PICK g : g = [i \in 1 .. N |-> g[i]] /\ Upto(g, k - 1)
      BY <3>2
    <3> DEFINE h == [i \in 1 .. N |-> FlatStep(ss, g, i)]
    <3>4. \A i \in 1 .. N : i <= k - 1 => h[i] = g[i]
      BY <3>3
    <3>5. \A i \in 1 .. N : h[i] = FlatStep(ss, g, i)
      OBVIOUS
    <3>7. h = [i \in 1 .. N |-> h[i]]
      OBVIOUS
    <3> HIDE DEF h
    <3>6. ASSUME NEW i \in 1 .. N, i <= k
          PROVE  h[i] = FlatStep(ss, h, i)
      <4>1. i = 1 \/ (i - 1 \in 1 .. N /\ i - 1 <= k - 1)
        BY <3>6
      <4>2. i = 1 \/ g[i - 1] = h[i - 1]
        BY <3>4, <4>1
      <4> QED
        BY <3>5, <4>2 DEF FlatStep
    <3> QED
      BY <3>6, <3>7
  <2> QED
    BY <2>1, <2>2
<1>2. S \in SUBSET Nat
  OBVIOUS
<1>3. N \in S
  <2> HIDE DEF S
  <2> QED BY <1>1, <1>2, SetInduction
<1>4. PICK f : f = [i \in 1 .. N |-> f[i]] /\ Upto(f, N)
  BY <1>3
<1>5. \A i \in 1 .. N : f[i] = FlatStep(ss, f, i)
  BY <1>4
<1> QED
  BY <1>4, <1>5

\* ... and unfolds one sequence at a time.
LEMMA FlatUnfolds ==
    ASSUME NEW ss, Len(ss) \in Nat
    PROVE  /\ \A i \in 1 .. Len(ss) : FlatFcn(ss)[i] = FlatStep(ss, FlatFcn(ss), i)
           /\ FlattenSeq(ss) = IF Len(ss) = 0 THEN ss ELSE FlatFcn(ss)[Len(ss)]
<1> DEFINE f == FlatFcn(ss)
<1>1. f = [i \in 1 .. Len(ss) |-> FlatStep(ss, f, i)]
  BY FlatDefined DEF FlatFcn
<1>2. FlattenSeq(ss) = IF Len(ss) = 0 THEN ss ELSE FlatFcn(ss)[Len(ss)]
  BY DEF FlattenSeq, FlatFcn, FlatStep
<1> HIDE DEF f
<1>3. \A i \in 1 .. Len(ss) : f[i] = FlatStep(ss, f, i)
  BY <1>1
<1> QED
  BY <1>2, <1>3 DEF f

\* The elements of the whole are the elements of the parts.
LEMMA FlatFacts ==
    ASSUME NEW ss, IsSeq(ss), \A i \in 1 .. Len(ss) : IsSeq(ss[i])
    PROVE  /\ IsSeq(FlattenSeq(ss))
           /\ \A x : x \in ToSet(FlattenSeq(ss)) <=> \E i \in 1 .. Len(ss) : x \in ToSet(ss[i])
<1> DEFINE f == FlatFcn(ss)
           N == Len(ss)
<1>1. N \in Nat /\ (\A i \in 1 .. N : f[i] = FlatStep(ss, f, i))
      /\ FlattenSeq(ss) = IF N = 0 THEN ss ELSE f[N]
  BY SeqFacts, FlatUnfolds
<1> HIDE DEF f
<1> DEFINE Good(i) == /\ IsSeq(f[i])
                      /\ \A x : x \in ToSet(f[i]) <=> \E j \in 1 .. i : x \in ToSet(ss[j])
           S == {i \in Nat : i \in 1 .. N => Good(i)}
<1>2. ASSUME NEW k \in Nat, \A m \in Nat : m < k => m \in S
      PROVE  k \in S
  <2>1. SUFFICES ASSUME k \in 1 .. N PROVE Good(k)
    OBVIOUS
  <2>2. CASE k = 1
    <3>1. f[k] = ss[1] /\ 1 .. k = {1}
      BY <1>1, <2>1, <2>2 DEF FlatStep
    <3> QED
      BY <2>1, <2>2, <3>1
  <2>3. CASE k # 1
    <3>1. k - 1 \in Nat /\ k - 1 < k /\ k - 1 \in 1 .. N /\ 1 .. k = (1 .. (k - 1)) \cup {k}
      BY <1>1, <2>1, <2>3
    <3>2. Good(k - 1)
      BY <1>2, <3>1
    <3>3. f[k] = f[k - 1] \o ss[k]
      BY <1>1, <2>1, <2>3 DEF FlatStep
    <3> DEFINE a == f[k - 1]
    <3>4. IsSeq(a) /\ IsSeq(ss[k])
      BY <2>1, <3>2
    <3> HIDE DEF a
    <3>5. IsSeq(a \o ss[k]) /\ ToSet(a \o ss[k]) = ToSet(a) \cup ToSet(ss[k])
      BY <3>4, SeqConcat
    <3>6. \A x : (\E j \in 1 .. k : x \in ToSet(ss[j]))
                  <=> ((\E j \in 1 .. (k - 1) : x \in ToSet(ss[j])) \/ x \in ToSet(ss[k]))
      BY <3>1, Zenon
    <3> QED
      BY <3>2, <3>3, <3>5, <3>6 DEF a
  <2> QED
    BY <2>2, <2>3
<1>3. S \in SUBSET Nat
  OBVIOUS
<1>4. N \in S
  <2> HIDE DEF S
  <2> QED BY <1>1, <1>2, <1>3, SetInduction
<1>5. CASE N = 0
  <2>1. FlattenSeq(ss) = ss /\ 1 .. N = {}
    BY <1>1, <1>5
  <2> QED
    BY <2>1, SeqFacts
<1>6. CASE N # 0
  BY <1>1, <1>4, <1>6
<1> QED
  BY <1>5, <1>6

\* One part more.
LEMMA FlatAppend ==
    ASSUME NEW ss, IsSeq(ss), \A i \in 1 .. Len(ss) : IsSeq(ss[i]), NEW s, IsSeq(s)
    PROVE  FlattenSeq(Append(ss, s)) = FlattenSeq(ss) \o s
<1> DEFINE tt == Append(ss, s)
           f == FlatFcn(ss)
           g == FlatFcn(tt)
           N == Len(ss)
<1>1. /\ IsSeq(tt) /\ Len(tt) = N + 1 /\ N \in Nat
      /\ \A i \in 1 .. N : tt[i] = ss[i]
      /\ tt[N + 1] = s
  BY SeqAppend
<1>2. N \in Nat /\ (\A i \in 1 .. N : f[i] = FlatStep(ss, f, i))
      /\ FlattenSeq(ss) = IF N = 0 THEN ss ELSE f[N]
  BY <1>1, FlatUnfolds
<1> HIDE DEF tt
<1>3. (\A i \in 1 .. (N + 1) : g[i] = FlatStep(tt, g, i))
      /\ FlattenSeq(tt) = g[N + 1]
  <2>1. Len(tt) \in Nat /\ Len(tt) # 0
    BY <1>1
  <2> QED
    BY <1>1, <2>1, FlatUnfolds
<1> HIDE DEF f, g
<1> DEFINE S == {i \in Nat : i \in 1 .. N => f[i] = g[i]}
<1>4. ASSUME NEW k \in Nat, \A m \in Nat : m < k => m \in S
      PROVE  k \in S
  <2>1. SUFFICES ASSUME k \in 1 .. N PROVE f[k] = g[k]
    OBVIOUS
  <2>2. k \in 1 .. (N + 1) /\ ss[k] = tt[k]
    BY <1>1, <2>1
  <2>3. f[k] = FlatStep(ss, f, k) /\ g[k] = FlatStep(tt, g, k)
    BY <1>2, <1>3, <2>1, <2>2
  <2>4. k = 1 \/ f[k - 1] = g[k - 1]
    <3>1. k # 1 => k - 1 \in Nat /\ k - 1 < k /\ k - 1 \in 1 .. N
      BY <2>1
    <3> QED
      BY <1>4, <3>1
  <2> QED
    BY <2>2, <2>3, <2>4 DEF FlatStep
<1>5. S \in SUBSET Nat
  OBVIOUS
<1>6. N \in S
  <2> HIDE DEF S
  <2> QED BY <1>2, <1>4, <1>5, SetInduction
<1>7. CASE N = 0
  <2>1. ss = <<>>
    BY <1>7, SeqFacts
  <2>2. 1 \in 1 .. (N + 1) /\ N + 1 = 1
    BY <1>7
  <2>3. FlattenSeq(tt) = s
    BY <1>1, <1>3, <2>2 DEF FlatStep
  <2>4. <<>> \o s = s
    BY ConcatEmptySeq DEF IsSeq
  <2> QED
    BY <1>2, <1>7, <2>1, <2>3, <2>4 DEF tt
<1>8. CASE N # 0
  <2>1. N + 1 \in 1 .. (N + 1) /\ N + 1 # 1 /\ (N + 1) - 1 = N /\ N \in 1 .. N
    BY <1>2, <1>8
  <2>2. g[N + 1] = g[N] \o tt[N + 1]
    BY <1>3, <2>1 DEF FlatStep
  <2> QED
    BY <1>1, <1>2, <1>3, <1>6, <1>8, <2>1, <2>2 DEF tt
<1> QED
  BY <1>7, <1>8

\* The positions of one run, and lists of runs.
RunSpan(r) == [j \in 1 .. r[2] |-> r[1] + j - 1]
\* A list of runs: pairs of a first position and a length.
RunsOK(runs) ==
    IsSeq(runs) /\ \A n \in 1 .. Len(runs) : runs[n][1] \in Nat /\ runs[n][2] \in Nat

\* The positions of one run.
LEMMA SpanIs ==
    ASSUME NEW r, r[1] \in Nat, r[2] \in Nat
    PROVE  IsSeq(RunSpan(r)) /\ Len(RunSpan(r)) = r[2]
           /\ \A j \in 1 .. r[2] : RunSpan(r)[j] = r[1] + j - 1
<1> DEFINE s == RunSpan(r)
           n == r[2]
<1>1. s = [i \in 1 .. n |-> s[i]] /\ \A j \in 1 .. n : s[j] = r[1] + j - 1
  BY DEF RunSpan
<1>2. n \in Nat
  OBVIOUS
<1> HIDE DEF s, n
<1>3. IsSeq(s) /\ Len(s) = n
  BY <1>1, <1>2, SeqOfFcn
<1> QED
  BY <1>1, <1>3 DEF s, n

\* ExpandRuns flattens the spans of its runs.
LEMMA ExpandIs ==
    ASSUME NEW runs, RunsOK(runs)
    PROVE  /\ ExpandRuns(runs) = FlattenSeq([n \in 1 .. Len(runs) |-> RunSpan(runs[n])])
           /\ IsSeq([n \in 1 .. Len(runs) |-> RunSpan(runs[n])])
           /\ Len([n \in 1 .. Len(runs) |-> RunSpan(runs[n])]) = Len(runs)
           /\ \A n \in 1 .. Len(runs) : IsSeq(RunSpan(runs[n]))
           /\ IsSeq(ExpandRuns(runs))
<1> DEFINE ss == [n \in 1 .. Len(runs) |-> RunSpan(runs[n])]
<1>1. ExpandRuns(runs) = FlattenSeq(ss)
  BY DEF ExpandRuns, RunSpan
<1>2. Len(runs) \in Nat /\ ss = [n \in 1 .. Len(runs) |-> ss[n]]
  BY SeqFacts DEF RunsOK
<1>3. \A n \in 1 .. Len(runs) : ss[n] = RunSpan(runs[n])
  OBVIOUS
<1>4. \A n \in 1 .. Len(runs) : IsSeq(RunSpan(runs[n]))
  BY SpanIs DEF RunsOK
<1> HIDE DEF ss
<1>5. IsSeq(ss) /\ Len(ss) = Len(runs)
  BY <1>2, SeqOfFcn
<1>6. IsSeq(FlattenSeq(ss))
  BY <1>3, <1>4, <1>5, FlatFacts
<1> QED
  BY <1>1, <1>4, <1>5, <1>6 DEF ss

\* One more run appends its span (decode_extent).
LEMMA ExpandAppend ==
    ASSUME NEW runs, RunsOK(runs), NEW r, r[1] \in Nat, r[2] \in Nat
    PROVE  /\ RunsOK(Append(runs, r))
           /\ ExpandRuns(Append(runs, r)) = ExpandRuns(runs) \o RunSpan(r)
<1> DEFINE new == Append(runs, r)
           N == Len(runs)
           ss == [n \in 1 .. N |-> RunSpan(runs[n])]
           tt == [n \in 1 .. Len(new) |-> RunSpan(new[n])]
<1>1. /\ IsSeq(new) /\ Len(new) = N + 1 /\ N \in Nat
      /\ \A i \in 1 .. N : new[i] = runs[i]
      /\ new[N + 1] = r
  BY SeqAppend DEF RunsOK
<1>2. RunsOK(new)
  <2>1. \A n \in 1 .. Len(new) : n \in 1 .. N \/ n = N + 1
    BY <1>1
  <2> HIDE DEF new
  <2> QED
    BY <1>1, <2>1 DEF RunsOK
<1>3. /\ ExpandRuns(runs) = FlattenSeq(ss) /\ IsSeq(ss) /\ Len(ss) = N
      /\ \A n \in 1 .. N : IsSeq(RunSpan(runs[n]))
  BY ExpandIs
<1>4. ExpandRuns(new) = FlattenSeq(tt) /\ IsSeq(tt) /\ Len(tt) = N + 1
  <2> HIDE DEF new
  <2> QED BY <1>1, <1>2, ExpandIs
<1>5. /\ \A n \in 1 .. N : ss[n] = RunSpan(runs[n])
      /\ \A n \in 1 .. (N + 1) : tt[n] = RunSpan(new[n])
  BY <1>1
<1> HIDE DEF ss, tt, new
<1>6. IsSeq(RunSpan(r))
  BY SpanIs
<1>7. tt = Append(ss, RunSpan(r))
  <2> DEFINE a == Append(ss, RunSpan(r))
  <2>1. /\ IsSeq(a) /\ Len(a) = N + 1
        /\ \A i \in 1 .. N : a[i] = ss[i]
        /\ a[N + 1] = RunSpan(r)
    <3>1. /\ IsSeq(a) /\ Len(a) = Len(ss) + 1
          /\ \A i \in 1 .. Len(ss) : a[i] = ss[i]
          /\ a[Len(ss) + 1] = RunSpan(r)
      BY <1>3, SeqAppend
    <3> HIDE DEF a
    <3> QED
      BY <1>3, <3>1
  <2> HIDE DEF a
  <2>2. \A i \in 1 .. Len(tt) : tt[i] = a[i]
    <3>1. \A i \in 1 .. Len(tt) : i \in 1 .. N \/ i = N + 1
      BY <1>1, <1>4
    <3> QED
      BY <1>1, <1>4, <1>5, <2>1, <3>1
  <2>3. tt = a
    BY <1>4, <2>1, <2>2, SeqEq
  <2> QED
    BY <2>3 DEF a
<1>8. FlattenSeq(Append(ss, RunSpan(r))) = FlattenSeq(ss) \o RunSpan(r)
  BY <1>3, <1>5, <1>6, FlatAppend
<1> QED
  BY <1>2, <1>3, <1>4, <1>7, <1>8 DEF new

\* A position joined to the runs is the last of their positions.
LEMMA JoinedExpands ==
    ASSUME NEW runs, RunsOK(runs), NEW p \in Nat
    PROVE  /\ RunsOK(Joined(runs, p))
           /\ ExpandRuns(Joined(runs, p)) = Append(ExpandRuns(runs), p)
<1>0. IsSeq(ExpandRuns(runs))
  BY ExpandIs
<1>1. CASE runs # <<>> /\ Last(runs)[1] + Last(runs)[2] = p
  <2> DEFINE F == Front(runs)
             a == Last(runs)
             b == <<a[1], a[2] + 1>>
             E == ExpandRuns(F)
             s == RunSpan(a)
  <2>1. /\ IsSeq(F) /\ Len(F) = Len(runs) - 1 /\ Len(runs) \in Nat \ {0}
        /\ \A i \in 1 .. (Len(runs) - 1) : F[i] = runs[i]
        /\ a = runs[Len(runs)] /\ Append(F, a) = runs
    BY <1>1, SeqFront DEF RunsOK
  <2>2. RunsOK(F) /\ a[1] \in Nat /\ a[2] \in Nat
    BY <2>1 DEF RunsOK
  <2>3. b[1] \in Nat /\ b[2] \in Nat /\ b[1] = a[1] /\ b[2] = a[2] + 1
    BY <2>2
  <2>4. Joined(runs, p) = Append(F, b)
    BY <1>1 DEF Joined
  <2> HIDE DEF F, a, b
  <2>5. ExpandRuns(runs) = E \o s
    BY <2>1, <2>2, ExpandAppend
  <2>6. RunsOK(Append(F, b)) /\ ExpandRuns(Append(F, b)) = E \o RunSpan(b)
    BY <2>2, <2>3, ExpandAppend
  <2>7. RunSpan(b) = Append(s, p)
    <3>1. IsSeq(s) /\ Len(s) = a[2] /\ \A j \in 1 .. a[2] : s[j] = a[1] + j - 1
      BY <2>2, SpanIs
    <3>2. IsSeq(RunSpan(b)) /\ Len(RunSpan(b)) = a[2] + 1
          /\ \A j \in 1 .. (a[2] + 1) : RunSpan(b)[j] = a[1] + j - 1
      BY <2>3, SpanIs
    <3> DEFINE w == Append(s, p)
    <3>3. IsSeq(w) /\ Len(w) = a[2] + 1 /\ (\A i \in 1 .. a[2] : w[i] = s[i]) /\ w[a[2] + 1] = p
      <4>1. /\ IsSeq(w) /\ Len(w) = Len(s) + 1 /\ w[Len(s) + 1] = p
            /\ \A i \in 1 .. Len(s) : w[i] = s[i]
        BY <3>1, SeqAppend
      <4> HIDE DEF w
      <4> QED
        BY <3>1, <4>1
    <3> HIDE DEF w, s
    <3>4. p = a[1] + (a[2] + 1) - 1
      BY <1>1, <2>2 DEF a
    <3>5. \A i \in 1 .. Len(w) : w[i] = RunSpan(b)[i]
      <4>1. \A i \in 1 .. Len(w) : i \in 1 .. a[2] \/ i = a[2] + 1
        BY <2>2, <3>3
      <4>2. \A i \in 1 .. a[2] : i \in 1 .. (a[2] + 1) /\ w[i] = RunSpan(b)[i]
        BY <2>2, <3>1, <3>2, <3>3
      <4>4. a[2] + 1 \in 1 .. (a[2] + 1)
        BY <2>2
      <4>5. RunSpan(b)[a[2] + 1] = a[1] + (a[2] + 1) - 1
        BY <3>2, <4>4
      <4>3. w[a[2] + 1] = RunSpan(b)[a[2] + 1]
        BY <3>3, <3>4, <4>5
      <4> QED
        BY <4>1, <4>2, <4>3
    <3>6. w = RunSpan(b)
      BY <3>2, <3>3, <3>5, SeqEq
    <3> QED
      BY <3>6 DEF w, s
  <2>8. IsSeq(E) /\ IsSeq(s)
    BY <2>2, ExpandIs, SpanIs
  <2> HIDE DEF E, s
  <2>9. E \o Append(s, p) = Append(E \o s, p)
    <3> DEFINE X == (ToSet(E) \cup ToSet(s)) \cup {p}
    <3>1. E \in Seq(X) /\ s \in Seq(X) /\ p \in X
      BY <2>8, SeqMonotonic DEF IsSeq
    <3> HIDE DEF X
    <3>2. Append(s, p) = s \o <<p>> /\ <<p>> \in Seq(X) /\ E \o s \in Seq(X)
      BY <3>1, AppendIsConcat, ConcatProperties
    <3>3. Append(E \o s, p) = (E \o s) \o <<p>>
      BY <3>1, <3>2, AppendIsConcat
    <3>4. (E \o s) \o <<p>> = E \o (s \o <<p>>)
      BY <3>1, <3>2, ConcatAssociative
    <3> QED
      BY <3>2, <3>3, <3>4
  <2> QED
    BY <2>4, <2>5, <2>6, <2>7, <2>9
<1>2. CASE ~(runs # <<>> /\ Last(runs)[1] + Last(runs)[2] = p)
  <2> DEFINE b == <<p, 1>>
  <2>1. b[1] = p /\ b[2] = 1 /\ b[1] \in Nat /\ b[2] \in Nat
    OBVIOUS
  <2>2. Joined(runs, p) = Append(runs, b)
    BY <1>2 DEF Joined
  <2> HIDE DEF b
  <2>3. RunsOK(Append(runs, b)) /\ ExpandRuns(Append(runs, b)) = ExpandRuns(runs) \o RunSpan(b)
    BY <2>1, ExpandAppend
  <2>4. RunSpan(b) = <<p>>
    <3>1. IsSeq(RunSpan(b)) /\ Len(RunSpan(b)) = 1 /\ \A j \in 1 .. 1 : RunSpan(b)[j] = p + j - 1
      BY <2>1, SpanIs
    <3>2. <<p>> \in Seq({p}) /\ Len(<<p>>) = 1 /\ <<p>>[1] = p
      OBVIOUS
    <3>3. IsSeq(<<p>>)
      BY <3>2, SeqIs
    <3>4. \A i \in 1 .. 1 : RunSpan(b)[i] = <<p>>[i]
      BY <3>1, <3>2
    <3> QED
      BY <3>1, <3>2, <3>3, <3>4, SeqEq
  <2>5. Append(ExpandRuns(runs), p) = ExpandRuns(runs) \o <<p>>
    BY <1>0, SeqAppend
  <2> QED
    BY <2>2, <2>3, <2>4, <2>5
<1> QED
  BY <1>1, <1>2

\* CompressRuns, one position at a time.
RunsStep(ps, f, n) == IF n = 0 THEN <<>> ELSE Joined(f[n - 1], ps[n])
RunsFcn(ps) == CHOOSE f : f = [n \in 0 .. Len(ps) |-> RunsStep(ps, f, n)]

\* The recursive function under CompressRuns exists.
LEMMA RunsDefined ==
    ASSUME NEW ps, Len(ps) \in Nat
    PROVE  \E f : f = [n \in 0 .. Len(ps) |-> RunsStep(ps, f, n)]
<1> DEFINE N == Len(ps)
           Step(g, n) == RunsStep(ps, g, n)
           Upto(g, k) == \A i \in 0 .. N : i <= k => g[i] = Step(g, i)
           S == {k \in Nat : \E g : g = [i \in 0 .. N |-> g[i]] /\ Upto(g, k)}
<1>1. ASSUME NEW k \in Nat, \A m \in Nat : m < k => m \in S
      PROVE  k \in S
  <2>1. CASE k = 0
    <3> DEFINE g == [i \in 0 .. N |-> <<>>]
    <3>1. Upto(g, 0)
      BY DEF RunsStep
    <3>2. g = [i \in 0 .. N |-> g[i]]
      OBVIOUS
    <3> QED
      BY <2>1, <3>1, <3>2
  <2>2. CASE k > 0
    <3>1. k - 1 \in Nat /\ k - 1 < k
      BY <2>2
    <3>2. k - 1 \in S
      BY <1>1, <3>1
    <3>3. PICK g : g = [i \in 0 .. N |-> g[i]] /\ Upto(g, k - 1)
      BY <3>2
    <3> DEFINE h == [i \in 0 .. N |-> Step(g, i)]
    <3>4. \A i \in 0 .. N : i <= k - 1 => h[i] = g[i]
      BY <3>3
    <3>5. \A i \in 0 .. N : h[i] = Step(g, i)
      OBVIOUS
    <3>7. h = [i \in 0 .. N |-> h[i]]
      OBVIOUS
    <3> HIDE DEF h
    <3>6. ASSUME NEW i \in 0 .. N, i <= k
          PROVE  h[i] = Step(h, i)
      <4>1. i = 0 \/ (i - 1 \in 0 .. N /\ i - 1 <= k - 1)
        BY <3>6
      <4>2. i = 0 \/ g[i - 1] = h[i - 1]
        BY <3>4, <4>1
      <4> QED
        BY <3>5, <4>2 DEF RunsStep
    <3> QED
      BY <3>6, <3>7
  <2> QED
    BY <2>1, <2>2
<1>2. S \in SUBSET Nat
  OBVIOUS
<1>3. N \in S
  <2> HIDE DEF S
  <2> QED BY <1>1, <1>2, SetInduction
<1>4. PICK f : f = [i \in 0 .. N |-> f[i]] /\ Upto(f, N)
  BY <1>3
<1>5. \A i \in 0 .. N : f[i] = Step(f, i)
  BY <1>4
<1> QED
  BY <1>4, <1>5

\* The positions of the runs that positions were compressed to are those
\* positions, in their order (compress_runs, expand_runs).
THEOREM RunsRoundTrip ==
    ASSUME NEW ps \in Seq(Nat)
    PROVE  ExpandRuns(CompressRuns(ps)) = ps
<1> DEFINE N == Len(ps)
           f == RunsFcn(ps)
<1>1. N \in Nat /\ IsSeq(ps) /\ \A n \in 1 .. N : ps[n] \in Nat
  BY SeqIs, ElementOfSeq
<1>2. f = [n \in 0 .. N |-> RunsStep(ps, f, n)]
  BY <1>1, RunsDefined DEF RunsFcn
<1>3. CompressRuns(ps) = f[N]
  BY DEF CompressRuns, RunsFcn, RunsStep
<1> HIDE DEF f
<1>4. f[0] = <<>> /\ \A n \in 1 .. N : f[n] = Joined(f[n - 1], ps[n])
  BY <1>1, <1>2 DEF RunsStep
<1> DEFINE Good(n) == RunsOK(f[n]) /\ ExpandRuns(f[n]) = Prefix(ps, n)
           S == {n \in Nat : n <= N => Good(n)}
<1>5. ASSUME NEW k \in Nat, \A m \in Nat : m < k => m \in S
      PROVE  k \in S
  <2>1. SUFFICES ASSUME k <= N PROVE Good(k)
    OBVIOUS
  <2>2. CASE k = 0
    <3>1. <<>> \in Seq({}) /\ Len(<<>>) = 0
      BY EmptySeq
    <3>2. IsSeq(<<>>)
      BY <3>1, SeqIs
    <3>3. RunsOK(<<>>)
      BY <3>1, <3>2 DEF RunsOK
    <3> DEFINE ss == [n \in 1 .. Len(<<>>) |-> RunSpan(<<>>[n])]
    <3>4. ExpandRuns(<<>>) = FlattenSeq(ss) /\ IsSeq(ss) /\ Len(ss) = 0
      BY <3>1, <3>3, ExpandIs
    <3> HIDE DEF ss
    <3>5. FlattenSeq(ss) = ss /\ ss = <<>>
      BY <3>4, FlatUnfolds, SeqFacts
    <3>6. Prefix(ps, 0) = <<>>
      BY SubSeqEmpty DEF Prefix
    <3> QED
      BY <1>4, <2>2, <3>3, <3>4, <3>5, <3>6
  <2>3. CASE k # 0
    <3>1. k - 1 \in Nat /\ k - 1 < k /\ k - 1 <= N /\ k \in 1 .. N /\ k - 1 \in 0 .. N
      BY <1>1, <2>1, <2>3
    <3>2. RunsOK(f[k - 1]) /\ ExpandRuns(f[k - 1]) = Prefix(ps, k - 1)
      BY <1>5, <3>1
    <3>3. f[k] = Joined(f[k - 1], ps[k]) /\ ps[k] \in Nat
      BY <1>1, <1>4, <3>1
    <3> DEFINE a == f[k - 1]
    <3>4. RunsOK(a)
      BY <3>2
    <3> HIDE DEF a
    <3>5. RunsOK(Joined(a, ps[k])) /\ ExpandRuns(Joined(a, ps[k])) = Append(ExpandRuns(a), ps[k])
      BY <3>3, <3>4, JoinedExpands
    <3>6. Append(Prefix(ps, k - 1), ps[k]) = Prefix(ps, k)
      <4> DEFINE w == Prefix(ps, k - 1)
      <4>1. w \in Seq(Nat) /\ Len(w) = k - 1 /\ \A i \in 1 .. (k - 1) : w[i] = ps[i]
        BY <3>1, PrefixIs
      <4>2. k \in 0 .. Len(ps)
        BY <3>1
      <4>3. Prefix(ps, k) \in Seq(Nat) /\ Len(Prefix(ps, k)) = k
            /\ \A i \in 1 .. k : Prefix(ps, k)[i] = ps[i]
        BY <4>2, PrefixIs
      <4> HIDE DEF w
      <4> DEFINE x == Append(w, ps[k])
      <4>4. /\ x \in Seq(Nat) /\ Len(x) = Len(w) + 1 /\ x[Len(w) + 1] = ps[k]
            /\ \A i \in 1 .. Len(w) : x[i] = w[i]
        BY <3>3, <4>1, AppendProperties
      <4> HIDE DEF x
      <4>5. Len(x) = k /\ x[k] = ps[k] /\ \A i \in 1 .. (k - 1) : x[i] = ps[i]
        <5>1. Len(w) + 1 = k
          BY <3>1, <4>1
        <5> QED
          BY <4>1, <4>4, <5>1
      <4>6. \A i \in 1 .. k : i = k \/ i \in 1 .. (k - 1)
        BY <3>1
      <4>7. \A i \in 1 .. Len(x) : x[i] = Prefix(ps, k)[i]
        BY <3>1, <4>3, <4>5, <4>6
      <4>8. x = Prefix(ps, k)
        BY <4>3, <4>4, <4>5, <4>7, SeqEqual
      <4> QED
        BY <4>8 DEF x, w
    <3> QED
      BY <3>2, <3>3, <3>5, <3>6 DEF a
  <2> QED
    BY <2>2, <2>3
<1>6. S \in SUBSET Nat
  OBVIOUS
<1>7. N \in S
  <2> HIDE DEF S
  <2> QED BY <1>1, <1>5, <1>6, SetInduction
<1>8. ExpandRuns(f[N]) = Prefix(ps, N)
  BY <1>1, <1>7
<1> QED
  BY <1>3, <1>8, PrefixWhole

\* f lists the n elements of S in the order of their numbers.
Sorted(f, S, n, number) ==
    /\ f \in [1 .. n -> S] /\ ToSet(f) = S
    /\ \A a, b \in 1 .. n : a < b => f[a] # f[b] /\ number[f[a]] <= number[f[b]]

\* Every finite set can be listed by its numbers.
LEMMA SortExists ==
    ASSUME NEW S, IsFiniteSet(S), NEW number, \A s \in S : number[s] \in Nat
    PROVE  \E f : Sorted(f, S, Cardinality(S), number)
<1> DEFINE P(T) == \E f : Sorted(f, T, Cardinality(T), number)
           N == {n \in Nat : \A T \in SUBSET S : Cardinality(T) = n => P(T)}
<1>1. ASSUME NEW n \in Nat, \A m \in Nat : m < n => m \in N
      PROVE  n \in N
  <2>1. SUFFICES ASSUME NEW T \in SUBSET S, Cardinality(T) = n PROVE P(T)
    OBVIOUS
  <2>2. IsFiniteSet(T)
    BY FS_Subset
  <2>3. CASE T = {}
    <3> DEFINE f == [a \in 1 .. 0 |-> a]
    <3>1. Cardinality(T) = 0
      BY <2>3, FS_EmptySet
    <3>2. f \in [1 .. 0 -> T] /\ 1 .. 0 = {}
      OBVIOUS
    <3>3. ToSet(f) = T
      BY <2>3, <3>2 DEF ToSet
    <3>4. Sorted(f, T, 0, number)
      BY <3>2, <3>3 DEF Sorted
    <3> QED
      BY <3>1, <3>4
  <2>4. CASE T # {}
    <3> DEFINE V == {number[s] : s \in T}
    <3>1. V \in SUBSET Nat /\ V # {}
      BY <2>4
    <3>2. Min(V) \in V /\ \A v \in V : Min(V) <= v
      <4> HIDE DEF V
      <4> QED BY <3>1, MinOfNaturals
    <3>3. PICK x \in T : \A s \in T : number[x] <= number[s]
      BY <3>2
    <3> DEFINE R == T \ {x}
    <3>4. IsFiniteSet(R) /\ Cardinality(R) = n - 1 /\ n - 1 \in Nat /\ n - 1 < n
      <4>1. Cardinality(R) = Cardinality(T) - 1 /\ IsFiniteSet(R)
        BY <2>2, FS_RemoveElement
      <4>2. Cardinality(R) \in Nat
        BY <4>1, FS_CardinalityType
      <4> QED
        BY <2>1, <4>1, <4>2
    <3>5. P(R)
      <4>1. R \in SUBSET S
        OBVIOUS
      <4> HIDE DEF R, P
      <4>2. n - 1 \in N
        BY <1>1, <3>4
      <4> QED
        BY <3>4, <4>1, <4>2
    <3>6. PICK g : Sorted(g, R, n - 1, number)
      BY <3>4, <3>5
    <3>7. /\ g \in [1 .. (n - 1) -> R] /\ ToSet(g) = R
          /\ \A a, b \in 1 .. (n - 1) : a < b => g[a] # g[b] /\ number[g[a]] <= number[g[b]]
      BY <3>6 DEF Sorted
    <3> DEFINE f == [a \in 1 .. n |-> IF a = 1 THEN x ELSE g[a - 1]]
    <3>8. \A a \in 1 .. n : a = 1 \/ (a # 1 /\ a - 1 \in 1 .. (n - 1))
      BY <3>4
    <3>9. 1 \in 1 .. n /\ f[1] = x /\ \A a \in 1 .. n : a # 1 => f[a] = g[a - 1] /\ f[a] \in R
      BY <3>4, <3>7, <3>8
    <3>10. f \in [1 .. n -> T] /\ DOMAIN f = 1 .. n
      BY <3>7, <3>8
    <3>15. \A b \in 1 .. (n - 1) : b + 1 \in 1 .. n /\ b + 1 # 1 /\ (b + 1) - 1 = b
      BY <3>4
    <3> HIDE DEF f
    <3>11. ToSet(f) = T
      <4>1. ToSet(f) = {f[a] : a \in 1 .. n}
        BY <3>10 DEF ToSet
      <4>2. \A a \in 1 .. n : f[a] \in T
        BY <3>10
      <4>3. ASSUME NEW s \in T PROVE \E a \in 1 .. n : f[a] = s
        <5>1. CASE s = x
          BY <3>9, <5>1
        <5>2. CASE s # x
          <6>1. PICK b \in 1 .. (n - 1) : g[b] = s
            BY <3>7, <5>2 DEF ToSet
          <6>2. f[b + 1] = s
            BY <3>9, <3>15, <6>1
          <6> QED
            BY <3>15, <6>2
        <5> QED
          BY <5>1, <5>2
      <4> QED
        BY <4>1, <4>2, <4>3
    <3>12. ASSUME NEW a \in 1 .. n, NEW b \in 1 .. n, a < b
           PROVE  f[a] # f[b] /\ number[f[a]] <= number[f[b]]
      <4>1. b # 1 /\ b - 1 \in 1 .. (n - 1) /\ f[b] = g[b - 1] /\ f[b] \in R
        BY <3>8, <3>9, <3>12
      <4>2. CASE a = 1
        BY <3>3, <3>9, <4>1, <4>2
      <4>3. CASE a # 1
        <5>1. a - 1 \in 1 .. (n - 1) /\ f[a] = g[a - 1] /\ a - 1 < b - 1
          BY <3>8, <3>9, <3>12, <4>3
        <5> QED
          BY <3>7, <4>1, <5>1
      <4> QED
        BY <4>2, <4>3
    <3>13. Sorted(f, T, n, number)
      BY <3>10, <3>11, <3>12 DEF Sorted
    <3> QED
      BY <2>1, <3>13
  <2> QED
    BY <2>3, <2>4
<1>2. N \in SUBSET Nat
  OBVIOUS
<1>3. Cardinality(S) \in Nat
  BY FS_CardinalityType
<1>4. Cardinality(S) \in N
  <2> HIDE DEF N
  <2> QED BY <1>1, <1>2, <1>3, SetInduction
<1> QED
  BY <1>4

\* The group is in order, whole, and without repetition.
LEMMA SortedByIs ==
    ASSUME NEW S, IsFiniteSet(S), NEW number, \A s \in S : number[s] \in Nat
    PROVE  /\ IsSeq(SortedBy(S, number)) /\ Len(SortedBy(S, number)) = Cardinality(S)
           /\ Cardinality(S) \in Nat
           /\ ToSet(SortedBy(S, number)) = S
           /\ \A a, b \in 1 .. Cardinality(S) :
                 SortedBy(S, number)[a] = SortedBy(S, number)[b] => a = b
<1> DEFINE n == Cardinality(S)
           C(f) == /\ ToSet(f) = S
                   /\ \A a, b \in 1 .. Cardinality(S) :
                        a < b => f[a] # f[b] /\ number[f[a]] <= number[f[b]]
           f == SortedBy(S, number)
<1>1. \E g \in [1 .. n -> S] : C(g)
  BY SortExists DEF Sorted
<1>2. f = CHOOSE g \in [1 .. n -> S] : C(g)
  BY DEF SortedBy
<1>3. f \in [1 .. n -> S] /\ C(f)
  <2> HIDE DEF f, C
  <2> QED BY <1>1, <1>2, Zenon
<1>4. n \in Nat
  BY FS_CardinalityType
<1> HIDE DEF f, n
<1>5. f = [a \in 1 .. n |-> f[a]]
  BY <1>3
<1>6. IsSeq(f) /\ Len(f) = n
  BY <1>4, <1>5, SeqOfFcn
<1>7. \A a, b \in 1 .. n : f[a] = f[b] => a = b
  <2> TAKE a, b \in 1 .. n
  <2>1. a < b \/ b < a \/ a = b
    BY <1>4
  <2>2. a < b => f[a] # f[b]
    BY <1>3 DEF n
  <2>3. b < a => f[b] # f[a]
    BY <1>3 DEF n
  <2> QED
    BY <2>1, <2>2, <2>3
<1> QED
  BY <1>3, <1>4, <1>6, <1>7 DEF f, n

(***************************************************************************)
(* The trie over any tract t: what Hamt says of the present one.           *)
(***************************************************************************)
KindIn(t, c) == IF c = Nil THEN "none" ELSE IF c = Dirty THEN "node" ELSE t[c].kind
SealedIn(t, c) == KindIn(t, c) \notin {"none", "zero", "bad", "dead"}
LeafIn(t, c) == KindIn(t, c) \in {"lone", "extent"}
KidIn(t, c, s) == IF c > 0 /\ KindIn(t, c) = "node" THEN t[c].kids[s] ELSE Nil
FurrowsIn(t, c) == IF KindIn(t, c) = "extent" THEN ExpandRuns(t[c].runs) ELSE <<>>

\* One level of the descent, and the slots of the trie m over the tract t.
SlotStep(t, m, f, p) ==
    IF p \in DOMAIN m THEN m[p]
    ELSE IF p = <<>> THEN Nil ELSE KidIn(t, f[Front(p)], Last(p))

\* The slot of every route.
Slots(t, m) ==
    LET f[p \in Routes] == SlotStep(t, m, f, p) IN f

\* The descent is well defined: a slot depends on the one above it...
LEMMA SlotsDefined ==
    ASSUME NEW t, NEW m
    PROVE  \E f : f = [p \in Routes |-> SlotStep(t, m, f, p)]
<1> DEFINE Upto(g, k) == \A p \in Routes : Len(p) <= k => g[p] = SlotStep(t, m, g, p)
           S == {k \in Nat : \E g : g = [p \in Routes |-> g[p]] /\ Upto(g, k)}
<1>0. \A p \in Routes : /\ Len(p) \in Nat /\ Len(p) <= KeyLen + 1
                        /\ p # <<>> => /\ Front(p) \in Routes /\ Len(Front(p)) = Len(p) - 1
                                       /\ Len(p) > 0
  BY RouteFront, PathFacts
<1>1. ASSUME NEW k \in Nat, \A j \in Nat : j < k => j \in S
      PROVE  k \in S
  <2>1. CASE k = 0
    <3> DEFINE g == [p \in Routes |-> SlotStep(t, m, <<>>, p)]
    <3>1. ASSUME NEW p \in Routes, Len(p) <= 0 PROVE g[p] = SlotStep(t, m, g, p)
      <4>1. p = <<>>
        BY <1>0, <3>1
      <4> QED
        BY <4>1 DEF SlotStep
    <3>2. g = [p \in Routes |-> g[p]]
      OBVIOUS
    <3> QED
      BY <2>1, <3>1, <3>2
  <2>2. CASE k > 0
    <3>1. k - 1 \in Nat /\ k - 1 < k
      BY <2>2
    <3>2. k - 1 \in S
      BY <1>1, <3>1
    <3>3. PICK g : g = [p \in Routes |-> g[p]] /\ Upto(g, k - 1)
      BY <3>2
    <3> DEFINE h == [p \in Routes |-> SlotStep(t, m, g, p)]
    <3>4. \A p \in Routes : Len(p) <= k - 1 => h[p] = g[p]
      BY <3>3
    <3>5. \A p \in Routes : h[p] = SlotStep(t, m, g, p)
      OBVIOUS
    <3>7. h = [p \in Routes |-> h[p]]
      OBVIOUS
    <3> HIDE DEF h
    <3>6. ASSUME NEW p \in Routes, Len(p) <= k
          PROVE  h[p] = SlotStep(t, m, h, p)
      <4>1. p = <<>> \/ (Front(p) \in Routes /\ Len(Front(p)) <= k - 1)
        BY <1>0, <3>6
      <4>2. p = <<>> \/ g[Front(p)] = h[Front(p)]
        BY <3>4, <4>1
      <4> QED
        BY <3>5, <4>2 DEF SlotStep
    <3> QED
      BY <3>6, <3>7
  <2> QED
    BY <2>1, <2>2
<1>2. S \in SUBSET Nat
  OBVIOUS
<1>3. KeyLen + 1 \in Nat
  BY KeyFacts
<1>4. KeyLen + 1 \in S
  <2> HIDE DEF S
  <2> QED BY <1>1, <1>2, <1>3, SetInduction
<1>5. PICK f : f = [p \in Routes |-> f[p]] /\ Upto(f, KeyLen + 1)
  BY <1>4
<1>6. \A p \in Routes : f[p] = SlotStep(t, m, f, p)
  BY <1>0, <1>5
<1> QED
  BY <1>5, <1>6

\* ... and unfolds one level at a time (Hamt::lookup).
LEMMA SlotsUnfold ==
    ASSUME NEW t, NEW m
    PROVE  /\ Slots(t, m) = [p \in Routes |-> Slots(t, m)[p]]
           /\ \A p \in Routes : Slots(t, m)[p] = SlotStep(t, m, Slots(t, m), p)
<1> DEFINE f == Slots(t, m)
<1>1. f = CHOOSE g : g = [p \in Routes |-> SlotStep(t, m, g, p)]
  BY DEF Slots
<1> HIDE DEF f
<1>2. f = [p \in Routes |-> SlotStep(t, m, f, p)]
  BY <1>1, SlotsDefined
<1>3. f = [p \in Routes |-> f[p]] /\ \A p \in Routes : f[p] = SlotStep(t, m, f, p)
  BY <1>2
<1> QED
  BY <1>3 DEF f

\* The slots are the only function that satisfies their equation.
LEMMA SlotsUnique ==
    ASSUME NEW t, NEW m, NEW f, f = [p \in Routes |-> f[p]],
           \A p \in Routes : f[p] = SlotStep(t, m, f, p)
    PROVE  Slots(t, m) = f
<1> DEFINE g == Slots(t, m)
           S == {k \in Nat : \A p \in Routes : Len(p) <= k => f[p] = g[p]}
<1>1. g = [p \in Routes |-> g[p]] /\ \A p \in Routes : g[p] = SlotStep(t, m, g, p)
  BY SlotsUnfold
<1> HIDE DEF g
<1>2. \A p \in Routes : /\ Len(p) \in Nat /\ Len(p) <= KeyLen + 1
                        /\ p # <<>> => /\ Front(p) \in Routes /\ Len(Front(p)) = Len(p) - 1
                                       /\ Len(p) > 0
  BY RouteFront, PathFacts
<1>3. ASSUME NEW k \in Nat, \A j \in Nat : j < k => j \in S
      PROVE  k \in S
  <2>1. SUFFICES ASSUME NEW p \in Routes, Len(p) <= k PROVE f[p] = g[p]
    OBVIOUS
  <2>2. p = <<>> \/ f[Front(p)] = g[Front(p)]
    <3>1. SUFFICES ASSUME p # <<>> PROVE f[Front(p)] = g[Front(p)]
      OBVIOUS
    <3>2. /\ Front(p) \in Routes /\ Len(Front(p)) <= k - 1 /\ k - 1 \in Nat /\ k - 1 < k
      BY <1>2, <2>1, <3>1
    <3>3. k - 1 \in S
      BY <1>3, <3>2
    <3> QED
      BY <3>2, <3>3
  <2> QED
    BY <1>1, <2>2 DEF SlotStep
<1>4. S \in SUBSET Nat
  OBVIOUS
<1>5. KeyLen + 1 \in Nat
  BY KeyFacts
<1>6. KeyLen + 1 \in S
  <2> HIDE DEF S
  <2> QED BY <1>3, <1>4, <1>5, SetInduction
<1>7. \A p \in Routes : f[p] = g[p]
  BY <1>2, <1>6
<1>8. f = g
  BY <1>1, <1>7
<1> QED
  BY <1>8 DEF g

\* Hamt's operators, over the present tract.
LEMMA NowIs ==
    /\ \A c : Kind(c) = KindIn(tract, c)
    /\ \A c : Sealed(c) <=> SealedIn(tract, c)
    /\ \A c : IsLeaf(c) <=> LeafIn(tract, c)
    /\ \A c : FurrowsOf(c) = FurrowsIn(tract, c)
    /\ \A m, q : Slot(m, q) = Slots(tract, m)[q]
<1>1. \A c : Kind(c) = KindIn(tract, c)
  BY DEF Kind, KindIn
<1>2. \A c, s : Kid(c, s) = KidIn(tract, c, s)
  BY <1>1 DEF Kid, KidIn
<1>3. ASSUME NEW m, NEW q PROVE Slot(m, q) = Slots(tract, m)[q]
  BY Zenon DEF Slot, Slots, SlotStep, Kid, KidIn, Kind, KindIn
<1>4. \A c : Sealed(c) <=> SealedIn(tract, c)
  BY <1>1, Zenon DEF Sealed, SealedIn
<1>5. \A c : IsLeaf(c) <=> LeafIn(tract, c)
  BY <1>1, Zenon DEF IsLeaf, LeafIn
<1>6. \A c : FurrowsOf(c) = FurrowsIn(tract, c)
  BY <1>1, Zenon DEF FurrowsOf, FurrowsIn
<1> QED
  BY <1>1, <1>3, <1>4, <1>5, <1>6

(***************************************************************************)
(* A sound trie.                                                           *)
(***************************************************************************)
\* The arena: every dirty node has all its slots in memory and dirty nodes above.
Arena(m, S) ==
    /\ <<>> \in DOMAIN m /\ DOMAIN m \subseteq Routes
    /\ \A q \in DOMAIN m : \A p \in Above(q) : p \in DOMAIN m /\ m[p] = Dirty
    /\ \A q \in DOMAIN m : m[q] = Dirty => \A c \in Chunks : Append(q, c) \in DOMAIN m
    /\ \A q \in Routes : S[q] = Dirty => q \in DOMAIN m

\* A furrow position of key k: the j-th of value w, or a block that was lost.
FurrowOK(t, l, k, j, w) ==
    /\ KindIn(t, l) \in {"furrow", "zero", "bad"}
    /\ KindIn(t, l) = "furrow" => t[l].key = k /\ t[l].i = j /\ t[l].value = w

\* The leaf c at q holds the value v has for its key, whole unless it was hurt.
LeafOK(t, c, q, v, hurt, b) ==
    /\ t[c].key \in Keys /\ q \in Along(t[c].key) /\ v[t[c].key] # Absent
    /\ KindIn(t, c) = "lone" => t[c].value = v[t[c].key]
    /\ IsSeq(FurrowsIn(t, c))
    /\ KindIn(t, c) = "extent" => Len(FurrowsIn(t, c)) > 0
    /\ \A j \in 1 .. Len(FurrowsIn(t, c)) :
         /\ FurrowsIn(t, c)[j] \in 1 .. b
         /\ FurrowOK(t, FurrowsIn(t, c)[j], t[c].key, j, v[t[c].key])
         /\ t[c].key \notin hurt => KindIn(t, FurrowsIn(t, c)[j]) = "furrow"

\* Nodes on the way to every child, each where its path says.
Shape(t, S, b) ==
    /\ S \in [Routes -> -1 .. b]
    /\ \A q \in Routes : S[q] # Nil =>
        /\ q \in Paths
        /\ KindIn(t, S[q]) \in {"node", "lone", "extent", "zero", "bad"}
        /\ KindIn(t, S[q]) = "node" => Len(q) < KeyLen
        /\ KindIn(t, S[q]) = "node" /\ S[q] > 0 => t[S[q]].path = q
        /\ \A p \in Above(q) : KindIn(t, S[p]) = "node"

Leaves(t, S, v, hurt, b) ==
    \A q \in Paths : LeafIn(t, S[q]) => LeafOK(t, S[q], q, v, hurt, b)

\* A key nothing happened to has its leaf, and no lost block on its way.
Kept(t, S, v, hurt) ==
    \A k \in Keys \ hurt :
        /\ v[k] # Absent => \E q \in Paths : LeafIn(t, S[q]) /\ t[S[q]].key = k
        /\ \A q \in Along(k) : KindIn(t, S[q]) # "bad"

\* A trie of blocks below b that stands for the map v, but for the keys in hurt.
Tree(t, S, v, hurt, b) ==
    Shape(t, S, b) /\ Leaves(t, S, v, hurt, b) /\ Kept(t, S, v, hurt)

\* What the child c holds, and what the trie reaches.
Holds(t, c, l) == SealedIn(t, c) /\ (l = c \/ l \in ToSet(FurrowsIn(t, c)))
Reached(t, S, l) == SealedIn(t, l) /\ \E q \in Paths : Holds(t, S[q], l)

\* The two children that are no blocks.
LEMMA KindNil ==
    ASSUME NEW t
    PROVE  /\ KindIn(t, Nil) = "none" /\ KindIn(t, Dirty) = "node"
           /\ ~SealedIn(t, Nil) /\ SealedIn(t, Dirty) /\ ~LeafIn(t, Nil) /\ ~LeafIn(t, Dirty)
           /\ FurrowsIn(t, Nil) = <<>> /\ FurrowsIn(t, Dirty) = <<>>
           /\ Nil = 0 /\ Dirty = -1
<1>1. Nil = 0 /\ Dirty = -1 /\ Dirty # Nil
  BY DEF Nil, Dirty
<1>2. KindIn(t, Nil) = "none" /\ KindIn(t, Dirty) = "node"
  BY <1>1 DEF KindIn
<1> QED
  BY <1>1, <1>2 DEF SealedIn, LeafIn, FurrowsIn

\* One path holds the leaves of a key, and one path every block.
LEMMA LeafUnique ==
    ASSUME NEW t, NEW S, NEW v, NEW hurt, NEW b \in Nat, Shape(t, S, b), Leaves(t, S, v, hurt, b),
           NEW p \in Paths, NEW q \in Paths, LeafIn(t, S[p]),
           NEW k \in Keys, t[S[p]].key = k, q \in Along(k),
           S[q] # Nil, KindIn(t, S[q]) # "node"
    PROVE  p = q
<1>1. p \in Along(k) /\ q \in Along(k)
  BY DEF Leaves, LeafOK
<1>2. p = q \/ p \in Above(q) \/ q \in Above(p)
  BY <1>1, AlongChain
<1>3. p \in Routes /\ q \in Routes /\ S[p] # Nil
  BY PathFacts, KindNil
<1>4. p \notin Above(q)
  BY <1>3 DEF Shape, LeafIn
<1>5. q \notin Above(p)
  BY <1>3 DEF Shape
<1> QED
  BY <1>2, <1>4, <1>5

\* No block is held at two paths: a furrow has one leaf, a leaf one slot.
LEMMA OwnerUnique ==
    ASSUME NEW t, NEW S, NEW v, NEW hurt, NEW b \in Nat, Shape(t, S, b), Leaves(t, S, v, hurt, b),
           NEW l, l # Dirty, SealedIn(t, l),
           NEW p \in Paths, NEW q \in Paths, Holds(t, S[p], l), Holds(t, S[q], l)
    PROVE  p = q
<1>0. p \in Routes /\ q \in Routes
  BY PathFacts
<1>1. ASSUME NEW r \in Paths, Holds(t, S[r], l)
      PROVE  /\ S[r] # Nil /\ r \in Routes
             /\ KindIn(t, S[r]) \in {"node", "lone", "extent"}
             /\ \/ l = S[r] /\ KindIn(t, l) \in {"node", "lone", "extent"}
                \/ LeafIn(t, S[r]) /\ KindIn(t, l) = "furrow" /\ t[l].key = t[S[r]].key
             /\ LeafIn(t, S[r]) => t[S[r]].key \in Keys /\ r \in Along(t[S[r]].key)
  <2>1. S[r] # Nil /\ r \in Routes
    BY <1>1, PathFacts, KindNil DEF Holds
  <2>2. KindIn(t, S[r]) \in {"node", "lone", "extent"}
    BY <1>1, <2>1 DEF Shape, Holds, SealedIn
  <2>3. LeafIn(t, S[r]) => LeafOK(t, S[r], r, v, hurt, b)
    BY DEF Leaves
  <2>4. CASE l = S[r]
    BY <2>1, <2>2, <2>3, <2>4 DEF LeafOK
  <2>5. CASE l # S[r]
    <3>1. l \in ToSet(FurrowsIn(t, S[r]))
      BY <1>1, <2>5 DEF Holds
    <3>2. KindIn(t, S[r]) = "extent"
      BY <3>1 DEF FurrowsIn, ToSet
    <3>3. LeafIn(t, S[r]) /\ LeafOK(t, S[r], r, v, hurt, b)
      BY <2>3, <3>2 DEF LeafIn
    <3>4. PICK j \in 1 .. Len(FurrowsIn(t, S[r])) : l = FurrowsIn(t, S[r])[j]
      BY <3>1, <3>3, SeqFacts DEF LeafOK
    <3>5. FurrowOK(t, l, t[S[r]].key, j, v[t[S[r]].key])
      BY <3>3, <3>4 DEF LeafOK
    <3>6. KindIn(t, l) = "furrow" /\ t[l].key = t[S[r]].key
      BY <3>5 DEF FurrowOK, SealedIn
    <3>7. t[S[r]].key \in Keys /\ r \in Along(t[S[r]].key)
      BY <3>3 DEF LeafOK
    <3> QED
      BY <2>1, <2>2, <3>3, <3>6, <3>7
  <2> QED
    BY <2>4, <2>5
<1>2. CASE l = S[p] /\ l = S[q]
  <2>1. CASE KindIn(t, l) = "node"
    <3>1. l \in Int /\ l >= -1
      BY <1>0, <1>2 DEF Shape
    <3>2. l > 0
      BY <1>1, <1>2, <3>1, KindNil
    <3>3. \A r \in Routes : S[r] # Nil /\ KindIn(t, S[r]) = "node" /\ S[r] > 0 => t[S[r]].path = r
      BY DEF Shape
    <3>4. t[l].path = p /\ t[l].path = q
      BY <1>0, <1>2, <2>1, <3>2, <3>3, KindNil
    <3> QED
      BY <3>4
  <2>2. CASE KindIn(t, l) # "node"
    <3>1. LeafIn(t, S[p]) /\ LeafIn(t, S[q])
      BY <1>1, <1>2, <2>2 DEF LeafIn
    <3> DEFINE k == t[S[p]].key
    <3>2. /\ k \in Keys /\ q \in Along(k) /\ t[S[p]].key = k
          /\ S[q] # Nil /\ KindIn(t, S[q]) # "node"
      BY <1>1, <1>2, <2>2, <3>1
    <3> HIDE DEF k
    <3> QED
      BY <3>1, <3>2, LeafUnique
  <2> QED
    BY <2>1, <2>2
<1>3. CASE LeafIn(t, S[p]) /\ LeafIn(t, S[q]) /\ KindIn(t, l) = "furrow"
           /\ t[S[p]].key = t[S[q]].key
  <2>1. KindIn(t, S[q]) # "node"
    BY <1>3 DEF LeafIn
  <2> QED
    BY <1>1, <1>3, <2>1, LeafUnique
<1> QED
  BY <1>1, <1>2, <1>3

\* What a read of block c says depends on that block alone.
LEMMA SameBlock ==
    ASSUME NEW t, NEW u, NEW c, c > 0 => u[c] = t[c], c \in Int, c >= -1
    PROVE  /\ KindIn(u, c) = KindIn(t, c) /\ (SealedIn(u, c) <=> SealedIn(t, c))
           /\ (LeafIn(u, c) <=> LeafIn(t, c)) /\ FurrowsIn(u, c) = FurrowsIn(t, c)
           /\ \A s : KidIn(u, c, s) = KidIn(t, c, s)
<1>1. KindIn(u, c) = KindIn(t, c)
  BY DEF KindIn, Nil, Dirty
<1>2. c > 0 \/ KindIn(t, c) # "extent"
  BY KindNil
<1> QED
  BY <1>1, <1>2 DEF SealedIn, LeafIn, FurrowsIn, KidIn

\* The blocks of the trie S are in u as they are in t.
Same(t, u, S) ==
    \A q \in Paths : S[q] > 0 =>
        u[S[q]] = t[S[q]] /\ \A l \in ToSet(FurrowsIn(t, S[q])) : u[l] = t[l]

\* No step that leaves a trie's blocks alone touches what it says.
LEMMA Frame ==
    ASSUME NEW t, NEW u, NEW m, NEW S, S = Slots(t, m), NEW v, NEW hurt, NEW b \in Nat,
           Tree(t, S, v, hurt, b), Same(t, u, S)
    PROVE  /\ Slots(u, m) = S
           /\ Tree(u, S, v, hurt, b)
           /\ \A l \in Nat : Reached(u, S, l) <=> Reached(t, S, l)
           /\ \A q \in Paths, l \in Nat : Holds(u, S[q], l) <=> Holds(t, S[q], l)
<1>0. /\ \A q \in Routes : S[q] \in Int /\ S[q] >= -1 /\ S[q] <= b
      /\ \A q \in Routes : q \notin Paths => S[q] = 0
      /\ Paths \subseteq Routes
  BY PathFacts DEF Tree, Shape, Nil
<1>1. ASSUME NEW q \in Routes
      PROVE  /\ KindIn(u, S[q]) = KindIn(t, S[q]) /\ (SealedIn(u, S[q]) <=> SealedIn(t, S[q]))
             /\ (LeafIn(u, S[q]) <=> LeafIn(t, S[q])) /\ FurrowsIn(u, S[q]) = FurrowsIn(t, S[q])
             /\ \A s : KidIn(u, S[q], s) = KidIn(t, S[q], s)
             /\ S[q] > 0 => u[S[q]] = t[S[q]]
             /\ \A l \in ToSet(FurrowsIn(t, S[q])) : u[l] = t[l]
  <2>1. S[q] > 0 => u[S[q]] = t[S[q]] /\ \A l \in ToSet(FurrowsIn(t, S[q])) : u[l] = t[l]
    BY <1>0 DEF Same
  <2>2. S[q] > 0 \/ FurrowsIn(t, S[q]) = <<>>
    BY <1>0, KindNil
  <2>3. ToSet(<<>>) = {}
    BY DEF ToSet
  <2> QED
    BY <1>0, <2>1, <2>2, <2>3, SameBlock
<1>2. Slots(u, m) = S
  <2>1. S = [p \in Routes |-> S[p]] /\ \A p \in Routes : S[p] = SlotStep(t, m, S, p)
    BY SlotsUnfold
  <2>2. ASSUME NEW p \in Routes PROVE S[p] = SlotStep(u, m, S, p)
    <3>1. p = <<>> \/ (Front(p) \in Routes)
      BY RouteFront, PathFacts
    <3>2. p # <<>> => KidIn(u, S[Front(p)], Last(p)) = KidIn(t, S[Front(p)], Last(p))
      BY <1>1, <3>1
    <3>3. S[p] = SlotStep(t, m, S, p)
      BY <2>1
    <3> QED
      BY <3>2, <3>3 DEF SlotStep
  <2> QED
    BY <2>1, <2>2, SlotsUnique
<1>3. Shape(u, S, b)
  BY <1>1, AboveIs, PathFacts DEF Tree, Shape
<1>4. Leaves(u, S, v, hurt, b)
  <2>1. SUFFICES ASSUME NEW q \in Paths, LeafIn(u, S[q]) PROVE LeafOK(u, S[q], q, v, hurt, b)
    BY DEF Leaves
  <2>2. q \in Routes /\ S[q] > 0 /\ S[q] \in Nat
    BY <1>0, <2>1, KindNil
  <2>3. LeafOK(t, S[q], q, v, hurt, b)
    BY <1>1, <2>1, <2>2 DEF Tree, Leaves
  <2>4. u[S[q]] = t[S[q]] /\ FurrowsIn(u, S[q]) = FurrowsIn(t, S[q])
        /\ KindIn(u, S[q]) = KindIn(t, S[q])
    BY <1>1, <2>2
  <2> DEFINE F == FurrowsIn(t, S[q])
  <2>5. ASSUME NEW j \in 1 .. Len(F)
        PROVE  KindIn(u, F[j]) = KindIn(t, F[j]) /\ u[F[j]] = t[F[j]]
    <3>1. F[j] \in ToSet(F) /\ F[j] \in 1 .. b
      BY <2>3, SeqFacts DEF LeafOK
    <3>2. u[F[j]] = t[F[j]]
      BY <1>1, <2>2, <3>1
    <3> QED
      BY <3>1, <3>2, SameBlock
  <2> QED
    BY <2>3, <2>4, <2>5 DEF LeafOK, FurrowOK
<1>5. Kept(u, S, v, hurt)
  <2>1. \A q \in Paths : LeafIn(t, S[q]) => S[q] > 0
    BY <1>0, KindNil
  <2> QED
    BY <1>0, <1>1, <2>1, AlongFacts DEF Tree, Kept
<1>6. ASSUME NEW q \in Paths, NEW l PROVE Holds(u, S[q], l) <=> Holds(t, S[q], l)
  BY <1>0, <1>1 DEF Holds
<1>7. ASSUME NEW l \in Nat, NEW q \in Paths, Holds(t, S[q], l)
      PROVE  SealedIn(u, l) <=> SealedIn(t, l)
  <2>1. l = S[q] \/ l \in ToSet(FurrowsIn(t, S[q]))
    BY <1>7 DEF Holds
  <2>2. l > 0 => u[l] = t[l]
    BY <1>0, <1>1, <2>1
  <2> QED
    BY <2>2, SameBlock
<1>8. \A l \in Nat : Reached(u, S, l) <=> Reached(t, S, l)
  BY <1>6, <1>7 DEF Reached
<1> QED
  BY <1>2, <1>3, <1>4, <1>5, <1>6, <1>8 DEF Tree

(***************************************************************************)
(* One change of the index.                                                *)
(***************************************************************************)
UpTo(D) == UNION {Above(q) : q \in D}

\* The slots in over changed, and every node above them in the arena.
Rewired(S, over) ==
    [q \in Routes |-> IF q \in UpTo(DOMAIN over) THEN Dirty
                      ELSE IF q \in DOMAIN over THEN over[q] ELSE S[q]]

\* The paths above a set of slots are closed upwards.
LEMMA UpToIs ==
    ASSUME NEW D, D \subseteq Paths
    PROVE  /\ \A p : p \in UpTo(D) <=> \E q \in D : p \in Above(q)
           /\ UpTo(D) \subseteq Paths /\ UpTo(D) \subseteq Routes /\ D \subseteq Routes
           /\ \A p \in UpTo(D) : Above(p) \subseteq UpTo(D) /\ Len(p) < KeyLen
           /\ \A q \in D : Above(q) \subseteq UpTo(D)
<1>1. \A p : p \in UpTo(D) <=> \E q \in D : p \in Above(q)
  BY Zenon DEF UpTo
<1>2. D \subseteq Routes /\ \A q \in D : Len(q) \in 0 .. KeyLen
  BY PathFacts
<1>3. ASSUME NEW p \in UpTo(D)
      PROVE  p \in Paths /\ p \in Routes /\ Above(p) \subseteq UpTo(D) /\ Len(p) < KeyLen
  <2>1. PICK q \in D : p \in Above(q)
    BY <1>1
  <2>2. q \in Routes /\ Len(q) \in 0 .. KeyLen
    BY <1>2
  <2>3. p \in Paths /\ p \in Routes /\ Above(p) \subseteq Above(q)
    BY <2>1, <2>2, AboveAbove
  <2>4. Len(p) \in Nat /\ Len(p) < Len(q)
    BY <2>1, <2>2, AboveIs
  <2>5. KeyLen \in Nat
    BY KeyFacts
  <2> QED
    BY <1>1, <2>1, <2>2, <2>3, <2>4, <2>5
<1> QED
  BY <1>1, <1>2, <1>3

\* The slots after a change, whatever the blocks it wrote.
LEMMA ThreadSlots ==
    ASSUME NEW S, S = Slots(tract, mem), Arena(mem, S), NEW u, NEW over,
           DOMAIN over \subseteq Paths,
           UpTo(DOMAIN over) \cap DOMAIN over = {},
           \A q \in DOMAIN over : S[q] # Dirty /\ over[q] # Dirty
                /\ \A c \in Chunks : KidIn(u, over[q], c) = KidIn(tract, S[q], c),
           \A q \in Paths, c \in Chunks : KidIn(u, S[q], c) = KidIn(tract, S[q], c)
    PROVE  /\ Slots(u, Thread(mem, over)) = Rewired(S, over)
           /\ Arena(Thread(mem, over), Rewired(S, over))
<1> DEFINE D == DOMAIN over
           A == UpTo(D)
           M == Thread(mem, over)
           R == Rewired(S, over)
           W == DOMAIN mem \cup D \cup {Append(p, c) : p \in A, c \in Chunks}
<1>0. /\ A \subseteq Paths /\ A \subseteq Routes /\ D \subseteq Routes
      /\ \A p \in A : Above(p) \subseteq A
      /\ \A q \in D : Above(q) \subseteq A
  BY UpToIs
<1>1. M = [q \in W |-> IF q \in A THEN Dirty ELSE IF q \in D THEN over[q] ELSE S[q]]
  BY NowIs DEF Thread, UpTo
<1>2. R = [q \in Routes |-> IF q \in A THEN Dirty ELSE IF q \in D THEN over[q] ELSE S[q]]
  BY DEF Rewired
<1>5. /\ \A p : p \in W <=> p \in DOMAIN mem \/ p \in D \/ \E r \in A, c \in Chunks : p = Append(r, c)
      /\ D = DOMAIN over
  OBVIOUS
<1>3. W \subseteq Routes
  <2>1. \A p \in A, c \in Chunks : Append(p, c) \in Routes
    BY <1>0, RouteAppend
  <2>2. DOMAIN mem \subseteq Routes
    BY DEF Arena
  <2>3. SUFFICES ASSUME NEW p \in W PROVE p \in Routes
    OBVIOUS
  <2> HIDE DEF W, D, A
  <2>4. p \in DOMAIN mem \/ p \in D \/ \E r \in A, c \in Chunks : p = Append(r, c)
    BY <1>5
  <2> QED
    BY <1>0, <2>1, <2>2, <2>4
<1>4. /\ DOMAIN M = W /\ \A p \in W : M[p] = R[p]
      /\ \A q \in Routes : R[q] = IF q \in A THEN Dirty ELSE IF q \in D THEN over[q] ELSE S[q]
      /\ R = [q \in Routes |-> R[q]]
  BY <1>1, <1>2, <1>3
<1>6. /\ \A p \in DOMAIN mem : S[p] = mem[p]
      /\ \A p \in Routes : p \notin DOMAIN mem /\ p # <<>> => S[p] = KidIn(tract, S[Front(p)], Last(p))
      /\ <<>> \in DOMAIN mem
  BY SlotsUnfold DEF SlotStep, Arena
<1>7. A \subseteq W
  <2>1. SUFFICES ASSUME NEW p \in A PROVE p \in W
    OBVIOUS
  <2>2. CASE p = <<>>
    BY <1>6, <2>2
  <2>3. CASE p # <<>>
    <3>1. p \in Routes /\ Front(p) \in Above(p) /\ p = Append(Front(p), Last(p)) /\ Last(p) \in Chunks
      BY <1>0, <2>3, AboveFront, RouteFront
    <3>2. Front(p) \in A
      BY <1>0, <3>1
    <3> QED
      BY <1>5, <3>1, <3>2
  <2> QED
    BY <2>2, <2>3
<1> HIDE DEF M, R, W, A, D
<1>8. Slots(u, M) = R
  <2>1. SUFFICES ASSUME NEW p \in Routes PROVE R[p] = SlotStep(u, M, R, p)
    BY <1>4, SlotsUnique
  <2>2. CASE p \in W
    BY <1>4, <2>2 DEF SlotStep
  <2>3. CASE p \notin W
    <3>1. p \notin DOMAIN mem /\ p \notin D /\ p \notin A /\ p # <<>>
      BY <1>5, <1>6, <1>7, <2>3
    <3>2. /\ p = Append(Front(p), Last(p)) /\ Last(p) \in Chunks
          /\ Front(p) \in Paths /\ Front(p) \in Routes
      BY <3>1, RouteFront, PathFacts
    <3>3. Front(p) \notin A
      BY <1>5, <2>3, <3>2
    <3>4. R[p] = KidIn(tract, S[Front(p)], Last(p))
      BY <1>4, <1>6, <3>1
    <3>5. R[Front(p)] = IF Front(p) \in D THEN over[Front(p)] ELSE S[Front(p)]
      BY <1>4, <3>2, <3>3
    <3>6. KidIn(u, R[Front(p)], Last(p)) = KidIn(tract, S[Front(p)], Last(p))
      BY <3>2, <3>5 DEF D
    <3> QED
      BY <1>4, <2>3, <3>1, <3>4, <3>6 DEF SlotStep
  <2> QED
    BY <2>2, <2>3
<1>9. Arena(M, R)
  <2>1. <<>> \in DOMAIN M /\ DOMAIN M \subseteq Routes
    BY <1>3, <1>4, <1>5, <1>6
  <2>2. ASSUME NEW q \in W, NEW p \in Above(q) PROVE p \in W /\ M[p] = Dirty
    <3>1. q \in Routes /\ p \in Routes
      BY <1>3, AboveAbove
    <3>2. CASE p \in A
      BY <1>4, <1>7, <3>1, <3>2
    <3>3. CASE p \notin A
      <4>1. q \notin D
        BY <1>0, <3>3
      <4>2. ASSUME NEW r \in A, NEW c \in Chunks, q = Append(r, c) PROVE FALSE
        <5>1. Above(q) = Above(r) \cup {r}
          BY <1>0, <4>2, <3>1, AboveFront, RouteAppend
        <5> QED
          BY <1>0, <3>3, <5>1
      <4>3. q \in DOMAIN mem
        BY <1>5, <4>1, <4>2
      <4>4. p \in DOMAIN mem /\ mem[p] = Dirty
        BY <4>3 DEF Arena
      <4>5. S[p] = Dirty /\ p \notin D
        BY <1>6, <4>4 DEF D
      <4> QED
        BY <1>4, <1>5, <3>1, <3>3, <4>4, <4>5
    <3> QED
      BY <3>2, <3>3
  <2>3. ASSUME NEW q \in Routes, R[q] = Dirty
        PROVE  q \in W /\ \A c \in Chunks : Append(q, c) \in W
    <3>1. CASE q \in A
      BY <1>5, <1>7, <3>1
    <3>2. CASE q \notin A
      <4>1. q \notin D
        BY <1>4, <2>3, <3>2 DEF D
      <4>2. S[q] = Dirty
        BY <1>4, <2>3, <3>2, <4>1
      <4>3. q \in DOMAIN mem /\ mem[q] = Dirty
        BY <1>6, <4>2 DEF Arena
      <4> QED
        BY <1>5, <4>3 DEF Arena
    <3> QED
      BY <3>1, <3>2
  <2> QED
    BY <1>3, <1>4, <2>1, <2>2, <2>3 DEF Arena
<1> QED
  BY <1>8, <1>9 DEF M, R

\* What may be put in the slots a change names.
Graft(t, u, S, over, v2, h2, b2) ==
    \A d \in DOMAIN over :
        /\ over[d] \in 0 .. b2
        /\ over[d] = Nil \/ KindIn(u, over[d]) \in {"node", "lone", "extent"}
        /\ KindIn(u, over[d]) = "node" <=> KindIn(t, S[d]) = "node"
        /\ KindIn(u, over[d]) = "node" => u[over[d]].path = d
        /\ LeafIn(u, over[d]) => LeafOK(u, over[d], d, v2, h2, b2)

\* The change `over` gives the keys in K0 the answer of v2 and h2.
Threaded(t, u, S, v, hurt, b, b2, over, A, v2, h2, K0) ==
    /\ b \in Nat
    /\ Tree(t, S, v, hurt, b)
    /\ b2 \in Nat
    /\ b <= b2
    /\ \A l \in 1 .. b : u[l] = t[l]
    /\ DOMAIN over \subseteq Paths
    /\ A = UpTo(DOMAIN over)
    /\ A \cap DOMAIN over = {}
    /\ Graft(t, u, S, over, v2, h2, b2)
    /\ \A k \in Keys \ K0 : v2[k] = v[k] /\ (k \in h2 <=> k \in hurt)
    /\ \A q \in Paths : q \notin A /\ q \notin DOMAIN over /\ LeafIn(t, S[q])
                                => t[S[q]].key \notin K0
    /\ \A q \in Paths : (q \in A \/ q \in DOMAIN over) /\ LeafIn(t, S[q])
                             /\ t[S[q]].key \notin K0 /\ t[S[q]].key \notin hurt
                => \E d \in DOMAIN over : LeafIn(u, over[d]) /\ u[over[d]].key = t[S[q]].key
    /\ \A k \in Keys : k \in K0 /\ k \notin h2 =>
                /\ v2[k] # Absent => \E d \in DOMAIN over : LeafIn(u, over[d]) /\ u[over[d]].key = k
                /\ \A q \in Along(k) : q \notin A /\ q \notin DOMAIN over => KindIn(t, S[q]) # "bad"

\* A change gives the keys in K0 a new value; the others keep theirs.
LEMMA ThreadTree ==
    ASSUME NEW t, NEW u, NEW S, NEW v, NEW hurt, NEW b, NEW b2, NEW over, NEW A, NEW v2, NEW h2, NEW K0,
           Threaded(t, u, S, v, hurt, b, b2, over, A, v2, h2, K0)
    PROVE  Tree(u, Rewired(S, over), v2, h2, b2)
<1> SUFFICES ASSUME b \in Nat,
         Tree(t, S, v, hurt, b),
         b2 \in Nat,
         b <= b2,
         \A l \in 1 .. b : u[l] = t[l],
         DOMAIN over \subseteq Paths,
         A = UpTo(DOMAIN over),
         A \cap DOMAIN over = {},
         Graft(t, u, S, over, v2, h2, b2),
         \A k \in Keys \ K0 : v2[k] = v[k] /\ (k \in h2 <=> k \in hurt),
         \A q \in Paths : q \notin A /\ q \notin DOMAIN over /\ LeafIn(t, S[q])
                                => t[S[q]].key \notin K0,
         \A q \in Paths : (q \in A \/ q \in DOMAIN over) /\ LeafIn(t, S[q])
                             /\ t[S[q]].key \notin K0 /\ t[S[q]].key \notin hurt
                => \E d \in DOMAIN over : LeafIn(u, over[d]) /\ u[over[d]].key = t[S[q]].key,
         \A k \in Keys : k \in K0 /\ k \notin h2 =>
                /\ v2[k] # Absent => \E d \in DOMAIN over : LeafIn(u, over[d]) /\ u[over[d]].key = k
                /\ \A q \in Along(k) : q \notin A /\ q \notin DOMAIN over => KindIn(t, S[q]) # "bad"
    PROVE  Tree(u, Rewired(S, over), v2, h2, b2)
  BY DEF Threaded
<1> DEFINE D == DOMAIN over
           R == Rewired(S, over)
<1>0. /\ A \subseteq Paths /\ A \subseteq Routes /\ D \subseteq Routes
      /\ \A p \in A : Above(p) \subseteq A /\ Len(p) < KeyLen
      /\ \A q \in D : Above(q) \subseteq A
  BY UpToIs
<1>1. /\ \A q \in Routes : R[q] = IF q \in A THEN Dirty ELSE IF q \in D THEN over[q] ELSE S[q]
      /\ R = [q \in Routes |-> R[q]]
  BY DEF Rewired
<1> HIDE DEF R
<1>2. /\ \A q \in Routes : S[q] \in Int /\ S[q] >= -1 /\ S[q] <= b
      /\ Paths \subseteq Routes /\ Nil = 0 /\ Dirty = -1
  BY PathFacts DEF Tree, Shape, Nil, Dirty
<1>3. ASSUME NEW q \in Routes
      PROVE  /\ KindIn(u, S[q]) = KindIn(t, S[q]) /\ (LeafIn(u, S[q]) <=> LeafIn(t, S[q]))
             /\ FurrowsIn(u, S[q]) = FurrowsIn(t, S[q]) /\ (S[q] > 0 => u[S[q]] = t[S[q]])
  <2>1. S[q] > 0 => u[S[q]] = t[S[q]]
    BY <1>2
  <2> QED
    BY <1>2, <2>1, SameBlock
<1>4. \A q \in Routes : q \in D => KindIn(u, R[q]) \in {"none", "node", "lone", "extent"} /\ q \notin A
                                   /\ R[q] = over[q] /\ R[q] \in 0 .. b2
  BY <1>1, KindNil DEF Graft
<1>5. KindIn(u, Dirty) = "node" /\ KindIn(t, Dirty) = "node" /\ KindIn(u, Nil) = "none"
      /\ KindIn(t, Nil) = "none" /\ ~LeafIn(u, Dirty) /\ ~LeafIn(u, Nil) /\ ~LeafIn(t, Dirty)
      /\ ~LeafIn(t, Nil)
  BY KindNil
<1>6. ASSUME NEW p \in Routes, KindIn(t, S[p]) = "node" PROVE KindIn(u, R[p]) = "node"
  <2>1. CASE p \in A
    BY <1>1, <1>5, <2>1
  <2>2. CASE p \in D /\ p \notin A
    BY <1>1, <1>6, <2>2 DEF Graft
  <2>3. CASE p \notin D /\ p \notin A
    BY <1>1, <1>3, <1>6, <2>3
  <2> QED
    BY <2>1, <2>2, <2>3
<1>7. Shape(u, R, b2)
  <2>1. \A q \in Routes : R[q] \in -1 .. b2
    BY <1>1, <1>2, <1>4
  <2>2. ASSUME NEW q \in Routes, R[q] # Nil
        PROVE  /\ q \in Paths
               /\ KindIn(u, R[q]) \in {"node", "lone", "extent", "zero", "bad"}
               /\ KindIn(u, R[q]) = "node" => Len(q) < KeyLen
               /\ KindIn(u, R[q]) = "node" /\ R[q] > 0 => u[R[q]].path = q
               /\ \A p \in Above(q) : KindIn(u, R[p]) = "node"
    <3>1. CASE q \in A
      BY <1>0, <1>1, <1>2, <1>5, <3>1
    <3>2. CASE q \in D
      <4>1. q \in Paths /\ q \notin A
        BY <3>2
      <4>2. R[q] = over[q] /\ R[q] \in Nat
        BY <1>4, <3>2
      <4>3. KindIn(u, R[q]) # "none"
        BY <2>2, <3>2, <4>2, <1>2 DEF Graft
      <4>4. KindIn(u, R[q]) = "node" => Len(q) < KeyLen /\ u[R[q]].path = q
        <5>1. SUFFICES ASSUME KindIn(u, R[q]) = "node" PROVE Len(q) < KeyLen /\ u[R[q]].path = q
          OBVIOUS
        <5>2. KindIn(t, S[q]) = "node" /\ u[R[q]].path = q
          BY <3>2, <4>2, <5>1 DEF Graft
        <5>3. S[q] # Nil
          BY <1>5, <5>2
        <5> QED
          BY <5>2, <5>3 DEF Tree, Shape
      <4>5. \A p \in Above(q) : p \in A /\ p \in Routes
        BY <1>0, <3>2
      <4>6. \A p \in Above(q) : KindIn(u, R[p]) = "node"
        BY <1>1, <1>5, <4>5
      <4> QED
        BY <1>4, <3>2, <4>1, <4>3, <4>4, <4>6
    <3>3. CASE q \notin A /\ q \notin D
      <4>1. R[q] = S[q] /\ S[q] # Nil
        BY <1>1, <2>2, <3>3
      <4>2. /\ q \in Paths
            /\ KindIn(t, S[q]) \in {"node", "lone", "extent", "zero", "bad"}
            /\ KindIn(t, S[q]) = "node" => Len(q) < KeyLen
            /\ KindIn(t, S[q]) = "node" /\ S[q] > 0 => t[S[q]].path = q
            /\ \A p \in Above(q) : KindIn(t, S[p]) = "node"
        BY <4>1 DEF Tree, Shape
      <4>3. \A p \in Above(q) : KindIn(u, R[p]) = "node"
        BY <1>6, <4>2, AboveAbove
      <4> QED
        BY <1>3, <4>1, <4>2, <4>3
    <3> QED
      BY <3>1, <3>2, <3>3
  <2> QED
    BY <1>1, <2>1, <2>2 DEF Shape
<1>8. Leaves(u, R, v2, h2, b2)
  <2>1. SUFFICES ASSUME NEW q \in Paths, LeafIn(u, R[q]) PROVE LeafOK(u, R[q], q, v2, h2, b2)
    BY DEF Leaves
  <2>2. q \in Routes /\ q \notin A
    BY <1>1, <1>2, <1>5, <2>1
  <2>3. CASE q \in D
    BY <1>4, <2>1, <2>2, <2>3 DEF Graft
  <2>4. CASE q \notin D
    <3>1. R[q] = S[q] /\ LeafIn(t, S[q]) /\ S[q] # Nil /\ S[q] # Dirty
      BY <1>1, <1>3, <1>5, <2>1, <2>2, <2>4
    <3>2. LeafOK(t, S[q], q, v, hurt, b) /\ t[S[q]].key \notin K0
      BY <2>2, <2>4, <3>1 DEF Tree, Leaves
    <3>3. u[S[q]] = t[S[q]] /\ FurrowsIn(u, S[q]) = FurrowsIn(t, S[q])
          /\ KindIn(u, S[q]) = KindIn(t, S[q])
      BY <1>2, <1>3, <2>2, <3>1
    <3> DEFINE F == FurrowsIn(t, S[q])
               k == t[S[q]].key
    <3>4. ASSUME NEW j \in 1 .. Len(F)
          PROVE  KindIn(u, F[j]) = KindIn(t, F[j]) /\ u[F[j]] = t[F[j]] /\ F[j] \in 1 .. b2
      <4>1. F[j] \in 1 .. b
        BY <3>2 DEF LeafOK
      <4> QED
        BY <4>1, SameBlock
    <3>5. k \in Keys /\ v2[k] = v[k] /\ (k \in h2 <=> k \in hurt)
      BY <3>2 DEF LeafOK
    <3> QED
      BY <3>1, <3>2, <3>3, <3>4, <3>5 DEF LeafOK, FurrowOK
  <2> QED
    BY <2>3, <2>4
<1>9. Kept(u, R, v2, h2)
  <2>1. SUFFICES ASSUME NEW k \in Keys, k \notin h2
        PROVE  /\ v2[k] # Absent => \E q \in Paths : LeafIn(u, R[q]) /\ u[R[q]].key = k
               /\ \A q \in Along(k) : KindIn(u, R[q]) # "bad"
    BY DEF Kept
  <2>2. \A d \in D : d \in Paths /\ R[d] = over[d]
    BY <1>0, <1>4
  <2>3. ASSUME NEW q \in Along(k), q \notin A, q \notin D PROVE KindIn(t, S[q]) # "bad"
    BY <2>1, <2>3 DEF Tree, Kept
  <2>4. ASSUME NEW q \in Along(k) PROVE KindIn(u, R[q]) # "bad"
    <3>1. q \in Routes
      BY AlongFacts
    <3>2. CASE q \in A
      BY <1>1, <1>5, <3>1, <3>2
    <3>3. CASE q \in D
      BY <1>4, <3>1, <3>3
    <3>4. CASE q \notin A /\ q \notin D
      BY <1>1, <1>3, <2>3, <3>1, <3>4
    <3> QED
      BY <3>2, <3>3, <3>4
  <2>5. ASSUME v2[k] # Absent PROVE \E q \in Paths : LeafIn(u, R[q]) /\ u[R[q]].key = k
    <3>1. CASE k \in K0
      BY <2>1, <2>2, <2>5, <3>1
    <3>2. CASE k \notin K0
      <4>1. k \notin hurt /\ v[k] # Absent
        BY <2>1, <2>5, <3>2
      <4>2. PICK q \in Paths : LeafIn(t, S[q]) /\ t[S[q]].key = k
        BY <4>1 DEF Tree, Kept
      <4>3. CASE q \in A \/ q \in D
        BY <2>2, <3>2, <4>1, <4>2, <4>3
      <4>4. CASE q \notin A /\ q \notin D
        <5>1. q \in Routes /\ R[q] = S[q] /\ S[q] # Nil /\ S[q] # Dirty
          BY <1>1, <1>2, <1>5, <4>2, <4>4
        <5>2. u[S[q]] = t[S[q]]
          BY <1>2, <1>3, <5>1
        <5> QED
          BY <1>3, <4>2, <5>1, <5>2
      <4> QED
        BY <4>3, <4>4
    <3> QED
      BY <3>1, <3>2
  <2> QED
    BY <2>4, <2>5
<1> QED
  BY <1>7, <1>8, <1>9 DEF Tree, R

\* A trie holds blocks below its bound.
LEMMA HeldBelow ==
    ASSUME NEW t, NEW S, NEW v, NEW hurt, NEW b \in Nat, Tree(t, S, v, hurt, b),
           NEW q \in Paths, NEW l, Holds(t, S[q], l)
    PROVE  /\ q \in Routes /\ S[q] # Nil
           /\ l = Dirty \/ l \in 1 .. b
           /\ l # Dirty => S[q] \in 1 .. b
           /\ l # S[q] => l \in 1 .. b /\ S[q] \in 1 .. b
           /\ l # S[q] => /\ KindIn(t, S[q]) = "extent" /\ LeafOK(t, S[q], q, v, hurt, b)
                          /\ \E j \in 1 .. Len(FurrowsIn(t, S[q])) : l = FurrowsIn(t, S[q])[j]
<1>1. q \in Routes /\ S[q] \in Int /\ S[q] >= -1 /\ S[q] <= b /\ Dirty = -1 /\ Nil = 0
  BY PathFacts DEF Tree, Shape, Dirty, Nil
<1>2. S[q] # Nil
  BY KindNil DEF Holds
<1>3. CASE l = S[q]
  BY <1>1, <1>2, <1>3
<1>4. CASE l # S[q]
  <2>1. l \in ToSet(FurrowsIn(t, S[q]))
    BY <1>4 DEF Holds
  <2>2. KindIn(t, S[q]) = "extent"
    BY <2>1 DEF FurrowsIn, ToSet
  <2>3. LeafOK(t, S[q], q, v, hurt, b) /\ S[q] # Dirty
    BY <2>2, KindNil DEF Tree, Leaves, LeafIn
  <2>4. PICK j \in 1 .. Len(FurrowsIn(t, S[q])) : l = FurrowsIn(t, S[q])[j]
    BY <2>1, <2>3, SeqFacts DEF LeafOK
  <2>5. l \in 1 .. b
    BY <2>3, <2>4 DEF LeafOK
  <2> QED
    BY <1>1, <1>2, <2>2, <2>3, <2>4, <2>5
<1> QED
  BY <1>3, <1>4

\* The change `over` drops and adds these blocks.
Rethreaded(t, u, S, v, hurt, b, b2, over, A, adds, drops) ==
    /\ b \in Nat
    /\ Tree(t, S, v, hurt, b)
    /\ b2 \in Nat
    /\ b <= b2
    /\ \A l \in 1 .. b : u[l] = t[l]
    /\ DOMAIN over \subseteq Paths
    /\ A = UpTo(DOMAIN over)
    /\ A \cap DOMAIN over = {}
    /\ adds \subseteq (b + 1) .. b2
    /\ \A l \in 1 .. b : l \in drops /\ SealedIn(t, l) =>
                \E q \in Paths : (q \in A \/ q \in DOMAIN over) /\ Holds(t, S[q], l)
    /\ \A q \in Paths, l \in 1 .. b :
                (q \in A \/ q \in DOMAIN over) /\ Holds(t, S[q], l) /\ SealedIn(t, l) /\ l \notin drops
                    => \E d \in DOMAIN over : Holds(u, over[d], l)
    /\ \A d \in DOMAIN over, l \in 1 .. b :
                Holds(u, over[d], l) /\ SealedIn(t, l) => l \notin drops /\ Reached(t, S, l)
    /\ \A l \in (b + 1) .. b2 :
                l \in adds <=> (SealedIn(u, l) /\ \E d \in DOMAIN over : Holds(u, over[d], l))

\* What a change reaches: what it added, and what was reached and not dropped.
LEMMA ThreadReach ==
    ASSUME NEW t, NEW u, NEW S, NEW v, NEW hurt, NEW b, NEW b2, NEW over, NEW A, NEW adds, NEW drops,
           Rethreaded(t, u, S, v, hurt, b, b2, over, A, adds, drops)
    PROVE  \A l \in 1 .. b2 :
              Reached(u, Rewired(S, over), l)
                <=> (l \in adds \/ (l <= b /\ Reached(t, S, l) /\ l \notin drops))
<1> SUFFICES ASSUME b \in Nat,
         Tree(t, S, v, hurt, b),
         b2 \in Nat,
         b <= b2,
         \A l \in 1 .. b : u[l] = t[l],
         DOMAIN over \subseteq Paths,
         A = UpTo(DOMAIN over),
         A \cap DOMAIN over = {},
         adds \subseteq (b + 1) .. b2,
         \A l \in 1 .. b : l \in drops /\ SealedIn(t, l) =>
                \E q \in Paths : (q \in A \/ q \in DOMAIN over) /\ Holds(t, S[q], l),
         \A q \in Paths, l \in 1 .. b :
                (q \in A \/ q \in DOMAIN over) /\ Holds(t, S[q], l) /\ SealedIn(t, l) /\ l \notin drops
                    => \E d \in DOMAIN over : Holds(u, over[d], l),
         \A d \in DOMAIN over, l \in 1 .. b :
                Holds(u, over[d], l) /\ SealedIn(t, l) => l \notin drops /\ Reached(t, S, l),
         \A l \in (b + 1) .. b2 :
                l \in adds <=> (SealedIn(u, l) /\ \E d \in DOMAIN over : Holds(u, over[d], l))
    PROVE  \A l \in 1 .. b2 :
              Reached(u, Rewired(S, over), l)
                <=> (l \in adds \/ (l <= b /\ Reached(t, S, l) /\ l \notin drops))
  BY DEF Rethreaded
<1> DEFINE D == DOMAIN over
           R == Rewired(S, over)
<1>0. A \subseteq Routes /\ D \subseteq Routes /\ Paths \subseteq Routes /\ A \subseteq Paths
  BY UpToIs, PathFacts
<1>1. \A q \in Routes : R[q] = IF q \in A THEN Dirty ELSE IF q \in D THEN over[q] ELSE S[q]
  BY DEF Rewired
<1> HIDE DEF R
<1>2. ASSUME NEW l \in 1 .. b2 PROVE l # Dirty /\ ~Holds(u, Dirty, l)
  BY KindNil DEF Holds, ToSet
<1>3. ASSUME NEW l \in 1 .. b PROVE (SealedIn(u, l) <=> SealedIn(t, l)) /\ l \in 1 .. b2
  <2>1. l \in Int /\ l >= -1 /\ (l > 0 => u[l] = t[l]) /\ l \in 1 .. b2
    OBVIOUS
  <2> QED
    BY <2>1, SameBlock
<1>4. ASSUME NEW q \in Paths, NEW l \in 1 .. b2
      PROVE  Holds(u, S[q], l) <=> Holds(t, S[q], l)
  <2>0. S[q] \in Int /\ S[q] >= -1 /\ S[q] <= b
    BY <1>0 DEF Tree, Shape
  <2>1. S[q] \in Int /\ S[q] >= -1 /\ (S[q] > 0 => u[S[q]] = t[S[q]])
    BY <2>0
  <2>2. SealedIn(u, S[q]) <=> SealedIn(t, S[q])
    BY <2>1, SameBlock
  <2>3. FurrowsIn(u, S[q]) = FurrowsIn(t, S[q])
    BY <2>1, SameBlock
  <2> QED
    BY <2>2, <2>3 DEF Holds
<1>5. ASSUME NEW l \in 1 .. b2, Reached(u, R, l)
      PROVE  l \in adds \/ (l <= b /\ Reached(t, S, l) /\ l \notin drops)
  <2>1. PICK q \in Paths : Holds(u, R[q], l) /\ SealedIn(u, l)
    BY <1>5 DEF Reached
  <2>2. q \notin A
    BY <1>0, <1>1, <1>2, <2>1
  <2>3. CASE q \in D
    <3>1. Holds(u, over[q], l)
      BY <1>0, <1>1, <2>1, <2>2, <2>3
    <3>2. CASE l <= b
      <4>1. l \in 1 .. b
        BY <3>2
      <4> QED
        BY <1>3, <2>1, <2>3, <3>1, <3>2, <4>1
    <3>3. CASE ~(l <= b)
      <4>1. l \in (b + 1) .. b2
        BY <3>3
      <4> QED
        BY <2>1, <2>3, <3>1, <4>1
    <3> QED
      BY <3>2, <3>3
  <2>4. CASE q \notin D
    <3>1. Holds(t, S[q], l)
      BY <1>0, <1>1, <1>4, <2>1, <2>2, <2>4
    <3>2. l \in 1 .. b
      BY <1>2, <3>1, HeldBelow
    <3>3. SealedIn(t, l) /\ Reached(t, S, l)
      BY <1>3, <2>1, <3>1, <3>2 DEF Reached
    <3>4. ASSUME l \in drops PROVE FALSE
      <4>1. PICK p \in Paths : (p \in A \/ p \in D) /\ Holds(t, S[p], l)
        BY <3>2, <3>3, <3>4
      <4>2. p = q
        BY <1>2, <3>1, <3>3, <4>1, OwnerUnique DEF Tree
      <4> QED
        BY <2>2, <2>4, <4>1, <4>2
    <3> QED
      BY <3>2, <3>3, <3>4
  <2> QED
    BY <2>3, <2>4
<1>6. ASSUME NEW d \in D, NEW l \in 1 .. b2, Holds(u, over[d], l), SealedIn(u, l)
      PROVE  Reached(u, R, l)
  <2>1. R[d] = over[d] /\ d \in Paths
    BY <1>0, <1>1
  <2> QED
    BY <1>6, <2>1 DEF Reached
<1>7. ASSUME NEW l \in 1 .. b2, l \in adds PROVE Reached(u, R, l)
  BY <1>6, <1>7
<1>8. ASSUME NEW l \in 1 .. b2, l <= b, Reached(t, S, l), l \notin drops
      PROVE  Reached(u, R, l)
  <2>1. l \in 1 .. b
    BY <1>8
  <2>2. PICK q \in Paths : Holds(t, S[q], l) /\ SealedIn(t, l)
    BY <1>8 DEF Reached
  <2>3. CASE q \in A \/ q \in D
    BY <1>3, <1>6, <1>8, <2>1, <2>2, <2>3
  <2>4. CASE q \notin A /\ q \notin D
    <3>1. Holds(u, R[q], l)
      BY <1>0, <1>1, <1>4, <2>2, <2>4
    <3> QED
      BY <1>3, <2>1, <2>2, <3>1 DEF Reached
  <2> QED
    BY <2>3, <2>4
<1> QED
  BY <1>5, <1>7, <1>8 DEF R

\* The slots once block l is lost: nothing below it.
Cut(S, l) == [q \in Routes |-> IF \E p \in Above(q) : S[p] = l THEN Nil ELSE S[q]]

\* Block l0 is zeroed or lost in u, and h2 has the keys that need it.
HurtBy(t, u, m, S, v, hurt, b, l0, h2) ==
    /\ S = Slots(t, m)
    /\ b \in Nat
    /\ Tree(t, S, v, hurt, b)
    /\ <<>> \in DOMAIN m
    /\ \A q \in DOMAIN m : \A p \in Above(q) : S[p] = Dirty
    /\ l0 \in Nat \ {0}
    /\ \A l \in 1 .. b : l # l0 => u[l] = t[l]
    /\ KindIn(u, l0) \in {"zero", "bad"}
    /\ hurt \subseteq h2
    /\ \A q \in Paths, k \in Keys : S[q] = l0 /\ q \in Along(k) /\ (KindIn(t, l0) = "node" \/ KindIn(u, l0) = "bad") => k \in h2
    /\ \A q \in Paths : LeafIn(t, S[q]) /\ Holds(t, S[q], l0) => t[S[q]].key \in h2

\* A block zeroed or lost under a trie: the keys that need it are hurt.
LEMMA Hurt ==
    ASSUME NEW t, NEW u, NEW m, NEW S, NEW v, NEW hurt, NEW b, NEW l0, NEW h2,
           HurtBy(t, u, m, S, v, hurt, b, l0, h2)
    PROVE  /\ Slots(u, m) = Cut(S, l0)
           /\ Tree(u, Cut(S, l0), v, h2, b)
           /\ \A l \in Nat : Reached(u, Cut(S, l0), l) => Reached(t, S, l) /\ l # l0
           /\ \A q \in Paths : Cut(S, l0)[q] = S[q] \/ Cut(S, l0)[q] = Nil
           /\ KindIn(t, l0) # "node" => Cut(S, l0) = S
<1> SUFFICES ASSUME S = Slots(t, m),
           b \in Nat,
           Tree(t, S, v, hurt, b),
           <<>> \in DOMAIN m,
           \A q \in DOMAIN m : \A p \in Above(q) : S[p] = Dirty,
           l0 \in Nat \ {0},
           \A l \in 1 .. b : l # l0 => u[l] = t[l],
           KindIn(u, l0) \in {"zero", "bad"},
           hurt \subseteq h2,
           \A q \in Paths, k \in Keys : S[q] = l0 /\ q \in Along(k) /\ (KindIn(t, l0) = "node" \/ KindIn(u, l0) = "bad") => k \in h2,
           \A q \in Paths : LeafIn(t, S[q]) /\ Holds(t, S[q], l0) => t[S[q]].key \in h2
    PROVE  /\ Slots(u, m) = Cut(S, l0)
           /\ Tree(u, Cut(S, l0), v, h2, b)
           /\ \A l \in Nat : Reached(u, Cut(S, l0), l) => Reached(t, S, l) /\ l # l0
           /\ \A q \in Paths : Cut(S, l0)[q] = S[q] \/ Cut(S, l0)[q] = Nil
           /\ KindIn(t, l0) # "node" => Cut(S, l0) = S
  BY DEF HurtBy
<1> DEFINE R == Cut(S, l0)
<1>0. /\ \A q \in Routes : S[q] \in Int /\ S[q] >= -1 /\ S[q] <= b
      /\ Paths \subseteq Routes /\ Nil = 0 /\ Dirty = -1
      /\ S = [q \in Routes |-> S[q]]
  BY PathFacts, SlotsUnfold DEF Tree, Shape, Nil, Dirty
<1>1. /\ \A q \in Routes : R[q] = IF \E p \in Above(q) : S[p] = l0 THEN Nil ELSE S[q]
      /\ R = [q \in Routes |-> R[q]]
  BY DEF Cut
<1> HIDE DEF R
<1>2. ASSUME NEW q \in Routes, S[q] # l0
      PROVE  /\ KindIn(u, S[q]) = KindIn(t, S[q]) /\ (LeafIn(u, S[q]) <=> LeafIn(t, S[q]))
             /\ (SealedIn(u, S[q]) <=> SealedIn(t, S[q]))
             /\ FurrowsIn(u, S[q]) = FurrowsIn(t, S[q]) /\ (S[q] > 0 => u[S[q]] = t[S[q]])
             /\ \A s : KidIn(u, S[q], s) = KidIn(t, S[q], s)
  <2>1. S[q] > 0 => u[S[q]] = t[S[q]]
    BY <1>0, <1>2
  <2> QED
    BY <1>0, <2>1, SameBlock
<1>3. ~LeafIn(u, l0) /\ ~SealedIn(u, l0) /\ \A s : KidIn(u, l0, s) = Nil
  BY DEF LeafIn, SealedIn, KidIn
<1>4. \A s : KidIn(u, Nil, s) = Nil /\ KidIn(t, Nil, s) = Nil
  BY <1>0 DEF KidIn
<1>5. /\ KindIn(u, Nil) = "none" /\ ~LeafIn(u, Nil) /\ ~SealedIn(u, Nil)
      /\ ~LeafIn(t, Nil) /\ ~LeafIn(t, Dirty)
  BY KindNil
<1>6. Slots(u, m) = R
  <2>1. /\ \A p \in DOMAIN m : p \in Routes => S[p] = m[p]
        /\ \A p \in Routes : p \notin DOMAIN m /\ p # <<>> => S[p] = KidIn(t, S[Front(p)], Last(p))
    BY SlotsUnfold DEF SlotStep
  <2>2. SUFFICES ASSUME NEW p \in Routes PROVE R[p] = SlotStep(u, m, R, p)
    BY <1>1, SlotsUnique
  <2>3. CASE p \in DOMAIN m
    <3>2. \A r \in Above(p) : S[r] = Dirty
      BY <2>3
    <3>3. Dirty # l0
      BY <1>0
    <3>1. \A r \in Above(p) : S[r] # l0
      BY <3>2, <3>3
    <3> QED
      BY <1>1, <2>1, <2>3, <3>1 DEF SlotStep
  <2>4. CASE p \notin DOMAIN m
    <3>1. p # <<>> /\ Front(p) \in Routes /\ Above(p) = Above(Front(p)) \cup {Front(p)}
      BY <2>4, RouteFront, PathFacts, AboveFront
    <3>2. SlotStep(u, m, R, p) = KidIn(u, R[Front(p)], Last(p))
      BY <2>4, <3>1 DEF SlotStep
    <3>3. S[p] = KidIn(t, S[Front(p)], Last(p))
      BY <2>1, <2>4, <3>1
    <3>4. CASE \E r \in Above(Front(p)) : S[r] = l0
      BY <1>1, <1>4, <3>1, <3>2, <3>4
    <3>5. CASE ~(\E r \in Above(Front(p)) : S[r] = l0)
      <4>1. R[Front(p)] = S[Front(p)]
        BY <1>1, <3>1, <3>5
      <4>2. CASE S[Front(p)] = l0
        BY <1>1, <1>3, <3>1, <3>2, <4>1, <4>2
      <4>3. CASE S[Front(p)] # l0
        <5>1. R[p] = S[p]
          BY <1>1, <3>1, <3>5, <4>3
        <5> QED
          BY <1>2, <3>1, <3>2, <3>3, <4>1, <4>3, <5>1
      <4> QED
        BY <4>2, <4>3
    <3> QED
      BY <3>4, <3>5
  <2> QED
    BY <2>3, <2>4
<1>7. \A q \in Routes : R[q] = S[q] \/ R[q] = Nil
  BY <1>1
<1>8. Shape(u, R, b)
  <2>1. \A q \in Routes : R[q] \in -1 .. b
    BY <1>0, <1>7
  <2>2. ASSUME NEW q \in Routes, R[q] # Nil
        PROVE  /\ q \in Paths
               /\ KindIn(u, R[q]) \in {"node", "lone", "extent", "zero", "bad"}
               /\ KindIn(u, R[q]) = "node" => Len(q) < KeyLen
               /\ KindIn(u, R[q]) = "node" /\ R[q] > 0 => u[R[q]].path = q
               /\ \A p \in Above(q) : KindIn(u, R[p]) = "node"
    <3>1. R[q] = S[q] /\ S[q] # Nil /\ \A p \in Above(q) : S[p] # l0
      BY <1>1, <2>2
    <3>2. /\ q \in Paths
          /\ KindIn(t, S[q]) \in {"node", "lone", "extent", "zero", "bad"}
          /\ KindIn(t, S[q]) = "node" => Len(q) < KeyLen
          /\ KindIn(t, S[q]) = "node" /\ S[q] > 0 => t[S[q]].path = q
          /\ \A p \in Above(q) : KindIn(t, S[p]) = "node"
      BY <3>1 DEF Tree, Shape
    <3>3. \A p \in Above(q) : p \in Routes /\ Above(p) \subseteq Above(q)
      BY AboveAbove
    <3>4. \A p \in Above(q) : R[p] = S[p]
      BY <1>1, <3>1, <3>3
    <3>5. \A p \in Above(q) : KindIn(u, R[p]) = "node"
      BY <1>2, <3>1, <3>2, <3>3, <3>4
    <3>6. CASE S[q] = l0
      BY <3>1, <3>2, <3>5, <3>6
    <3>7. CASE S[q] # l0
      BY <1>2, <3>1, <3>2, <3>5, <3>7
    <3> QED
      BY <3>6, <3>7
  <2> QED
    BY <1>1, <2>1, <2>2 DEF Shape
<1>9. Leaves(u, R, v, h2, b)
  <2>1. SUFFICES ASSUME NEW q \in Paths, LeafIn(u, R[q]) PROVE LeafOK(u, R[q], q, v, h2, b)
    BY DEF Leaves
  <2>2. q \in Routes /\ R[q] = S[q] /\ S[q] # l0 /\ S[q] # Nil
    BY <1>0, <1>3, <1>5, <1>7, <2>1
  <2>3. LeafIn(t, S[q]) /\ S[q] # Dirty /\ S[q] > 0
    BY <1>0, <1>2, <1>5, <2>1, <2>2
  <2>4. LeafOK(t, S[q], q, v, hurt, b)
    BY <2>3 DEF Tree, Leaves
  <2>5. u[S[q]] = t[S[q]] /\ FurrowsIn(u, S[q]) = FurrowsIn(t, S[q])
        /\ KindIn(u, S[q]) = KindIn(t, S[q])
    BY <1>2, <2>2, <2>3
  <2> DEFINE F == FurrowsIn(t, S[q])
             k == t[S[q]].key
  <2>6. ASSUME NEW j \in 1 .. Len(F)
        PROVE  /\ F[j] \in 1 .. b
               /\ FurrowOK(u, F[j], k, j, v[k])
               /\ k \notin h2 => KindIn(u, F[j]) = "furrow"
    <3>1. F[j] \in 1 .. b /\ FurrowOK(t, F[j], k, j, v[k])
          /\ (k \notin hurt => KindIn(t, F[j]) = "furrow") /\ F[j] \in ToSet(F)
      BY <2>4, SeqFacts DEF LeafOK
    <3>2. CASE F[j] = l0
      <4>1. Holds(t, S[q], l0)
        BY <2>3, <3>1, <3>2 DEF Holds, LeafIn, SealedIn
      <4>2. k \in h2
        BY <2>3, <4>1
      <4> QED
        BY <3>1, <3>2, <4>2 DEF FurrowOK
    <3>3. CASE F[j] # l0
      <4>1. u[F[j]] = t[F[j]] /\ F[j] \in Int /\ F[j] >= -1
        BY <3>1, <3>3
      <4>2. KindIn(u, F[j]) = KindIn(t, F[j])
        BY <4>1, SameBlock
      <4> QED
        BY <3>1, <4>1, <4>2 DEF FurrowOK
    <3> QED
      BY <3>2, <3>3
  <2> QED
    BY <2>2, <2>4, <2>5, <2>6 DEF LeafOK
<1>10. Kept(u, R, v, h2)
  <2>1. SUFFICES ASSUME NEW k \in Keys, k \notin h2
        PROVE  /\ v[k] # Absent => \E q \in Paths : LeafIn(u, R[q]) /\ u[R[q]].key = k
               /\ \A q \in Along(k) : KindIn(u, R[q]) # "bad"
    BY DEF Kept
  <2>2. k \notin hurt
    BY <2>1
  <2>3. ASSUME NEW q \in Along(k) PROVE KindIn(u, R[q]) # "bad"
    <3>1. q \in Routes /\ q \in Paths /\ KindIn(t, S[q]) # "bad"
      BY <2>2, AlongFacts DEF Tree, Kept
    <3>2. CASE R[q] = Nil
      BY <1>5, <3>2
    <3>3. CASE R[q] = S[q] /\ S[q] = l0
      BY <2>1, <3>1, <3>3
    <3>4. CASE R[q] = S[q] /\ S[q] # l0
      BY <1>2, <3>1, <3>4
    <3> QED
      BY <1>7, <3>1, <3>2, <3>3, <3>4
  <2>4. ASSUME v[k] # Absent PROVE \E q \in Paths : LeafIn(u, R[q]) /\ u[R[q]].key = k
    <3>1. PICK q \in Paths : LeafIn(t, S[q]) /\ t[S[q]].key = k
      BY <2>2, <2>4 DEF Tree, Kept
    <3>2. q \in Routes /\ q \in Along(k) /\ S[q] # Nil /\ S[q] # Dirty
      BY <1>0, <1>5, <3>1 DEF Tree, Leaves, LeafOK
    <3>3. S[q] # l0
      <4>1. Holds(t, S[q], S[q])
        BY <3>1 DEF Holds, LeafIn, SealedIn
      <4> QED
        BY <2>1, <3>1, <4>1
    <3>4. \A p \in Above(q) : p \in Along(k) /\ p \in Paths /\ KindIn(t, S[p]) = "node"
      BY <3>2, AlongChain, AlongFacts DEF Tree, Shape
    <3>5. R[q] = S[q]
      BY <1>1, <2>1, <3>2, <3>4
    <3> QED
      BY <1>0, <1>2, <3>1, <3>2, <3>3, <3>5
  <2> QED
    BY <2>3, <2>4
<1>11. ASSUME NEW l \in Nat, Reached(u, R, l) PROVE Reached(t, S, l) /\ l # l0
  <2>1. PICK q \in Paths : Holds(u, R[q], l) /\ SealedIn(u, l)
    BY <1>11 DEF Reached
  <2>2. l # l0 /\ R[q] = S[q] /\ S[q] # l0 /\ q \in Routes
    BY <1>0, <1>3, <1>5, <1>7, <2>1 DEF Holds
  <2>3. Holds(t, S[q], l)
    BY <1>2, <2>1, <2>2 DEF Holds
  <2>4. l = Dirty \/ l \in 1 .. b
    BY <2>3, HeldBelow
  <2>5. l \in Int /\ l >= -1 /\ (l > 0 => u[l] = t[l])
    BY <1>0, <2>2, <2>4
  <2>6. SealedIn(t, l)
    BY <2>1, <2>5, SameBlock
  <2> QED
    BY <2>2, <2>3, <2>6 DEF Reached
<1>12. ASSUME KindIn(t, l0) # "node" PROVE R = S
  <2>1. ASSUME NEW q \in Routes PROVE R[q] = S[q]
    <3>1. CASE S[q] = Nil
      BY <1>7, <3>1
    <3>2. CASE S[q] # Nil
      <4>1. \A p \in Above(q) : KindIn(t, S[p]) = "node"
        BY <3>2 DEF Tree, Shape
      <4> QED
        BY <1>1, <1>12, <4>1
    <3> QED
      BY <3>1, <3>2
  <2> QED
    BY <1>0, <1>1, <2>1
<1> QED
  BY <1>0, <1>6, <1>7, <1>8, <1>9, <1>10, <1>11, <1>12 DEF Tree, R

\* What a block that is no node takes with it: itself, once its furrows are gone.
LEMMA HurtReach ==
    ASSUME NEW t, NEW u, NEW S, NEW v, NEW hurt, NEW b \in Nat, Tree(t, S, v, hurt, b),
           NEW l0 \in Nat \ {0}, \A l \in 1 .. b : l # l0 => u[l] = t[l],
           \A q \in Paths, l \in ToSet(FurrowsIn(t, l0)) : S[q] = l0 => ~SealedIn(t, l),
           NEW l \in Nat, l # l0, Reached(t, S, l)
    PROVE  Reached(u, S, l)
<1>1. PICK q \in Paths : Holds(t, S[q], l) /\ SealedIn(t, l)
  BY DEF Reached
<1>2. S[q] # l0
  BY <1>1 DEF Holds
<1>3. l \in 1 .. b /\ S[q] \in 1 .. b
  BY <1>1, HeldBelow, SMTT(30) DEF Dirty
<1>4. u[l] = t[l] /\ u[S[q]] = t[S[q]]
  BY <1>2, <1>3
<1>5. SealedIn(u, l)
  BY <1>1, <1>3, <1>4, SameBlock
<1>6. (SealedIn(u, S[q]) <=> SealedIn(t, S[q])) /\ FurrowsIn(u, S[q]) = FurrowsIn(t, S[q])
  BY <1>3, <1>4, SameBlock
<1>7. Holds(u, S[q], l)
  BY <1>1, <1>6 DEF Holds
<1> QED
  BY <1>5, <1>7 DEF Reached

(***************************************************************************)
(* The flush of one node.                                                  *)
(***************************************************************************)
\* Down the first dirty slots there is a node without any.
LEMMA FirstCleanIs ==
    ASSUME NEW S, Arena(mem, S), S = Slots(tract, mem), mem[<<>>] = Dirty,
           \A q \in DOMAIN mem : mem[q] = Dirty => q \in Paths
    PROVE  /\ FirstClean \in DOMAIN mem /\ FirstClean \in Paths
           /\ mem[FirstClean] = Dirty /\ DirtySlots(FirstClean) = {}
<1> DEFINE Down(q) == mem[q] = Dirty
                      /\ \A n \in 1 .. Len(q) : q[n] = Min(DirtySlots(Prefix(q, n - 1)))
           L == {Len(q) : q \in {q \in DOMAIN mem : Down(q)}}
           P(q) == Down(q) /\ DirtySlots(q) = {}
<1>1. <<>> \in DOMAIN mem /\ DOMAIN mem \subseteq Routes
  BY DEF Arena
<1>2. Down(<<>>)
  OBVIOUS
<1>0. KeyLen + 1 \in Int /\ \A q \in DOMAIN mem : Len(q) \in Nat /\ Len(q) <= KeyLen + 1
  BY <1>1, RouteFront, KeyFacts
<1>3. L # {} /\ L \in SUBSET Int /\ \A x \in L : x <= KeyLen + 1
  <2> HIDE DEF Down
  <2>1. Len(<<>>) \in L
    BY <1>1, <1>2, Zenon
  <2>2. \A x \in L : \E q \in DOMAIN mem : x = Len(q)
    BY Zenon
  <2> HIDE DEF L
  <2> QED
    BY <1>0, <2>1, <2>2
<1>4. Max(L) \in L /\ \A y \in L : y <= Max(L)
  <2> HIDE DEF L
  <2> QED
    BY <1>0, <1>3, MaxOfBounded
<1>5. PICK q \in DOMAIN mem : Down(q) /\ Len(q) = Max(L)
  BY <1>4
<1>6. q \in Paths /\ q \in Routes /\ q \in Seq(Chunks) /\ Len(q) \in Nat
  BY <1>1, <1>5, RouteFront
<1>7. DirtySlots(q) = {}
  <2>1. SUFFICES ASSUME DirtySlots(q) # {} PROVE FALSE
    OBVIOUS
  <2> DEFINE c == Min(DirtySlots(q))
             r == Append(q, c)
  <2>2. DirtySlots(q) \in SUBSET Nat /\ DirtySlots(q) \subseteq Chunks
    BY HamtAssumption DEF DirtySlots
  <2>3. c \in DirtySlots(q) /\ c \in Chunks
    BY <2>1, <2>2, MinOfNaturals
  <2>4. mem[r] = Dirty
    BY <2>3 DEF DirtySlots
  <2>5. r \in DOMAIN mem
    BY <1>5, <2>3 DEF Arena
  <2>6. Len(r) = Len(q) + 1 /\ \A n \in 1 .. Len(q) : r[n] = q[n]
    BY <1>6, <2>3
  <2>7. r[Len(q) + 1] = c
    BY <1>6, <2>3
  <2>8. ASSUME NEW n \in 0 .. Len(q) PROVE Prefix(r, n) = Prefix(q, n)
    <3> HIDE DEF r, c
    <3>0. r \in Routes
      BY <1>1, <2>5
    <3>1. r \in Seq(Chunks) /\ n \in 0 .. Len(r) /\ n \in 0 .. Len(q)
      BY <2>6, <3>0, <1>6, RouteFront
    <3>2. /\ Prefix(r, n) \in Seq(Chunks) /\ Len(Prefix(r, n)) = n
          /\ \A i \in 1 .. n : Prefix(r, n)[i] = r[i]
      BY <3>1, PrefixIs
    <3>3. /\ Prefix(q, n) \in Seq(Chunks) /\ Len(Prefix(q, n)) = n
          /\ \A i \in 1 .. n : Prefix(q, n)[i] = q[i]
      BY <3>1, <1>6, PrefixIs
    <3>4. \A i \in 1 .. n : Prefix(r, n)[i] = Prefix(q, n)[i]
      BY <2>6, <3>2, <3>3, <1>6
    <3> QED
      BY <3>2, <3>3, <3>4, SeqEqual
  <2>9. Prefix(q, Len(q)) = q
    BY <1>6, PrefixWhole
  <2>10. ASSUME NEW n \in 1 .. Len(r) PROVE r[n] = Min(DirtySlots(Prefix(r, n - 1)))
    <3> HIDE DEF r, c
    <3>1. CASE n = Len(q) + 1
      BY <1>6, <2>7, <2>8, <2>9, <3>1 DEF c
    <3>2. CASE n # Len(q) + 1
      <4>1. n \in 1 .. Len(q) /\ n - 1 \in 0 .. Len(q)
        BY <1>6, <2>6, <3>2
      <4> QED
        BY <1>5, <2>6, <2>8, <4>1
    <3> QED
      BY <3>1, <3>2
  <2>11. Len(r) \in L
    BY <2>4, <2>5, <2>10
  <2> HIDE DEF L, r
  <2> QED
    BY <1>4, <1>5, <1>6, <2>6, <2>11
<1>8. \E x \in DOMAIN mem : P(x)
  BY <1>5, <1>7
<1>9. FirstClean = CHOOSE x \in DOMAIN mem : P(x)
  BY Zenon DEF FirstClean
<1> HIDE DEF P
<1>10. FirstClean \in DOMAIN mem /\ P(FirstClean)
  BY <1>8, <1>9, Zenon
<1> QED
  BY <1>10 DEF P

\* The arena's node q, its slots clean, is written at b + 1.
Flushed(S, v, hurt, b, q, u, m2) ==
    /\ S = Slots(tract, mem) /\ Arena(mem, S)
    /\ b \in Nat /\ Tree(tract, S, v, hurt, b)
    /\ q \in Paths /\ q \in DOMAIN mem /\ mem[q] = Dirty /\ DirtySlots(q) = {}
    /\ \A l \in 1 .. b : u[l] = tract[l]
    /\ u[b + 1] = Node(q, [c \in Chunks |-> mem[Append(q, c)]])
    /\ m2 = [p \in DOMAIN mem \ {Append(q, c) : c \in Chunks} |->
                IF p = q THEN b + 1 ELSE mem[p]]

\* The node is written in its place: nothing else of the trie changes.
LEMMA FlushedTree ==
    ASSUME NEW S, NEW v, NEW hurt, NEW b, NEW q, NEW u, NEW m2, Flushed(S, v, hurt, b, q, u, m2)
    PROVE  /\ Slots(u, m2) = [S EXCEPT ![q] = b + 1]
           /\ Arena(m2, [S EXCEPT ![q] = b + 1])
           /\ Tree(u, [S EXCEPT ![q] = b + 1], v, hurt, b + 1)
           /\ \A l \in 1 .. (b + 1) :
                 Reached(u, [S EXCEPT ![q] = b + 1], l) <=> (l = b + 1 \/ Reached(tract, S, l))
<1> SUFFICES ASSUME
           S = Slots(tract, mem), Arena(mem, S), b \in Nat, Tree(tract, S, v, hurt, b),
           q \in Paths, q \in DOMAIN mem, mem[q] = Dirty, DirtySlots(q) = {},
           \A l \in 1 .. b : u[l] = tract[l],
           u[b + 1] = Node(q, [c \in Chunks |-> mem[Append(q, c)]]),
           m2 = [p \in DOMAIN mem \ {Append(q, c) : c \in Chunks} |->
                            IF p = q THEN b + 1 ELSE mem[p]]
    PROVE  /\ Slots(u, m2) = [S EXCEPT ![q] = b + 1]
           /\ Arena(m2, [S EXCEPT ![q] = b + 1])
           /\ Tree(u, [S EXCEPT ![q] = b + 1], v, hurt, b + 1)
           /\ \A l \in 1 .. (b + 1) :
                 Reached(u, [S EXCEPT ![q] = b + 1], l) <=> (l = b + 1 \/ Reached(tract, S, l))
  BY DEF Flushed
<1> DEFINE R == [S EXCEPT ![q] = b + 1]
           below == {Append(q, c) : c \in Chunks}
<1>0. /\ \A p \in Routes : S[p] \in Int /\ S[p] >= -1 /\ S[p] <= b
      /\ Paths \subseteq Routes /\ Nil = 0 /\ Dirty = -1
      /\ S = [p \in Routes |-> S[p]] /\ q \in Routes
      /\ DOMAIN mem \subseteq Routes
  BY PathFacts, SlotsUnfold DEF Tree, Shape, Nil, Dirty, Arena
<1>1. /\ \A p \in Routes : R[p] = IF p = q THEN b + 1 ELSE S[p]
      /\ R = [p \in Routes |-> R[p]]
  BY <1>0
<1>2. /\ \A p : p \in below <=> \E c \in Chunks : p = Append(q, c)
      /\ \A c \in Chunks : Append(q, c) \in Routes /\ Front(Append(q, c)) = q /\ Last(Append(q, c)) = c
      /\ \A c \in Chunks : Append(q, c) # <<>>
  BY RouteAppend
<1>3. DOMAIN m2 = DOMAIN mem \ below /\ \A p \in DOMAIN m2 : m2[p] = IF p = q THEN b + 1 ELSE mem[p]
  OBVIOUS
<1> HIDE DEF R, below
<1>4. /\ \A p \in DOMAIN mem : S[p] = mem[p]
      /\ \A p \in Routes : p \notin DOMAIN mem /\ p # <<>> => S[p] = KidIn(tract, S[Front(p)], Last(p))
      /\ <<>> \in DOMAIN mem
  <2>1. \A p \in Routes : S[p] = SlotStep(tract, mem, S, p)
    BY SlotsUnfold
  <2> QED
    BY <1>0, <2>1 DEF SlotStep, Arena
<1>5. \A p \in below : p \in DOMAIN mem /\ p \in Routes /\ mem[p] # Dirty
  <2>1. \A c \in Chunks : Append(q, c) \in DOMAIN mem
    BY DEF Arena
  <2>2. \A c \in Chunks : mem[Append(q, c)] # Dirty
    BY DEF DirtySlots
  <2> TAKE p \in below
  <2>3. PICK c \in Chunks : p = Append(q, c)
    BY <1>2
  <2> QED
    BY <1>0, <2>1, <2>2, <2>3
<1>6. q \notin below
  BY <1>5
<1>7. /\ KindIn(u, b + 1) = "node" /\ u[b + 1].path = q
      /\ \A c \in Chunks : KidIn(u, b + 1, c) = mem[Append(q, c)]
  <2>1. KindIn(u, b + 1) = "node" /\ u[b + 1].path = q
    BY <1>0 DEF KindIn, Node
  <2> QED
    BY <2>1 DEF KidIn, Node
<1>8. /\ FurrowsIn(u, b + 1) = <<>> /\ SealedIn(u, b + 1) /\ ~LeafIn(u, b + 1) /\ ToSet(<<>>) = {}
  BY <1>7 DEF FurrowsIn, SealedIn, LeafIn, ToSet
<1>9. ASSUME NEW p \in Routes
      PROVE  /\ KindIn(u, S[p]) = KindIn(tract, S[p]) /\ (LeafIn(u, S[p]) <=> LeafIn(tract, S[p]))
             /\ (SealedIn(u, S[p]) <=> SealedIn(tract, S[p]))
             /\ FurrowsIn(u, S[p]) = FurrowsIn(tract, S[p]) /\ (S[p] > 0 => u[S[p]] = tract[S[p]])
             /\ \A s : KidIn(u, S[p], s) = KidIn(tract, S[p], s)
  <2>1. S[p] > 0 => S[p] \in 1 .. b
    BY <1>0
  <2>2. S[p] > 0 => u[S[p]] = tract[S[p]]
    BY <2>1
  <2> QED
    BY <1>0, <2>2, SameBlock
<1>10. S[q] = Dirty
  BY <1>4
<1>11. Slots(u, m2) = R
  <2>1. SUFFICES ASSUME NEW p \in Routes PROVE R[p] = SlotStep(u, m2, R, p)
    BY <1>1, SlotsUnique
  <2>2. CASE p \in DOMAIN m2
    BY <1>1, <1>3, <1>4, <2>2 DEF SlotStep
  <2>3. CASE p \in below
    <3>1. PICK c \in Chunks : p = Append(q, c)
      BY <1>2, <2>3
    <3>2. p # <<>> /\ p # q /\ Front(p) = q /\ Last(p) = c /\ p \notin DOMAIN m2
      BY <1>2, <1>3, <1>6, <2>3, <3>1
    <3>3. R[p] = mem[p] /\ R[q] = b + 1
      BY <1>0, <1>1, <1>4, <1>5, <2>3, <3>2
    <3> QED
      BY <1>7, <3>1, <3>2, <3>3 DEF SlotStep
  <2>4. CASE p \notin DOMAIN mem
    <3>1. p # <<>> /\ p \notin DOMAIN m2 /\ p # q
      BY <1>3, <1>4, <2>4
    <3>2. /\ p = Append(Front(p), Last(p)) /\ Last(p) \in Chunks /\ Front(p) \in Routes
      BY <3>1, RouteFront, PathFacts
    <3>3. Front(p) # q
      BY <1>2, <1>5, <2>4, <3>2
    <3>4. R[p] = S[p] /\ R[Front(p)] = S[Front(p)]
      BY <1>1, <3>1, <3>2, <3>3
    <3>5. S[p] = KidIn(tract, S[Front(p)], Last(p))
      BY <1>4, <2>4, <3>1
    <3>6. KidIn(u, S[Front(p)], Last(p)) = KidIn(tract, S[Front(p)], Last(p))
      BY <1>9, <3>2
    <3> QED
      BY <3>1, <3>4, <3>5, <3>6 DEF SlotStep
  <2> QED
    BY <1>3, <2>2, <2>3, <2>4
<1>12. Arena(m2, R)
  <2>1. <<>> \in DOMAIN m2 /\ DOMAIN m2 \subseteq Routes
    BY <1>0, <1>2, <1>3, <1>4
  <2>2. ASSUME NEW p \in DOMAIN m2, NEW r \in Above(p) PROVE r \in DOMAIN m2 /\ m2[r] = Dirty
    <3>1. p \in DOMAIN mem /\ p \notin below /\ p \in Routes
      BY <1>0, <1>3
    <3>2. r \in DOMAIN mem /\ mem[r] = Dirty
      BY <3>1 DEF Arena
    <3>3. r \notin below
      BY <1>5, <3>2
    <3>4. r # q
      <4>1. SUFFICES ASSUME r = q PROVE FALSE
        OBVIOUS
      <4>2. PICK c \in Chunks : Append(q, c) \in Above(p) \cup {p}
        BY <3>1, <4>1, AboveAbove
      <4>3. Append(q, c) \in below
        BY <1>2
      <4>4. Append(q, c) \in Above(p)
        BY <3>1, <4>2, <4>3
      <4>5. mem[Append(q, c)] = Dirty
        BY <3>1, <4>4 DEF Arena
      <4> QED
        BY <1>5, <4>3, <4>5
    <3> QED
      BY <1>3, <3>2, <3>3, <3>4
  <2>3. ASSUME NEW p \in Routes, R[p] = Dirty
        PROVE  p \in DOMAIN m2 /\ \A c \in Chunks : Append(p, c) \in DOMAIN m2
    <3>1. p # q /\ S[p] = Dirty
      BY <1>0, <1>1, <2>3
    <3>2. p \in DOMAIN mem /\ mem[p] = Dirty
      BY <1>4, <3>1 DEF Arena
    <3>3. p \notin below
      BY <1>5, <3>2
    <3>4. ASSUME NEW c \in Chunks PROVE Append(p, c) \in DOMAIN mem /\ Append(p, c) \notin below
      <4>1. Append(p, c) \in DOMAIN mem
        BY <3>2 DEF Arena
      <4>2. p \in Paths
        BY <3>1, <1>0 DEF Tree, Shape
      <4>3. Front(Append(p, c)) = p
        BY <4>2, RouteAppend
      <4> QED
        BY <1>2, <3>1, <4>1, <4>3
    <3> QED
      BY <1>3, <3>2, <3>3, <3>4
  <2>4. ASSUME NEW p \in DOMAIN m2, m2[p] = Dirty PROVE R[p] = Dirty /\ p \in Routes
    BY <1>0, <1>1, <1>3, <1>4, <2>4
  <2> QED
    BY <2>1, <2>2, <2>3, <2>4 DEF Arena
<1>13. Shape(u, R, b + 1)
  <2>1. \A p \in Routes : R[p] \in -1 .. (b + 1)
    BY <1>0, <1>1
  <2>2. \A p \in Routes : KindIn(u, R[p]) = KindIn(tract, S[p])
    BY <1>0, <1>1, <1>7, <1>9, <1>10, KindNil
  <2>3. ASSUME NEW p \in Routes, R[p] # Nil
        PROVE  /\ p \in Paths
               /\ KindIn(u, R[p]) \in {"node", "lone", "extent", "zero", "bad"}
               /\ KindIn(u, R[p]) = "node" => Len(p) < KeyLen
               /\ KindIn(u, R[p]) = "node" /\ R[p] > 0 => u[R[p]].path = p
               /\ \A r \in Above(p) : KindIn(u, R[r]) = "node"
    <3>1. S[p] # Nil
      BY <1>0, <1>1, <1>10, <2>3
    <3>2. /\ p \in Paths
          /\ KindIn(tract, S[p]) \in {"node", "lone", "extent", "zero", "bad"}
          /\ KindIn(tract, S[p]) = "node" => Len(p) < KeyLen
          /\ KindIn(tract, S[p]) = "node" /\ S[p] > 0 => tract[S[p]].path = p
          /\ \A r \in Above(p) : KindIn(tract, S[r]) = "node"
      BY <3>1 DEF Tree, Shape
    <3>3. \A r \in Above(p) : KindIn(u, R[r]) = "node"
      BY <2>2, <3>2, AboveAbove
    <3>4. KindIn(u, R[p]) = "node" /\ R[p] > 0 => u[R[p]].path = p
      <4>1. CASE p = q
        BY <1>0, <1>1, <1>7, <4>1
      <4>2. CASE p # q
        BY <1>1, <1>9, <2>2, <3>2, <4>2
      <4> QED
        BY <4>1, <4>2
    <3> QED
      BY <2>2, <3>2, <3>3, <3>4
  <2> QED
    BY <1>1, <2>1, <2>3 DEF Shape
<1>14. ASSUME NEW p \in Paths, LeafIn(u, R[p]) PROVE p # q /\ R[p] = S[p] /\ S[p] > 0 /\ p \in Routes
                                                     /\ LeafIn(tract, S[p])
  BY <1>0, <1>1, <1>8, <1>9, <1>14, KindNil
<1>15. Leaves(u, R, v, hurt, b + 1)
  <2>1. SUFFICES ASSUME NEW p \in Paths, LeafIn(u, R[p]) PROVE LeafOK(u, R[p], p, v, hurt, b + 1)
    BY DEF Leaves
  <2>2. p \in Routes /\ R[p] = S[p] /\ S[p] > 0 /\ LeafIn(tract, S[p])
    BY <1>14, <2>1
  <2>3. LeafOK(tract, S[p], p, v, hurt, b)
    BY <2>2 DEF Tree, Leaves
  <2>4. u[S[p]] = tract[S[p]] /\ FurrowsIn(u, S[p]) = FurrowsIn(tract, S[p])
        /\ KindIn(u, S[p]) = KindIn(tract, S[p])
    BY <1>9, <2>2
  <2> DEFINE F == FurrowsIn(tract, S[p])
  <2>5. ASSUME NEW j \in 1 .. Len(F)
        PROVE  KindIn(u, F[j]) = KindIn(tract, F[j]) /\ u[F[j]] = tract[F[j]] /\ F[j] \in 1 .. (b + 1)
    <3>1. F[j] \in 1 .. b
      BY <2>3 DEF LeafOK
    <3>2. u[F[j]] = tract[F[j]]
      BY <3>1
    <3> QED
      BY <3>1, <3>2, SameBlock
  <2> QED
    BY <2>2, <2>3, <2>4, <2>5 DEF LeafOK, FurrowOK
<1>16. Kept(u, R, v, hurt)
  <2>1. SUFFICES ASSUME NEW k \in Keys, k \notin hurt
        PROVE  /\ v[k] # Absent => \E p \in Paths : LeafIn(u, R[p]) /\ u[R[p]].key = k
               /\ \A p \in Along(k) : KindIn(u, R[p]) # "bad"
    BY DEF Kept
  <2>2. ASSUME NEW p \in Along(k) PROVE KindIn(u, R[p]) # "bad"
    <3>1. p \in Routes /\ KindIn(tract, S[p]) # "bad"
      BY <2>1, AlongFacts DEF Tree, Kept
    <3> QED
      BY <1>1, <1>7, <1>9, <3>1
  <2>3. ASSUME v[k] # Absent PROVE \E p \in Paths : LeafIn(u, R[p]) /\ u[R[p]].key = k
    <3>1. PICK p \in Paths : LeafIn(tract, S[p]) /\ tract[S[p]].key = k
      BY <2>1, <2>3 DEF Tree, Kept
    <3>2. p \in Routes /\ p # q /\ S[p] > 0
      BY <1>0, <1>10, <3>1, KindNil
    <3> QED
      BY <1>1, <1>9, <3>1, <3>2
  <2> QED
    BY <2>2, <2>3
<1>17. ASSUME NEW l \in 1 .. (b + 1)
       PROVE  Reached(u, R, l) <=> (l = b + 1 \/ Reached(tract, S, l))
  <2>1. ASSUME NEW p \in Paths, l # b + 1
        PROVE  Holds(u, R[p], l) <=> Holds(tract, S[p], l)
    <3>1. p \in Routes
      BY <1>0
    <3>2. CASE p = q
      <4>1. ~Holds(u, R[p], l)
        BY <1>1, <1>8, <2>1, <3>1, <3>2 DEF Holds
      <4>2. ~Holds(tract, S[p], l)
        BY <1>0, <1>10, <1>8, <3>2, KindNil DEF Holds
      <4> QED
        BY <4>1, <4>2
    <3>3. CASE p # q
      BY <1>1, <1>9, <3>1, <3>3 DEF Holds
    <3> QED
      BY <3>2, <3>3
  <2>2. CASE l = b + 1
    <3>1. Holds(u, R[q], l) /\ SealedIn(u, l)
      BY <1>0, <1>1, <1>8, <2>2 DEF Holds
    <3> QED
      BY <2>2, <3>1 DEF Reached
  <2>3. CASE l # b + 1
    <3>1. l \in 1 .. b /\ (l > 0 => u[l] = tract[l]) /\ l \in Int /\ l >= -1
      BY <2>3
    <3>2. SealedIn(u, l) <=> SealedIn(tract, l)
      BY <3>1, SameBlock
    <3> QED
      BY <2>1, <2>3, <3>2 DEF Reached
  <2> QED
    BY <2>2, <2>3
<1> QED
  BY <1>11, <1>12, <1>13, <1>15, <1>16, <1>17 DEF Tree, R

(***************************************************************************)
(* The descent.                                                            *)
(***************************************************************************)
LEMMA EndIs ==
    ASSUME NEW m, NEW S, S = Slots(tract, m), NEW b \in Nat, Shape(tract, S, b), NEW k \in Keys
    PROVE  /\ End(m, k) \in Along(k) /\ End(m, k) \in Paths /\ End(m, k) \in Routes
           /\ KindIn(tract, S[End(m, k)]) # "node"
           /\ \A p \in Above(End(m, k)) : KindIn(tract, S[p]) = "node"
           /\ \A q \in Along(k) : S[q] # Nil /\ KindIn(tract, S[q]) # "node" => q = End(m, k)
<1> DEFINE P(n) == /\ Kind(Slot(m, Prefix(k, n))) # "node"
                   /\ \A j \in 0 .. (n - 1) : Kind(Slot(m, Prefix(k, j))) = "node"
           N == {n \in 0 .. KeyLen : KindIn(tract, S[Prefix(k, n)]) # "node"}
           e == End(m, k)
<1>0. k \in Seq(Chunks) /\ Len(k) = KeyLen /\ KeyLen \in Nat
  BY KeyFacts
<1>1. \A q : Kind(Slot(m, q)) = KindIn(tract, S[q])
  BY NowIs
<1>2. KeyLen \in N
  <2>1. Prefix(k, KeyLen) \in Along(k) /\ Prefix(k, KeyLen) = k
    BY <1>0, AlongFacts, PrefixWhole
  <2>2. k \in Routes
    BY <2>1, AlongFacts
  <2>3. KindIn(tract, S[k]) # "node"
    <3>1. SUFFICES ASSUME KindIn(tract, S[k]) = "node" PROVE FALSE
      OBVIOUS
    <3>2. S[k] # Nil
      BY <3>1, KindNil
    <3> QED
      BY <1>0, <2>2, <3>1, <3>2 DEF Shape
  <2> QED
    BY <1>0, <2>1, <2>3
<1>3. PICK n \in N : \A j \in N : n <= j
  <2>1. N \in SUBSET Nat /\ N # {}
    BY <1>0, <1>2
  <2> HIDE DEF N
  <2> QED
    BY <2>1, MinOfNaturals
<1>4. P(n)
  <2>1. Kind(Slot(m, Prefix(k, n))) # "node"
    BY <1>1
  <2>2. ASSUME NEW j \in 0 .. (n - 1) PROVE Kind(Slot(m, Prefix(k, j))) = "node"
    <3>1. j \in 0 .. KeyLen /\ ~(n <= j)
      BY <1>0
    <3>2. j \notin N
      BY <1>3, <3>1
    <3> QED
      BY <1>1, <3>1, <3>2
  <2> QED
    BY <2>1, <2>2
<1>5. \E x \in 0 .. Len(k) : P(x)
  BY <1>0, <1>4
<1> DEFINE c == CHOOSE x \in 0 .. Len(k) : P(x)
<1>6. e = Prefix(k, c)
  BY Zenon DEF End
<1> HIDE DEF P
<1>7. c \in 0 .. Len(k) /\ P(c)
  BY <1>5, Zenon
<1> HIDE DEF c, e, N
<1>8. c \in 0 .. KeyLen
  BY <1>0, <1>7
<1>9. e \in Along(k) /\ e \in Paths /\ e \in Routes
  BY <1>6, <1>8, AlongFacts
<1>10. KindIn(tract, S[e]) # "node"
  BY <1>1, <1>6, <1>7 DEF P
<1>11. ASSUME NEW p \in Above(e) PROVE KindIn(tract, S[p]) = "node"
  <2>1. p = Prefix(e, Len(p)) /\ Len(p) \in Nat /\ Len(p) < Len(e)
    BY <1>9, AboveIs
  <2>2. Len(e) = c
    BY <1>0, <1>6, <1>7, PrefixIs
  <2>3. Len(p) \in 0 .. c /\ Len(p) \in 0 .. (c - 1)
    BY <1>8, <2>1, <2>2
  <2>4. Prefix(e, Len(p)) = Prefix(k, Len(p))
    BY <1>0, <1>6, <1>7, <2>3, PrefixPrefix
  <2> QED
    BY <1>1, <1>7, <2>1, <2>3, <2>4 DEF P
<1>12. ASSUME NEW q \in Along(k), S[q] # Nil, KindIn(tract, S[q]) # "node" PROVE q = e
  <2>1. q = e \/ q \in Above(e) \/ e \in Above(q)
    BY <1>9, AlongChain
  <2>2. q \in Routes
    BY AlongFacts
  <2>3. e \notin Above(q)
    BY <1>10, <1>12, <2>2 DEF Shape
  <2> QED
    BY <1>11, <1>12, <2>1, <2>3
<1> QED
  BY <1>9, <1>10, <1>11, <1>12 DEF e

\* The leaf the descent finds is the only one of its key.
LEMMA FindIs ==
    ASSUME NEW m, NEW S, S = Slots(tract, m), NEW v, NEW hurt, NEW b \in Nat,
           Tree(tract, S, v, hurt, b), NEW k \in Keys
    PROVE  /\ \A q \in Paths : LeafIn(tract, S[q]) /\ tract[S[q]].key = k
                   => q = End(m, k) /\ FindLeaf(m, k) = S[q]
           /\ FindLeaf(m, k) # Nil =>
                /\ FindLeaf(m, k) = S[End(m, k)] /\ FindLeaf(m, k) \in 1 .. b
                /\ LeafIn(tract, FindLeaf(m, k)) /\ tract[FindLeaf(m, k)].key = k
                /\ LeafOK(tract, FindLeaf(m, k), End(m, k), v, hurt, b)
           /\ FindLeaf(m, k) = Nil => ~LeafIn(tract, S[End(m, k)]) \/ tract[S[End(m, k)]].key # k
<1> DEFINE e == End(m, k)
           c == S[e]
<1>1. e \in Along(k) /\ e \in Paths /\ e \in Routes
      /\ \A q \in Along(k) : S[q] # Nil /\ KindIn(tract, S[q]) # "node" => q = e
  BY EndIs DEF Tree
<1>2. FindLeaf(m, k) = IF LeafIn(tract, c) /\ tract[c].key = k THEN c ELSE Nil
  BY NowIs DEF FindLeaf
<1>3. c \in Int /\ c >= -1 /\ c <= b /\ Nil = 0 /\ Dirty = -1
  BY <1>1 DEF Tree, Shape, Nil, Dirty
<1>4. ASSUME NEW q \in Paths, LeafIn(tract, S[q]), tract[S[q]].key = k
      PROVE  q = e /\ FindLeaf(m, k) = S[q]
  <2>1. q \in Along(k) /\ S[q] # Nil /\ KindIn(tract, S[q]) # "node"
    BY <1>4, KindNil DEF Tree, Leaves, LeafOK, LeafIn
  <2>2. q = e
    BY <1>1, <2>1
  <2> QED
    BY <1>2, <1>4, <2>2
<1>5. ASSUME FindLeaf(m, k) # Nil
      PROVE  /\ FindLeaf(m, k) = c /\ FindLeaf(m, k) \in 1 .. b
             /\ LeafIn(tract, FindLeaf(m, k)) /\ tract[FindLeaf(m, k)].key = k
             /\ LeafOK(tract, FindLeaf(m, k), e, v, hurt, b)
  <2>1. FindLeaf(m, k) = c /\ LeafIn(tract, c) /\ tract[c].key = k
    BY <1>2, <1>5
  <2>2. c # Nil /\ c # Dirty
    BY <2>1, KindNil
  <2>3. LeafOK(tract, c, e, v, hurt, b)
    BY <1>1, <2>1 DEF Tree, Leaves
  <2> QED
    BY <1>3, <2>1, <2>2, <2>3
<1>6. FindLeaf(m, k) = Nil => ~LeafIn(tract, c) \/ tract[c].key # k
  <2>1. LeafIn(tract, c) => c # Nil
    BY KindNil
  <2> QED
    BY <1>2, <2>1
<1> QED
  BY <1>4, <1>5, <1>6

\* A sound trie answers every key.
LEMMA TreeAnswers ==
    ASSUME NEW m, NEW S, S = Slots(tract, m), NEW v, NEW hurt, NEW b \in Nat,
           Tree(tract, S, v, hurt, b)
    PROVE  /\ Answers(m, v, hurt)
           /\ \A k \in Keys : Lookup(m, k) = v[k]
                \/ (k \in hurt /\ Lookup(m, k) = Absent)
                \/ (k \in hurt /\ Lookup(m, k) = "err"
                      /\ (Kind(Slot(m, End(m, k))) = "bad" \/ ~FurrowsSound(Slot(m, End(m, k)))))
<1>1. ASSUME NEW k \in Keys
      PROVE  Lookup(m, k) = v[k]
                \/ (k \in hurt /\ Lookup(m, k) = Absent)
                \/ (k \in hurt /\ Lookup(m, k) = "err"
                      /\ (Kind(Slot(m, End(m, k))) = "bad" \/ ~FurrowsSound(Slot(m, End(m, k)))))
  <2> DEFINE e == End(m, k)
             c == S[e]
             F == FurrowsIn(tract, c)
             values == {tract[F[j]].value : j \in DOMAIN F}
  <2>1. e \in Along(k) /\ e \in Paths /\ KindIn(tract, c) # "node"
    BY EndIs DEF Tree
  <2>2. /\ Slot(m, e) = c /\ Kind(c) = KindIn(tract, c) /\ FurrowsOf(c) = F
    BY NowIs
  <2>3. Lookup(m, k) = IF KindIn(tract, c) = "bad" THEN "err"
                       ELSE IF FindLeaf(m, k) = Nil THEN Absent
                       ELSE IF KindIn(tract, c) = "lone" THEN tract[c].value
                       ELSE IF ~FurrowsSound(c) THEN "err"
                       ELSE IF Cardinality(values) = 1 THEN CHOOSE w \in values : TRUE
                       ELSE "mixed"
    BY <2>2 DEF Lookup
  <2>4. CASE KindIn(tract, c) = "bad"
    <3>1. k \in hurt
      BY <2>1, <2>4 DEF Tree, Kept
    <3> QED
      BY <2>2, <2>3, <2>4, <3>1
  <2>5. CASE KindIn(tract, c) # "bad" /\ FindLeaf(m, k) = Nil
    <3>1. Lookup(m, k) = Absent
      BY <2>3, <2>5
    <3>2. ASSUME v[k] # Absent, k \notin hurt PROVE FALSE
      <4>1. PICK q \in Paths : LeafIn(tract, S[q]) /\ tract[S[q]].key = k
        BY <3>2 DEF Tree, Kept
      <4>2. FindLeaf(m, k) = S[q]
        BY <4>1, FindIs
      <4>3. S[q] # Nil
        BY <4>1, KindNil
      <4> QED
        BY <2>5, <4>2, <4>3
    <3> QED
      BY <3>1, <3>2
  <2>6. CASE KindIn(tract, c) # "bad" /\ FindLeaf(m, k) # Nil
    <3>1. /\ FindLeaf(m, k) = c /\ LeafIn(tract, c) /\ tract[c].key = k
          /\ LeafOK(tract, c, e, v, hurt, b)
      <4>1. /\ FindLeaf(m, k) = S[End(m, k)]
            /\ LeafIn(tract, FindLeaf(m, k)) /\ tract[FindLeaf(m, k)].key = k
            /\ LeafOK(tract, FindLeaf(m, k), End(m, k), v, hurt, b)
        BY <2>6, FindIs
      <4> QED
        BY <4>1
    <3>2. CASE KindIn(tract, c) = "lone"
      <4>1. tract[c].value = v[k]
        BY <3>1, <3>2 DEF LeafOK
      <4> QED
        BY <2>3, <2>6, <3>2, <4>1
    <3>3. CASE KindIn(tract, c) = "extent"
      <4>1. IsSeq(F) /\ Len(F) > 0 /\ DOMAIN F = 1 .. Len(F) /\ Len(F) \in Nat
        BY <3>1, <3>3, SeqFacts DEF LeafOK
      <4>2. FurrowsSound(c) <=> \A j \in DOMAIN F :
               tract[F[j]].kind = "furrow" /\ tract[F[j]].key = tract[c].key /\ tract[F[j]].i = j
        BY <2>2 DEF FurrowsSound
      <4>3. \A j \in DOMAIN F : KindIn(tract, F[j]) = tract[F[j]].kind /\ FurrowOK(tract, F[j], k, j, v[k])
        BY <3>1, <4>1 DEF LeafOK, KindIn, Nil, Dirty
      <4>4. CASE FurrowsSound(c)
        <5>1. \A j \in DOMAIN F : tract[F[j]].value = v[k]
          BY <4>2, <4>3, <4>4 DEF FurrowOK
        <5>2. 1 \in DOMAIN F
          BY <4>1
        <5>3. values = {v[k]}
          BY <5>1, <5>2
        <5>4. Cardinality(values) = 1 /\ (CHOOSE w \in values : TRUE) = v[k]
          BY <5>3, FS_Singleton
        <5> QED
          BY <2>3, <2>6, <3>3, <4>4, <5>4
      <4>5. CASE ~FurrowsSound(c)
        <5>1. Lookup(m, k) = "err"
          BY <2>3, <2>6, <3>3, <4>5
        <5>2. k \in hurt
          <6>1. SUFFICES ASSUME k \notin hurt PROVE FALSE
            OBVIOUS
          <6>2. \A j \in DOMAIN F : KindIn(tract, F[j]) = "furrow"
            BY <3>1, <4>1, <6>1 DEF LeafOK
          <6>3. FurrowsSound(c)
            BY <3>1, <4>2, <4>3, <6>2 DEF FurrowOK
          <6> QED
            BY <4>5, <6>3
        <5> QED
          BY <2>2, <4>5, <5>1, <5>2
      <4> QED
        BY <4>4, <4>5
    <3> QED
      BY <3>1, <3>2, <3>3 DEF LeafIn
  <2> QED
    BY <2>4, <2>5, <2>6
<1>2. Answers(m, v, hurt)
  BY <1>1 DEF Answers
<1> QED
  BY <1>1, <1>2
=============================================================================
