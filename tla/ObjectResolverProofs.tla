------------------------ MODULE ObjectResolverProofs ------------------------
(***************************************************************************)
(* For every tree, every set of missing pages, every set of objects and    *)
(* any number of calls on one resolver of python-cim: what a lookup finds, *)
(* and what the calls make of it.                                          *)
(***************************************************************************)
EXTENDS ObjectResolver, TLAPS, FiniteSetTheorems, WellFoundedInduction

InSlot(t, p, s, k) == Left(t, p, s) < k /\ k < Right(t, p, s)

LEMMA LeastNatural ==
  ASSUME NEW S \in SUBSET Nat, S # {}
  PROVE  \E m \in S : \A n \in S : m <= n
<1>1. PICK m \in S : \A n \in S : ~ (<<n, m>> \in OpToRel(<, Nat))
  BY NatLessThanWellFounded, WFMin
<1>2. \A n \in S : ~ (n < m)
  BY <1>1 DEF OpToRel
<1>3. QED BY <1>2
-----------------------------------------------------------------------------
LEMMA PageFacts ==
  ASSUME NEW t \in Trees, NEW p \in t.pages
  PROVE  /\ t.keys[p] \in Seq(Int)
         /\ Len(t.keys[p]) \in Nat \ {0}
         /\ DOMAIN t.keys[p] = 1 .. Len(t.keys[p])
         /\ t.lo[p] \in Int /\ t.hi[p] \in Int /\ t.lo[p] < t.hi[p]
         /\ \A i \in 1 .. Len(t.keys[p]) :
              /\ t.keys[p][i] \in Int
              /\ t.keys[p][i] \in Under(t, p)
              /\ t.lo[p] < t.keys[p][i] /\ t.keys[p][i] < t.hi[p]
         /\ \A i, j \in 1 .. Len(t.keys[p]) : i < j => t.keys[p][i] < t.keys[p][j]
<1>1. IsTree(t) /\ Ordered(t) /\ Searchable(t)
  BY TreesAssumption
<1>2. t.keys[p] \in Seq(Int) /\ t.lo[p] \in Int /\ t.hi[p] \in Int
  BY <1>1 DEF IsTree
<1>3. t.keys[p] # <<>>
      /\ (\A i, j \in DOMAIN t.keys[p] : i < j => t.keys[p][i] < t.keys[p][j])
      /\ (\A k \in KeysOf(t, p) : t.lo[p] < k /\ k < t.hi[p])
  BY <1>1 DEF Ordered
<1>4. Len(t.keys[p]) \in Nat \ {0} /\ DOMAIN t.keys[p] = 1 .. Len(t.keys[p])
  BY <1>2, <1>3
<1>5. \A i \in 1 .. Len(t.keys[p]) : t.keys[p][i] \in KeysOf(t, p) /\ t.keys[p][i] \in Int
  BY <1>2, <1>4 DEF KeysOf
<1>6. KeysOf(t, p) \subseteq t.all
  BY <1>1 DEF Searchable
<1>7. \A i \in 1 .. Len(t.keys[p]) : t.keys[p][i] \in Under(t, p)
  BY <1>3, <1>5, <1>6 DEF Under
<1>8. t.lo[p] < t.hi[p]
  <2>1. 1 \in 1 .. Len(t.keys[p])
    BY <1>4
  <2>2. t.lo[p] < t.keys[p][1] /\ t.keys[p][1] < t.hi[p] /\ t.keys[p][1] \in Int
    BY <2>1, <1>3, <1>5
  <2>3. QED BY <2>2, <1>2
<1>9. QED BY <1>2, <1>3, <1>4, <1>5, <1>7, <1>8

LEMMA KeysAreInt ==
  ASSUME NEW t \in Trees, NEW k \in t.all
  PROVE  k \in Int
<1>1. PICK p \in t.pages : k \in KeysOf(t, p)
  BY TreesAssumption DEF Searchable
<1>2. PICK i \in DOMAIN t.keys[p] : k = t.keys[p][i]
  BY <1>1 DEF KeysOf
<1>3. QED BY <1>2, PageFacts

(* A slot lies inside its page, and no key of the page in it.              *)
LEMMA SlotFacts ==
  ASSUME NEW t \in Trees, NEW p \in t.pages, NEW s \in Slots(t, p)
  PROVE  /\ Left(t, p, s) \in Int /\ Right(t, p, s) \in Int
         /\ t.lo[p] <= Left(t, p, s) /\ Right(t, p, s) <= t.hi[p]
         /\ \A i \in 1 .. Len(t.keys[p]) : ~ InSlot(t, p, s, t.keys[p][i])
<1> DEFINE K == t.keys[p]
<1>1. s \in 1 .. Len(K) + 1 /\ Len(K) \in Nat \ {0}
  BY PageFacts DEF Slots
<1>2. t.lo[p] \in Int /\ t.hi[p] \in Int /\ t.lo[p] < t.hi[p]
  BY PageFacts
<1>3. \A i \in 1 .. Len(K) : K[i] \in Int /\ t.lo[p] < K[i] /\ K[i] < t.hi[p]
  BY PageFacts
<1>4. \A i, j \in 1 .. Len(K) : i < j => K[i] < K[j]
  BY PageFacts
<1> HIDE DEF K
<1>5. Left(t, p, s) = IF s = 1 THEN t.lo[p] ELSE K[s - 1]
  BY DEF Left, K
<1>6. Right(t, p, s) = IF s = Len(K) + 1 THEN t.hi[p] ELSE K[s]
  BY DEF Right, K
<1>7. Left(t, p, s) \in Int /\ t.lo[p] <= Left(t, p, s)
  <2>1. CASE s = 1
    BY <2>1, <1>2, <1>5
  <2>2. CASE s # 1
    <3>1. s - 1 \in 1 .. Len(K)
      BY <2>2, <1>1
    <3>2. QED BY <2>2, <3>1, <1>2, <1>3, <1>5
  <2>3. QED BY <2>1, <2>2
<1>8. Right(t, p, s) \in Int /\ Right(t, p, s) <= t.hi[p]
  <2>1. CASE s = Len(K) + 1
    BY <2>1, <1>2, <1>6
  <2>2. CASE s # Len(K) + 1
    <3>1. s \in 1 .. Len(K)
      BY <2>2, <1>1
    <3>2. QED BY <2>2, <3>1, <1>2, <1>3, <1>6
  <2>3. QED BY <2>1, <2>2
<1>9. ASSUME NEW i \in 1 .. Len(K), InSlot(t, p, s, K[i])
      PROVE  FALSE
  <2>1. K[i] \in Int
    BY <1>3
  <2>2. CASE i < s
    <3>1. s - 1 \in 1 .. Len(K) /\ s # 1
      BY <2>2, <1>1
    <3>2. K[i] <= K[s - 1]
      <4>1. CASE i = s - 1
        BY <4>1, <2>1
      <4>2. CASE i # s - 1
        <5>1. i < s - 1
          BY <4>2, <2>2, <1>1
        <5>2. QED BY <5>1, <3>1, <1>4, <1>3
      <4>3. QED BY <4>1, <4>2
    <3>3. QED BY <3>1, <3>2, <1>9, <1>5, <1>3 DEF InSlot
  <2>3. CASE ~ (i < s)
    <3>1. s \in 1 .. Len(K) /\ s # Len(K) + 1
      BY <2>3, <1>1
    <3>2. K[s] <= K[i]
      <4>1. CASE i = s
        BY <4>1, <2>1
      <4>2. CASE i # s
        <5>1. s < i
          BY <4>2, <2>3, <1>1
        <5>2. QED BY <5>1, <3>1, <1>4, <1>3
      <4>3. QED BY <4>1, <4>2
    <3>3. QED BY <3>1, <3>2, <1>9, <1>6, <1>3 DEF InSlot
  <2>4. QED BY <2>2, <2>3
<1>10. QED BY <1>7, <1>8, <1>9 DEF K

(* Two slots of a page have no key in common.                              *)
LEMMA SlotsApart ==
  ASSUME NEW t \in Trees, NEW p \in t.pages, NEW s \in Slots(t, p), NEW r \in Slots(t, p),
         s < r, NEW k \in Int, InSlot(t, p, s, k), InSlot(t, p, r, k)
  PROVE  FALSE
<1> DEFINE K == t.keys[p]
<1>1. s \in 1 .. Len(K) /\ r - 1 \in 1 .. Len(K) /\ s <= r - 1 /\ r # 1 /\ s # Len(K) + 1
  BY PageFacts DEF Slots
<1>2. \A i \in 1 .. Len(K) : K[i] \in Int
  BY PageFacts
<1>3. \A i, j \in 1 .. Len(K) : i < j => K[i] < K[j]
  BY PageFacts
<1>4. k < K[s]
  BY <1>1 DEF InSlot, Right
<1>5. K[r - 1] < k
  BY <1>1 DEF InSlot, Left
<1> HIDE DEF K
<1>6. K[s] <= K[r - 1]
  <2>1. CASE s = r - 1
    BY <2>1, <1>1, <1>2
  <2>2. CASE s # r - 1
    <3>1. s < r - 1
      BY <2>2, <1>1 DEF Slots
    <3>2. QED BY <3>1, <1>1, <1>2, <1>3
  <2>3. QED BY <2>1, <2>2
<1>7. QED BY <1>1, <1>2, <1>4, <1>5, <1>6

(* The keys under a child are those of its slot, and under its parent.     *)
LEMMA ChildFacts ==
  ASSUME NEW t \in Trees, NEW p \in t.pages, NEW s \in Slots(t, p)
  PROVE  /\ t.child[p][s] = NoPage => \A k \in t.all : ~ InSlot(t, p, s, k)
         /\ t.child[p][s] # NoPage =>
              /\ t.child[p][s] \in t.pages
              /\ \A k \in t.all : k \in Under(t, t.child[p][s]) <=> InSlot(t, p, s, k)
              /\ Under(t, t.child[p][s]) \subseteq Under(t, p)
<1> DEFINE c == t.child[p][s]
<1>1. IsTree(t) /\ Searchable(t)
  BY TreesAssumption
<1>2. DOMAIN t.child[p] = Slots(t, p)
  BY <1>1 DEF Searchable
<1>3. c \in t.pages \union {NoPage}
  <2>1. t.child[p] \in Seq(t.pages \union {NoPage})
    BY <1>1 DEF IsTree
  <2>2. QED BY <2>1, <1>2
<1>4. c = NoPage => \A k \in t.all : ~ InSlot(t, p, s, k)
  BY <1>1 DEF Searchable, InSlot
<1>5. ASSUME c # NoPage
      PROVE  /\ c \in t.pages
             /\ \A k \in t.all : k \in Under(t, c) <=> InSlot(t, p, s, k)
             /\ Under(t, c) \subseteq Under(t, p)
  <2>1. t.lo[c] = Left(t, p, s) /\ t.hi[c] = Right(t, p, s)
    BY <1>1, <1>5 DEF Searchable
  <2>2. \A k \in t.all : k \in Under(t, c) <=> InSlot(t, p, s, k)
    BY <2>1 DEF Under, InSlot
  <2>3. ASSUME NEW k \in Under(t, c)
        PROVE  k \in Under(t, p)
    <3>1. k \in t.all /\ k \in Int /\ Left(t, p, s) < k /\ k < Right(t, p, s)
      BY <2>1, KeysAreInt DEF Under
    <3>2. t.lo[p] <= Left(t, p, s) /\ Right(t, p, s) <= t.hi[p]
          /\ Left(t, p, s) \in Int /\ Right(t, p, s) \in Int
          /\ t.lo[p] \in Int /\ t.hi[p] \in Int
      BY SlotFacts, PageFacts
    <3>3. QED BY <3>1, <3>2 DEF Under
  <2>4. QED BY <1>3, <1>5, <2>2, <2>3
<1>6. QED BY <1>4, <1>5
-----------------------------------------------------------------------------
(* A key under a page is one of the page, or in one of its slots.          *)
LEMMA KeyPlace ==
  ASSUME NEW t \in Trees, NEW p \in t.pages, NEW k \in Under(t, p)
  PROVE  k \in KeysOf(t, p) \/ \E s \in Slots(t, p) : InSlot(t, p, s, k)
<1> DEFINE K == t.keys[p]
<1>1. K \in Seq(Int) /\ Len(K) \in Nat \ {0} /\ DOMAIN K = 1 .. Len(K)
  BY PageFacts
<1>2. k \in t.all /\ k \in Int /\ t.lo[p] < k /\ k < t.hi[p]
  BY KeysAreInt DEF Under
<1>3. \A i \in 1 .. Len(K) : K[i] \in Int
  BY <1>1
<1> DEFINE Over == {i \in 1 .. Len(K) : k <= K[i]}
<1>4. CASE Over = {}
  <2>1. K[Len(K)] < k
    <3>1. Len(K) \in 1 .. Len(K)
      BY <1>1
    <3>2. QED BY <3>1, <1>2, <1>3, <1>4
  <2>2. Len(K) + 1 \in Slots(t, p) /\ Len(K) + 1 # 1
    BY <1>1 DEF Slots
  <2>3. Left(t, p, Len(K) + 1) = K[Len(K)] /\ Right(t, p, Len(K) + 1) = t.hi[p]
    BY <1>1, <2>2 DEF Left, Right
  <2>4. InSlot(t, p, Len(K) + 1, k)
    BY <2>1, <2>3, <1>2 DEF InSlot
  <2>5. QED BY <2>2, <2>4
<1>5. CASE Over # {}
  <2>1. Over \in SUBSET Nat
    BY <1>1
  <2>2. PICK i \in Over : \A j \in Over : i <= j
    BY <2>1, <1>5, LeastNatural
  <2>3. i \in 1 .. Len(K) /\ k <= K[i]
    OBVIOUS
  <2>4. CASE k = K[i]
    BY <2>3, <2>4, <1>1 DEF KeysOf
  <2>5. CASE k # K[i]
    <3>1. k < K[i]
      BY <2>3, <2>5, <1>2, <1>3
    <3>2. i \in Slots(t, p) /\ i # Len(K) + 1
      BY <1>1, <2>3 DEF Slots
    <3>3. Right(t, p, i) = K[i]
      BY <3>2 DEF Right
    <3>4. Left(t, p, i) < k
      <4>1. CASE i = 1
        BY <4>1, <1>2 DEF Left
      <4>2. CASE i # 1
        <5>1. i - 1 \in 1 .. Len(K) /\ ~ (i <= i - 1)
          BY <4>2, <2>3, <1>1
        <5>2. ~ (k <= K[i - 1])
          BY <5>1, <2>2
        <5>3. K[i - 1] < k
          BY <5>1, <5>2, <1>2, <1>3
        <5>4. QED BY <5>3, <4>2 DEF Left
      <4>3. QED BY <4>1, <4>2
    <3>5. QED BY <3>1, <3>2, <3>3, <3>4 DEF InSlot
  <2>6. QED BY <2>4, <2>5
<1>6. QED BY <1>4, <1>5

Width(t, p)     == t.hi[p] - t.lo[p]
Inside(t, p, r) == t.lo[r] <= t.lo[p] /\ t.hi[p] <= t.hi[r]

(* The child in a slot that holds a key, and its bounds.                   *)
LEMMA ChildBounds ==
  ASSUME NEW t \in Trees, NEW p \in t.pages, NEW s \in Slots(t, p), t.child[p][s] # NoPage
  PROVE  /\ t.child[p][s] \in t.pages
         /\ t.lo[t.child[p][s]] = Left(t, p, s) /\ t.hi[t.child[p][s]] = Right(t, p, s)
         /\ Inside(t, t.child[p][s], p)
         /\ Width(t, t.child[p][s]) < Width(t, p)
         /\ Width(t, t.child[p][s]) \in Nat
<1> DEFINE c == t.child[p][s]
           K == t.keys[p]
<1>1. c \in t.pages
  BY ChildFacts
<1>2. t.lo[c] = Left(t, p, s) /\ t.hi[c] = Right(t, p, s)
  BY TreesAssumption DEF Searchable
<1>3. Left(t, p, s) \in Int /\ Right(t, p, s) \in Int
      /\ t.lo[p] <= Left(t, p, s) /\ Right(t, p, s) <= t.hi[p]
  BY SlotFacts
<1>4. t.lo[c] \in Int /\ t.hi[c] \in Int /\ t.lo[c] < t.hi[c]
      /\ t.lo[p] \in Int /\ t.hi[p] \in Int
  BY <1>1, PageFacts
<1>5. Left(t, p, s) # t.lo[p] \/ Right(t, p, s) # t.hi[p]
  <2>1. Len(K) \in Nat \ {0} /\ s \in 1 .. Len(K) + 1
        /\ \A i \in 1 .. Len(K) : t.lo[p] < K[i] /\ K[i] < t.hi[p] /\ K[i] \in Int
    BY PageFacts DEF Slots
  <2>2. CASE s = Len(K) + 1
    <3>1. s # 1 /\ s - 1 \in 1 .. Len(K)
      BY <2>1, <2>2
    <3>2. Left(t, p, s) = K[s - 1]
      BY <3>1 DEF Left
    <3>3. t.lo[p] < K[s - 1]
      BY <3>1, <2>1
    <3>4. QED BY <3>2, <3>3, <1>4
  <2>3. CASE s # Len(K) + 1
    <3>1. s \in 1 .. Len(K)
      BY <2>1, <2>3
    <3>2. Right(t, p, s) = K[s]
      BY <2>3 DEF Right
    <3>3. K[s] < t.hi[p] /\ K[s] \in Int
      BY <3>1, <2>1
    <3>4. QED BY <3>2, <3>3, <1>4
  <2>4. QED BY <2>2, <2>3
<1> HIDE DEF c, K
<1>6. Inside(t, c, p)
  BY <1>2, <1>3 DEF Inside
<1>7. PICK a, b, x, y \in Int : a = t.lo[p] /\ b = t.hi[p] /\ x = t.lo[c] /\ y = t.hi[c]
  BY <1>4
<1>8. a <= x /\ y <= b /\ (x # a \/ y # b) /\ x < y
  BY <1>2, <1>3, <1>4, <1>5, <1>7
<1>9. y - x < b - a /\ y - x \in Nat
  BY <1>8
<1>10. Width(t, c) < Width(t, p) /\ Width(t, c) \in Nat
  BY <1>7, <1>9 DEF Width
<1>11. QED BY <1>1, <1>2, <1>6, <1>10 DEF c

(* A page whose key is under another page is that page, or within the slot *)
(* the key is in: the pages are nested.                                    *)
Nested(t, p, r, k) ==
  \/ r = p
  \/ \E s \in Slots(t, p) :
       /\ InSlot(t, p, s, k)
       /\ Left(t, p, s) <= t.lo[r] /\ t.hi[r] <= Right(t, p, s)

LEMMA KeyBelow ==
  ASSUME NEW t \in Trees, NEW p \in t.pages, NEW r \in t.pages,
         NEW k \in KeysOf(t, r), k \in Under(t, p)
  PROVE  Nested(t, p, r, k)
<1> DEFINE Bad == {n \in Nat : \E x \in t.pages :
                     Width(t, x) = n /\ k \in Under(t, x) /\ ~ Nested(t, x, r, k)}
<1>1. SUFFICES Bad = {}
  <2>1. t.lo[p] \in Int /\ t.hi[p] \in Int /\ t.lo[p] < t.hi[p]
    BY PageFacts
  <2>2. t.hi[p] - t.lo[p] \in Nat
    BY <2>1
  <2>3. Width(t, p) \in Nat
    BY <2>2 DEF Width
  <2>4. QED BY <2>3, <1>1
<1> SUFFICES ASSUME Bad # {} PROVE FALSE
  OBVIOUS
<1>2. PICK n \in Bad : \A m \in Bad : n <= m
  BY LeastNatural
<1>3. PICK x \in t.pages : Width(t, x) = n /\ k \in Under(t, x) /\ ~ Nested(t, x, r, k)
  BY <1>2
<1>4. k \in t.all
  BY <1>3 DEF Under
<1>5. CASE k \in KeysOf(t, x)
  <2>1. r = x
    BY <1>5, TreesAssumption DEF Searchable
  <2>2. QED BY <2>1, <1>3 DEF Nested
<1>6. CASE k \notin KeysOf(t, x)
  <2>1. PICK s \in Slots(t, x) : InSlot(t, x, s, k)
    BY <1>3, <1>6, KeyPlace
  <2>2. t.child[x][s] # NoPage
    BY <2>1, <1>4, ChildFacts
  <2>3. PICK c \in t.pages : c = t.child[x][s]
    BY <2>2, ChildFacts
  <2>4. k \in Under(t, c)
    BY <2>1, <2>2, <2>3, <1>4, ChildFacts
  <2>5. t.lo[c] = Left(t, x, s) /\ t.hi[c] = Right(t, x, s)
        /\ Width(t, c) < Width(t, x) /\ Width(t, c) \in Nat
    BY <2>2, <2>3, ChildBounds
  <2>6. Width(t, c) \notin Bad
    <3>1. PICK m \in Nat : m = Width(t, c)
      BY <2>5
    <3>2. m < n /\ n \in Nat
      BY <3>1, <2>5, <1>3
    <3>3. ~ (n <= m)
      BY <3>2
    <3>4. QED BY <3>1, <3>3, <1>2
  <2>7. Nested(t, c, r, k)
    BY <2>4, <2>5, <2>6
  <2>8. Left(t, x, s) <= t.lo[r] /\ t.hi[r] <= Right(t, x, s)
    <3>1. t.lo[r] \in Int /\ t.hi[r] \in Int /\ t.lo[c] \in Int /\ t.hi[c] \in Int
      BY PageFacts
    <3>2. CASE r = c
      BY <3>1, <3>2, <2>5
    <3>3. CASE r # c
      <4>1. PICK z \in Slots(t, c) : Left(t, c, z) <= t.lo[r] /\ t.hi[r] <= Right(t, c, z)
        BY <3>3, <2>7 DEF Nested
      <4>2. t.lo[c] <= Left(t, c, z) /\ Right(t, c, z) <= t.hi[c]
            /\ Left(t, c, z) \in Int /\ Right(t, c, z) \in Int
        BY SlotFacts
      <4>3. QED BY <4>1, <4>2, <3>1, <2>5
    <3>4. QED BY <3>2, <3>3
  <2>9. QED BY <2>1, <2>8, <1>3 DEF Nested
<1>7. QED BY <1>5, <1>6

(* The pages inside another one: itself, and those within its slots.       *)
LEMMA PageBelow ==
  ASSUME NEW t \in Trees, NEW p \in t.pages, NEW r \in t.pages, Inside(t, r, p), r # p
  PROVE  \E s \in Slots(t, p) : Left(t, p, s) <= t.lo[r] /\ t.hi[r] <= Right(t, p, s)
<1>1. PICK k : k = t.keys[r][1]
  OBVIOUS
<1>2. 1 \in 1 .. Len(t.keys[r]) /\ k \in KeysOf(t, r) /\ k \in Int
      /\ t.lo[r] < k /\ k < t.hi[r] /\ k \in t.all
  <2>1. 1 \in 1 .. Len(t.keys[r]) /\ DOMAIN t.keys[r] = 1 .. Len(t.keys[r])
    BY PageFacts
  <2>2. QED BY <2>1, <1>1, PageFacts DEF KeysOf, Under
<1>3. t.lo[r] \in Int /\ t.hi[r] \in Int /\ t.lo[p] \in Int /\ t.hi[p] \in Int
  BY PageFacts
<1>4. t.lo[p] < k /\ k < t.hi[p]
  BY <1>2, <1>3 DEF Inside
<1>5. k \in Under(t, p)
  BY <1>2, <1>4 DEF Under
<1>6. Nested(t, p, r, k)
  BY <1>2, <1>5, KeyBelow
<1>7. QED BY <1>6 DEF Nested
-----------------------------------------------------------------------------
(* How often a lookup of the prefix q lists the key k under the page p.    *)
DoubledIn(t, q, p, k) == {r \in Doubled(t, q, k) : Inside(t, r, p)}
Mult(t, q, p, k) == IF k \in Under(t, p) THEN Cardinality(SUBSET DoubledIn(t, q, p, k)) ELSE 0

LEMMA SubsetsDouble ==
  ASSUME NEW D, IsFiniteSet(D), NEW x, x \notin D
  PROVE  Cardinality(SUBSET (D \union {x})) = 2 * Cardinality(SUBSET D)
<1>1. PICK A : A = SUBSET D
  OBVIOUS
<1>2. PICK B : B = {T \union {x} : T \in A}
  OBVIOUS
<1>3. IsFiniteSet(A)
  BY <1>1, FS_SUBSET
<1>4. PICK f : f = [T \in A |-> T \union {x}]
  OBVIOUS
<1>5. f \in Bijection(A, B)
  <2>1. f \in [A -> B]
    BY <1>2, <1>4
  <2>2. \A T, U \in A : f[T] = f[U] => T = U
    <3>1. SUFFICES ASSUME NEW T \in A, NEW U \in A, f[T] = f[U] PROVE T = U
      OBVIOUS
    <3>2. x \notin T /\ x \notin U
      BY <1>1
    <3>3. T \union {x} = U \union {x}
      BY <1>4, <3>1
    <3>4. QED BY <3>2, <3>3
  <2>3. \A S \in B : \E T \in A : f[T] = S
    BY <1>2, <1>4
  <2>4. QED BY <2>1, <2>2, <2>3 DEF Bijection, Injection, Surjection, IsInjective
<1>6. ExistsBijection(A, B)
  BY <1>5 DEF ExistsBijection
<1>7. IsFiniteSet(B) /\ Cardinality(B) = Cardinality(A)
  BY <1>3, <1>6, FS_Bijection
<1>8. A \intersect B = {}
  BY <1>1, <1>2
<1>9. SUBSET (D \union {x}) = A \union B
  <2>1. ASSUME NEW S \in SUBSET (D \union {x}) PROVE S \in A \union B
    <3>1. CASE x \in S
      <4>1. S \ {x} \in A /\ S = (S \ {x}) \union {x}
        BY <3>1, <1>1
      <4>2. QED BY <4>1, <1>2
    <3>2. CASE x \notin S
      BY <3>2, <1>1
    <3>3. QED BY <3>1, <3>2
  <2>2. ASSUME NEW S \in A \union B PROVE S \in SUBSET (D \union {x})
    BY <1>1, <1>2
  <2>3. QED BY <2>1, <2>2
<1>10. Cardinality(A \union B) = Cardinality(A) + Cardinality(B) - Cardinality(A \intersect B)
  BY <1>3, <1>7, FS_Union
<1>11. Cardinality(A \intersect B) = 0
  BY <1>8, FS_EmptySet
<1>12. PICK n \in Nat : n = Cardinality(A)
  BY <1>3, FS_CardinalityType
<1>13. Cardinality(A \union B) = 2 * n
  BY <1>7, <1>10, <1>11, <1>12
<1>14. QED BY <1>1, <1>9, <1>12, <1>13

(* A key under a page that doubles it is in a slot between two keys.       *)
LEMMA DoubledSlot ==
  ASSUME NEW t \in Trees, NEW q, NEW p \in t.pages, NEW k \in t.all,
         NEW s \in Slots(t, p), InSlot(t, p, s, k)
  PROVE  p \in Doubled(t, q, k) <=> s # 1 /\ s # Len(t.keys[p]) + 1 /\ Matches(t.keys[p][s - 1], q)
<1> DEFINE K == t.keys[p]
<1>1. Len(K) \in Nat \ {0} /\ k \in Int /\ s \in 1 .. Len(K) + 1
  BY PageFacts, KeysAreInt DEF Slots
<1>2. \A i \in 1 .. Len(K) : K[i] \in Int
  BY PageFacts
<1>3. \A i, j \in 1 .. Len(K) : i < j => K[i] < K[j]
  BY PageFacts
<1>4. Left(t, p, s) < k /\ k < Right(t, p, s)
  BY DEF InSlot
<1>5. ASSUME s # 1, s # Len(K) + 1, Matches(K[s - 1], q)
      PROVE  p \in Doubled(t, q, k)
  <2>1. s - 1 \in 1 .. Len(K) - 1 /\ (s - 1) + 1 = s
    BY <1>1, <1>5
  <2>2. K[s - 1] < k /\ k < K[s]
    BY <1>4, <1>5 DEF Left, Right
  <2>3. PICK i : i = s - 1
    OBVIOUS
  <2>4. i \in 1 .. Len(K) - 1 /\ K[i] < k /\ k < K[i + 1] /\ Matches(K[i], q)
    BY <2>1, <2>2, <2>3, <1>5
  <2>5. QED BY <2>4 DEF Doubled
<1>6. ASSUME p \in Doubled(t, q, k)
      PROVE  s # 1 /\ s # Len(K) + 1 /\ Matches(K[s - 1], q)
  <2>1. PICK i \in 1 .. Len(K) - 1 : K[i] < k /\ k < K[i + 1] /\ Matches(K[i], q)
    BY <1>6 DEF Doubled
  <2>2. i \in 1 .. Len(K) /\ i + 1 \in 1 .. Len(K)
    BY <2>1, <1>1
  <2>3. s # 1
    <3>1. SUFFICES ASSUME s = 1 PROVE FALSE
      OBVIOUS
    <3>2. k < K[1]
      BY <3>1, <1>1, <1>4 DEF Right
    <3>3. K[1] <= K[i]
      <4>1. CASE i = 1
        BY <4>1, <1>2, <2>2
      <4>2. CASE i # 1
        BY <4>2, <1>2, <1>3, <2>2
      <4>3. QED BY <4>1, <4>2
    <3>4. 1 \in 1 .. Len(K)
      BY <1>1
    <3>5. QED BY <3>2, <3>3, <3>4, <2>1, <2>2, <1>1, <1>2
  <2>4. s # Len(K) + 1
    <3>1. SUFFICES ASSUME s = Len(K) + 1 PROVE FALSE
      OBVIOUS
    <3>2. s - 1 = Len(K) /\ Len(K) \in 1 .. Len(K)
      BY <3>1, <1>1
    <3>3. K[Len(K)] < k
      BY <2>3, <3>2, <1>4 DEF Left
    <3>4. K[i + 1] <= K[Len(K)]
      <4>1. CASE i + 1 = Len(K)
        BY <4>1, <1>2, <2>2
      <4>2. CASE i + 1 # Len(K)
        <5>1. i + 1 < Len(K)
          BY <4>2, <2>2, <1>1
        <5>2. QED BY <5>1, <1>2, <1>3, <2>2, <3>2
      <4>3. QED BY <4>1, <4>2
    <3>5. QED BY <3>2, <3>3, <3>4, <2>1, <2>2, <1>1, <1>2
  <2>5. s - 1 \in 1 .. Len(K) /\ s \in 1 .. Len(K)
    BY <2>3, <2>4, <1>1
  <2>6. K[s - 1] < k /\ k < K[s]
    BY <2>3, <2>4, <1>4 DEF Left, Right
  <2>7. i = s - 1
    <3>1. CASE i < s - 1
      <4>1. i + 1 <= s - 1
        BY <3>1, <2>2, <2>5, <1>1
      <4>2. K[i + 1] <= K[s - 1]
        <5>1. CASE i + 1 = s - 1
          BY <5>1, <2>5, <1>2
        <5>2. CASE i + 1 # s - 1
          <6>1. i + 1 < s - 1
            BY <5>2, <4>1, <2>2, <2>5
          <6>2. QED BY <6>1, <1>2, <1>3, <2>2, <2>5
        <5>3. QED BY <5>1, <5>2
      <4>3. PICK x, y \in Int : x = K[i + 1] /\ y = K[s - 1]
        BY <2>2, <2>5, <1>2
      <4>4. k < x /\ x <= y /\ y < k /\ k \in Int
        BY <4>2, <4>3, <2>1, <2>6, <1>1
      <4>5. QED BY <4>4
    <3>2. CASE i > s - 1
      <4>1. s <= i
        BY <3>2, <2>2, <2>5, <1>1
      <4>2. K[s] <= K[i]
        <5>1. CASE s = i
          BY <5>1, <2>5, <1>2
        <5>2. CASE s # i
          <6>1. s < i
            BY <5>2, <4>1, <2>2, <2>5
          <6>2. QED BY <6>1, <1>2, <1>3, <2>2, <2>5
        <5>3. QED BY <5>1, <5>2
      <4>3. PICK x, y \in Int : x = K[i] /\ y = K[s]
        BY <2>2, <2>5, <1>2
      <4>4. x < k /\ k < y /\ y <= x /\ k \in Int
        BY <4>2, <4>3, <2>1, <2>6, <1>1
      <4>5. QED BY <4>4
    <3>3. QED BY <3>1, <3>2, <2>2, <2>5
  <2>8. QED BY <2>1, <2>3, <2>4, <2>7
<1>7. QED BY <1>5, <1>6

(* A page that doubles a key has the key under it, and not in it.          *)
LEMMA DoubledUnder ==
  ASSUME NEW t \in Trees, NEW q, NEW k \in t.all, NEW r \in Doubled(t, q, k)
  PROVE  r \in t.pages /\ k \in Under(t, r) /\ k \notin KeysOf(t, r)
<1> DEFINE K == t.keys[r]
<1>1. r \in t.pages
  BY DEF Doubled
<1>2. PICK i \in 1 .. Len(K) - 1 : K[i] < k /\ k < K[i + 1]
  BY DEF Doubled
<1>3. Len(K) \in Nat \ {0} /\ DOMAIN K = 1 .. Len(K) /\ k \in Int
  BY <1>1, PageFacts, KeysAreInt
<1>4. i \in 1 .. Len(K) /\ i + 1 \in 1 .. Len(K)
  BY <1>2, <1>3
<1>5. \A j \in 1 .. Len(K) : K[j] \in Int /\ t.lo[r] < K[j] /\ K[j] < t.hi[r]
  BY <1>1, PageFacts
<1>6. t.lo[r] \in Int /\ t.hi[r] \in Int
  BY <1>1, PageFacts
<1>7. t.lo[r] < k /\ k < t.hi[r]
  BY <1>2, <1>3, <1>4, <1>5, <1>6
<1>8. ASSUME NEW j \in 1 .. Len(K), k = K[j] PROVE FALSE
  <2>1. \A x, y \in 1 .. Len(K) : x < y => K[x] < K[y]
    BY <1>1, PageFacts
  <2>2. CASE j <= i
    <3>1. K[j] <= K[i]
      <4>1. CASE j = i
        BY <4>1, <1>4, <1>5
      <4>2. CASE j # i
        BY <4>2, <2>1, <2>2, <1>4, <1>5
      <4>3. QED BY <4>1, <4>2
    <3>2. QED BY <3>1, <1>2, <1>3, <1>4, <1>5, <1>8
  <2>3. CASE ~ (j <= i)
    <3>1. K[i + 1] <= K[j]
      <4>1. CASE j = i + 1
        BY <4>1, <1>4, <1>5
      <4>2. CASE j # i + 1
        <5>1. i + 1 < j
          BY <4>2, <2>3, <1>4
        <5>2. QED BY <5>1, <2>1, <1>4, <1>5
      <4>3. QED BY <4>1, <4>2
    <3>2. QED BY <3>1, <1>2, <1>3, <1>4, <1>5, <1>8
  <2>4. QED BY <2>2, <2>3
<1>9. QED BY <1>1, <1>3, <1>7, <1>8 DEF Under, KeysOf

LEMMA DoubledOfKey ==
  ASSUME NEW t \in Trees, NEW q, NEW p \in t.pages, NEW k \in KeysOf(t, p)
  PROVE  k \in Under(t, p) /\ DoubledIn(t, q, p, k) = {} /\ Mult(t, q, p, k) = 1
<1>1. PICK i \in 1 .. Len(t.keys[p]) : k = t.keys[p][i]
  BY PageFacts DEF KeysOf
<1>2. k \in Under(t, p)
  BY <1>1, PageFacts
<1>3. k \in t.all
  BY <1>2 DEF Under
<1>4. ASSUME NEW r \in DoubledIn(t, q, p, k) PROVE FALSE
  <2>1. r \in Doubled(t, q, k) /\ Inside(t, r, p)
    BY <1>4 DEF DoubledIn
  <2>2. r \in t.pages /\ k \in Under(t, r) /\ r # p
    BY <2>1, <1>3, DoubledUnder
  <2>3. PICK s \in Slots(t, p) : Left(t, p, s) <= t.lo[r] /\ t.hi[r] <= Right(t, p, s)
    BY <2>1, <2>2, PageBelow
  <2>4. t.lo[r] < k /\ k < t.hi[r] /\ k \in Int
    BY <2>2, <1>3, KeysAreInt DEF Under
  <2>5. t.lo[r] \in Int /\ t.hi[r] \in Int /\ Left(t, p, s) \in Int /\ Right(t, p, s) \in Int
    BY <2>2, PageFacts, SlotFacts
  <2>6. InSlot(t, p, s, k)
    BY <2>3, <2>4, <2>5 DEF InSlot
  <2>7. QED BY <2>6, <1>1, SlotFacts
<1>5. DoubledIn(t, q, p, k) = {}
  BY <1>4
<1>6. SUBSET DoubledIn(t, q, p, k) = {{}}
  BY <1>5
<1>7. Cardinality({{}}) = 1
  BY FS_Singleton
<1>8. QED BY <1>2, <1>5, <1>6, <1>7 DEF Mult

(* The pages that double a key are those below the slot it is in, and the  *)
(* page itself or not.                                                     *)
LEMMA DoubledOfSlot ==
  ASSUME NEW t \in Trees, NEW q, NEW p \in t.pages, NEW k \in t.all,
         NEW s \in Slots(t, p), InSlot(t, p, s, k), NEW c \in t.pages, c = t.child[p][s]
  PROVE  /\ p \notin DoubledIn(t, q, c, k)
         /\ DoubledIn(t, q, p, k) = DoubledIn(t, q, c, k)
                                      \union (IF p \in Doubled(t, q, k) THEN {p} ELSE {})
<1>1. c # NoPage
  BY TreesAssumption DEF IsTree
<1>2. t.lo[c] = Left(t, p, s) /\ t.hi[c] = Right(t, p, s) /\ Inside(t, c, p)
      /\ Width(t, c) < Width(t, p)
  BY <1>1, ChildBounds
<1>3. t.lo[p] \in Int /\ t.hi[p] \in Int /\ t.lo[c] \in Int /\ t.hi[c] \in Int /\ k \in Int
  BY PageFacts, KeysAreInt
<1>4. ~ Inside(t, p, c)
  <2>1. PICK x, y, u, v \in Int : x = t.lo[p] /\ y = t.hi[p] /\ u = t.lo[c] /\ v = t.hi[c]
    BY <1>3
  <2>2. v - u < y - x
    BY <2>1, <1>2 DEF Width
  <2>3. ~ (u <= x /\ y <= v)
    BY <2>2
  <2>4. QED BY <2>1, <2>3 DEF Inside
<1>5. p \notin DoubledIn(t, q, c, k)
  BY <1>4 DEF DoubledIn
<1>6. ASSUME NEW r \in DoubledIn(t, q, c, k) PROVE r \in DoubledIn(t, q, p, k)
  <2>1. r \in Doubled(t, q, k) /\ Inside(t, r, c) /\ r \in t.pages
    BY <1>6 DEF DoubledIn, Doubled
  <2>2. t.lo[r] \in Int /\ t.hi[r] \in Int
    BY <2>1, PageFacts
  <2>3. Inside(t, r, p)
    BY <2>1, <2>2, <1>2, <1>3 DEF Inside
  <2>4. QED BY <2>1, <2>3 DEF DoubledIn
<1>7. p \in Doubled(t, q, k) => p \in DoubledIn(t, q, p, k)
  BY <1>3 DEF DoubledIn, Inside
<1>8. ASSUME NEW r \in DoubledIn(t, q, p, k), r # p PROVE r \in DoubledIn(t, q, c, k)
  <2>1. r \in Doubled(t, q, k) /\ Inside(t, r, p)
    BY <1>8 DEF DoubledIn
  <2>2. r \in t.pages /\ k \in Under(t, r)
    BY <2>1, DoubledUnder
  <2>3. PICK z \in Slots(t, p) : Left(t, p, z) <= t.lo[r] /\ t.hi[r] <= Right(t, p, z)
    BY <2>1, <2>2, <1>8, PageBelow
  <2>4. t.lo[r] < k /\ k < t.hi[r]
    BY <2>2 DEF Under
  <2>5. t.lo[r] \in Int /\ t.hi[r] \in Int /\ Left(t, p, z) \in Int /\ Right(t, p, z) \in Int
    BY <2>2, PageFacts, SlotFacts
  <2>6. InSlot(t, p, z, k)
    BY <2>3, <2>4, <2>5, <1>3 DEF InSlot
  <2>7. z = s
    <3>1. ~ (z < s) /\ ~ (s < z)
      BY <2>6, <1>3, SlotsApart
    <3>2. z \in Int /\ s \in Int
      BY PageFacts DEF Slots
    <3>3. QED BY <3>1, <3>2
  <2>8. Inside(t, r, c)
    BY <2>3, <2>7, <1>2 DEF Inside
  <2>9. QED BY <2>1, <2>8 DEF DoubledIn
<1>9. DoubledIn(t, q, p, k) = DoubledIn(t, q, c, k)
                                \union (IF p \in Doubled(t, q, k) THEN {p} ELSE {})
  <2>1. ASSUME NEW r \in DoubledIn(t, q, p, k)
        PROVE  r \in DoubledIn(t, q, c, k) \union (IF p \in Doubled(t, q, k) THEN {p} ELSE {})
    <3>1. CASE r = p
      BY <3>1, <2>1 DEF DoubledIn
    <3>2. CASE r # p
      BY <3>2, <2>1, <1>8
    <3>3. QED BY <3>1, <3>2
  <2>2. QED BY <2>1, <1>6, <1>7
<1>10. QED BY <1>5, <1>9

LEMMA DoubledFinite ==
  ASSUME NEW t \in Trees, NEW q, NEW p \in t.pages, NEW k \in Under(t, p)
  PROVE  IsFiniteSet(DoubledIn(t, q, p, k))
<1> DEFINE Bad == {n \in Nat : \E x \in t.pages : Width(t, x) = n /\ k \in Under(t, x)
                                              /\ ~ IsFiniteSet(DoubledIn(t, q, x, k))}
<1>1. SUFFICES Bad = {}
  <2>1. t.lo[p] \in Int /\ t.hi[p] \in Int /\ t.lo[p] < t.hi[p]
    BY PageFacts
  <2>2. t.hi[p] - t.lo[p] \in Nat
    BY <2>1
  <2>3. Width(t, p) \in Nat
    BY <2>2 DEF Width
  <2>4. QED BY <2>3, <1>1
<1> SUFFICES ASSUME Bad # {} PROVE FALSE
  OBVIOUS
<1>2. PICK n \in Bad : \A m \in Bad : n <= m
  BY LeastNatural
<1>3. PICK x \in t.pages : Width(t, x) = n /\ k \in Under(t, x)
                             /\ ~ IsFiniteSet(DoubledIn(t, q, x, k))
  BY <1>2
<1>4. k \in t.all
  BY DEF Under
<1>5. k \notin KeysOf(t, x)
  BY <1>3, DoubledOfKey, FS_EmptySet
<1>6. PICK s \in Slots(t, x) : InSlot(t, x, s, k)
  BY <1>3, <1>5, KeyPlace
<1>7. t.child[x][s] # NoPage
  BY <1>4, <1>6, ChildFacts
<1>8. PICK c \in t.pages : c = t.child[x][s]
  BY <1>7, ChildFacts
<1>9. k \in Under(t, c) /\ Width(t, c) < Width(t, x) /\ Width(t, c) \in Nat
  BY <1>4, <1>6, <1>7, <1>8, ChildFacts, ChildBounds
<1>10. Width(t, c) \notin Bad
  <2>1. PICK m \in Nat : m = Width(t, c)
    BY <1>9
  <2>2. m < n /\ n \in Nat
    BY <2>1, <1>3, <1>9
  <2>3. ~ (n <= m)
    BY <2>2
  <2>4. QED BY <2>1, <2>3, <1>2
<1>11. IsFiniteSet(DoubledIn(t, q, c, k))
  BY <1>9, <1>10
<1>12. DoubledIn(t, q, x, k) = DoubledIn(t, q, c, k)
                                \union (IF x \in Doubled(t, q, k) THEN {x} ELSE {})
  BY <1>4, <1>6, <1>8, DoubledOfSlot
<1>13. IsFiniteSet(DoubledIn(t, q, x, k))
  <2>1. IsFiniteSet(DoubledIn(t, q, c, k) \union {x})
    BY <1>11, FS_AddElement
  <2>2. QED BY <2>1, <1>11, <1>12
<1>14. QED BY <1>3, <1>13

LEMMA MultType ==
  ASSUME NEW t \in Trees, NEW q, NEW p \in t.pages, NEW k
  PROVE  Mult(t, q, p, k) \in Nat
<1>1. CASE k \in Under(t, p)
  <2>1. IsFiniteSet(SUBSET DoubledIn(t, q, p, k))
    BY <1>1, DoubledFinite, FS_SUBSET
  <2>2. QED BY <1>1, <2>1, FS_CardinalityType DEF Mult
<1>2. CASE k \notin Under(t, p)
  BY <1>2 DEF Mult
<1>3. QED BY <1>1, <1>2

(* Of a slot: once, or twice if it is between a match and another key.     *)
LEMMA MultOfSlot ==
  ASSUME NEW t \in Trees, NEW q, NEW p \in t.pages, NEW k \in t.all,
         NEW s \in Slots(t, p), InSlot(t, p, s, k), NEW c \in t.pages, c = t.child[p][s]
  PROVE  /\ p \notin Doubled(t, q, k) => Mult(t, q, p, k) = Mult(t, q, c, k)
         /\ p \in Doubled(t, q, k) => Mult(t, q, p, k) = 2 * Mult(t, q, c, k)
<1>1. c # NoPage
  BY TreesAssumption DEF IsTree
<1>2. k \in Under(t, c) /\ k \in Under(t, p)
  BY <1>1, ChildFacts
<1>3. p \notin DoubledIn(t, q, c, k)
      /\ DoubledIn(t, q, p, k) = DoubledIn(t, q, c, k)
                                   \union (IF p \in Doubled(t, q, k) THEN {p} ELSE {})
  BY DoubledOfSlot
<1>4. IsFiniteSet(DoubledIn(t, q, c, k))
  BY <1>2, DoubledFinite
<1>5. CASE p \notin Doubled(t, q, k)
  <2>1. DoubledIn(t, q, p, k) = DoubledIn(t, q, c, k)
    BY <1>3, <1>5
  <2>2. QED BY <1>5, <2>1, <1>2 DEF Mult
<1>6. CASE p \in Doubled(t, q, k)
  <2>1. DoubledIn(t, q, p, k) = DoubledIn(t, q, c, k) \union {p}
    BY <1>3, <1>6
  <2>2. Cardinality(SUBSET DoubledIn(t, q, p, k)) = 2 * Cardinality(SUBSET DoubledIn(t, q, c, k))
    BY <2>1, <1>3, <1>4, SubsetsDouble
  <2>3. QED BY <1>6, <2>2, <1>2 DEF Mult
<1>7. QED BY <1>5, <1>6

LEMMA MultOfRoot ==
  ASSUME NEW t \in Trees, NEW q, NEW k \in t.all
  PROVE  Mult(t, q, t.root, k) = Cardinality(SUBSET Doubled(t, q, k))
<1>1. t.root \in t.pages /\ Under(t, t.root) = t.all
  BY TreesAssumption DEF IsTree, Searchable
<1>2. ASSUME NEW r \in Doubled(t, q, k) PROVE Inside(t, r, t.root)
  <2>1. r \in t.pages
    BY <1>2 DEF Doubled
  <2>2. PICK m : m = t.keys[r][1]
    OBVIOUS
  <2>3. 1 \in 1 .. Len(t.keys[r]) /\ DOMAIN t.keys[r] = 1 .. Len(t.keys[r])
    BY <2>1, PageFacts
  <2>4. m \in KeysOf(t, r) /\ m \in Under(t, t.root)
    BY <2>1, <2>2, <2>3, <1>1, PageFacts DEF KeysOf, Under
  <2>5. Nested(t, t.root, r, m)
    BY <2>1, <2>4, <1>1, KeyBelow
  <2>6. t.lo[r] \in Int /\ t.hi[r] \in Int /\ t.lo[t.root] \in Int /\ t.hi[t.root] \in Int
    BY <2>1, <1>1, PageFacts
  <2>7. CASE r = t.root
    BY <2>7, <2>6 DEF Inside
  <2>8. CASE r # t.root
    <3>1. PICK s \in Slots(t, t.root) : Left(t, t.root, s) <= t.lo[r] /\ t.hi[r] <= Right(t, t.root, s)
      BY <2>5, <2>8 DEF Nested
    <3>2. t.lo[t.root] <= Left(t, t.root, s) /\ Right(t, t.root, s) <= t.hi[t.root]
          /\ Left(t, t.root, s) \in Int /\ Right(t, t.root, s) \in Int
      BY <1>1, SlotFacts
    <3>3. QED BY <3>1, <3>2, <2>6 DEF Inside
  <2>9. QED BY <2>7, <2>8
<1>3. DoubledIn(t, q, t.root, k) = Doubled(t, q, k)
  BY <1>2 DEF DoubledIn
<1>4. QED BY <1>1, <1>3 DEF Mult
-----------------------------------------------------------------------------
(* What a call has still to list of a key: of the slot it stands at, and   *)
(* of what follows.                                                        *)
SlotMult(t, q, p, s, k) == IF InSlot(t, p, s, k) THEN Mult(t, q, t.child[p][s], k) ELSE 0

Rest(t, q, f, k) ==
  IF f.at = "end" THEN 0
  ELSE IF t.keys[f.page][f.i] <= k THEN Mult(t, q, f.page, k)
  ELSE IF f.at = "key" THEN SlotMult(t, q, f.page, f.i, k) ELSE 0

AheadOf(t, f, k) ==
  /\ f.at # "end"
  /\ k \in Under(t, f.page)
  /\ t.keys[f.page][f.i] <= k \/ (f.at = "key" /\ InSlot(t, f.page, f.i, k))

FrameSet(t) == [page : t.pages, i : Nat \ {0}, at : {"key", "match", "end"}]

FrameOK(t, q, pg, f) ==
  /\ f \in FrameSet(t)
  /\ f.page \in pg
  /\ f.i \in 1 .. Len(t.keys[f.page])
  /\ Leads(t, f.page, q)
  /\ f.at = "key" => Left(t, f.page, f.i) <= q.hi
  /\ f.at = "match" => Matches(t.keys[f.page][f.i], q)

(* The turns of _lookup_keys: the call goes on as g, looks in the slot s   *)
(* if it is not 0, and lists its key if it appends.                        *)
GoesTo(t, q, f, g, s, app) ==
  LET K == t.keys[f.page]
      next(i, at) == g = [page |-> f.page, i |-> i, at |-> at]
  IN  \/ f.at = "key" /\ Matches(K[f.i], q) /\ next(f.i, "match") /\ s = f.i /\ ~ app
      \/ f.at = "match" /\ f.i # Len(K) /\ next(f.i + 1, "key") /\ s = f.i + 1 /\ app
      \/ f.at = "match" /\ f.i = Len(K) /\ next(f.i, "end") /\ s = f.i + 1 /\ app
      \/ f.at = "key" /\ Above(K[f.i], q) /\ next(f.i, "end") /\ s = f.i /\ ~ app
      \/ f.at = "key" /\ Below(K[f.i], q) /\ f.i # Len(K) /\ next(f.i + 1, "key") /\ s = 0 /\ ~ app
      \/ f.at = "key" /\ Below(K[f.i], q) /\ f.i = Len(K) /\ next(f.i, "end") /\ s = f.i + 1 /\ ~ app

QueryType(q) == q.lo \in Int /\ q.hi \in Int /\ q.lo <= q.hi

(* The slots on both sides of a key.                                       *)
LEMMA SlotsOfKey ==
  ASSUME NEW t \in Trees, NEW p \in t.pages, NEW n, n = Len(t.keys[p]),
         NEW i \in 1 .. n, NEW j, j = i + 1
  PROVE  /\ n \in Nat \ {0} /\ i \in Slots(t, p) /\ j \in Slots(t, p) /\ j # 1 /\ i # n + 1
         /\ t.keys[p][i] \in Int
         /\ Right(t, p, i) = t.keys[p][i] /\ Left(t, p, j) = t.keys[p][i]
         /\ i = n => Right(t, p, j) = t.hi[p]
         /\ i # n => /\ j \in 1 .. n /\ t.keys[p][j] \in Int
                     /\ Right(t, p, j) = t.keys[p][j] /\ t.keys[p][i] < t.keys[p][j]
<1>1. n \in Nat \ {0}
  BY PageFacts
<1>2. i \in 1 .. n + 1 /\ j \in 1 .. n + 1 /\ j # 1 /\ i # n + 1 /\ j - 1 = i
  BY <1>1
<1>3. t.keys[p][i] \in Int
  BY PageFacts
<1>4. i \in Slots(t, p) /\ j \in Slots(t, p)
  BY <1>2 DEF Slots
<1>5. Right(t, p, i) = t.keys[p][i] /\ Left(t, p, j) = t.keys[p][i]
  BY <1>2 DEF Left, Right
<1>6. i = n => Right(t, p, j) = t.hi[p]
  BY DEF Right
<1>7. ASSUME i # n
      PROVE  /\ j \in 1 .. n /\ t.keys[p][j] \in Int
             /\ Right(t, p, j) = t.keys[p][j] /\ t.keys[p][i] < t.keys[p][j]
  <2>1. j \in 1 .. n /\ j # n + 1 /\ i < j
    BY <1>1, <1>7
  <2>2. QED BY <2>1, PageFacts DEF Right
<1>8. QED BY <1>1, <1>2, <1>3, <1>4, <1>5, <1>6, <1>7

LEMMA SlotMultFacts ==
  ASSUME NEW t \in Trees, NEW q, NEW p \in t.pages, NEW k \in t.all, NEW s \in Slots(t, p)
  PROVE  /\ SlotMult(t, q, p, s, k) \in Nat
         /\ InSlot(t, p, s, k) =>
              /\ k \in Under(t, p)
              /\ s = 1 \/ s = Len(t.keys[p]) + 1 \/ ~ Matches(t.keys[p][s - 1], q) =>
                   Mult(t, q, p, k) = SlotMult(t, q, p, s, k)
              /\ s # 1 /\ s # Len(t.keys[p]) + 1 /\ Matches(t.keys[p][s - 1], q) =>
                   Mult(t, q, p, k) = 2 * SlotMult(t, q, p, s, k)
<1>1. CASE ~ InSlot(t, p, s, k)
  BY <1>1 DEF SlotMult
<1>2. CASE InSlot(t, p, s, k)
  <2>1. t.child[p][s] # NoPage
    BY <1>2, ChildFacts
  <2>2. PICK c \in t.pages : c = t.child[p][s]
    BY <2>1, ChildFacts
  <2>3. SlotMult(t, q, p, s, k) = Mult(t, q, c, k) /\ Mult(t, q, c, k) \in Nat
    BY <1>2, <2>2, MultType DEF SlotMult
  <2>4. k \in Under(t, p)
    BY <1>2, <2>1, ChildFacts
  <2>5. p \in Doubled(t, q, k) <=> s # 1 /\ s # Len(t.keys[p]) + 1 /\ Matches(t.keys[p][s - 1], q)
    BY <1>2, DoubledSlot
  <2>6. /\ p \notin Doubled(t, q, k) => Mult(t, q, p, k) = Mult(t, q, c, k)
        /\ p \in Doubled(t, q, k) => Mult(t, q, p, k) = 2 * Mult(t, q, c, k)
    BY <1>2, <2>2, MultOfSlot
  <2>7. QED BY <2>3, <2>4, <2>5, <2>6
<1>3. QED BY <1>1, <1>2

LEMMA RestType ==
  ASSUME NEW t \in Trees, NEW q, NEW f \in FrameSet(t), f.i \in 1 .. Len(t.keys[f.page]),
         NEW k \in t.all
  PROVE  Rest(t, q, f, k) \in Nat
<1>1. f.page \in t.pages
  BY DEF FrameSet
<1>2. f.i \in Slots(t, f.page)
  <2>1. PICK n \in Nat : n = Len(t.keys[f.page])
    BY <1>1, PageFacts
  <2>2. PICK i : i = f.i
    OBVIOUS
  <2>3. i \in 1 .. n + 1
    BY <2>1, <2>2
  <2>4. QED BY <2>1, <2>2, <2>3 DEF Slots
<1>3. Mult(t, q, f.page, k) \in Nat /\ SlotMult(t, q, f.page, f.i, k) \in Nat
  BY <1>1, <1>2, MultType, SlotMultFacts
<1>4. QED BY <1>3 DEF Rest

(* What is between a key and the next is in the slot there.                *)
LEMMA AfterKey ==
  ASSUME NEW t \in Trees, NEW p \in t.pages, NEW n, n = Len(t.keys[p]),
         NEW i \in 1 .. n, NEW j, j = i + 1, NEW k \in t.all
  PROVE  /\ k \in Int
         /\ InSlot(t, p, i, k) => k < t.keys[p][i]
         /\ InSlot(t, p, j, k) => t.keys[p][i] < k /\ (i # n => k < t.keys[p][j])
         /\ t.keys[p][i] < k /\ k \in Under(t, p) =>
              InSlot(t, p, j, k) \/ (i # n /\ t.keys[p][j] <= k)
         /\ k = t.keys[p][i] => k \in Under(t, p)
<1>1. k \in Int
  BY KeysAreInt
<1>2. /\ Right(t, p, i) = t.keys[p][i] /\ Left(t, p, j) = t.keys[p][i]
      /\ i = n => Right(t, p, j) = t.hi[p]
      /\ i # n => t.keys[p][j] \in Int /\ Right(t, p, j) = t.keys[p][j]
  BY SlotsOfKey
<1>3. k = t.keys[p][i] => k \in Under(t, p)
  BY PageFacts
<1>4. ASSUME t.keys[p][i] < k, k \in Under(t, p)
      PROVE  InSlot(t, p, j, k) \/ (i # n /\ t.keys[p][j] <= k)
  <2>1. k < t.hi[p]
    BY <1>4 DEF Under
  <2>2. QED BY <1>1, <1>2, <1>4, <2>1 DEF InSlot
<1>5. QED BY <1>1, <1>2, <1>3, <1>4 DEF InSlot

(* The number of times a wanted key is still to be listed is divided       *)
(* between the key listed now, the slot looked in and what the call has    *)
(* then still to do.                                                       *)
LEMMA MoveCounts ==
  ASSUME NEW t \in Trees, NEW q, QueryType(q), NEW pg, NEW f, FrameOK(t, q, pg, f),
         NEW g, NEW s, NEW app, GoesTo(t, q, f, g, s, app), NEW k \in Wanted(t, q)
  PROVE  Rest(t, q, f, k) = (IF app /\ k = t.keys[f.page][f.i] THEN 1 ELSE 0)
                              + (IF s = 0 THEN 0 ELSE SlotMult(t, q, f.page, s, k))
                              + Rest(t, q, g, k)
<1>1. PICK p \in t.pages : p = f.page
  BY DEF FrameOK, FrameSet
<1>2. PICK K : K = t.keys[p]
  OBVIOUS
<1>3. PICK n : n = Len(t.keys[p])
  OBVIOUS
<1>4. PICK i \in 1 .. n : i = f.i
  BY <1>1, <1>3 DEF FrameOK
<1>5. PICK j : j = i + 1
  OBVIOUS
<1>6. /\ n \in Nat \ {0} /\ i \in Slots(t, p) /\ j \in Slots(t, p) /\ j # 1 /\ i # n + 1
      /\ K[i] \in Int
      /\ i # n => j \in 1 .. n /\ K[j] \in Int /\ K[i] < K[j]
  BY <1>2, <1>3, <1>5, SlotsOfKey
<1>7. k \in t.all /\ Matches(k, q)
  BY DEF Wanted
<1>8. /\ k \in Int
      /\ InSlot(t, p, i, k) => k < K[i]
      /\ InSlot(t, p, j, k) => K[i] < k /\ (i # n => k < K[j])
      /\ K[i] < k /\ k \in Under(t, p) => InSlot(t, p, j, k) \/ (i # n /\ K[j] <= k)
      /\ k = K[i] => k \in Under(t, p)
  BY <1>2, <1>3, <1>5, <1>7, AfterKey
<1>9. q.lo <= k /\ k <= q.hi /\ q.lo \in Int /\ q.hi \in Int
  BY <1>7, <1>8 DEF Matches, Below, Above, QueryType
<1>10. PICK M \in Nat : M = Mult(t, q, p, k)
  BY <1>7, MultType
<1>11. PICK Si \in Nat : Si = SlotMult(t, q, p, i, k)
  BY <1>6, <1>7, SlotMultFacts
<1>12. PICK Sj \in Nat : Sj = SlotMult(t, q, p, j, k)
  BY <1>6, <1>7, SlotMultFacts
<1>13. (~ InSlot(t, p, i, k) => Si = 0) /\ (~ InSlot(t, p, j, k) => Sj = 0)
  BY <1>11, <1>12 DEF SlotMult
<1>14. k \notin Under(t, p) => M = 0
  BY <1>10 DEF Mult
<1>15. k = K[i] => M = 1
  <2>1. k = K[i] => k \in KeysOf(t, p)
    BY <1>2, <1>3, PageFacts DEF KeysOf
  <2>2. QED BY <2>1, <1>10, DoubledOfKey
<1>16. InSlot(t, p, j, k) =>
         /\ i = n \/ ~ Matches(K[i], q) => M = Sj
         /\ i # n /\ Matches(K[i], q) => M = 2 * Sj
  <2>1. j - 1 = i /\ (j = n + 1 <=> i = n)
    BY <1>5, <1>6
  <2>2. QED BY <2>1, <1>2, <1>3, <1>6, <1>7, <1>10, <1>12, SlotMultFacts
<1>17. Rest(t, q, f, k) = IF f.at = "end" THEN 0 ELSE IF K[i] <= k THEN M
                          ELSE IF f.at = "key" THEN Si ELSE 0
  BY <1>1, <1>2, <1>4, <1>10, <1>11 DEF Rest
<1>18. ASSUME NEW x \in {i, j}, NEW at, g = [page |-> f.page, i |-> x, at |-> at]
       PROVE  Rest(t, q, g, k) = IF at = "end" THEN 0 ELSE IF K[x] <= k THEN M
                                 ELSE IF at = "key" THEN SlotMult(t, q, p, x, k) ELSE 0
  BY <1>1, <1>2, <1>10, <1>18 DEF Rest
<1>19. s = i => (IF s = 0 THEN 0 ELSE SlotMult(t, q, f.page, s, k)) = Si
  <2>1. i # 0
    BY <1>6 DEF Slots
  <2>2. QED BY <2>1, <1>1, <1>11
<1>20. s = j => (IF s = 0 THEN 0 ELSE SlotMult(t, q, f.page, s, k)) = Sj
  <2>1. j # 0
    BY <1>6 DEF Slots
  <2>2. QED BY <2>1, <1>1, <1>12
<1> DEFINE Goal == Rest(t, q, f, k) = (IF app /\ k = t.keys[f.page][f.i] THEN 1 ELSE 0)
                              + (IF s = 0 THEN 0 ELSE SlotMult(t, q, f.page, s, k))
                              + Rest(t, q, g, k)
<1> SUFFICES Goal
  OBVIOUS
<1>21. ASSUME f.at = "key", Matches(K[i], q), g = [page |-> f.page, i |-> i, at |-> "match"],
              s = i, ~ app
       PROVE  Goal
  <2>1. Rest(t, q, g, k) = IF K[i] <= k THEN M ELSE 0
    BY <1>18, <1>21
  <2>2. Rest(t, q, f, k) = IF K[i] <= k THEN M ELSE Si
    BY <1>17, <1>21
  <2>3. K[i] <= k => Si = 0
    BY <1>6, <1>8, <1>13
  <2>4. QED BY <2>1, <2>2, <2>3, <1>19, <1>21, <1>10, <1>11
<1>22. ASSUME f.at = "match", i # n, g = [page |-> f.page, i |-> j, at |-> "key"], s = j, app
       PROVE  Goal
  <2>1. Rest(t, q, g, k) = IF K[j] <= k THEN M ELSE Sj
    BY <1>12, <1>18, <1>22
  <2>2. Rest(t, q, f, k) = IF K[i] <= k THEN M ELSE 0
    BY <1>17, <1>22
  <2>3. Matches(K[i], q)
    BY <1>1, <1>2, <1>4, <1>22 DEF FrameOK
  <2>4. K[i] \in Int /\ K[j] \in Int /\ K[i] < K[j]
    BY <1>6, <1>22
  <2>5. (IF app /\ k = t.keys[f.page][f.i] THEN 1 ELSE 0) = IF k = K[i] THEN 1 ELSE 0
    BY <1>1, <1>2, <1>4, <1>22
  <2>6. CASE k < K[i]
    <3>1. Sj = 0 /\ ~ K[i] <= k /\ ~ K[j] <= k /\ k # K[i]
      BY <2>4, <2>6, <1>8, <1>13
    <3>2. QED BY <3>1, <2>1, <2>2, <2>5, <1>20, <1>22
  <2>7. CASE k = K[i]
    <3>1. Sj = 0 /\ K[i] <= k /\ ~ K[j] <= k /\ M = 1
      BY <2>4, <2>7, <1>8, <1>13, <1>15
    <3>2. QED BY <3>1, <2>1, <2>2, <2>5, <2>7, <1>20, <1>22
  <2>8. CASE K[i] < k /\ k < K[j]
    <3>1. K[i] <= k /\ ~ K[j] <= k /\ k # K[i]
      BY <2>4, <2>8, <1>8
    <3>2. M = Sj + Sj
      <4>1. CASE k \in Under(t, p)
        <5>1. M = 2 * Sj
          BY <4>1, <3>1, <2>3, <2>8, <1>8, <1>16, <1>22
        <5>2. QED BY <5>1
      <4>2. CASE k \notin Under(t, p)
        <5>1. ~ InSlot(t, p, j, k)
          BY <4>2, <1>6, <1>7, SlotMultFacts
        <5>2. QED BY <4>2, <5>1, <1>13, <1>14
      <4>3. QED BY <4>1, <4>2
    <3>3. QED BY <3>1, <3>2, <2>1, <2>2, <2>5, <1>20, <1>22
  <2>9. CASE K[j] <= k
    <3>1. Sj = 0 /\ K[i] <= k /\ k # K[i]
      BY <2>4, <2>9, <1>8, <1>13, <1>22
    <3>2. QED BY <3>1, <2>1, <2>2, <2>5, <2>9, <1>20, <1>22, <1>10
  <2>10. QED BY <2>4, <2>6, <2>7, <2>8, <2>9, <1>8
<1>23. ASSUME f.at = "match", i = n, g = [page |-> f.page, i |-> i, at |-> "end"], s = j, app
       PROVE  Goal
  <2>1. Rest(t, q, g, k) = 0
    BY <1>18, <1>23
  <2>2. Rest(t, q, f, k) = IF K[i] <= k THEN M ELSE 0
    BY <1>17, <1>23
  <2>3. (IF app /\ k = t.keys[f.page][f.i] THEN 1 ELSE 0) = IF k = K[i] THEN 1 ELSE 0
    BY <1>1, <1>2, <1>4, <1>23
  <2>4. CASE k < K[i]
    <3>1. Sj = 0 /\ ~ K[i] <= k /\ k # K[i]
      BY <2>4, <1>6, <1>8, <1>13
    <3>2. QED BY <3>1, <2>1, <2>2, <2>3, <1>20, <1>23
  <2>5. CASE k = K[i]
    <3>1. Sj = 0 /\ K[i] <= k /\ M = 1
      BY <2>5, <1>6, <1>8, <1>13, <1>15
    <3>2. QED BY <3>1, <2>1, <2>2, <2>3, <2>5, <1>20, <1>23
  <2>6. CASE K[i] < k
    <3>1. K[i] <= k /\ k # K[i]
      BY <2>6, <1>6, <1>8
    <3>2. M = Sj
      <4>1. CASE k \in Under(t, p)
        BY <4>1, <2>6, <1>8, <1>16, <1>23
      <4>2. CASE k \notin Under(t, p)
        <5>1. ~ InSlot(t, p, j, k)
          BY <4>2, <1>6, <1>7, SlotMultFacts
        <5>2. QED BY <4>2, <5>1, <1>13, <1>14
      <4>3. QED BY <4>1, <4>2
    <3>3. QED BY <3>1, <3>2, <2>1, <2>2, <2>3, <1>20, <1>23
  <2>7. QED BY <2>4, <2>5, <2>6, <1>6, <1>8
<1>24. ASSUME f.at = "key", Above(K[i], q), g = [page |-> f.page, i |-> i, at |-> "end"],
              s = i, ~ app
       PROVE  Goal
  <2>1. Rest(t, q, g, k) = 0
    BY <1>18, <1>24
  <2>2. ~ K[i] <= k
    BY <1>6, <1>8, <1>9, <1>24 DEF Above
  <2>3. Rest(t, q, f, k) = Si
    BY <2>2, <1>17, <1>24
  <2>4. QED BY <2>1, <2>3, <1>19, <1>24
<1>25. ASSUME f.at = "key", Below(K[i], q), i # n, g = [page |-> f.page, i |-> j, at |-> "key"],
              s = 0, ~ app
       PROVE  Goal
  <2>1. Rest(t, q, g, k) = IF K[j] <= k THEN M ELSE Sj
    BY <1>12, <1>18, <1>25
  <2>2. K[i] < k /\ K[i] <= k
    BY <1>6, <1>8, <1>9, <1>25 DEF Below
  <2>3. Rest(t, q, f, k) = M
    BY <2>2, <1>17, <1>25
  <2>4. ~ Matches(K[i], q)
    BY <1>25 DEF Matches
  <2>5. ~ K[j] <= k => M = Sj
    <3>1. CASE k \in Under(t, p)
      BY <3>1, <2>2, <2>4, <1>8, <1>16
    <3>2. CASE k \notin Under(t, p)
      <4>1. ~ InSlot(t, p, j, k)
        BY <3>2, <1>6, <1>7, SlotMultFacts
      <4>2. QED BY <3>2, <4>1, <1>13, <1>14
    <3>3. QED BY <3>1, <3>2
  <2>6. QED BY <2>1, <2>3, <2>5, <1>25, <1>10, <1>12
<1>26. ASSUME f.at = "key", Below(K[i], q), i = n, g = [page |-> f.page, i |-> i, at |-> "end"],
              s = j, ~ app
       PROVE  Goal
  <2>1. Rest(t, q, g, k) = 0
    BY <1>18, <1>26
  <2>2. K[i] < k /\ K[i] <= k
    BY <1>6, <1>8, <1>9, <1>26 DEF Below
  <2>3. Rest(t, q, f, k) = M
    BY <2>2, <1>17, <1>26
  <2>4. M = Sj
    <3>1. CASE k \in Under(t, p)
      BY <3>1, <2>2, <1>8, <1>16, <1>26
    <3>2. CASE k \notin Under(t, p)
      <4>1. ~ InSlot(t, p, j, k)
        BY <3>2, <1>6, <1>7, SlotMultFacts
      <4>2. QED BY <3>2, <4>1, <1>13, <1>14
    <3>3. QED BY <3>1, <3>2
  <2>5. QED BY <2>1, <2>3, <2>4, <1>20, <1>26, <1>12
<1> HIDE DEF Goal
<1>27. QED BY <1>1, <1>2, <1>3, <1>4, <1>5, <1>21, <1>22, <1>23, <1>24, <1>25, <1>26 DEF GoesTo

(* What a turn does with the bounds of its call, and with the pages the    *)
(* prefix leads to.                                                        *)
MoveFrame(t, q, pg, f, g, s) ==
  /\ FrameOK(t, q, pg, g) /\ g.page = f.page
  /\ s = 0 => g.at = "key"
  /\ s # 0 =>
       /\ s \in Slots(t, f.page)
       /\ Left(t, f.page, s) <= q.hi /\ q.lo <= Right(t, f.page, s)
       /\ g.at = "match" => t.keys[f.page][g.i] = Right(t, f.page, s)
       /\ g.at = "end" => \A k \in Wanted(t, q) : k < t.hi[f.page] => k < Right(t, f.page, s)

MoveCovers(t, q, f, g, s) ==
  \A r \in t.pages : \A k \in KeysOf(t, r) :
    Leads(t, r, q) /\ AheadOf(t, f, k) =>
      r = f.page \/ AheadOf(t, g, k) \/ (s # 0 /\ InSlot(t, f.page, s, k))

UpTo(t, q, F, x)   == \A k \in Wanted(t, q) : k <= x => k \in F
Before(t, q, F, x) == \A k \in Wanted(t, q) : k < x => k \in F

KeyFloor(t, q, F, f) == f.at = "key" => UpTo(t, q, F, Left(t, f.page, f.i))
TopFloor(t, q, F, f) ==
  /\ f.at = "match" => Before(t, q, F, t.keys[f.page][f.i])
  /\ f.at = "end" => Before(t, q, F, t.hi[f.page])

MoveFloors(t, q, F, f, g, s) ==
  /\ KeyFloor(t, q, F, g)
  /\ s # 0 => UpTo(t, q, F, Left(t, f.page, s))

LEMMA MoveFrames ==
  ASSUME NEW t \in Trees, NEW q, QueryType(q), NEW pg, NEW f, FrameOK(t, q, pg, f),
         NEW g, NEW s, NEW app, GoesTo(t, q, f, g, s, app), NEW F, NEW F1,
         KeyFloor(t, q, F, f), TopFloor(t, q, F, f),
         F \subseteq F1, app => t.keys[f.page][f.i] \in F1
  PROVE  /\ MoveFrame(t, q, pg, f, g, s)
         /\ MoveCovers(t, q, f, g, s)
         /\ MoveFloors(t, q, F1, f, g, s)
<1>1. PICK p \in t.pages : p = f.page
  BY DEF FrameOK, FrameSet
<1>2. PICK K : K = t.keys[p]
  OBVIOUS
<1>3. PICK n : n = Len(t.keys[p])
  OBVIOUS
<1>4. PICK i \in 1 .. n : i = f.i
  BY <1>1, <1>3 DEF FrameOK
<1>5. PICK j : j = i + 1
  OBVIOUS
<1>6. PICK lo, hi \in Int : lo = t.lo[p] /\ hi = t.hi[p]
  BY PageFacts
<1>7. /\ n \in Nat \ {0} /\ i \in Slots(t, p) /\ j \in Slots(t, p) /\ j # 1 /\ i # n + 1
      /\ K[i] \in Int /\ lo < K[i] /\ K[i] < hi
      /\ i # n => j \in 1 .. n /\ K[j] \in Int /\ K[i] < K[j] /\ K[j] < hi
      /\ Right(t, p, i) = K[i] /\ Left(t, p, j) = K[i]
      /\ i = n => Right(t, p, j) = hi
      /\ i # n => Right(t, p, j) = K[j]
  <2>1. \A x \in 1 .. n : K[x] \in Int /\ lo < K[x] /\ K[x] < hi
    BY <1>2, <1>3, <1>6, PageFacts
  <2>2. /\ n \in Nat \ {0} /\ i \in Slots(t, p) /\ j \in Slots(t, p) /\ j # 1 /\ i # n + 1
        /\ Right(t, p, i) = t.keys[p][i] /\ Left(t, p, j) = t.keys[p][i]
        /\ i = n => Right(t, p, j) = t.hi[p]
        /\ i # n => /\ j \in 1 .. n /\ Right(t, p, j) = t.keys[p][j]
                    /\ t.keys[p][i] < t.keys[p][j]
    BY <1>3, <1>5, SlotsOfKey
  <2>3. K[i] \in Int /\ lo < K[i] /\ K[i] < hi
    BY <2>1
  <2>4. i # n => K[j] \in Int /\ K[j] < hi
    BY <2>1, <2>2
  <2>5. QED BY ONLY <2>2, <2>3, <2>4, <1>2, <1>6
<1>8. i # 0 /\ j # 0 /\ i \in Nat \ {0} /\ j \in Nat \ {0}
  BY <1>5, <1>7
<1>9. q.lo \in Int /\ q.hi \in Int /\ q.lo <= q.hi
  BY DEF QueryType
<1>10. lo <= q.hi /\ q.lo <= hi /\ p \in pg /\ f.at \in {"key", "match", "end"}
  BY <1>1, <1>6 DEF FrameOK, FrameSet, Leads
<1>11. f.at = "key" => Left(t, p, i) <= q.hi
  BY <1>1, <1>4 DEF FrameOK
<1>12. f.at = "match" => Matches(K[i], q)
  BY <1>1, <1>2, <1>4 DEF FrameOK
<1>13. Left(t, p, i) \in Int /\ Left(t, p, i) < K[i]
  <2>1. CASE i = 1
    BY <2>1, <1>6, <1>7 DEF Left
  <2>2. CASE i # 1
    <3>1. i - 1 \in 1 .. n /\ i - 1 < i
      BY <2>2, <1>7
    <3>2. K[i - 1] \in Int /\ K[i - 1] < K[i]
      BY <3>1, <1>2, <1>3, PageFacts
    <3>3. QED BY <2>2, <3>2, <1>2 DEF Left
  <2>3. QED BY <2>1, <2>2
<1>14. ASSUME NEW k \in Wanted(t, q)
       PROVE  k \in t.all /\ k \in Int /\ q.lo <= k /\ k <= q.hi
  <2>1. k \in t.all /\ k \in Int /\ Matches(k, q)
    BY KeysAreInt DEF Wanted
  <2>2. QED BY <2>1, <1>9 DEF Matches, Below, Above
<1>15. K[i] \in Int => /\ Matches(K[i], q) => q.lo <= K[i] /\ K[i] <= q.hi
                       /\ Below(K[i], q) => K[i] < q.lo
                       /\ Above(K[i], q) => q.hi < K[i]
  BY <1>9 DEF Matches, Below, Above
<1>16. ASSUME NEW x \in 1 .. n, NEW at \in {"key", "match", "end"},
              g = [page |-> f.page, i |-> x, at |-> at],
              at = "key" => Left(t, p, x) <= q.hi, at = "match" => Matches(K[x], q)
       PROVE  FrameOK(t, q, pg, g) /\ g.page = p /\ g.i = x /\ g.at = at
  <2>1. g.page = p /\ g.i = x /\ g.at = at
    BY <1>1, <1>16
  <2>2. g \in FrameSet(t)
    <3>1. x \in Nat \ {0}
      BY <1>7
    <3>2. g = [page |-> p, i |-> x, at |-> at]
      BY <1>1, <1>16
    <3>3. QED BY <3>1, <3>2 DEF FrameSet
  <2>3. Leads(t, p, q)
    BY <1>1 DEF FrameOK
  <2>4. QED BY <2>1, <2>2, <2>3, <1>2, <1>3, <1>10, <1>16 DEF FrameOK
(* The pages of keys in a slot lie within the slot.                        *)
<1>17. ASSUME NEW r \in t.pages, NEW k \in KeysOf(t, r), Leads(t, r, q), AheadOf(t, f, k), r # p
       PROVE  /\ k \in t.all /\ k \in Int /\ k \in Under(t, p) /\ f.at # "end"
              /\ K[i] <= k \/ (f.at = "key" /\ InSlot(t, p, i, k))
              /\ k # K[i]
              /\ ~ InSlot(t, p, i, k) => K[i] <= t.lo[r]
              /\ InSlot(t, p, i, k) => t.hi[r] <= K[i]
              /\ t.lo[r] \in Int /\ t.hi[r] \in Int /\ t.lo[r] <= q.hi /\ q.lo <= t.hi[r]
              /\ InSlot(t, p, j, k) \/ (i # n /\ K[j] <= k) \/ InSlot(t, p, i, k)
  <2>1. /\ k \in Under(t, p) /\ f.at # "end"
        /\ K[i] <= k \/ (f.at = "key" /\ InSlot(t, p, i, k))
    BY <1>1, <1>2, <1>4, <1>17 DEF AheadOf
  <2>2. k \in t.all /\ k \in Int
    BY <2>1, KeysAreInt DEF Under
  <2>3. t.lo[r] \in Int /\ t.hi[r] \in Int /\ t.lo[r] <= q.hi /\ q.lo <= t.hi[r]
    BY <1>17, PageFacts DEF Leads
  <2>4. k # K[i]
    <3>1. K[i] \in KeysOf(t, p)
      BY <1>2, <1>3, PageFacts DEF KeysOf
    <3>2. QED BY <3>1, <1>17, TreesAssumption DEF Searchable
  <2>5. PICK s1 \in Slots(t, p) : /\ InSlot(t, p, s1, k)
                                  /\ Left(t, p, s1) <= t.lo[r] /\ t.hi[r] <= Right(t, p, s1)
    BY <2>1, <1>17, KeyBelow DEF Nested
  <2>6. Left(t, p, s1) \in Int /\ Right(t, p, s1) \in Int
    BY SlotFacts
  <2>7. s1 \in 1 .. n + 1
    BY <1>3 DEF Slots
  <2>8. ASSUME InSlot(t, p, i, k) PROVE t.hi[r] <= K[i]
    <3>1. ~ (s1 < i) /\ ~ (i < s1)
      BY <2>2, <2>5, <2>8, <1>7, SlotsApart
    <3>2. s1 = i
      BY <3>1, <2>7, <1>7
    <3>3. QED BY <3>2, <2>5, <1>7
  <2>9. ASSUME ~ InSlot(t, p, i, k) PROVE K[i] <= t.lo[r]
    <3>1. K[i] < k
      BY <2>1, <2>2, <2>4, <2>9, <1>7
    <3>2. K[i] <= Left(t, p, s1)
      <4>1. CASE s1 <= i
        <5>1. k < Right(t, p, s1)
          BY <2>5 DEF InSlot
        <5>2. Right(t, p, s1) = K[s1] /\ s1 \in 1 .. n
          <6>1. s1 # n + 1 /\ s1 \in 1 .. n
            BY <4>1, <2>7, <1>7
          <6>2. QED BY <6>1, <1>2, <1>3 DEF Right
        <5>3. K[s1] <= K[i] /\ K[s1] \in Int
          <6>1. K[s1] \in Int /\ (s1 < i => K[s1] < K[i])
            BY <5>2, <1>2, <1>3, PageFacts
          <6>2. CASE s1 < i
            BY <6>1, <6>2, <1>7
          <6>3. CASE s1 = i
            BY <6>3, <1>7
          <6>4. QED BY <6>1, <6>2, <6>3, <4>1, <2>7
        <5>4. QED BY <5>1, <5>2, <5>3, <3>1, <2>2, <1>7
      <4>2. CASE ~ (s1 <= i)
        <5>1. s1 # 1 /\ s1 - 1 \in 1 .. n /\ i <= s1 - 1
          BY <4>2, <2>7, <1>7
        <5>2. Left(t, p, s1) = K[s1 - 1]
          BY <5>1, <1>2 DEF Left
        <5>3. PICK u \in 1 .. n : u = s1 - 1 /\ i <= u
          BY <5>1
        <5>4. K[u] \in Int /\ (i < u => K[i] < K[u])
          BY <1>2, <1>3, PageFacts
        <5>5. K[i] <= K[u]
          <6>1. CASE i = u
            BY <6>1, <1>7
          <6>2. CASE i < u
            BY <6>2, <5>4, <1>7
          <6>3. QED BY <6>1, <6>2, <5>3, <1>7
        <5>6. QED BY <5>2, <5>3, <5>5
      <4>3. QED BY <4>1, <4>2
    <3>3. QED BY <3>2, <2>3, <2>5, <2>6, <1>7
  <2>10. InSlot(t, p, j, k) \/ (i # n /\ K[j] <= k) \/ InSlot(t, p, i, k)
    <3>1. K[i] < k => InSlot(t, p, j, k) \/ (i # n /\ K[j] <= k)
      BY <2>1, <2>2, <1>2, <1>3, <1>5, AfterKey
    <3>2. QED BY <3>1, <2>1, <2>2, <2>4, <1>7
  <2>11. QED BY <2>1, <2>2, <2>3, <2>4, <2>8, <2>9, <2>10
<1>18. ASSUME NEW x \in {i, j}, NEW at, g = [page |-> f.page, i |-> x, at |-> at], NEW k,
              k \in Under(t, p), at # "end", K[x] <= k \/ (at = "key" /\ InSlot(t, p, x, k))
       PROVE  AheadOf(t, g, k)
  BY <1>1, <1>2, <1>18 DEF AheadOf
<1>19. f.at = "key" => UpTo(t, q, F1, Left(t, p, i))
  BY <1>1, <1>4 DEF KeyFloor, UpTo
<1>20. f.at = "match" => Before(t, q, F1, K[i])
  BY <1>1, <1>2, <1>4 DEF TopFloor, Before
<1>21. ASSUME app, f.at = "match" PROVE UpTo(t, q, F1, K[i])
  <2>1. K[i] \in F1
    BY <1>1, <1>2, <1>4, <1>21
  <2>2. \A k \in Wanted(t, q) : k < K[i] => k \in F1
    BY <1>20, <1>21 DEF Before
  <2>3. ASSUME NEW k \in Wanted(t, q), k <= K[i] PROVE k \in F1
    <3>1. k = K[i] \/ k < K[i]
      BY <2>3, <1>7, <1>14
    <3>2. QED BY <3>1, <2>1, <2>2
  <2>4. QED BY <2>3 DEF UpTo
<1>22. ASSUME Below(K[i], q) PROVE UpTo(t, q, F1, K[i])
  <2>1. K[i] < q.lo
    BY <1>7, <1>15, <1>22
  <2>2. ASSUME NEW k \in Wanted(t, q), k <= K[i] PROVE FALSE
    BY <2>1, <2>2, <1>7, <1>9, <1>14
  <2>3. QED BY <2>2 DEF UpTo
<1> DEFINE Goal == /\ MoveFrame(t, q, pg, f, g, s)
                   /\ MoveCovers(t, q, f, g, s)
                   /\ MoveFloors(t, q, F1, f, g, s)
<1> SUFFICES Goal
  OBVIOUS
<1>31. ASSUME f.at = "key", Matches(K[i], q), g = [page |-> f.page, i |-> i, at |-> "match"], s = i
       PROVE  Goal
  <2>1. FrameOK(t, q, pg, g) /\ g.page = p /\ g.i = i /\ g.at = "match"
    BY <1>16, <1>31
  <2>2. MoveFrame(t, q, pg, f, g, s)
    <3>1. q.lo <= Right(t, p, i)
      BY <1>7, <1>15, <1>31
    <3>2. QED BY <2>1, <3>1, <1>1, <1>2, <1>7, <1>8, <1>11, <1>31 DEF MoveFrame
  <2>3. MoveCovers(t, q, f, g, s)
    <3>1. ASSUME NEW r \in t.pages, NEW k \in KeysOf(t, r), Leads(t, r, q), AheadOf(t, f, k), r # p
          PROVE  AheadOf(t, g, k) \/ InSlot(t, p, i, k)
      BY <3>1, <1>17, <1>18, <1>31
    <3>2. QED BY <3>1, <1>1, <1>8, <1>31 DEF MoveCovers
  <2>4. MoveFloors(t, q, F1, f, g, s)
    BY <2>1, <1>1, <1>19, <1>31 DEF MoveFloors, KeyFloor
  <2>5. QED BY <2>2, <2>3, <2>4
<1>32. ASSUME f.at = "match", i # n, g = [page |-> f.page, i |-> j, at |-> "key"], s = j, app
       PROVE  Goal
  <2>1. q.lo <= K[i] /\ K[i] <= q.hi
    BY <1>7, <1>12, <1>15, <1>32
  <2>2. FrameOK(t, q, pg, g) /\ g.page = p /\ g.i = j /\ g.at = "key"
    BY <2>1, <1>7, <1>16, <1>32
  <2>3. MoveFrame(t, q, pg, f, g, s)
    <3>1. q.lo <= Right(t, p, j) /\ Left(t, p, j) <= q.hi
      BY <2>1, <1>7, <1>9, <1>32
    <3>2. QED BY <2>2, <3>1, <1>1, <1>7, <1>8, <1>32 DEF MoveFrame
  <2>4. MoveCovers(t, q, f, g, s)
    <3>1. ASSUME NEW r \in t.pages, NEW k \in KeysOf(t, r), Leads(t, r, q), AheadOf(t, f, k), r # p
          PROVE  AheadOf(t, g, k) \/ InSlot(t, p, j, k)
      <4>1. K[i] <= k /\ k \in t.all /\ k \in Int /\ k \in Under(t, p)
        BY <3>1, <1>17, <1>32
      <4>2. ~ InSlot(t, p, i, k)
        BY <4>1, <1>2, <1>3, <1>5, <1>7, AfterKey
      <4>3. InSlot(t, p, j, k) \/ K[j] <= k
        BY <4>2, <3>1, <1>17
      <4>4. QED BY <4>1, <4>3, <1>18, <1>32
    <3>2. QED BY <3>1, <1>1, <1>8, <1>32 DEF MoveCovers
  <2>5. MoveFloors(t, q, F1, f, g, s)
    <3>1. UpTo(t, q, F1, Left(t, p, j))
      BY <1>7, <1>21, <1>32
    <3>2. QED BY <2>2, <3>1, <1>1, <1>32 DEF MoveFloors, KeyFloor
  <2>6. QED BY <2>3, <2>4, <2>5
<1>33. ASSUME f.at = "match", i = n, g = [page |-> f.page, i |-> i, at |-> "end"], s = j, app
       PROVE  Goal
  <2>1. q.lo <= K[i] /\ K[i] <= q.hi
    BY <1>7, <1>12, <1>15, <1>33
  <2>2. FrameOK(t, q, pg, g) /\ g.page = p /\ g.i = i /\ g.at = "end"
    BY <1>16, <1>33
  <2>3. MoveFrame(t, q, pg, f, g, s)
    <3>1. q.lo <= Right(t, p, j) /\ Left(t, p, j) <= q.hi /\ Right(t, p, j) = t.hi[p]
      BY <2>1, <1>6, <1>7, <1>9, <1>33
    <3>2. QED BY <2>2, <3>1, <1>1, <1>7, <1>8, <1>33 DEF MoveFrame
  <2>4. MoveCovers(t, q, f, g, s)
    <3>1. ASSUME NEW r \in t.pages, NEW k \in KeysOf(t, r), Leads(t, r, q), AheadOf(t, f, k), r # p
          PROVE  InSlot(t, p, j, k)
      <4>1. K[i] <= k /\ k \in t.all /\ k \in Int
        BY <3>1, <1>17, <1>33
      <4>2. ~ InSlot(t, p, i, k)
        BY <4>1, <1>2, <1>3, <1>5, <1>7, AfterKey
      <4>3. QED BY <4>2, <3>1, <1>17, <1>33
    <3>2. QED BY <3>1, <1>1, <1>8, <1>33 DEF MoveCovers
  <2>5. MoveFloors(t, q, F1, f, g, s)
    <3>1. UpTo(t, q, F1, Left(t, p, j))
      BY <1>7, <1>21, <1>33
    <3>2. QED BY <2>2, <3>1, <1>1, <1>33 DEF MoveFloors, KeyFloor
  <2>6. QED BY <2>3, <2>4, <2>5
<1>34. ASSUME f.at = "key", Above(K[i], q), g = [page |-> f.page, i |-> i, at |-> "end"], s = i
       PROVE  Goal
  <2>1. q.hi < K[i]
    BY <1>7, <1>15, <1>34
  <2>2. FrameOK(t, q, pg, g) /\ g.page = p /\ g.i = i /\ g.at = "end"
    BY <1>16, <1>34
  <2>3. MoveFrame(t, q, pg, f, g, s)
    <3>1. q.lo <= Right(t, p, i)
      BY <2>1, <1>7, <1>9
    <3>2. \A k \in Wanted(t, q) : k < Right(t, p, i)
      BY <2>1, <1>7, <1>9, <1>14
    <3>3. QED BY <2>2, <3>1, <3>2, <1>1, <1>7, <1>8, <1>11, <1>34 DEF MoveFrame
  <2>4. MoveCovers(t, q, f, g, s)
    <3>1. ASSUME NEW r \in t.pages, NEW k \in KeysOf(t, r), Leads(t, r, q), AheadOf(t, f, k), r # p
          PROVE  InSlot(t, p, i, k)
      <4>1. SUFFICES ASSUME ~ InSlot(t, p, i, k) PROVE FALSE
        OBVIOUS
      <4>2. K[i] <= t.lo[r] /\ t.lo[r] \in Int /\ t.lo[r] <= q.hi
        BY <4>1, <3>1, <1>17
      <4>3. QED BY <4>2, <2>1, <1>7, <1>9
    <3>2. QED BY <3>1, <1>1, <1>8, <1>34 DEF MoveCovers
  <2>5. MoveFloors(t, q, F1, f, g, s)
    BY <2>2, <1>1, <1>19, <1>34 DEF MoveFloors, KeyFloor
  <2>6. QED BY <2>3, <2>4, <2>5
<1>35. ASSUME f.at = "key", Below(K[i], q), i # n, g = [page |-> f.page, i |-> j, at |-> "key"], s = 0
       PROVE  Goal
  <2>1. K[i] < q.lo /\ K[i] <= q.hi
    BY <1>7, <1>9, <1>15, <1>35
  <2>2. FrameOK(t, q, pg, g) /\ g.page = p /\ g.i = j /\ g.at = "key"
    BY <2>1, <1>7, <1>16, <1>35
  <2>3. MoveFrame(t, q, pg, f, g, s)
    BY <2>2, <1>1, <1>35 DEF MoveFrame
  <2>4. MoveCovers(t, q, f, g, s)
    <3>1. ASSUME NEW r \in t.pages, NEW k \in KeysOf(t, r), Leads(t, r, q), AheadOf(t, f, k), r # p
          PROVE  AheadOf(t, g, k)
      <4>1. ~ InSlot(t, p, i, k)
        <5>1. SUFFICES ASSUME InSlot(t, p, i, k) PROVE FALSE
          OBVIOUS
        <5>2. t.hi[r] <= K[i] /\ t.hi[r] \in Int /\ q.lo <= t.hi[r]
          BY <5>1, <3>1, <1>17
        <5>3. QED BY <5>2, <2>1, <1>7, <1>9
      <4>2. (InSlot(t, p, j, k) \/ K[j] <= k) /\ k \in Under(t, p)
        BY <4>1, <3>1, <1>17
      <4>3. QED BY <4>2, <1>18, <1>35
    <3>2. QED BY <3>1, <1>1, <1>35 DEF MoveCovers
  <2>5. MoveFloors(t, q, F1, f, g, s)
    <3>1. UpTo(t, q, F1, Left(t, p, j))
      BY <1>7, <1>22, <1>35
    <3>2. QED BY <2>2, <3>1, <1>1, <1>35 DEF MoveFloors, KeyFloor
  <2>6. QED BY <2>3, <2>4, <2>5
<1>36. ASSUME f.at = "key", Below(K[i], q), i = n, g = [page |-> f.page, i |-> i, at |-> "end"], s = j
       PROVE  Goal
  <2>1. K[i] < q.lo /\ K[i] <= q.hi
    BY <1>7, <1>9, <1>15, <1>36
  <2>2. FrameOK(t, q, pg, g) /\ g.page = p /\ g.i = i /\ g.at = "end"
    BY <1>16, <1>36
  <2>3. MoveFrame(t, q, pg, f, g, s)
    <3>1. q.lo <= Right(t, p, j) /\ Left(t, p, j) <= q.hi /\ Right(t, p, j) = t.hi[p]
      BY <2>1, <1>6, <1>7, <1>10, <1>36
    <3>2. QED BY <2>2, <3>1, <1>1, <1>7, <1>8, <1>36 DEF MoveFrame
  <2>4. MoveCovers(t, q, f, g, s)
    <3>1. ASSUME NEW r \in t.pages, NEW k \in KeysOf(t, r), Leads(t, r, q), AheadOf(t, f, k), r # p
          PROVE  InSlot(t, p, j, k)
      <4>1. ~ InSlot(t, p, i, k)
        <5>1. SUFFICES ASSUME InSlot(t, p, i, k) PROVE FALSE
          OBVIOUS
        <5>2. t.hi[r] <= K[i] /\ t.hi[r] \in Int /\ q.lo <= t.hi[r]
          BY <5>1, <3>1, <1>17
        <5>3. QED BY <5>2, <2>1, <1>7, <1>9
      <4>2. QED BY <4>1, <3>1, <1>17, <1>36
    <3>2. QED BY <3>1, <1>1, <1>8, <1>36 DEF MoveCovers
  <2>5. MoveFloors(t, q, F1, f, g, s)
    <3>1. UpTo(t, q, F1, Left(t, p, j))
      BY <1>7, <1>22, <1>36
    <3>2. QED BY <2>2, <3>1, <1>1, <1>36 DEF MoveFloors, KeyFloor
  <2>6. QED BY <2>3, <2>4, <2>5
<1> HIDE DEF Goal
<1>37. QED BY <1>1, <1>2, <1>3, <1>4, <1>5, <1>31, <1>32, <1>33, <1>34, <1>35, <1>36 DEF GoesTo
-----------------------------------------------------------------------------
(* The stack of calls, one put on it or taken off at a time.               *)

LEMMA PushSeq ==
  ASSUME NEW S, NEW st \in Seq(S), NEW f \in S, NEW u, u = <<f>> \o st
  PROVE  /\ u \in Seq(S) /\ u # <<>> /\ u[1] = f /\ Tail(u) = st
         /\ Len(u) = Len(st) + 1 /\ Len(st) \in Nat
         /\ DOMAIN u = 1 .. Len(u) /\ DOMAIN st = 1 .. Len(st)
         /\ \A d \in 1 .. Len(st) : u[d + 1] = st[d]
<1>1. Len(st) \in Nat /\ DOMAIN st = 1 .. Len(st)
  OBVIOUS
<1>2. <<f>> \in Seq(S) /\ Len(<<f>>) = 1
  OBVIOUS
<1>3. u \in Seq(S) /\ Len(u) = Len(st) + 1 /\ u[1] = f
  BY <1>1, <1>2
<1>4. \A d \in 1 .. Len(st) : u[d + 1] = st[d]
  BY <1>1, <1>2
<1>5. u # <<>>
  BY <1>1, <1>3
<1>6. Tail(u) = st
  <2>1. Tail(u) \in Seq(S) /\ Len(Tail(u)) = Len(st)
    BY <1>1, <1>3, <1>5
  <2>2. \A d \in 1 .. Len(st) : Tail(u)[d] = u[d + 1]
    BY <1>1, <1>3, <1>5
  <2>3. QED BY <2>1, <2>2, <1>1, <1>4
<1>7. DOMAIN u = 1 .. Len(u)
  BY <1>3
<1>8. QED BY <1>1, <1>3, <1>4, <1>5, <1>6, <1>7

LEMMA TailSeq ==
  ASSUME NEW S, NEW st \in Seq(S), st # <<>>, NEW u, u = Tail(st)
  PROVE  /\ u \in Seq(S) /\ st[1] \in S /\ st = <<st[1]>> \o u
         /\ Len(st) = Len(u) + 1 /\ Len(u) \in Nat
         /\ DOMAIN u = 1 .. Len(u) /\ DOMAIN st = 1 .. Len(st)
         /\ \A d \in 1 .. Len(u) : u[d] = st[d + 1]
<1>1. u \in Seq(S) /\ Len(st) = Len(u) + 1 /\ Len(u) \in Nat
  OBVIOUS
<1>2. st[1] \in S
  OBVIOUS
<1>3. \A d \in 1 .. Len(u) : u[d] = st[d + 1]
  OBVIOUS
<1>4. st = <<st[1]>> \o u
  <2>1. PICK f : f = st[1]
    OBVIOUS
  <2>2. PICK v : v = <<f>> \o u
    OBVIOUS
  <2>3. v \in Seq(S) /\ v[1] = f /\ Len(v) = Len(u) + 1 /\ \A d \in 1 .. Len(u) : v[d + 1] = u[d]
    BY <1>1, <1>2, <2>1, <2>2, PushSeq
  <2>4. ASSUME NEW e \in 1 .. Len(st) PROVE st[e] = v[e]
    <3>1. CASE e = 1
      BY <3>1, <2>1, <2>3
    <3>2. CASE e # 1
      <4>1. PICK d : d = e - 1
        OBVIOUS
      <4>2. d \in 1 .. Len(u) /\ e = d + 1
        BY <3>2, <4>1, <1>1
      <4>3. QED BY <4>2, <2>3, <1>3
    <3>3. QED BY <3>1, <3>2
  <2>5. Len(st) = Len(v)
    BY <1>1, <2>3
  <2>6. st = v
    BY <2>3, <2>4, <2>5
  <2>7. QED BY <2>1, <2>2, <2>6
<1>5. DOMAIN u = 1 .. Len(u) /\ DOMAIN st = 1 .. Len(st)
  BY <1>1
<1>6. QED BY <1>1, <1>2, <1>3, <1>4, <1>5

(* How a call under way takes what its callee has found, which are all     *)
(* wanted keys below h: enough to go on with.                              *)
Gives(t, q, f, h) ==
  /\ f.at = "match" => t.keys[f.page][f.i] <= h
  /\ f.at = "end" => \A k \in Wanted(t, q) : k < t.hi[f.page] => k < h

StackOK(t, q, F, pg, st, h) ==
  /\ st \in Seq(FrameSet(t))
  /\ \A d \in DOMAIN st : FrameOK(t, q, pg, st[d]) /\ KeyFloor(t, q, F, st[d])
  /\ \A d, e \in DOMAIN st : e = d + 1 => Gives(t, q, st[e], t.hi[st[d].page])
  /\ IF st = <<>> THEN h = t.hi[t.root]
                  ELSE Gives(t, q, st[1], h) /\ st[Len(st)].page = t.root

LEMMA StackPush ==
  ASSUME NEW t, NEW q, NEW F, NEW pg, NEW st, NEW h, StackOK(t, q, F, pg, st, h),
         NEW f, FrameOK(t, q, pg, f), KeyFloor(t, q, F, f), h = t.hi[f.page],
         st = <<>> => f.page = t.root,
         NEW x, Gives(t, q, f, x), NEW u, u = <<f>> \o st
  PROVE  StackOK(t, q, F, pg, u, x)
<1>1. st \in Seq(FrameSet(t)) /\ f \in FrameSet(t)
  BY DEF StackOK, FrameOK
<1>2. PICK n \in Nat : n = Len(st)
  BY <1>1
<1>3. /\ u \in Seq(FrameSet(t)) /\ u # <<>> /\ u[1] = f
      /\ Len(u) = n + 1
      /\ DOMAIN u = 1 .. n + 1 /\ DOMAIN st = 1 .. n
      /\ \A d \in 1 .. n : u[d + 1] = st[d]
  BY <1>1, <1>2, PushSeq
<1>4. ASSUME NEW d \in DOMAIN u PROVE FrameOK(t, q, pg, u[d]) /\ KeyFloor(t, q, F, u[d])
  <2>1. CASE d = 1
    BY <2>1, <1>3
  <2>2. CASE d # 1
    <3>1. PICK e : e = d - 1
      OBVIOUS
    <3>2. e \in 1 .. n /\ d = e + 1
      BY <2>2, <3>1, <1>3
    <3>3. QED BY <3>2, <1>3 DEF StackOK
  <2>3. QED BY <2>1, <2>2
<1>5. ASSUME NEW d \in DOMAIN u, NEW e \in DOMAIN u, e = d + 1
      PROVE  Gives(t, q, u[e], t.hi[u[d].page])
  <2>1. CASE d = 1
    <3>1. 1 \in 1 .. n /\ u[e] = st[1]
      BY <2>1, <1>3, <1>5
    <3>2. Gives(t, q, st[1], h)
      BY <3>1, <1>3 DEF StackOK
    <3>3. QED BY <2>1, <3>1, <3>2, <1>3
  <2>2. CASE d # 1
    <3>1. PICK c : c = d - 1
      OBVIOUS
    <3>2. c \in 1 .. n /\ d \in 1 .. n /\ d = c + 1 /\ e = d + 1
      BY <2>2, <3>1, <1>3, <1>5
    <3>3. u[d] = st[c] /\ u[e] = st[d]
      BY <3>2, <1>3
    <3>4. Gives(t, q, st[d], t.hi[st[c].page])
      BY <3>2, <1>3 DEF StackOK
    <3>5. QED BY <3>3, <3>4
  <2>3. QED BY <2>1, <2>2
<1>6. u[Len(u)].page = t.root
  <2>1. CASE n = 0
    BY <2>1, <1>1, <1>2, <1>3
  <2>2. CASE n # 0
    <3>1. st # <<>> /\ n \in 1 .. n
      BY <2>2, <1>2
    <3>2. st[n].page = t.root
      BY <3>1, <1>2 DEF StackOK
    <3>3. QED BY <3>1, <3>2, <1>3
  <2>3. QED BY <2>1, <2>2
<1>7. QED BY <1>3, <1>4, <1>5, <1>6 DEF StackOK

LEMMA StackTail ==
  ASSUME NEW t, NEW q, NEW F, NEW pg, NEW st, NEW h, StackOK(t, q, F, pg, st, h), st # <<>>
  PROVE  /\ StackOK(t, q, F, pg, Tail(st), t.hi[st[1].page])
         /\ FrameOK(t, q, pg, st[1]) /\ KeyFloor(t, q, F, st[1]) /\ Gives(t, q, st[1], h)
         /\ Tail(st) = <<>> => st[1].page = t.root
<1>1. st \in Seq(FrameSet(t))
  BY DEF StackOK
<1>2. PICK u : u = Tail(st)
  OBVIOUS
<1>3. u \in Seq(FrameSet(t)) /\ Len(u) \in Nat
  BY <1>1, <1>2
<1>4. PICK n \in Nat : n = Len(u)
  BY <1>3
<1>5. /\ Len(st) = n + 1
      /\ DOMAIN u = 1 .. n /\ DOMAIN st = 1 .. n + 1
      /\ \A d \in 1 .. n : u[d] = st[d + 1]
  BY <1>1, <1>2, <1>4, TailSeq
<1>6. 1 \in DOMAIN st
  BY <1>5
<1>7. FrameOK(t, q, pg, st[1]) /\ KeyFloor(t, q, F, st[1]) /\ Gives(t, q, st[1], h)
  BY <1>6 DEF StackOK
<1>8. ASSUME NEW d \in DOMAIN u PROVE FrameOK(t, q, pg, u[d]) /\ KeyFloor(t, q, F, u[d])
  <2>1. d + 1 \in DOMAIN st /\ u[d] = st[d + 1]
    BY <1>5
  <2>2. QED BY <2>1 DEF StackOK
<1>9. ASSUME NEW d \in DOMAIN u, NEW e \in DOMAIN u, e = d + 1
      PROVE  Gives(t, q, u[e], t.hi[u[d].page])
  <2>1. PICK x : x = e + 1
    OBVIOUS
  <2>2. e \in DOMAIN st /\ x \in DOMAIN st /\ x = e + 1 /\ u[d] = st[e] /\ u[e] = st[x]
    BY <2>1, <1>5, <1>9
  <2>3. Gives(t, q, st[x], t.hi[st[e].page])
    BY <2>2 DEF StackOK
  <2>4. QED BY <2>2, <2>3
<1>10. st[n + 1].page = t.root
  BY <1>5 DEF StackOK
<1>11. CASE n = 0
  <2>1. u = <<>>
    <3>1. Len(u) = 0
      BY <1>4, <1>11
    <3>2. QED BY <3>1, <1>3
  <2>2. st[1].page = t.root
    BY <1>10, <1>11
  <2>3. QED BY <2>1, <2>2, <1>2, <1>3, <1>7, <1>8, <1>9 DEF StackOK
<1>12. CASE n # 0
  <2>1. u # <<>> /\ 1 \in 1 .. n /\ n \in 1 .. n
    BY <1>4, <1>12
  <2>2. u[n].page = t.root
    BY <2>1, <1>5, <1>10
  <2>3. PICK x : x = 2
    OBVIOUS
  <2>4. x \in DOMAIN st /\ x = 1 + 1 /\ u[1] = st[x]
    BY <2>1, <2>3, <1>5
  <2>5. Gives(t, q, st[x], t.hi[st[1].page])
    BY <2>4, <1>6 DEF StackOK
  <2>6. Gives(t, q, u[1], t.hi[st[1].page])
    BY <2>4, <2>5
  <2>7. QED BY <2>1, <2>2, <2>6, <1>2, <1>3, <1>4, <1>7, <1>8, <1>9 DEF StackOK
<1>13. QED BY <1>11, <1>12

LEMMA StackGrows ==
  ASSUME NEW t, NEW q, NEW F, NEW pg, NEW st, NEW h, StackOK(t, q, F, pg, st, h),
         NEW F1, F \subseteq F1, NEW pg1, pg \subseteq pg1
  PROVE  StackOK(t, q, F1, pg1, st, h)
<1>1. \A d \in DOMAIN st : FrameOK(t, q, pg1, st[d]) /\ KeyFloor(t, q, F1, st[d])
  BY DEF StackOK, FrameOK, KeyFloor, UpTo
<1>2. QED BY <1>1 DEF StackOK

(* What the calls have still to list of a key, added up.                   *)
CountsFrom(t, q, st, k, x) ==
  \E b \in [0 .. Len(st) -> Nat] :
    /\ b[0] = x /\ b[Len(st)] = Mult(t, q, t.root, k)
    /\ \A d, e \in 0 .. Len(st) : e = d + 1 => b[e] = b[d] + Rest(t, q, st[e], k)

LEMMA CountsPush ==
  ASSUME NEW t, NEW q, NEW S, NEW st \in Seq(S), NEW k, NEW x \in Nat, CountsFrom(t, q, st, k, x),
         NEW f \in S, NEW y \in Nat, x = y + Rest(t, q, f, k), NEW u, u = <<f>> \o st
  PROVE  CountsFrom(t, q, u, k, y)
<1>1. PICK n \in Nat : n = Len(st)
  OBVIOUS
<1>2. /\ u[1] = f /\ Len(u) = n + 1
      /\ \A d \in 1 .. n : u[d + 1] = st[d]
  BY <1>1, PushSeq
<1>3. PICK b \in [0 .. n -> Nat] :
        /\ b[0] = x /\ b[n] = Mult(t, q, t.root, k)
        /\ \A d, e \in 0 .. n : e = d + 1 => b[e] = b[d] + Rest(t, q, st[e], k)
  BY <1>1 DEF CountsFrom
<1>4. PICK c : c = [d \in 0 .. n + 1 |-> IF d = 0 THEN y ELSE b[d - 1]]
  OBVIOUS
<1>5. c \in [0 .. n + 1 -> Nat]
  <2>1. ASSUME NEW d \in 0 .. n + 1, d # 0 PROVE d - 1 \in 0 .. n
    BY <2>1
  <2>2. QED BY <2>1, <1>3, <1>4
<1>6. c[0] = y /\ c[n + 1] = Mult(t, q, t.root, k)
  <2>1. 0 \in 0 .. n + 1 /\ n + 1 \in 0 .. n + 1 /\ n + 1 # 0 /\ (n + 1) - 1 = n
    OBVIOUS
  <2>2. QED BY <2>1, <1>3, <1>4
<1>7. ASSUME NEW d \in 0 .. n + 1, NEW e \in 0 .. n + 1, e = d + 1
      PROVE  c[e] = c[d] + Rest(t, q, u[e], k)
  <2>1. e # 0 /\ e - 1 = d /\ d \in 0 .. n
    BY <1>7
  <2>2. c[e] = b[d]
    BY <2>1, <1>4
  <2>3. CASE d = 0
    <3>1. c[d] = y /\ c[e] = x /\ e = 1
      BY <2>2, <2>3, <1>3, <1>6, <1>7
    <3>2. u[e] = f
      BY <3>1, <1>2
    <3>3. QED BY <3>1, <3>2
  <2>4. CASE d # 0
    <3>1. PICK a : a = d - 1
      OBVIOUS
    <3>2. a \in 0 .. n /\ d = a + 1 /\ d \in 1 .. n
      BY <2>1, <2>4, <3>1
    <3>3. c[d] = b[a]
      BY <2>4, <3>1, <1>4
    <3>4. b[d] = b[a] + Rest(t, q, st[d], k)
      BY <2>1, <3>2, <1>3
    <3>5. u[e] = st[d]
      BY <3>2, <1>2, <1>7
    <3>6. QED BY <2>2, <3>3, <3>4, <3>5
  <2>5. QED BY <2>3, <2>4
<1>8. PICK m : m = n + 1
  OBVIOUS
<1>9. Len(u) = m
  BY <1>2, <1>8
<1>10. /\ c \in [0 .. m -> Nat] /\ c[0] = y /\ c[m] = Mult(t, q, t.root, k)
       /\ \A d, e \in 0 .. m : e = d + 1 => c[e] = c[d] + Rest(t, q, u[e], k)
  BY <1>5, <1>6, <1>7, <1>8
<1>11. QED BY <1>9, <1>10 DEF CountsFrom

LEMMA CountsTail ==
  ASSUME NEW t, NEW q, NEW S, NEW st \in Seq(S), st # <<>>, NEW k, NEW y, CountsFrom(t, q, st, k, y)
  PROVE  CountsFrom(t, q, Tail(st), k, y + Rest(t, q, st[1], k)) /\ y \in Nat
<1>1. PICK u : u = Tail(st)
  OBVIOUS
<1>2. u \in Seq(S) /\ Len(u) \in Nat
  BY <1>1
<1>3. PICK n \in Nat : n = Len(u)
  BY <1>2
<1>4. Len(st) = n + 1 /\ \A d \in 1 .. n : u[d] = st[d + 1]
  BY <1>1, <1>3, TailSeq
<1>5. PICK b \in [0 .. n + 1 -> Nat] :
        /\ b[0] = y /\ b[n + 1] = Mult(t, q, t.root, k)
        /\ \A d, e \in 0 .. n + 1 : e = d + 1 => b[e] = b[d] + Rest(t, q, st[e], k)
  <2>1. PICK m : m = n + 1
    OBVIOUS
  <2>2. Len(st) = m
    BY <2>1, <1>4
  <2>3. \E b \in [0 .. m -> Nat] :
          /\ b[0] = y /\ b[m] = Mult(t, q, t.root, k)
          /\ \A d, e \in 0 .. m : e = d + 1 => b[e] = b[d] + Rest(t, q, st[e], k)
    BY <2>2 DEF CountsFrom
  <2>4. QED BY <2>1, <2>3
<1>6. PICK c : c = [d \in 0 .. n |-> b[d + 1]]
  OBVIOUS
<1>7. c \in [0 .. n -> Nat]
  <2>1. ASSUME NEW d \in 0 .. n PROVE d + 1 \in 0 .. n + 1
    OBVIOUS
  <2>2. QED BY <2>1, <1>5, <1>6
<1>8. c[n] = Mult(t, q, t.root, k)
  BY <1>5, <1>6
<1>9. c[0] = y + Rest(t, q, st[1], k)
  <2>1. 0 \in 0 .. n + 1 /\ 1 \in 0 .. n + 1 /\ 1 = 0 + 1 /\ 0 \in 0 .. n
    OBVIOUS
  <2>2. b[1] = b[0] + Rest(t, q, st[1], k)
    BY <2>1, <1>5
  <2>3. c[0] = b[1]
    BY <2>1, <1>6
  <2>4. QED BY <2>2, <2>3, <1>5
<1>10. ASSUME NEW d \in 0 .. n, NEW e \in 0 .. n, e = d + 1
       PROVE  c[e] = c[d] + Rest(t, q, u[e], k)
  <2>1. PICK x : x = e + 1
    OBVIOUS
  <2>2. e \in 0 .. n + 1 /\ x \in 0 .. n + 1 /\ x = e + 1 /\ e \in 1 .. n
    BY <2>1, <1>10
  <2>3. b[x] = b[e] + Rest(t, q, st[x], k)
    BY <2>2, <1>5
  <2>4. c[e] = b[x] /\ c[d] = b[e] /\ u[e] = st[x]
    BY <2>1, <2>2, <1>4, <1>6, <1>10
  <2>5. QED BY <2>3, <2>4
<1>11. y \in Nat
  <2>1. 0 \in 0 .. n + 1
    OBVIOUS
  <2>2. QED BY <2>1, <1>5
<1>12. CountsFrom(t, q, u, k, y + Rest(t, q, st[1], k))
  BY <1>3, <1>7, <1>8, <1>9, <1>10 DEF CountsFrom
<1>13. QED BY <1>1, <1>11, <1>12

AheadIn(t, st, k) == \E d \in DOMAIN st : AheadOf(t, st[d], k)

LEMMA AheadPush ==
  ASSUME NEW t, NEW S, NEW st \in Seq(S), NEW f \in S, NEW u, u = <<f>> \o st, NEW k
  PROVE  AheadIn(t, u, k) <=> AheadOf(t, f, k) \/ AheadIn(t, st, k)
<1>1. PICK n \in Nat : n = Len(st)
  OBVIOUS
<1>2. /\ u[1] = f /\ DOMAIN u = 1 .. n + 1 /\ DOMAIN st = 1 .. n
      /\ \A d \in 1 .. n : u[d + 1] = st[d]
  BY <1>1, PushSeq
<1>3. ASSUME AheadIn(t, u, k) PROVE AheadOf(t, f, k) \/ AheadIn(t, st, k)
  <2>1. PICK d \in 1 .. n + 1 : AheadOf(t, u[d], k)
    BY <1>2, <1>3 DEF AheadIn
  <2>2. CASE d = 1
    BY <2>1, <2>2, <1>2
  <2>3. CASE d # 1
    <3>1. PICK e : e = d - 1
      OBVIOUS
    <3>2. e \in 1 .. n /\ d = e + 1
      BY <2>3, <3>1
    <3>3. QED BY <2>1, <3>2, <1>2 DEF AheadIn
  <2>4. QED BY <2>2, <2>3
<1>4. ASSUME AheadIn(t, st, k) PROVE AheadIn(t, u, k)
  <2>1. PICK d \in 1 .. n : AheadOf(t, st[d], k)
    BY <1>2, <1>4 DEF AheadIn
  <2>2. d + 1 \in 1 .. n + 1 /\ u[d + 1] = st[d]
    BY <1>2
  <2>3. QED BY <2>1, <2>2, <1>2 DEF AheadIn
<1>5. AheadOf(t, f, k) => AheadIn(t, u, k)
  <2>1. 1 \in DOMAIN u
    BY <1>2
  <2>2. QED BY <2>1, <1>2 DEF AheadIn
<1>6. QED BY <1>3, <1>4, <1>5
-----------------------------------------------------------------------------
(* A lookup under way, about to read the page a ("call") or with the page  *)
(* of its innermost call read ("run"): st are the calls, ms the list, pg   *)
(* the pages held.                                                         *)
In(ms)         == {ms[i] : i \in DOMAIN ms}
TimesIn(ms, k) == Cardinality({i \in DOMAIN ms : ms[i] = k})
FirstKey(t, p) == t.keys[p][1]

FirstSeen(t, q, ms) ==
  \A i \in DOMAIN ms : \A k \in Wanted(t, q) : k < ms[i] => \E j \in 1 .. i - 1 : ms[j] = k

ListOK(t, q, ms) == ms \in Seq(Int) /\ In(ms) \subseteq Wanted(t, q) /\ FirstSeen(t, q, ms)

CallOK(t, q, F, pg, a, st) ==
  /\ a \in t.pages
  /\ StackOK(t, q, F, pg, st, t.hi[a])
  /\ st = <<>> => a = t.root
  /\ Leads(t, a, q)
  /\ UpTo(t, q, F, t.lo[a])

RunOK(t, q, F, pg, st) ==
  /\ st \in Seq(FrameSet(t)) /\ st # <<>>
  /\ FrameOK(t, q, pg, st[1]) /\ KeyFloor(t, q, F, st[1]) /\ TopFloor(t, q, F, st[1])
  /\ StackOK(t, q, F, pg, Tail(st), t.hi[st[1].page])
  /\ Tail(st) = <<>> => st[1].page = t.root

CountsOK(t, q, c, a, st, ms) ==
  \A k \in Wanted(t, q) :
    CountsFrom(t, q, st, k, TimesIn(ms, k) + IF c = "call" THEN Mult(t, q, a, k) ELSE 0)

Covers(t, q, c, a, st, pg) ==
  \A p \in t.pages : Leads(t, p, q) =>
    \/ p \in pg
    \/ c = "call" /\ FirstKey(t, p) \in Under(t, a)
    \/ AheadIn(t, st, FirstKey(t, p))

Active(t, q, c, a, st, ms, pg) ==
  /\ c \in {"call", "run"}
  /\ ListOK(t, q, ms)
  /\ c = "call" => CallOK(t, q, In(ms), pg, a, st)
  /\ c = "run" => RunOK(t, q, In(ms), pg, st)
  /\ CountsOK(t, q, c, a, st, ms)
  /\ Covers(t, q, c, a, st, pg)

LEMMA FirstKeyFacts ==
  ASSUME NEW t \in Trees, NEW p \in t.pages
  PROVE  FirstKey(t, p) \in KeysOf(t, p) /\ FirstKey(t, p) \in t.all /\ FirstKey(t, p) \in Under(t, p)
<1>1. 1 \in 1 .. Len(t.keys[p]) /\ DOMAIN t.keys[p] = 1 .. Len(t.keys[p])
  BY PageFacts
<1>2. QED BY <1>1, PageFacts DEF FirstKey, KeysOf, Under

LEMMA TimesFacts ==
  ASSUME NEW ms \in Seq(Int), NEW x \in Int, NEW k
  PROVE  /\ TimesIn(ms, k) \in Nat
         /\ TimesIn(Append(ms, x), k) = TimesIn(ms, k) + IF x = k THEN 1 ELSE 0
         /\ In(Append(ms, x)) = In(ms) \union {x}
<1>1. PICK n \in Nat : n = Len(ms)
  OBVIOUS
<1>2. PICK u : u = Append(ms, x)
  OBVIOUS
<1>3. DOMAIN ms = 1 .. n /\ DOMAIN u = 1 .. n + 1 /\ u[n + 1] = x /\ \A i \in 1 .. n : u[i] = ms[i]
  BY <1>1, <1>2
<1>4. PICK A : A = {i \in 1 .. n : ms[i] = k}
  OBVIOUS
<1>5. IsFiniteSet(A)
  <2>1. IsFiniteSet(1 .. n)
    BY FS_Interval
  <2>2. QED BY <2>1, <1>4, FS_Subset
<1>6. Cardinality(A) \in Nat
  BY <1>5, FS_CardinalityType
<1>7. {i \in 1 .. n + 1 : u[i] = k} = A \union (IF x = k THEN {n + 1} ELSE {})
  <2>1. 1 .. n + 1 = (1 .. n) \union {n + 1}
    OBVIOUS
  <2>2. QED BY <2>1, <1>3, <1>4
<1>8. n + 1 \notin A
  BY <1>4
<1>9. Cardinality(A \union {n + 1}) = Cardinality(A) + 1
  BY <1>5, <1>8, FS_AddElement
<1>10. Cardinality({i \in 1 .. n + 1 : u[i] = k}) = Cardinality(A) + IF x = k THEN 1 ELSE 0
  <2>1. CASE x = k
    BY <2>1, <1>7, <1>9
  <2>2. CASE x # k
    <3>1. {i \in 1 .. n + 1 : u[i] = k} = A
      BY <2>2, <1>7
    <3>2. (IF x = k THEN 1 ELSE 0) = 0
      BY <2>2
    <3>3. PICK N \in Nat : N = Cardinality(A)
      BY <1>6
    <3>4. N = N + 0
      OBVIOUS
    <3>5. QED BY ONLY <3>1, <3>2, <3>3, <3>4
  <2>3. QED BY <2>1, <2>2
<1>11. TimesIn(ms, k) = Cardinality(A) /\ TimesIn(u, k) = Cardinality({i \in 1 .. n + 1 : u[i] = k})
  BY <1>3, <1>4 DEF TimesIn
<1>12. In(u) = In(ms) \union {x}
  <2>1. 1 .. n + 1 = (1 .. n) \union {n + 1}
    OBVIOUS
  <2>2. QED BY <2>1, <1>3 DEF In
<1>13. QED BY <1>2, <1>6, <1>10, <1>11, <1>12

LEMMA TimesType ==
  ASSUME NEW ms \in Seq(Int), NEW k
  PROVE  TimesIn(ms, k) \in Nat
<1>1. 0 \in Int
  OBVIOUS
<1>2. QED BY <1>1, TimesFacts

LEMMA InAppend ==
  ASSUME NEW ms \in Seq(Int), NEW x \in Int
  PROVE  In(Append(ms, x)) = In(ms) \union {x} /\ Append(ms, x) \in Seq(Int)
<1>1. In(Append(ms, x)) = In(ms) \union {x}
  BY TimesFacts
<1>2. QED BY <1>1

LEMMA WantedFacts ==
  ASSUME NEW t \in Trees, NEW q, QueryType(q), NEW k \in Wanted(t, q)
  PROVE  k \in t.all /\ k \in Int /\ q.lo <= k /\ k <= q.hi
         /\ t.lo[t.root] < k /\ k < t.hi[t.root]
<1>1. k \in t.all /\ k \in Int /\ Matches(k, q)
  BY KeysAreInt DEF Wanted
<1>2. k \in Under(t, t.root)
  BY <1>1, TreesAssumption DEF Searchable
<1>3. QED BY <1>1, <1>2 DEF Matches, Below, Above, QueryType, Under

(* A lookup begins.                                                        *)
LEMMA ActiveStart ==
  ASSUME NEW t \in Trees, NEW q, PrefixIn(t, q), NEW pg
  PROVE  Active(t, q, "call", t.root, <<>>, <<>>, pg)
<1>1. QueryType(q) /\ t.root \in t.pages
  BY TreesAssumption DEF QueryType, PrefixIn, IsTree
<1>2. t.lo[t.root] \in Int /\ t.hi[t.root] \in Int
  BY <1>1, PageFacts
<1>3. Leads(t, t.root, q)
  BY <1>1, <1>2 DEF Leads, PrefixIn, QueryType
<1>4. ListOK(t, q, <<>>)
  BY DEF ListOK, In, FirstSeen
<1>5. UpTo(t, q, In(<<>>), t.lo[t.root])
  <2>1. ASSUME NEW k \in Wanted(t, q), k <= t.lo[t.root] PROVE FALSE
    BY <2>1, <1>1, <1>2, WantedFacts
  <2>2. QED BY <2>1 DEF UpTo
<1>6. StackOK(t, q, In(<<>>), pg, <<>>, t.hi[t.root])
  BY DEF StackOK
<1>7. CallOK(t, q, In(<<>>), pg, t.root, <<>>)
  BY <1>1, <1>3, <1>5, <1>6 DEF CallOK
<1>8. CountsOK(t, q, "call", t.root, <<>>, <<>>)
  <2>1. ASSUME NEW k \in Wanted(t, q)
        PROVE  CountsFrom(t, q, <<>>, k, TimesIn(<<>>, k) + Mult(t, q, t.root, k))
    <3>1. TimesIn(<<>>, k) = 0
      <4>1. {i \in DOMAIN <<>> : <<>>[i] = k} = {}
        OBVIOUS
      <4>2. QED BY <4>1, FS_EmptySet DEF TimesIn
    <3>2. PICK m \in Nat : m = Mult(t, q, t.root, k)
      BY <1>1, MultType
    <3>3. PICK b : b = [d \in 0 .. 0 |-> m]
      OBVIOUS
    <3>4. b \in [0 .. 0 -> Nat] /\ b[0] = m
      BY <3>3
    <3>5. Len(<<>>) = 0
      OBVIOUS
    <3>6. \A d, e \in 0 .. 0 : e # d + 1
      OBVIOUS
    <3>7. CountsFrom(t, q, <<>>, k, m)
      BY <3>2, <3>4, <3>5, <3>6 DEF CountsFrom
    <3>8. TimesIn(<<>>, k) + Mult(t, q, t.root, k) = m
      BY <3>1, <3>2
    <3>9. QED BY <3>7, <3>8
  <2>2. QED BY <2>1 DEF CountsOK
<1>9. Covers(t, q, "call", t.root, <<>>, pg)
  BY FirstKeyFacts, TreesAssumption DEF Covers, Searchable
<1>10. QED BY <1>4, <1>7, <1>8, <1>9 DEF Active

(* A page is read, or was held.                                            *)
LEMMA ActivePush ==
  ASSUME NEW t \in Trees, NEW q, QueryType(q), NEW a, NEW st, NEW ms, NEW pg,
         Active(t, q, "call", a, st, ms, pg),
         NEW pg1, pg1 = pg \union {a}, NEW u, u = <<[page |-> a, i |-> 1, at |-> "key"]>> \o st
  PROVE  Active(t, q, "run", a, u, ms, pg1)
<1>1. /\ ListOK(t, q, ms) /\ CallOK(t, q, In(ms), pg, a, st)
      /\ CountsOK(t, q, "call", a, st, ms) /\ Covers(t, q, "call", a, st, pg)
  BY DEF Active
<1>2. PICK f : f = [page |-> a, i |-> 1, at |-> "key"]
  OBVIOUS
<1>3. f.page = a /\ f.i = 1 /\ f.at = "key" /\ a \in t.pages /\ u = <<f>> \o st
  BY <1>1, <1>2 DEF CallOK
<1>4. PICK n \in Nat \ {0} : n = Len(t.keys[a])
  BY <1>3, PageFacts
<1>5. 1 \in 1 .. n /\ t.keys[a][1] \in Int /\ t.lo[a] \in Int /\ t.hi[a] \in Int
  BY <1>3, <1>4, PageFacts
<1>6. Left(t, a, 1) = t.lo[a]
  BY DEF Left
<1>7. f \in FrameSet(t)
  BY <1>2, <1>3 DEF FrameSet
<1>8. FrameOK(t, q, pg1, f)
  BY <1>1, <1>3, <1>4, <1>5, <1>6, <1>7 DEF FrameOK, CallOK, Leads
<1>9. KeyFloor(t, q, In(ms), f) /\ TopFloor(t, q, In(ms), f)
  BY <1>1, <1>3, <1>6 DEF KeyFloor, TopFloor, CallOK
<1>10. StackOK(t, q, In(ms), pg, st, t.hi[a]) /\ (st = <<>> => a = t.root)
  BY <1>1 DEF CallOK
<1>11. st \in Seq(FrameSet(t))
  BY <1>10 DEF StackOK
<1>12. u \in Seq(FrameSet(t)) /\ u # <<>> /\ u[1] = f /\ Tail(u) = st
  BY <1>3, <1>7, <1>11, PushSeq
<1>13. StackOK(t, q, In(ms), pg1, st, t.hi[a])
  BY <1>10, StackGrows
<1>14. RunOK(t, q, In(ms), pg1, u)
  BY <1>3, <1>8, <1>9, <1>10, <1>12, <1>13 DEF RunOK
<1>15. CountsOK(t, q, "run", a, u, ms)
  <2>1. ASSUME NEW k \in Wanted(t, q)
        PROVE  CountsFrom(t, q, u, k, TimesIn(ms, k) + 0)
    <3>1. k \in t.all /\ k \in Int
      BY WantedFacts
    <3>2. PICK y \in Nat : y = TimesIn(ms, k)
      BY <1>1, TimesType DEF ListOK
    <3>3. PICK m \in Nat : m = Mult(t, q, a, k)
      BY <1>3, MultType
    <3>4. Rest(t, q, f, k) = m
      <4>1. CASE t.keys[a][1] <= k
        BY <4>1, <3>3, <1>3 DEF Rest
      <4>2. CASE ~ t.keys[a][1] <= k
        <5>1. Rest(t, q, f, k) = SlotMult(t, q, a, 1, k)
          BY <4>2, <1>3 DEF Rest
        <5>2. 1 \in Slots(t, a)
          BY <1>4 DEF Slots
        <5>3. InSlot(t, a, 1, k) => m = SlotMult(t, q, a, 1, k)
          BY <5>2, <3>1, <3>3, <1>3, SlotMultFacts
        <5>4. ~ InSlot(t, a, 1, k) => m = 0 /\ SlotMult(t, q, a, 1, k) = 0
          <6>1. Right(t, a, 1) = t.keys[a][1]
            BY <1>4 DEF Right
          <6>2. k < t.keys[a][1]
            BY <4>2, <3>1, <1>5
          <6>3. ~ InSlot(t, a, 1, k) => ~ t.lo[a] < k
            BY <6>1, <6>2, <1>6 DEF InSlot
          <6>4. QED BY <6>3, <3>3 DEF Mult, SlotMult, Under
        <5>5. QED BY <5>1, <5>3, <5>4
      <4>3. QED BY <4>1, <4>2
    <3>5. PICK x : x = y + m
      OBVIOUS
    <3>6. CountsFrom(t, q, st, k, x)
      BY <1>1, <3>2, <3>3, <3>5 DEF CountsOK
    <3>7. x \in Nat /\ x = y + Rest(t, q, f, k)
      BY <3>4, <3>5
    <3>8. CountsFrom(t, q, u, k, y)
      BY <1>3, <1>7, <1>11, <3>6, <3>7, CountsPush
    <3>9. TimesIn(ms, k) + 0 = y
      BY <3>2
    <3>10. QED BY <3>8, <3>9
  <2>2. QED BY <2>1 DEF CountsOK
<1>16. Covers(t, q, "run", a, u, pg1)
  <2>1. ASSUME NEW p \in t.pages, Leads(t, p, q), p \notin pg1
        PROVE  AheadIn(t, u, FirstKey(t, p))
    <3>1. PICK k : k = FirstKey(t, p)
      OBVIOUS
    <3>2. k \in t.all /\ k \in Int
      BY <3>1, FirstKeyFacts, KeysAreInt
    <3>3. k \in Under(t, a) \/ AheadIn(t, st, k)
      BY <1>1, <2>1, <3>1 DEF Covers
    <3>4. k \in Under(t, a) => AheadOf(t, f, k)
      <4>1. SUFFICES ASSUME k \in Under(t, a) PROVE AheadOf(t, f, k)
        OBVIOUS
      <4>2. CASE t.keys[a][1] <= k
        BY <4>1, <4>2, <1>3 DEF AheadOf
      <4>3. CASE ~ t.keys[a][1] <= k
        <5>1. Right(t, a, 1) = t.keys[a][1]
          BY <1>4 DEF Right
        <5>2. InSlot(t, a, 1, k)
          BY <4>1, <4>3, <5>1, <3>2, <1>5, <1>6 DEF InSlot, Under
        <5>3. QED BY <4>1, <5>2, <1>3 DEF AheadOf
      <4>4. QED BY <4>2, <4>3
    <3>5. AheadIn(t, u, k) <=> AheadOf(t, f, k) \/ AheadIn(t, st, k)
      BY <1>3, <1>7, <1>11, AheadPush
    <3>6. QED BY <3>1, <3>3, <3>4, <3>5
  <2>2. QED BY <2>1 DEF Covers
<1>17. QED BY <1>1, <1>14, <1>15, <1>16 DEF Active

(* A call makes a turn, and goes on with c1: as it is, or by a call of the *)
(* page a1.                                                                *)
ListMove(t, f, app, ms, ms1) ==
  (app => ms1 = Append(ms, t.keys[f.page][f.i])) /\ (~ app => ms1 = ms)

CallMove(t, f, s, c1, a1) ==
  /\ (s # 0 /\ t.child[f.page][s] # NoPage) => c1 = "call" /\ a1 = t.child[f.page][s]
  /\ ~ (s # 0 /\ t.child[f.page][s] # NoPage) => c1 = "run"

LEMMA ActiveMove ==
  ASSUME NEW t \in Trees, NEW q, QueryType(q), NEW a, NEW st, NEW ms, NEW pg,
         Active(t, q, "run", a, st, ms, pg),
         NEW f, f = st[1], NEW g, NEW s, NEW app, GoesTo(t, q, f, g, s, app),
         NEW ms1, ListMove(t, f, app, ms, ms1), NEW c1, NEW a1, CallMove(t, f, s, c1, a1),
         NEW u, u = <<g>> \o Tail(st)
  PROVE  Active(t, q, c1, a1, u, ms1, pg)
<1>0. /\ app => ms1 = Append(ms, t.keys[f.page][f.i])
      /\ ~ app => ms1 = ms
      /\ (s # 0 /\ t.child[f.page][s] # NoPage) => c1 = "call" /\ a1 = t.child[f.page][s]
      /\ ~ (s # 0 /\ t.child[f.page][s] # NoPage) => c1 = "run"
  BY DEF ListMove, CallMove
<1>1. /\ ListOK(t, q, ms) /\ RunOK(t, q, In(ms), pg, st)
      /\ CountsOK(t, q, "run", a, st, ms) /\ Covers(t, q, "run", a, st, pg)
  BY DEF Active
<1>2. /\ st \in Seq(FrameSet(t)) /\ st # <<>>
      /\ FrameOK(t, q, pg, f) /\ KeyFloor(t, q, In(ms), f) /\ TopFloor(t, q, In(ms), f)
      /\ StackOK(t, q, In(ms), pg, Tail(st), t.hi[f.page])
      /\ Tail(st) = <<>> => f.page = t.root
  BY <1>1 DEF RunOK
<1>3. PICK p \in t.pages : p = f.page
  BY <1>2 DEF FrameOK, FrameSet
<1>4. PICK x \in Int : x = t.keys[f.page][f.i]
  BY <1>2, <1>3, PageFacts DEF FrameOK
<1>5. PICK F1 : F1 = In(ms1)
  OBVIOUS
<1>6. /\ ms \in Seq(Int) /\ ms1 \in Seq(Int) /\ In(ms) \subseteq F1
      /\ app => x \in F1
      /\ F1 \subseteq In(ms) \union {x}
      /\ ~ app => F1 = In(ms)
  <2>1. ms \in Seq(Int)
    BY <1>1 DEF ListOK
  <2>2. In(Append(ms, x)) = In(ms) \union {x} /\ Append(ms, x) \in Seq(Int)
    BY <2>1, InAppend
  <2>3. QED BY <1>0, <2>1, <2>2, <1>4, <1>5
<1>7. /\ MoveFrame(t, q, pg, f, g, s)
      /\ MoveCovers(t, q, f, g, s)
      /\ MoveFloors(t, q, F1, f, g, s)
  <2>1. PICK F : F = In(ms)
    OBVIOUS
  <2>2. KeyFloor(t, q, F, f) /\ TopFloor(t, q, F, f) /\ F \subseteq F1
    BY <2>1, <1>2, <1>6
  <2>3. app => t.keys[f.page][f.i] \in F1
    BY <1>4, <1>6
  <2>4. FrameOK(t, q, pg, f)
    BY <1>2
  <2>5. QED BY <2>2, <2>3, <2>4, MoveFrames
<1>8. FrameOK(t, q, pg, g) /\ g.page = p /\ g \in FrameSet(t) /\ KeyFloor(t, q, F1, g)
  BY <1>3, <1>7 DEF MoveFrame, MoveFloors, FrameOK
<1>9. PICK v : v = Tail(st)
  OBVIOUS
<1>10. v \in Seq(FrameSet(t)) /\ u = <<g>> \o v /\ st = <<f>> \o v /\ f \in FrameSet(t)
  BY <1>2, <1>9, TailSeq
<1>11. u \in Seq(FrameSet(t)) /\ u # <<>> /\ u[1] = g /\ Tail(u) = v
  BY <1>8, <1>10, PushSeq
<1>12. StackOK(t, q, F1, pg, v, t.hi[p])
  BY <1>2, <1>3, <1>6, <1>9, StackGrows
<1>13. app => f.at = "match"
  BY DEF GoesTo
(* The list.                                                               *)
<1>14. ListOK(t, q, ms1)
  <2>1. CASE ~ app
    BY <1>0, <2>1, <1>1
  <2>2. CASE app
    <3>1. x \in Wanted(t, q)
      <4>1. Matches(x, q)
        BY <2>2, <1>2, <1>4, <1>13 DEF FrameOK
      <4>2. x \in t.all
        BY <1>2, <1>3, <1>4, PageFacts DEF FrameOK, Under
      <4>3. QED BY <4>1, <4>2 DEF Wanted
    <3>2. F1 \subseteq Wanted(t, q)
      BY <3>1, <1>1, <1>6 DEF ListOK
    <3>3. PICK n \in Nat : n = Len(ms)
      BY <1>6
    <3>4. ms1 = Append(ms, x)
      BY <1>0, <2>2, <1>4
    <3>5. DOMAIN ms = 1 .. n /\ DOMAIN ms1 = 1 .. n + 1 /\ ms1[n + 1] = x
          /\ \A i \in 1 .. n : ms1[i] = ms[i]
      BY <3>3, <3>4, <1>6
    <3>6. ASSUME NEW i \in 1 .. n + 1, NEW k \in Wanted(t, q), k < ms1[i]
          PROVE  \E j \in 1 .. i - 1 : ms1[j] = k
      <4>1. CASE i = n + 1
        <5>1. k < x
          BY <4>1, <3>5, <3>6
        <5>2. k \in In(ms)
          BY <5>1, <2>2, <1>2, <1>4, <1>13 DEF TopFloor, Before
        <5>3. PICK j \in 1 .. n : ms[j] = k
          BY <5>2, <3>5 DEF In
        <5>4. j \in 1 .. i - 1 /\ ms1[j] = k
          BY <5>3, <4>1, <3>5
        <5>5. QED BY <5>4
      <4>2. CASE i # n + 1
        <5>1. i \in 1 .. n /\ ms1[i] = ms[i]
          BY <4>2, <3>5
        <5>2. PICK j \in 1 .. i - 1 : ms[j] = k
          BY <5>1, <3>5, <3>6, <1>1 DEF ListOK, FirstSeen
        <5>3. j \in 1 .. n
          BY <5>1
        <5>4. QED BY <5>2, <5>3, <3>5
      <4>3. QED BY <4>1, <4>2
    <3>7. FirstSeen(t, q, ms1)
      BY <3>5, <3>6 DEF FirstSeen
    <3>8. QED BY <3>2, <3>7, <1>5, <1>6 DEF ListOK
  <2>3. QED BY <2>1, <2>2
(* The number of times.                                                    *)
<1>15. CountsOK(t, q, c1, a1, u, ms1)
  <2>1. ASSUME NEW k \in Wanted(t, q)
        PROVE  CountsFrom(t, q, u, k, TimesIn(ms1, k) + IF c1 = "call" THEN Mult(t, q, a1, k) ELSE 0)
    <3>1. k \in t.all
      BY DEF Wanted
    <3>2. PICK y \in Nat : y = TimesIn(ms, k)
      BY <1>6, TimesType
    <3>3. CountsFrom(t, q, st, k, y)
      <4>1. CountsFrom(t, q, st, k, TimesIn(ms, k) + 0)
        BY <1>1 DEF CountsOK
      <4>2. TimesIn(ms, k) + 0 = y
        BY <3>2
      <4>3. QED BY <4>1, <4>2
    <3>4. f.i \in 1 .. Len(t.keys[f.page]) /\ g.i \in 1 .. Len(t.keys[g.page])
      BY <1>2, <1>8 DEF FrameOK
    <3>5. PICK rf \in Nat : rf = Rest(t, q, f, k)
      BY <3>1, <3>4, <1>10, RestType
    <3>6. PICK rg \in Nat : rg = Rest(t, q, g, k)
      BY <3>1, <3>4, <1>8, RestType
    <3>7. CountsFrom(t, q, v, k, y + rf)
      BY <3>3, <3>5, <1>2, <1>9, CountsTail
    <3>8. PICK one : one = IF app /\ k = x THEN 1 ELSE 0
      OBVIOUS
    <3>9. one \in Nat /\ TimesIn(ms1, k) = y + one
      <4>1. TimesIn(Append(ms, x), k) = y + IF x = k THEN 1 ELSE 0
        BY <3>2, <1>6, TimesFacts
      <4>2. CASE app
        BY <1>0, <4>1, <4>2, <3>8, <1>4
      <4>3. CASE ~ app
        BY <1>0, <4>3, <3>2, <3>8
      <4>4. QED BY <4>2, <4>3
    <3>10. PICK m : m = IF c1 = "call" THEN Mult(t, q, a1, k) ELSE 0
      OBVIOUS
    <3>11. m \in Nat /\ (IF s = 0 THEN 0 ELSE SlotMult(t, q, f.page, s, k)) = m
      <4>1. CASE s # 0 /\ t.child[f.page][s] # NoPage
        <5>1. s \in Slots(t, p)
          BY <4>1, <1>3, <1>7 DEF MoveFrame
        <5>2. a1 = t.child[p][s] /\ a1 \in t.pages /\ (k \in Under(t, a1) <=> InSlot(t, p, s, k))
          BY <1>0, <4>1, <5>1, <3>1, <1>3, ChildFacts
        <5>3. m = Mult(t, q, a1, k) /\ m \in Nat
          BY <1>0, <4>1, <5>2, <3>10, MultType
        <5>4. SlotMult(t, q, p, s, k) = m
          BY <5>2, <5>3 DEF SlotMult, Mult
        <5>5. QED BY <4>1, <5>3, <5>4, <1>3
      <4>2. CASE s = 0
        BY <1>0, <4>2, <3>10
      <4>3. CASE s # 0 /\ t.child[f.page][s] = NoPage
        <5>1. s \in Slots(t, p)
          BY <4>3, <1>3, <1>7 DEF MoveFrame
        <5>2. ~ InSlot(t, p, s, k)
          BY <4>3, <5>1, <3>1, <1>3, ChildFacts
        <5>3. SlotMult(t, q, p, s, k) = 0 /\ m = 0
          BY <1>0, <4>3, <5>2, <3>10 DEF SlotMult
        <5>4. QED BY <5>3, <1>3
      <4>4. QED BY <4>1, <4>2, <4>3
    <3>12. rf = one + m + rg
      BY <3>5, <3>6, <3>8, <3>11, <1>2, <1>4, MoveCounts
    <3>13. PICK z : z = y + one + m
      OBVIOUS
    <3>14. PICK w : w = y + rf
      OBVIOUS
    <3>15. z \in Nat /\ w \in Nat /\ w = z + Rest(t, q, g, k)
      BY <3>6, <3>9, <3>11, <3>12, <3>13, <3>14
    <3>16. CountsFrom(t, q, v, k, w)
      BY <3>7, <3>14
    <3>17. CountsFrom(t, q, u, k, z)
      BY <3>15, <3>16, <1>8, <1>10, CountsPush
    <3>18. z = TimesIn(ms1, k) + IF c1 = "call" THEN Mult(t, q, a1, k) ELSE 0
      BY <3>9, <3>10, <3>13
    <3>19. QED BY <3>17, <3>18
  <2>2. QED BY <2>1 DEF CountsOK
(* The pages.                                                              *)
<1>16. Covers(t, q, c1, a1, u, pg)
  <2>1. ASSUME NEW r \in t.pages, Leads(t, r, q), r \notin pg
        PROVE  (c1 = "call" /\ FirstKey(t, r) \in Under(t, a1)) \/ AheadIn(t, u, FirstKey(t, r))
    <3>1. PICK k : k = FirstKey(t, r)
      OBVIOUS
    <3>2. k \in t.all /\ k \in KeysOf(t, r)
      BY <3>1, FirstKeyFacts
    <3>3. AheadIn(t, st, k)
      BY <1>1, <2>1, <3>1 DEF Covers
    <3>4. AheadOf(t, f, k) \/ AheadIn(t, v, k)
      BY <3>3, <1>10, AheadPush
    <3>5. AheadIn(t, u, k) <=> AheadOf(t, g, k) \/ AheadIn(t, v, k)
      BY <1>8, <1>10, AheadPush
    <3>6. r # p
      BY <2>1, <1>2, <1>3 DEF FrameOK
    <3>7. AheadOf(t, f, k) => AheadOf(t, g, k) \/ (s # 0 /\ InSlot(t, p, s, k))
      BY <2>1, <3>2, <3>6, <1>3, <1>7 DEF MoveCovers
    <3>8. s # 0 /\ InSlot(t, p, s, k) => c1 = "call" /\ k \in Under(t, a1)
      <4>1. SUFFICES ASSUME s # 0, InSlot(t, p, s, k) PROVE c1 = "call" /\ k \in Under(t, a1)
        OBVIOUS
      <4>2. s \in Slots(t, p)
        BY <4>1, <1>3, <1>7 DEF MoveFrame
      <4>3. t.child[p][s] # NoPage
        BY <4>1, <4>2, <3>2, ChildFacts
      <4>4. c1 = "call" /\ a1 = t.child[p][s]
        BY <1>0, <4>1, <4>3, <1>3
      <4>5. QED BY <4>1, <4>2, <4>3, <4>4, <3>2, ChildFacts
    <3>9. QED BY <3>1, <3>4, <3>5, <3>7, <3>8
  <2>2. QED BY <2>1 DEF Covers
(* The calls.                                                              *)
<1>17. CASE s # 0 /\ t.child[f.page][s] # NoPage
  <2>1. c1 = "call" /\ a1 = t.child[p][s] /\ s \in Slots(t, p)
    BY <1>0, <1>3, <1>7, <1>17 DEF MoveFrame
  <2>2. a1 \in t.pages /\ t.lo[a1] = Left(t, p, s) /\ t.hi[a1] = Right(t, p, s)
    BY <2>1, <1>3, <1>17, ChildBounds
  <2>3. Leads(t, a1, q) /\ UpTo(t, q, F1, t.lo[a1])
    BY <2>2, <1>3, <1>7, <1>17 DEF MoveFrame, MoveFloors, Leads
  <2>4. Gives(t, q, g, t.hi[a1])
    <3>1. g.at = "match" => t.keys[p][g.i] = t.hi[a1]
      BY <2>2, <1>3, <1>7, <1>17 DEF MoveFrame
    <3>2. t.hi[a1] \in Int
      BY <2>2, PageFacts
    <3>3. g.at = "match" => t.keys[p][g.i] <= t.hi[a1]
      BY <3>1, <3>2
    <3>4. g.at = "end" => \A k \in Wanted(t, q) : k < t.hi[p] => k < t.hi[a1]
      BY <2>2, <1>3, <1>7, <1>17 DEF MoveFrame
    <3>5. QED BY <3>3, <3>4, <1>8 DEF Gives
  <2>5. v = <<>> => g.page = t.root
    BY <1>2, <1>3, <1>8, <1>9
  <2>6. PICK h, y : h = t.hi[p] /\ y = t.hi[a1]
    OBVIOUS
  <2>7. StackOK(t, q, F1, pg, v, h) /\ h = t.hi[g.page] /\ Gives(t, q, g, y)
    BY <2>4, <2>6, <1>8, <1>12
  <2>8. StackOK(t, q, F1, pg, u, y)
    BY <2>5, <2>7, <1>8, <1>10, StackPush
  <2>9. CallOK(t, q, F1, pg, a1, u)
    BY <2>2, <2>3, <2>6, <2>8, <1>11 DEF CallOK
  <2>10. QED BY <2>1, <2>9, <1>5, <1>14, <1>15, <1>16 DEF Active
<1>18. CASE ~ (s # 0 /\ t.child[f.page][s] # NoPage)
  <2>1. c1 = "run"
    BY <1>0, <1>18
  <2>2. TopFloor(t, q, F1, g)
    <3>1. CASE s = 0
      <4>1. g.at = "key"
        BY <3>1, <1>7 DEF MoveFrame
      <4>2. QED BY <4>1 DEF TopFloor
    <3>2. CASE s # 0
      <4>1. s \in Slots(t, p) /\ t.child[p][s] = NoPage
        BY <3>2, <1>3, <1>7, <1>18 DEF MoveFrame
      <4>2. UpTo(t, q, F1, Left(t, p, s))
        BY <3>2, <1>3, <1>7 DEF MoveFloors
      <4>3. Left(t, p, s) \in Int /\ Right(t, p, s) \in Int
        BY <4>1, SlotFacts
      <4>4. ASSUME NEW k \in Wanted(t, q), k < Right(t, p, s) PROVE k \in F1
        <5>1. k \in t.all /\ k \in Int
          BY WantedFacts
        <5>2. ~ InSlot(t, p, s, k)
          BY <4>1, <5>1, ChildFacts
        <5>3. k <= Left(t, p, s)
          BY <4>3, <4>4, <5>1, <5>2 DEF InSlot
        <5>4. QED BY <4>2, <5>3 DEF UpTo
      <4>5. g.at = "match" => t.keys[p][g.i] = Right(t, p, s)
        BY <3>2, <1>3, <1>7 DEF MoveFrame
      <4>6. g.at = "end" => \A k \in Wanted(t, q) : k < t.hi[p] => k < Right(t, p, s)
        BY <3>2, <1>3, <1>7 DEF MoveFrame
      <4>7. QED BY <4>4, <4>5, <4>6, <1>8 DEF TopFloor, Before
    <3>3. QED BY <3>1, <3>2
  <2>3. v = <<>> => g.page = t.root
    BY <1>2, <1>3, <1>8, <1>9
  <2>4. RunOK(t, q, F1, pg, u)
    BY <2>2, <2>3, <1>8, <1>11, <1>12 DEF RunOK
  <2>5. QED BY <2>1, <2>4, <1>5, <1>14, <1>15, <1>16 DEF Active
<1>19. QED BY <1>17, <1>18

(* A call returns to its caller.                                           *)
LEMMA ActivePop ==
  ASSUME NEW t \in Trees, NEW q, QueryType(q), NEW a, NEW st, NEW ms, NEW pg,
         Active(t, q, "run", a, st, ms, pg), st[1].at = "end", Tail(st) # <<>>
  PROVE  Active(t, q, "run", a, Tail(st), ms, pg)
<1>1. /\ ListOK(t, q, ms) /\ RunOK(t, q, In(ms), pg, st)
      /\ CountsOK(t, q, "run", a, st, ms) /\ Covers(t, q, "run", a, st, pg)
  BY DEF Active
<1>2. PICK f, v : f = st[1] /\ v = Tail(st)
  OBVIOUS
<1>3. /\ st \in Seq(FrameSet(t)) /\ st # <<>> /\ v # <<>>
      /\ FrameOK(t, q, pg, f) /\ TopFloor(t, q, In(ms), f)
      /\ StackOK(t, q, In(ms), pg, v, t.hi[f.page])
  BY <1>1, <1>2 DEF RunOK
<1>4. v \in Seq(FrameSet(t)) /\ st = <<f>> \o v /\ f \in FrameSet(t)
  BY <1>2, <1>3, TailSeq
<1>5. PICK h : h = t.hi[f.page]
  OBVIOUS
<1>6. StackOK(t, q, In(ms), pg, v, h)
  BY <1>3, <1>5
<1>7. /\ StackOK(t, q, In(ms), pg, Tail(v), t.hi[v[1].page])
      /\ FrameOK(t, q, pg, v[1]) /\ KeyFloor(t, q, In(ms), v[1]) /\ Gives(t, q, v[1], h)
      /\ Tail(v) = <<>> => v[1].page = t.root
  BY <1>3, <1>6, StackTail
<1>8. TopFloor(t, q, In(ms), v[1])
  <2>1. \A k \in Wanted(t, q) : k < h => k \in In(ms)
    BY <1>2, <1>3, <1>5 DEF TopFloor, Before
  <2>2. ASSUME v[1].at = "match", NEW k \in Wanted(t, q), k < t.keys[v[1].page][v[1].i]
        PROVE  k \in In(ms)
    <3>1. t.keys[v[1].page][v[1].i] <= h
      BY <2>2, <1>7 DEF Gives
    <3>2. t.keys[v[1].page][v[1].i] \in Int
      BY <1>7, PageFacts DEF FrameOK, FrameSet
    <3>3. h \in Int /\ k \in Int
      BY <1>3, <1>5, PageFacts, WantedFacts DEF FrameOK, FrameSet
    <3>4. k < h
      BY <3>1, <3>2, <3>3, <2>2
    <3>5. QED BY <3>4, <2>1
  <2>3. ASSUME v[1].at = "end", NEW k \in Wanted(t, q), k < t.hi[v[1].page]
        PROVE  k \in In(ms)
    BY <2>1, <2>3, <1>7 DEF Gives
  <2>4. QED BY <2>2, <2>3 DEF TopFloor, Before
<1>9. RunOK(t, q, In(ms), pg, v)
  BY <1>3, <1>4, <1>7, <1>8 DEF RunOK
<1>10. CountsOK(t, q, "run", a, v, ms)
  <2>1. ASSUME NEW k \in Wanted(t, q)
        PROVE  CountsFrom(t, q, v, k, TimesIn(ms, k) + 0)
    <3>1. CountsFrom(t, q, st, k, TimesIn(ms, k) + 0)
      BY <1>1 DEF CountsOK
    <3>2. PICK y : y = TimesIn(ms, k) + 0
      OBVIOUS
    <3>3. CountsFrom(t, q, v, k, y + Rest(t, q, st[1], k)) /\ y \in Nat
      BY <3>1, <3>2, <1>2, <1>3, CountsTail
    <3>4. Rest(t, q, st[1], k) = 0
      BY DEF Rest
    <3>5. y + Rest(t, q, st[1], k) = y
      BY <3>3, <3>4
    <3>6. QED BY <3>2, <3>3, <3>5
  <2>2. QED BY <2>1 DEF CountsOK
<1>11. Covers(t, q, "run", a, v, pg)
  <2>1. ASSUME NEW k, AheadIn(t, st, k) PROVE AheadIn(t, v, k)
    <3>1. AheadOf(t, f, k) \/ AheadIn(t, v, k)
      BY <2>1, <1>4, AheadPush
    <3>2. ~ AheadOf(t, f, k)
      BY <1>2 DEF AheadOf
    <3>3. QED BY <3>1, <3>2
  <2>2. QED BY <2>1, <1>1 DEF Covers
<1>12. QED BY <1>1, <1>2, <1>9, <1>10, <1>11 DEF Active

(* What the list holds once the outermost call returns.                    *)
ListRight(t, q, ms) ==
  /\ ms \in Seq(Int)
  /\ In(ms) = Wanted(t, q)
  /\ \A k \in In(ms) : TimesIn(ms, k) = Cardinality(SUBSET Doubled(t, q, k))
  /\ FirstSeen(t, q, ms)

LEMMA ActiveResult ==
  ASSUME NEW t \in Trees, NEW q, QueryType(q), NEW a, NEW st, NEW ms, NEW pg,
         Active(t, q, "run", a, st, ms, pg), st[1].at = "end", Tail(st) = <<>>
  PROVE  ListRight(t, q, ms) /\ \A p \in t.pages : Leads(t, p, q) => p \in pg
<1>1. /\ ListOK(t, q, ms) /\ RunOK(t, q, In(ms), pg, st)
      /\ CountsOK(t, q, "run", a, st, ms) /\ Covers(t, q, "run", a, st, pg)
  BY DEF Active
<1>2. PICK f, v : f = st[1] /\ v = Tail(st)
  OBVIOUS
<1>3. /\ st \in Seq(FrameSet(t)) /\ st # <<>> /\ v = <<>>
      /\ TopFloor(t, q, In(ms), f) /\ f.page = t.root
  BY <1>1, <1>2 DEF RunOK
<1>4. v \in Seq(FrameSet(t)) /\ st = <<f>> \o v /\ f \in FrameSet(t)
  BY <1>2, <1>3, TailSeq
<1>5. \A k \in Wanted(t, q) : k \in In(ms)
  BY <1>2, <1>3, WantedFacts DEF TopFloor, Before
<1>6. In(ms) = Wanted(t, q)
  BY <1>1, <1>5 DEF ListOK
<1>7. ASSUME NEW k \in In(ms) PROVE TimesIn(ms, k) = Cardinality(SUBSET Doubled(t, q, k))
  <2>1. k \in Wanted(t, q) /\ k \in t.all
    BY <1>6 DEF Wanted
  <2>2. PICK y \in Nat : y = TimesIn(ms, k)
    BY <1>1, TimesType DEF ListOK
  <2>3. CountsFrom(t, q, st, k, TimesIn(ms, k) + 0)
    BY <2>1, <1>1 DEF CountsOK
  <2>4. TimesIn(ms, k) + 0 = y
    BY <2>2
  <2>5. CountsFrom(t, q, st, k, y)
    BY <2>3, <2>4
  <2>6. CountsFrom(t, q, v, k, y + Rest(t, q, st[1], k))
    BY <2>5, <1>2, <1>3, CountsTail
  <2>7. Rest(t, q, st[1], k) = 0
    BY DEF Rest
  <2>8. y + Rest(t, q, st[1], k) = y
    BY <2>7
  <2>9. CountsFrom(t, q, <<>>, k, y)
    BY <2>6, <2>8, <1>3
  <2>10. Len(<<>>) = 0
    OBVIOUS
  <2>11. y = Mult(t, q, t.root, k)
    BY <2>9, <2>10 DEF CountsFrom
  <2>12. QED BY <2>1, <2>2, <2>11, MultOfRoot
<1>8. ASSUME NEW p \in t.pages, Leads(t, p, q) PROVE p \in pg
  <2>1. SUFFICES ASSUME AheadIn(t, st, FirstKey(t, p)) PROVE FALSE
    BY <1>1, <1>8 DEF Covers
  <2>2. PICK k : k = FirstKey(t, p)
    OBVIOUS
  <2>3. AheadOf(t, f, k) \/ AheadIn(t, v, k)
    BY <2>1, <2>2, <1>4, AheadPush
  <2>4. QED BY <2>3, <1>2, <1>3 DEF AheadOf, AheadIn
<1>9. QED BY <1>1, <1>6, <1>7, <1>8 DEF ListRight, ListOK
-----------------------------------------------------------------------------
(* Lookups one after the other, over one page cache.                       *)
LookupInv ==
  /\ tree \in Trees
  /\ missing \in Faults[tree]
  /\ pages \subseteq tree.pages \ missing
  /\ pc \in {"idle", "call", "run", "returned", "raised"}
  /\ pc # "idle" => PrefixIn(tree, query)
  /\ pc \in {"call", "run"} => Active(tree, query, pc, arg, stack, matches, pages)
  /\ pc = "returned" => /\ ListRight(tree, query, matches)
                        /\ \A p \in missing : ~ Leads(tree, p, query)
  /\ pc = "raised" => \E p \in missing : Leads(tree, p, query)

LEMMA LookupStarts == LookupInit => LookupInv
  BY DEF LookupInit, LookupInv

LEMMA LookupStays ==
  ASSUME LookupInv, UNCHANGED lookupVars
  PROVE  LookupInv'
<1>1. tree' = tree /\ missing' = missing /\ query' = query /\ pc' = pc /\ arg' = arg
      /\ stack' = stack /\ matches' = matches /\ pages' = pages
  BY DEF lookupVars
<1>2. QED BY <1>1 DEF LookupInv

LEMMA LookupBegins ==
  ASSUME LookupInv, NEW q, PrefixIn(tree, q), LookupKeys(q)
  PROVE  LookupInv'
<1>1. /\ query' = q /\ matches' = <<>> /\ arg' = tree.root /\ stack' = <<>> /\ pc' = "call"
      /\ tree' = tree /\ missing' = missing /\ pages' = pages
  BY DEF LookupKeys
<1>2. PICK t \in Trees : t = tree
  BY DEF LookupInv
<1>3. PICK pg : pg = pages
  OBVIOUS
<1>4. Active(t, q, "call", t.root, <<>>, <<>>, pg)
  BY <1>2, ActiveStart
<1>5. Active(tree', query', pc', arg', stack', matches', pages')
  BY <1>1, <1>2, <1>3, <1>4
<1>6. PrefixIn(tree', query')
  BY <1>1
<1>7. QED BY <1>1, <1>5, <1>6 DEF LookupInv

LEMMA PrefixType ==
  ASSUME NEW t, NEW q, PrefixIn(t, q)
  PROVE  QueryType(q)
  BY DEF PrefixIn, QueryType

LEMMA PageRead ==
  ASSUME LookupInv, GetPage
  PROVE  LookupInv'
<1>1. /\ pc = "call" /\ tree' = tree /\ missing' = missing /\ query' = query
      /\ arg' = arg /\ matches' = matches
  BY DEF GetPage, FetchPage, CachedPage
<1>2. PICK t \in Trees : t = tree
  BY DEF LookupInv
<1>3. PICK q, a, st, ms, pg : q = query /\ a = arg /\ st = stack /\ ms = matches /\ pg = pages
  OBVIOUS
<1>4. Active(t, q, "call", a, st, ms, pg) /\ QueryType(q)
  BY <1>1, <1>2, <1>3, PrefixType DEF LookupInv
<1>5. a \in t.pages /\ Leads(t, a, q)
  BY <1>4 DEF Active, CallOK
<1>6. missing \subseteq t.pages
  BY <1>2, FaultsAssumption DEF LookupInv
<1>7. CASE arg \notin pages /\ arg \in missing
  <2>1. pc' = "raised" /\ pages' = pages
    BY <1>7 DEF GetPage, FetchPage, CachedPage
  <2>2. \E p \in missing : Leads(t, p, q)
    BY <1>3, <1>5, <1>7
  <2>3. QED BY <2>1, <2>2, <1>1, <1>2, <1>3 DEF LookupInv
<1>8. CASE arg \in pages \/ arg \notin missing
  <2>1. PICK pg1 : pg1 = pg \union {a}
    OBVIOUS
  <2>2. PICK u : u = <<[page |-> a, i |-> 1, at |-> "key"]>> \o st
    OBVIOUS
  <2>3. pc' = "run" /\ stack' = u /\ pages' = pg1 /\ pg1 \subseteq t.pages \ missing
    <3>1. CASE arg \in pages
      BY <3>1, <2>1, <2>2, <1>2, <1>3 DEF GetPage, FetchPage, CachedPage, LookupInv
    <3>2. CASE arg \notin pages
      BY <3>2, <2>1, <2>2, <1>2, <1>3, <1>5, <1>8 DEF GetPage, FetchPage, CachedPage, LookupInv
    <3>3. QED BY <3>1, <3>2
  <2>4. Active(t, q, "run", a, u, ms, pg1)
    BY <2>1, <2>2, <1>4, ActivePush
  <2>5. Active(tree', query', pc', arg', stack', matches', pages')
    BY <2>3, <2>4, <1>1, <1>2, <1>3
  <2>6. PrefixIn(tree', query')
    BY <1>1 DEF LookupInv
  <2>7. QED BY <2>3, <2>5, <2>6, <1>1, <1>2 DEF LookupInv
<1>9. QED BY <1>7, <1>8

LEMMA LookupMoves ==
  ASSUME LookupInv, pc = "run", NEW g, NEW s, NEW app, GoesTo(tree, query, Top, g, s, app),
         stack' = <<g>> \o Tail(stack),
         app => matches' = Append(matches, Key), ~ app => matches' = matches,
         (s # 0 /\ tree.child[Top.page][s] # NoPage) =>
            pc' = "call" /\ arg' = tree.child[Top.page][s],
         ~ (s # 0 /\ tree.child[Top.page][s] # NoPage) => pc' = "run",
         UNCHANGED <<tree, missing, query, pages>>
  PROVE  LookupInv'
<1>1. PICK t \in Trees : t = tree
  BY DEF LookupInv
<1>2. PICK q, a, st, ms, pg : q = query /\ a = arg /\ st = stack /\ ms = matches /\ pg = pages
  OBVIOUS
<1>3. PICK f, c1, a1, ms1, u : f = st[1] /\ c1 = pc' /\ a1 = arg' /\ ms1 = matches' /\ u = stack'
  OBVIOUS
<1>4. t \in Trees /\ QueryType(q) /\ Active(t, q, "run", a, st, ms, pg)
  BY <1>1, <1>2, PrefixType DEF LookupInv
<1>5. f = Top /\ Key = t.keys[f.page][f.i]
  BY <1>1, <1>2, <1>3 DEF Top, Key, Keys
<1>6. GoesTo(t, q, f, g, s, app)
  BY <1>1, <1>2, <1>5
<1>7. ListMove(t, f, app, ms, ms1)
  BY <1>1, <1>2, <1>3, <1>5 DEF ListMove
<1>8. CallMove(t, f, s, c1, a1) /\ f = st[1] /\ u = <<g>> \o Tail(st)
  BY <1>1, <1>2, <1>3, <1>5 DEF CallMove
<1>9. Active(t, q, c1, a1, u, ms1, pg)
  BY ONLY <1>4, <1>6, <1>7, <1>8, ActiveMove
<1>10. c1 \in {"call", "run"}
  BY <1>8 DEF CallMove
<1>11. Active(tree', query', pc', arg', stack', matches', pages')
  BY <1>1, <1>2, <1>3, <1>9
<1>12. QED BY <1>1, <1>3, <1>10, <1>11 DEF LookupInv

LEMMA FrameAt ==
  ASSUME NEW t, NEW f \in FrameSet(t), NEW y
  PROVE  [f EXCEPT !.at = y] = [page |-> f.page, i |-> f.i, at |-> y]
<1>1. PICK a, b, c : f = [page |-> a, i |-> b, at |-> c]
  BY DEF FrameSet
<1>2. [f EXCEPT !.at = y] = [page |-> a, i |-> b, at |-> y]
  BY ONLY <1>1
<1>3. QED BY <1>1, <1>2

LEMMA FrameI ==
  ASSUME NEW t, NEW f \in FrameSet(t), f.at = "key"
  PROVE  [f EXCEPT !.i = @ + 1] = [page |-> f.page, i |-> f.i + 1, at |-> "key"]
<1>1. PICK a, b, c : f = [page |-> a, i |-> b, at |-> c]
  BY DEF FrameSet
<1>2. f.i = b /\ f.at = c
  BY <1>1
<1>3. PICK x : x = b + 1
  OBVIOUS
<1>4. [f EXCEPT !.i = x] = [page |-> a, i |-> x, at |-> c]
  BY ONLY <1>1
<1>5. [f EXCEPT !.i = @ + 1] = [f EXCEPT !.i = x]
  BY ONLY <1>2, <1>3
<1>6. QED BY <1>1, <1>2, <1>3, <1>4, <1>5

LEMMA LookupStep ==
  ASSUME LookupInv, Lookup
  PROVE  LookupInv'
<1>1. CASE GetPage
  BY <1>1, PageRead
<1>2. ASSUME pc = "run"
      PROVE  /\ Top \in FrameSet(tree) /\ Top.i \in 1 .. Len(Keys) /\ Len(Keys) \in Nat
             /\ Top.i # 0 /\ Top.i + 1 # 0 /\ stack \in Seq(FrameSet(tree)) /\ stack # <<>>
  <2>1. Active(tree, query, "run", arg, stack, matches, pages)
    BY <1>2 DEF LookupInv
  <2>2. RunOK(tree, query, In(matches), pages, stack)
    BY <2>1 DEF Active
  <2>3. FrameOK(tree, query, pages, Top) /\ stack \in Seq(FrameSet(tree)) /\ stack # <<>>
    BY <2>2 DEF RunOK, Top
  <2>4. Top \in FrameSet(tree) /\ Top.i \in 1 .. Len(Keys)
    BY <2>3 DEF FrameOK, Keys
  <2>5. Top.page \in tree.pages /\ tree \in Trees
    BY <2>4 DEF FrameSet, LookupInv
  <2>6. Len(Keys) \in Nat
    BY <2>5, PageFacts DEF Keys
  <2>7. Top.i # 0 /\ Top.i + 1 # 0
    BY <2>4, <2>6
  <2>8. QED BY <2>3, <2>4, <2>6, <2>7
<1>3. ASSUME NEW s, NEW g, LookupChild(s, g), pc = "run", s # 0
      PROVE  /\ stack' = <<g>> \o Tail(stack)
             /\ (s # 0 /\ tree.child[Top.page][s] # NoPage) =>
                   pc' = "call" /\ arg' = tree.child[Top.page][s]
             /\ ~ (s # 0 /\ tree.child[Top.page][s] # NoPage) => pc' = "run"
             /\ UNCHANGED <<tree, missing, query, pages>>
  BY <1>3 DEF LookupChild
<1>4. CASE MatchLeft
  <2>1. PICK f : f = Top
    OBVIOUS
  <2>2. PICK g : g = [page |-> f.page, i |-> f.i, at |-> "match"]
    OBVIOUS
  <2>3. pc = "run" /\ f.at = "key" /\ Matches(Key, query) /\ UNCHANGED matches
        /\ LookupChild(f.i, [f EXCEPT !.at = "match"])
    BY <1>4, <2>1 DEF MatchLeft, AtKey
  <2>4. f \in FrameSet(tree) /\ f.i # 0
    BY <1>2, <2>1, <2>3
  <2>5. LookupChild(f.i, g)
    BY <2>2, <2>3, <2>4, FrameAt
  <2>6. GoesTo(tree, query, Top, g, f.i, FALSE)
    BY <2>1, <2>2, <2>3 DEF GoesTo, Key, Keys
  <2>7. PICK s : s = f.i
    OBVIOUS
  <2>8. GoesTo(tree, query, Top, g, s, FALSE) /\ LookupChild(s, g) /\ s # 0
    BY <2>4, <2>5, <2>6, <2>7
  <2>9. QED BY <2>3, <2>8, <1>3, LookupMoves
<1>5. CASE MatchRight
  <2>1. PICK f : f = Top
    OBVIOUS
  <2>2. PICK g : g = [page |-> f.page, i |-> IF Last THEN f.i ELSE f.i + 1,
                      at |-> IF Last THEN "end" ELSE "key"]
    OBVIOUS
  <2>3. PICK s : s = f.i + 1
    OBVIOUS
  <2>4. pc = "run" /\ f.at = "match" /\ matches' = Append(matches, Key) /\ LookupChild(s, g)
    BY <1>5, <2>1, <2>2, <2>3 DEF MatchRight
  <2>5. f \in FrameSet(tree) /\ s # 0
    BY <1>2, <2>1, <2>3, <2>4
  <2>6. GoesTo(tree, query, Top, g, s, TRUE)
    BY <2>1, <2>2, <2>3, <2>4 DEF GoesTo, Last, Keys
  <2>7. QED BY <2>4, <2>5, <2>6, <1>3, LookupMoves
<1>6. CASE AboveLeft
  <2>1. PICK f : f = Top
    OBVIOUS
  <2>2. PICK g : g = [page |-> f.page, i |-> f.i, at |-> "end"]
    OBVIOUS
  <2>3. PICK s : s = f.i
    OBVIOUS
  <2>4. pc = "run" /\ f.at = "key" /\ Above(Key, query) /\ UNCHANGED matches
        /\ LookupChild(s, [f EXCEPT !.at = "end"])
    BY <1>6, <2>1, <2>3 DEF AboveLeft, AtKey
  <2>5. f \in FrameSet(tree) /\ s # 0
    BY <1>2, <2>1, <2>3, <2>4
  <2>6. LookupChild(s, g)
    BY <2>2, <2>4, <2>5, FrameAt
  <2>7. GoesTo(tree, query, Top, g, s, FALSE)
    BY <2>1, <2>2, <2>3, <2>4 DEF GoesTo, Key, Keys
  <2>8. QED BY <2>4, <2>5, <2>6, <2>7, <1>3, LookupMoves
<1>7. CASE BelowNext
  <2>1. PICK f : f = Top
    OBVIOUS
  <2>2. PICK g : g = [page |-> f.page, i |-> f.i + 1, at |-> "key"]
    OBVIOUS
  <2>3. pc = "run" /\ f.at = "key" /\ Below(Key, query) /\ ~ Last
        /\ stack' = <<[f EXCEPT !.i = @ + 1]>> \o Tail(stack)
        /\ UNCHANGED <<tree, missing, query, pc, arg, matches, pages>>
    BY <1>7, <2>1 DEF BelowNext, AtKey
  <2>4. f \in FrameSet(tree)
    BY <1>2, <2>1, <2>3
  <2>5. [f EXCEPT !.i = @ + 1] = g
    BY <2>2, <2>3, <2>4, FrameI
  <2>6. stack' = <<g>> \o Tail(stack)
    BY <2>3, <2>5
  <2>7. GoesTo(tree, query, Top, g, 0, FALSE)
    BY <2>1, <2>2, <2>3 DEF GoesTo, Key, Keys, Last
  <2>8. QED BY <2>3, <2>6, <2>7, LookupMoves
<1>8. CASE BelowLast
  <2>1. PICK f : f = Top
    OBVIOUS
  <2>2. PICK g : g = [page |-> f.page, i |-> f.i, at |-> "end"]
    OBVIOUS
  <2>3. PICK s : s = f.i + 1
    OBVIOUS
  <2>4. pc = "run" /\ f.at = "key" /\ Below(Key, query) /\ Last /\ UNCHANGED matches
        /\ LookupChild(s, [f EXCEPT !.at = "end"])
    BY <1>8, <2>1, <2>3 DEF BelowLast, AtKey
  <2>5. f \in FrameSet(tree) /\ s # 0
    BY <1>2, <2>1, <2>3, <2>4
  <2>6. LookupChild(s, g)
    BY <2>2, <2>4, <2>5, FrameAt
  <2>7. GoesTo(tree, query, Top, g, s, FALSE)
    BY <2>1, <2>2, <2>3, <2>4 DEF GoesTo, Key, Keys, Last
  <2>8. QED BY <2>4, <2>5, <2>6, <2>7, <1>3, LookupMoves
<1>9. CASE Return
  <2>1. /\ pc = "run" /\ stack[1].at = "end" /\ stack' = Tail(stack)
        /\ pc' = IF Len(stack) = 1 THEN "returned" ELSE "run"
        /\ UNCHANGED <<tree, missing, query, arg, matches, pages>>
    BY <1>9 DEF Return, Top
  <2>2. PICK t \in Trees : t = tree
    BY DEF LookupInv
  <2>3. PICK q, a, st, ms, pg : q = query /\ a = arg /\ st = stack /\ ms = matches /\ pg = pages
    OBVIOUS
  <2>4. Active(t, q, "run", a, st, ms, pg) /\ QueryType(q) /\ st[1].at = "end"
    BY <2>1, <2>2, <2>3, PrefixType DEF LookupInv
  <2>5. Len(st) = 1 <=> Tail(st) = <<>>
    <3>1. st \in Seq(FrameSet(t)) /\ st # <<>>
      BY <1>2, <2>1, <2>2, <2>3
    <3>2. PICK v : v = Tail(st)
      OBVIOUS
    <3>3. v \in Seq(FrameSet(t)) /\ Len(st) = Len(v) + 1 /\ Len(v) \in Nat
      BY <3>1, <3>2, TailSeq
    <3>4. v = <<>> <=> Len(v) = 0
      BY <3>3
    <3>5. QED BY <3>2, <3>3, <3>4
  <2>6. CASE Tail(st) = <<>>
    <3>1. pc' = "returned"
      BY <2>1, <2>3, <2>5, <2>6
    <3>2. ListRight(t, q, ms) /\ \A p \in t.pages : Leads(t, p, q) => p \in pg
      BY <2>4, <2>6, ActiveResult
    <3>3. missing \subseteq t.pages /\ pg \subseteq t.pages \ missing
      BY <2>2, <2>3, FaultsAssumption DEF LookupInv
    <3>4. \A p \in missing : ~ Leads(t, p, q)
      BY <3>2, <3>3
    <3>5. QED BY <3>1, <3>2, <3>4, <2>1, <2>2, <2>3 DEF LookupInv
  <2>7. CASE Tail(st) # <<>>
    <3>1. pc' = "run"
      BY <2>1, <2>3, <2>5, <2>7
    <3>2. Active(t, q, "run", a, Tail(st), ms, pg)
      BY <2>4, <2>7, ActivePop
    <3>3. Active(tree', query', pc', arg', stack', matches', pages')
      BY <3>1, <3>2, <2>1, <2>2, <2>3
    <3>4. QED BY <3>1, <3>3, <2>1 DEF LookupInv
  <2>8. QED BY <2>6, <2>7
<1>10. QED BY <1>1, <1>4, <1>5, <1>6, <1>7, <1>8, <1>9 DEF Lookup

LEMMA LookupInvRight == LookupInv => LookupRight
<1> SUFFICES ASSUME LookupInv PROVE LookupRight
  OBVIOUS
<1>1. Found = In(matches) /\ \A k : Times(k) = TimesIn(matches, k)
  BY DEF Found, In, Times, TimesIn
<1>2. ASSUME pc = "returned"
      PROVE  /\ Found = Wanted(tree, query)
             /\ \A k \in Found : Times(k) = Cardinality(SUBSET Doubled(tree, query, k))
             /\ \A i \in DOMAIN matches : \A k \in Found :
                  k < matches[i] => \E j \in 1 .. i - 1 : matches[j] = k
             /\ \A p \in missing : ~ Leads(tree, p, query)
  <2>1. ListRight(tree, query, matches) /\ \A p \in missing : ~ Leads(tree, p, query)
    BY <1>2 DEF LookupInv
  <2>2. QED BY <2>1, <1>1 DEF ListRight, FirstSeen
<1>3. QED BY <1>2 DEF LookupRight, LookupInv
-----------------------------------------------------------------------------
(* What a call finds out, in a tree t with the pages mis missing and the   *)
(* objects o.                                                              *)
BlockedIn(t, mis, q) == \E p \in mis : Leads(t, p, q)
OwnIn(t, id)         == Wanted(t, CD(id[1], id[2]))
DefIn(t, id)         == IF OwnIn(t, id) # {} THEN OwnIn(t, id) ELSE Wanted(t, CD(System, id[2]))

UndefIn(t, mis, o, id) ==
  \/ BlockedIn(t, mis, CD(id[1], id[2]))
  \/ OwnIn(t, id) = {} /\ BlockedIn(t, mis, CD(System, id[2]))
  \/ Cardinality(DefIn(t, id)) # 1
  \/ \E k \in DefIn(t, id) : o[k].state # "ok"

Failed(t, mis, o, c) ==
  UndefIn(t, mis, o, Id(c)) \/ (c.op = "get_cd_buf" /\ OwnIn(t, Id(c)) = {})

(* The definitions that are cached, and the hashes left.                   *)
CdsOK(t, mis, o, cd) ==
  \A id \in DOMAIN cd :
    DefIn(t, id) = {cd[id]} /\ o[cd[id]].state = "ok" /\ ~ UndefIn(t, mis, o, id)

HashOK(t, o, ih) ==
  \A x \in DOMAIN ih :
    \E k \in Wanted(t, CI(ih[x].by[1], ih[x].by[2])) :
      o[k].state = "ok" /\ o[k].ikey = x /\ o[k].hash = ih[x].hash

QueryOf(ih, c) ==
  IF c.ikey \in DOMAIN ih THEN IL(c.ns, c.class, ih[c.ikey].hash) ELSE CI(c.ns, c.class)

(* What is looked up in each phase of a call.                              *)
OwnPhase(c, q) == c.op \in {"get_cd", "get_cd_buf", "get_ci", "instances"} /\ q = CD(c.ns, c.class)

ObjectPhase(t, mis, c, q) ==
  /\ c.op \in {"get_cd", "get_cd_buf", "get_ci", "instances"}
  /\ \/ q = CD(c.ns, c.class) /\ (c.op = "get_cd_buf" \/ OwnIn(t, Id(c)) # {})
     \/ /\ q = CD(System, c.class) /\ c.op # "get_cd_buf" /\ OwnIn(t, Id(c)) = {}
        /\ ~ BlockedIn(t, mis, CD(c.ns, c.class))

KeysPhase(ih, c, q) ==
  /\ c.op \in {"get_keys", "get_ci", "instances"}
  /\ c.op = "get_ci" => q = QueryOf(ih, c)
  /\ c.op = "instances" => q = CI(c.ns, c.class)

EachPhase(ih, c, q) ==
  c.op \in {"get_ci", "instances"} /\ (c.op = "get_ci" => q = QueryOf(ih, c))

(* get_ci: the instance asked for is in what is left, and what comes       *)
(* before the objects left, and is not left itself, is not that instance.  *)
Mine(o, c, k) == o[k].state = "ok" /\ o[k].ikey = c.ikey

Remaining(t, o, c, q, r) ==
  /\ r \in Seq(Int) /\ In(r) \subseteq Wanted(t, q)
  /\ \A k \in Wanted(t, q) : Mine(o, c, k) => k \in In(r)
  /\ \A i \in DOMAIN r : \A k \in Wanted(t, q) :
       k < r[i] => ~ Mine(o, c, k) \/ \E j \in 1 .. i - 1 : r[j] = k

(* instances: every instance that can be parsed is left or listed, unless  *)
(* the class cannot be had.                                                *)
All(t, c)     == Wanted(t, CI(c.ns, c.class))
IKeys(t, o, c) == {o[k].ikey : k \in {m \in All(t, c) : o[m].state = "ok"}}

Listing(t, mis, o, cd, c, r, li) ==
  /\ r \in Seq(Int) /\ In(r) \subseteq All(t, c)
  /\ \A k \in All(t, c) : o[k].state = "ok" =>
       k \in In(r) \/ o[k].ikey \in In(li) \/ UndefIn(t, mis, o, Id(c))
  /\ li \in Seq(IKeys(t, o, c)) /\ IsInjective(li)
  /\ Id(c) \notin DOMAIN cd => li = <<>>

(* What a call ends with.                                                  *)
Foreign(ih, c) == c.ikey \in DOMAIN ih /\ ih[c.ikey].by # Id(c)

InstanceResult(t, mis, o, ih, c, out, ans) ==
  LET mine == {k \in All(t, c) : Mine(o, c, k)}
  IN  IF out = "ok" THEN ans \in mine
      ELSE \/ UndefIn(t, mis, o, Id(c)) \/ BlockedIn(t, mis, CI(c.ns, c.class))
           \/ mine = {}
           \/ \E k \in All(t, c) : o[k].state \in {"lost", "garbled"} /\ \A m \in mine : k < m
           \/ Foreign(ih, c)

ListResult(t, mis, o, cd, c, out, li) ==
  /\ IsInjective(li)
  /\ out = "raised" =>
       BlockedIn(t, mis, CI(c.ns, c.class)) \/ \E k \in All(t, c) : o[k].state = "lost"
  /\ out = "ok" =>
       /\ In(li) = IF Id(c) \in DOMAIN cd THEN IKeys(t, o, c) ELSE {}
       /\ {m \in All(t, c) : o[m].state = "ok"} # {} /\ Id(c) \notin DOMAIN cd =>
            UndefIn(t, mis, o, Id(c))

DefResult(t, mis, o, c, out, ans) ==
  /\ c.op = "get_cd" =>
       IF out = "ok" THEN {ans} = DefIn(t, Id(c)) ELSE UndefIn(t, mis, o, Id(c))
  /\ c.op = "get_cd_buf" =>
       IF out = "ok" THEN {ans} = OwnIn(t, Id(c)) ELSE Failed(t, mis, o, c)

Result(t, mis, o, cd, ih, c, out, ans, li) ==
  /\ DefResult(t, mis, o, c, out, ans)
  /\ c.op = "get_ci" => InstanceResult(t, mis, o, ih, c, out, ans)
  /\ c.op = "instances" => ListResult(t, mis, o, cd, c, out, li)

-----------------------------------------------------------------------------
LEMMA ListSize ==
  ASSUME NEW t \in Trees, NEW q, NEW ms, ListRight(t, q, ms)
  PROVE  /\ Len(ms) \in Nat
         /\ Len(ms) = 1 => Wanted(t, q) = {ms[1]} /\ Cardinality(Wanted(t, q)) = 1
         /\ Len(ms) # 1 => Cardinality(Wanted(t, q)) # 1
         /\ Len(ms) = 0 <=> Wanted(t, q) = {}
         /\ ms = <<>> <=> Wanted(t, q) = {}
<1>1. /\ ms \in Seq(Int) /\ In(ms) = Wanted(t, q)
      /\ \A k \in In(ms) : TimesIn(ms, k) = Cardinality(SUBSET Doubled(t, q, k))
  BY DEF ListRight
<1>2. PICK W : W = Wanted(t, q)
  OBVIOUS
<1>3. PICK n \in Nat : n = Len(ms)
  BY <1>1
<1>4. W = {ms[i] : i \in 1 .. n}
  BY <1>1, <1>2, <1>3 DEF In
<1>5. n = 1 => W = {ms[1]} /\ Cardinality(W) = 1
  <2>1. SUFFICES ASSUME n = 1 PROVE W = {ms[1]} /\ Cardinality(W) = 1
    OBVIOUS
  <2>2. 1 .. n = {1}
    BY <2>1
  <2>3. W = {ms[1]}
    BY <2>2, <1>4
  <2>4. QED BY <2>3, FS_Singleton
<1>6. ASSUME Cardinality(W) = 1 PROVE n = 1
  <2>1. IsFiniteSet(W)
    <3>1. ms \in Seq(W)
      BY <1>1, <1>3, <1>4
    <3>2. \A s \in W : \E i \in 1 .. Len(ms) : ms[i] = s
      BY <1>3, <1>4
    <3>3. QED BY <3>1, <3>2 DEF IsFiniteSet
  <2>2. PICK k : W = {k}
    BY <2>1, <1>6, FS_Singleton
  <2>3. \A i \in 1 .. n : ms[i] = k
    BY <2>2, <1>4
  <2>4. {i \in DOMAIN ms : ms[i] = k} = 1 .. n
    BY <2>3, <1>1, <1>3
  <2>5. Cardinality(1 .. n) = n
    <3>1. Cardinality(1 .. n) = IF 1 > n THEN 0 ELSE n - 1 + 1
      BY FS_Interval
    <3>2. QED BY <3>1
  <2>6. TimesIn(ms, k) = n
    BY <2>4, <2>5 DEF TimesIn
  <2>7. Doubled(t, q, k) = {}
    <3>1. ASSUME NEW p \in Doubled(t, q, k) PROVE FALSE
      <4>1. PICK i \in 1 .. Len(t.keys[p]) - 1 :
              t.keys[p][i] < k /\ Matches(t.keys[p][i], q)
        BY DEF Doubled
      <4>2. p \in t.pages /\ i \in 1 .. Len(t.keys[p])
        BY <4>1, PageFacts DEF Doubled
      <4>3. t.keys[p][i] \in Int /\ t.keys[p][i] \in t.all
        BY <4>2, PageFacts DEF Under
      <4>4. t.keys[p][i] \in W
        BY <4>1, <4>3, <1>2 DEF Wanted
      <4>5. t.keys[p][i] = k
        BY <4>4, <2>2
      <4>6. QED BY <4>1, <4>3, <4>5
    <3>2. QED BY <3>1
  <2>8. SUBSET Doubled(t, q, k) = {{}}
    BY <2>7
  <2>9. Cardinality(SUBSET Doubled(t, q, k)) = 1
    BY <2>8, FS_Singleton
  <2>10. k \in In(ms)
    BY <2>2, <1>1, <1>2
  <2>11. QED BY <2>6, <2>9, <2>10, <1>1
<1>7. n = 0 <=> W = {}
  <2>1. n # 0 => 1 \in 1 .. n
    OBVIOUS
  <2>2. n = 0 => 1 .. n = {}
    OBVIOUS
  <2>3. QED BY <2>1, <2>2, <1>4
<1>8. n = 0 <=> ms = <<>>
  BY <1>1, <1>3
<1>9. QED BY <1>2, <1>3, <1>5, <1>6, <1>7, <1>8

(* A class that is defined by the key looked up.                           *)
LEMMA ClassFound ==
  ASSUME NEW t \in Trees, NEW mis, NEW o, NEW c, NEW q, NEW ms,
         ObjectPhase(t, mis, c, q), ListRight(t, q, ms), ~ BlockedIn(t, mis, q), Len(ms) = 1,
         c.op # "get_cd_buf", o[ms[1]].state = "ok"
  PROVE  DefIn(t, Id(c)) = {ms[1]} /\ ~ UndefIn(t, mis, o, Id(c))
<1>1. Id(c)[1] = c.ns /\ Id(c)[2] = c.class
  BY DEF Id
<1>2. PICK id : id = Id(c)
  OBVIOUS
<1>3. Wanted(t, q) = {ms[1]} /\ Cardinality(Wanted(t, q)) = 1
  BY ListSize
<1>4. DefIn(t, id) = Wanted(t, q)
  BY <1>1, <1>2 DEF ObjectPhase, DefIn, OwnIn
<1>5. ~ BlockedIn(t, mis, CD(id[1], id[2]))
  BY <1>1, <1>2 DEF ObjectPhase
<1>6. OwnIn(t, id) = {} => ~ BlockedIn(t, mis, CD(System, id[2]))
  BY <1>1, <1>2 DEF ObjectPhase
<1>7. QED BY <1>2, <1>3, <1>4, <1>5, <1>6 DEF UndefIn

LEMMA BufferFound ==
  ASSUME NEW t \in Trees, NEW mis, NEW c, NEW q, NEW ms,
         ObjectPhase(t, mis, c, q), ListRight(t, q, ms), Len(ms) = 1, c.op = "get_cd_buf"
  PROVE  OwnIn(t, Id(c)) = {ms[1]}
<1>1. Id(c)[1] = c.ns /\ Id(c)[2] = c.class
  BY DEF Id
<1>2. Wanted(t, q) = {ms[1]}
  BY ListSize
<1>3. QED BY <1>1, <1>2 DEF ObjectPhase, OwnIn

(* A class that is not.                                                    *)
LEMMA ClassRefused ==
  ASSUME NEW t \in Trees, NEW mis, NEW o, NEW c, NEW q, NEW ms,
         ObjectPhase(t, mis, c, q), ListRight(t, q, ms),
         Len(ms) # 1 \/ o[ms[1]].state # "ok"
  PROVE  Failed(t, mis, o, c)
<1>1. Id(c)[1] = c.ns /\ Id(c)[2] = c.class
  BY DEF Id
<1>2. PICK id : id = Id(c)
  OBVIOUS
<1>3. Len(ms) # 1 => Cardinality(Wanted(t, q)) # 1
  BY ListSize
<1>4. Len(ms) = 1 => ms[1] \in Wanted(t, q)
  BY ListSize
<1>5. DefIn(t, id) = Wanted(t, q) \/ (c.op = "get_cd_buf" /\ OwnIn(t, id) = {})
  BY <1>1, <1>2 DEF ObjectPhase, DefIn, OwnIn
<1>6. QED BY <1>2, <1>3, <1>4, <1>5 DEF Failed, UndefIn

LEMMA ClassBlocked ==
  ASSUME NEW t, NEW mis, NEW o, NEW c, NEW q, BlockedIn(t, mis, q),
         OwnPhase(c, q) \/ ObjectPhase(t, mis, c, q)
  PROVE  Failed(t, mis, o, c)
<1>1. Id(c)[1] = c.ns /\ Id(c)[2] = c.class
  BY DEF Id
<1>2. PICK id : id = Id(c)
  OBVIOUS
<1>3. BlockedIn(t, mis, CD(id[1], id[2]))
      \/ (OwnIn(t, id) = {} /\ BlockedIn(t, mis, CD(System, id[2])))
  BY <1>1, <1>2 DEF OwnPhase, ObjectPhase
<1>4. QED BY <1>2, <1>3 DEF Failed, UndefIn

LEMMA ClassMany ==
  ASSUME NEW t \in Trees, NEW mis, NEW o, NEW c, NEW q, NEW ms,
         OwnPhase(c, q), ListRight(t, q, ms), Len(ms) > 1
  PROVE  Failed(t, mis, o, c)
<1>1. Id(c)[1] = c.ns /\ Id(c)[2] = c.class
  BY DEF Id
<1>2. PICK id : id = Id(c)
  OBVIOUS
<1>3. PICK n \in Nat : n = Len(ms)
  BY ListSize
<1>4. Len(ms) # 1 /\ Len(ms) # 0
  BY <1>3
<1>5. Cardinality(Wanted(t, q)) # 1 /\ Wanted(t, q) # {}
  BY <1>4, ListSize
<1>6. DefIn(t, id) = Wanted(t, q)
  BY <1>1, <1>2, <1>5 DEF OwnPhase, DefIn, OwnIn
<1>7. QED BY <1>2, <1>5, <1>6 DEF Failed, UndefIn
-----------------------------------------------------------------------------
LEMMA DropFirst ==
  ASSUME NEW r \in Seq(Int), r # <<>>, NEW v, v = Tail(r)
  PROVE  /\ v \in Seq(Int) /\ r[1] \in Int /\ r[1] \in In(r)
         /\ In(r) = {r[1]} \union In(v)
         /\ DOMAIN r = 1 .. Len(v) + 1 /\ DOMAIN v = 1 .. Len(v) /\ Len(v) \in Nat
         /\ \A i \in 1 .. Len(v) : v[i] = r[i + 1]
<1>1. PICK n \in Nat : n = Len(v)
  OBVIOUS
<1>2. v \in Seq(Int) /\ Len(r) = n + 1 /\ \A i \in 1 .. n : v[i] = r[i + 1]
  BY <1>1
<1>3. DOMAIN r = 1 .. n + 1 /\ DOMAIN v = 1 .. n
  BY <1>1, <1>2
<1>4. 1 \in DOMAIN r
  BY <1>3
<1>5. \A i \in 1 .. n + 1 : i = 1 \/ \E j \in 1 .. n : i = j + 1
  <2>1. ASSUME NEW i \in 1 .. n + 1, i # 1 PROVE i - 1 \in 1 .. n /\ i = (i - 1) + 1
    BY <2>1
  <2>2. QED BY <2>1
<1>6. \A j \in 1 .. n : j + 1 \in 1 .. n + 1
  OBVIOUS
<1>7. In(r) = {r[1]} \union In(v)
  <2>1. ASSUME NEW i \in 1 .. n + 1 PROVE r[i] = r[1] \/ r[i] \in In(v)
    <3>1. CASE i = 1
      BY <3>1
    <3>2. CASE i # 1
      <4>1. PICK j \in 1 .. n : i = j + 1
        BY <3>2, <1>5
      <4>2. r[i] = v[j]
        BY <4>1, <1>2
      <4>3. QED BY <4>2, <1>3 DEF In
    <3>3. QED BY <3>1, <3>2
  <2>2. ASSUME NEW j \in 1 .. n PROVE v[j] \in In(r)
    <3>1. v[j] = r[j + 1] /\ j + 1 \in DOMAIN r
      BY <1>2, <1>3, <1>6
    <3>2. QED BY <3>1 DEF In
  <2>3. r[1] \in In(r)
    BY <1>4 DEF In
  <2>4. \A y \in In(r) : y = r[1] \/ y \in In(v)
    BY <2>1, <1>3 DEF In
  <2>5. \A y \in In(v) : y \in In(r)
    BY <2>2, <1>3 DEF In
  <2>6. QED BY <2>3, <2>4, <2>5
<1>8. r[1] \in Int
  BY <1>4
<1>9. QED BY <1>1, <1>2, <1>3, <1>7, <1>8

(* get_ci: the query has the instances asked for, unless the hash is that  *)
(* of another class.                                                       *)
LEMMA HashQuery ==
  ASSUME NEW t \in Trees, NEW mis, mis \subseteq t.pages, NEW o \in Objects[t], NEW c \in Calls[t],
         c.op = "get_ci", NEW ih, HashOK(t, o, ih), NEW q, q = QueryOf(ih, c)
  PROVE  /\ PrefixIn(t, q) /\ Wanted(t, q) \subseteq All(t, c)
         /\ \/ Foreign(ih, c)
            \/ /\ \A k \in All(t, c) : Mine(o, c, k) => k \in Wanted(t, q)
               /\ BlockedIn(t, mis, q) => BlockedIn(t, mis, CI(c.ns, c.class))
<1>1. CASE c.ikey \notin DOMAIN ih
  <2>1. q = CI(c.ns, c.class)
    BY <1>1 DEF QueryOf
  <2>2. PrefixIn(t, q)
    BY <2>1, CallsAssumption
  <2>3. QED BY <2>1, <2>2 DEF All
<1>2. CASE c.ikey \in DOMAIN ih
  <2>1. Hashed(t, o, c.ns, c.class)
    BY ObjectsAssumption
  <2>2. PICK e, x : e = ih[c.ikey] /\ x = c.ikey
    OBVIOUS
  <2>3. PICK k \in Wanted(t, CI(e.by[1], e.by[2])) :
          o[k].state = "ok" /\ o[k].ikey = x /\ o[k].hash = e.hash
    BY <1>2, <2>2 DEF HashOK
  <2>4. k \in t.all
    BY DEF Wanted
  <2>5. q = IL(c.ns, c.class, o[k].hash)
    BY <1>2, <2>2, <2>3 DEF QueryOf
  <2>6. PICK all : all = CI(c.ns, c.class)
    OBVIOUS
  <2>7. PrefixIn(t, q) /\ Wanted(t, q) \subseteq Wanted(t, all)
    BY <2>1, <2>4, <2>5, <2>6 DEF Hashed
  <2>8. ASSUME ~ Foreign(ih, c)
        PROVE  /\ \A m \in All(t, c) : Mine(o, c, m) => m \in Wanted(t, q)
               /\ BlockedIn(t, mis, q) => BlockedIn(t, mis, all)
    <3>1. e.by = Id(c)
      BY <2>8, <1>2, <2>2 DEF Foreign
    <3>2. k \in Wanted(t, all)
      <4>1. Id(c)[1] = c.ns /\ Id(c)[2] = c.class
        BY DEF Id
      <4>2. QED BY <4>1, <3>1, <2>3, <2>6
    <3>3. ASSUME NEW m \in Wanted(t, all), Mine(o, c, m) PROVE m \in Wanted(t, q)
      <4>1. o[m].state = "ok" /\ o[m].ikey = o[k].ikey
        BY <3>3, <2>2, <2>3 DEF Mine
      <4>2. o[m].hash = o[k].hash
        BY <4>1, <3>2, <2>1, <2>3, <2>6 DEF Hashed
      <4>3. Wanted(t, q) = {y \in Wanted(t, all) : o[y].hash = o[k].hash}
        BY <3>2, <2>1, <2>5, <2>6 DEF Hashed
      <4>4. QED BY <4>2, <4>3
    <3>4. all.lo <= q.lo /\ q.hi <= all.hi
      BY <3>2, <2>1, <2>5, <2>6 DEF Hashed
    <3>5. ASSUME NEW p \in mis, Leads(t, p, q) PROVE Leads(t, p, all)
      <4>1. t.lo[p] \in Int /\ t.hi[p] \in Int
        BY PageFacts
      <4>2. q.lo \in Int /\ q.hi \in Int /\ all.lo \in Int /\ all.hi \in Int
        BY <2>6, <2>7, CallsAssumption DEF PrefixIn
      <4>3. QED BY <3>4, <3>5, <4>1, <4>2 DEF Leads
    <3>6. QED BY <2>6, <3>3, <3>5 DEF All, BlockedIn
  <2>9. QED BY <2>6, <2>7, <2>8 DEF All
<1>3. QED BY <1>1, <1>2

LEMMA RemainingStarts ==
  ASSUME NEW t, NEW o, NEW c, NEW q, NEW ms, ListRight(t, q, ms)
  PROVE  Remaining(t, o, c, q, ms)
  BY DEF ListRight, Remaining, FirstSeen

LEMMA RemainingDrops ==
  ASSUME NEW t \in Trees, NEW o, NEW c, NEW q, NEW r, Remaining(t, o, c, q, r), r # <<>>,
         ~ Mine(o, c, r[1]), NEW v, v = Tail(r)
  PROVE  Remaining(t, o, c, q, v)
<1>1. r \in Seq(Int) /\ In(r) \subseteq Wanted(t, q)
  BY DEF Remaining
<1>2. PICK n \in Nat : n = Len(v)
  BY <1>1, DropFirst
<1>3. /\ v \in Seq(Int) /\ In(r) = {r[1]} \union In(v)
      /\ DOMAIN r = 1 .. n + 1 /\ DOMAIN v = 1 .. n
      /\ \A i \in 1 .. n : v[i] = r[i + 1]
  BY <1>1, <1>2, DropFirst
<1>4. \A k \in Wanted(t, q) : Mine(o, c, k) => k \in In(v)
  BY <1>3 DEF Remaining
<1>5. ASSUME NEW i \in 1 .. n, NEW k \in Wanted(t, q), k < v[i], Mine(o, c, k)
      PROVE  \E j \in 1 .. i - 1 : v[j] = k
  <2>1. PICK m \in 2 .. n + 1 : m = i + 1
    OBVIOUS
  <2>2. m \in DOMAIN r /\ k < r[m]
    BY <2>1, <1>3, <1>5
  <2>3. PICK j \in 1 .. m - 1 : r[j] = k
    BY <2>2, <1>5 DEF Remaining
  <2>4. j # 1
    BY <2>3, <1>5
  <2>5. PICK l \in 1 .. i - 1 : l + 1 = j
    <3>1. j - 1 \in 1 .. i - 1 /\ (j - 1) + 1 = j
      BY <2>1, <2>4
    <3>2. QED BY <3>1
  <2>6. l \in 1 .. n
    OBVIOUS
  <2>7. v[l] = k
    BY <2>3, <2>5, <2>6, <1>3
  <2>8. QED BY <2>7
<1>6. QED BY <1>1, <1>3, <1>4, <1>5 DEF Remaining

(* get_ci ends.                                                            *)
LEMMA InstanceTaken ==
  ASSUME NEW t \in Trees, NEW mis, NEW o, NEW c, NEW ih, NEW q, Wanted(t, q) \subseteq All(t, c),
         NEW r, Remaining(t, o, c, q, r), r # <<>>, Mine(o, c, r[1])
  PROVE  InstanceResult(t, mis, o, ih, c, "ok", r[1])
<1>1. r[1] \in In(r)
  BY DropFirst DEF Remaining
<1>2. QED BY <1>1 DEF Remaining, InstanceResult

LEMMA InstanceMissed ==
  ASSUME NEW t, NEW mis, NEW o, NEW c, NEW ih, NEW q, NEW r, NEW ans,
         Remaining(t, o, c, q, r), r = <<>>,
         Foreign(ih, c) \/ \A k \in All(t, c) : Mine(o, c, k) => k \in Wanted(t, q)
  PROVE  InstanceResult(t, mis, o, ih, c, "raised", ans)
<1>1. In(r) = {}
  BY DEF In
<1>2. Foreign(ih, c) \/ {k \in All(t, c) : Mine(o, c, k)} = {}
  BY <1>1 DEF Remaining
<1>3. QED BY <1>2 DEF InstanceResult

LEMMA InstanceLost ==
  ASSUME NEW t \in Trees, NEW mis, NEW o, NEW c, NEW ih, NEW q, NEW r, NEW ans,
         Remaining(t, o, c, q, r), r # <<>>, o[r[1]].state \in {"lost", "garbled"},
         Wanted(t, q) \subseteq All(t, c),
         Foreign(ih, c) \/ \A k \in All(t, c) : Mine(o, c, k) => k \in Wanted(t, q)
  PROVE  InstanceResult(t, mis, o, ih, c, "raised", ans)
<1>1. PICK x : x = r[1]
  OBVIOUS
<1>2. r \in Seq(Int) /\ x \in Int /\ x \in In(r) /\ 1 \in DOMAIN r
  <2>1. PICK v : v = Tail(r)
    OBVIOUS
  <2>2. r \in Seq(Int)
    BY DEF Remaining
  <2>3. r[1] \in Int /\ r[1] \in In(r) /\ DOMAIN r = 1 .. Len(v) + 1 /\ Len(v) \in Nat
    BY <2>1, <2>2, DropFirst
  <2>4. 1 \in DOMAIN r
    BY <2>3
  <2>5. QED BY <2>2, <2>3, <2>4, <1>1
<1>3. x \in All(t, c)
  BY <1>2 DEF Remaining
<1>4. ASSUME ~ Foreign(ih, c), NEW m \in All(t, c), Mine(o, c, m) PROVE x < m
  <2>1. m \in Wanted(t, q)
    BY <1>4
  <2>2. m # x
    BY <1>1, <1>4 DEF Mine
  <2>3. 1 .. 1 - 1 = {}
    OBVIOUS
  <2>4. ~ m < x
    BY <2>1, <2>3, <1>1, <1>2, <1>4 DEF Remaining
  <2>5. m \in Int
    BY KeysAreInt DEF All, Wanted
  <2>6. QED BY <2>2, <2>4, <2>5, <1>2
<1>5. QED BY <1>1, <1>3, <1>4 DEF InstanceResult

LEMMA InstanceBlocked ==
  ASSUME NEW t, NEW mis, NEW o, NEW c, NEW ih, NEW ans,
         UndefIn(t, mis, o, Id(c)) \/ Foreign(ih, c) \/ BlockedIn(t, mis, CI(c.ns, c.class))
  PROVE  InstanceResult(t, mis, o, ih, c, "raised", ans)
  BY DEF InstanceResult

-----------------------------------------------------------------------------
(* instances.                                                              *)
LEMMA ListingStarts ==
  ASSUME NEW t, NEW mis, NEW o, NEW cd, NEW c, NEW q, q = CI(c.ns, c.class),
         NEW ms, ListRight(t, q, ms)
  PROVE  Listing(t, mis, o, cd, c, ms, <<>>)
<1>1. ms \in Seq(Int) /\ In(ms) = All(t, c)
  BY DEF ListRight, All
<1>2. <<>> \in Seq(IKeys(t, o, c)) /\ IsInjective(<<>>)
  BY DEF IsInjective
<1>3. QED BY <1>1, <1>2 DEF Listing

(* An object that is not listed, for a good reason.                        *)
LEMMA ListingDrops ==
  ASSUME NEW t \in Trees, NEW mis, NEW o, NEW cd, NEW c, NEW r, NEW li,
         Listing(t, mis, o, cd, c, r, li), r # <<>>,
         o[r[1]].state = "ok" => UndefIn(t, mis, o, Id(c)), NEW v, v = Tail(r)
  PROVE  Listing(t, mis, o, cd, c, v, li)
<1>1. v \in Seq(Int) /\ In(r) = {r[1]} \union In(v)
  BY DropFirst DEF Listing
<1>2. QED BY <1>1 DEF Listing

LEMMA ListingAdds ==
  ASSUME NEW t \in Trees, NEW mis, NEW o, NEW cd, NEW c, NEW r, NEW li,
         Listing(t, mis, o, cd, c, r, li), r # <<>>, Id(c) \in DOMAIN cd, o[r[1]].state = "ok",
         NEW v, v = Tail(r), NEW y, y = o[r[1]].ikey,
         NEW lj, lj = IF y \in In(li) THEN li ELSE Append(li, y)
  PROVE  Listing(t, mis, o, cd, c, v, lj)
<1>1. v \in Seq(Int) /\ r[1] \in In(r) /\ In(r) = {r[1]} \union In(v)
  BY DropFirst DEF Listing
<1>2. PICK S : S = IKeys(t, o, c)
  OBVIOUS
<1>3. y \in S
  BY <1>1, <1>2 DEF Listing, IKeys
<1>4. li \in Seq(S) /\ IsInjective(li)
  BY <1>2 DEF Listing
<1>5. lj \in Seq(S) /\ In(lj) = In(li) \union {y} /\ IsInjective(lj)
  <2>1. CASE y \in In(li)
    BY <2>1, <1>4
  <2>2. CASE y \notin In(li)
    <3>1. PICK n \in Nat : n = Len(li)
      BY <1>4
    <3>2. lj = Append(li, y)
      BY <2>2
    <3>3. DOMAIN li = 1 .. n /\ DOMAIN lj = 1 .. n + 1 /\ lj[n + 1] = y
          /\ (\A i \in 1 .. n : lj[i] = li[i]) /\ lj \in Seq(S)
      BY <3>1, <3>2, <1>3, <1>4
    <3>4. 1 .. n + 1 = (1 .. n) \union {n + 1}
      OBVIOUS
    <3>5. In(lj) = In(li) \union {y}
      BY <3>3, <3>4 DEF In
    <3>6. \A i \in 1 .. n : li[i] # y
      BY <2>2, <3>3 DEF In
    <3>7. IsInjective(lj)
      BY <3>3, <3>4, <3>6, <1>4 DEF IsInjective
    <3>8. QED BY <3>3, <3>5, <3>7
  <2>3. QED BY <2>1, <2>2
<1>6. QED BY <1>1, <1>2, <1>5 DEF Listing

LEMMA ListingDefined ==
  ASSUME NEW t, NEW mis, NEW o, NEW cd, NEW c, NEW r, NEW li, Listing(t, mis, o, cd, c, r, li),
         NEW ce, Id(c) \in DOMAIN ce
  PROVE  Listing(t, mis, o, ce, c, r, li)
  BY DEF Listing

LEMMA ListingEnds ==
  ASSUME NEW t, NEW mis, NEW o, NEW cd, NEW c, NEW r, NEW li, Listing(t, mis, o, cd, c, r, li),
         r = <<>>, CdsOK(t, mis, o, cd)
  PROVE  ListResult(t, mis, o, cd, c, "ok", li)
<1>1. In(r) = {} /\ In(<<>>) = {}
  BY DEF In
<1>2. PICK id : id = Id(c)
  OBVIOUS
<1>3. \A k \in All(t, c) : o[k].state = "ok" => o[k].ikey \in In(li) \/ UndefIn(t, mis, o, id)
  BY <1>1, <1>2 DEF Listing
<1>4. In(li) \subseteq IKeys(t, o, c)
  <2>1. PICK S : S = IKeys(t, o, c)
    OBVIOUS
  <2>2. li \in Seq(S)
    BY <2>1 DEF Listing
  <2>3. QED BY <2>1, <2>2 DEF In
<1>5. CASE id \in DOMAIN cd
  <2>1. ~ UndefIn(t, mis, o, id)
    BY <1>5 DEF CdsOK
  <2>2. IKeys(t, o, c) \subseteq In(li)
    BY <2>1, <1>3 DEF IKeys
  <2>3. QED BY <2>2, <1>2, <1>4, <1>5 DEF ListResult, Listing
<1>6. CASE id \notin DOMAIN cd
  <2>1. In(li) = {}
    BY <1>1, <1>2, <1>6 DEF Listing
  <2>2. {m \in All(t, c) : o[m].state = "ok"} # {} => UndefIn(t, mis, o, id)
    BY <2>1, <1>3
  <2>3. QED BY <2>1, <2>2, <1>2, <1>6 DEF ListResult, Listing
<1>7. QED BY <1>5, <1>6

LEMMA ListingLost ==
  ASSUME NEW t \in Trees, NEW mis, NEW o, NEW cd, NEW c, NEW r, NEW li,
         Listing(t, mis, o, cd, c, r, li), r # <<>>, o[r[1]].state = "lost"
  PROVE  ListResult(t, mis, o, cd, c, "raised", li)
<1>1. r[1] \in In(r)
  BY DropFirst DEF Listing
<1>2. QED BY <1>1 DEF ListResult, Listing

LEMMA ListingBlocked ==
  ASSUME NEW t, NEW mis, NEW o, NEW cd, NEW c, BlockedIn(t, mis, CI(c.ns, c.class))
  PROVE  ListResult(t, mis, o, cd, c, "raised", <<>>)
  BY DEF ListResult, IsInjective
-----------------------------------------------------------------------------
(* The calls.                                                              *)
PhaseOK(t, mis, o, ph, c, q, r, cd, ih, li) ==
  /\ ph = "own" => OwnPhase(c, q)
  /\ ph = "object" => ObjectPhase(t, mis, c, q)
  /\ ph = "keys" => KeysPhase(ih, c, q) /\ (c.op = "instances" => li = <<>>)
  /\ ph = "each" => EachPhase(ih, c, q) /\ (c.op = "get_ci" => Remaining(t, o, c, q, r))
  /\ ph \in {"own", "object"} /\ c.op = "instances" => r # <<>>
  /\ ph \in {"own", "object", "each"} /\ c.op = "instances" => Listing(t, mis, o, cd, c, r, li)

CallInv ==
  /\ objects \in Objects[tree]
  /\ phase \in {"idle", "own", "object", "keys", "each"}
  /\ phase # "idle" => call \in Calls[tree]
  /\ CdsOK(tree, missing, objects, cds)
  /\ HashOK(tree, objects, ihashcache)
  /\ PhaseOK(tree, missing, objects, phase, call, query, refs, cds, ihashcache, listed)
  /\ phase = "idle" /\ made > 0 =>
       Result(tree, missing, objects, cds, ihashcache, call, outcome, answer, listed)

ResolverInv == LookupInv /\ CallInv

Same == tree' = tree /\ missing' = missing /\ objects' = objects

LEMMA ToPhase ==
  ASSUME CallInv, Same, LookupInv', call' \in Calls[tree],
         phase' \in {"own", "object", "keys", "each"},
         CdsOK(tree, missing, objects, cds'), HashOK(tree, objects, ihashcache'),
         PhaseOK(tree, missing, objects, phase', call', query', refs', cds', ihashcache', listed')
  PROVE  ResolverInv'
<1>1. tree' = tree /\ missing' = missing /\ objects' = objects
  BY DEF Same
<1>2. CdsOK(tree', missing', objects', cds') /\ HashOK(tree', objects', ihashcache')
      /\ PhaseOK(tree', missing', objects', phase', call', query', refs', cds', ihashcache', listed')
  BY <1>1
<1>3. objects' \in Objects[tree'] /\ call' \in Calls[tree'] /\ phase' # "idle"
  BY <1>1 DEF CallInv
<1>4. QED BY <1>2, <1>3 DEF ResolverInv, CallInv

LEMMA ToIdle ==
  ASSUME CallInv, Same, LookupInv', phase' = "idle",
         CdsOK(tree, missing, objects, cds'), HashOK(tree, objects, ihashcache'),
         Result(tree, missing, objects, cds', ihashcache', call', outcome', answer', listed')
  PROVE  ResolverInv'
<1>1. tree' = tree /\ missing' = missing /\ objects' = objects
  BY DEF Same
<1>2. CdsOK(tree', missing', objects', cds') /\ HashOK(tree', objects', ihashcache')
      /\ Result(tree', missing', objects', cds', ihashcache', call', outcome', answer', listed')
  BY <1>1
<1>3. objects' \in Objects[tree']
  BY <1>1 DEF CallInv
<1>4. PhaseOK(tree', missing', objects', phase', call', query', refs', cds', ihashcache', listed')
  BY DEF PhaseOK
<1>5. QED BY <1>2, <1>3, <1>4 DEF ResolverInv, CallInv

LEMMA ResolverStarts == ResolverInit => ResolverInv
<1> SUFFICES ASSUME ResolverInit PROVE ResolverInv
  OBVIOUS
<1>1. LookupInv
  BY LookupStarts DEF ResolverInit
<1>2. DOMAIN cds = {} /\ DOMAIN ihashcache = {} /\ phase = "idle" /\ made = 0
      /\ objects \in Objects[tree]
  BY DEF ResolverInit, Empty
<1>3. CdsOK(tree, missing, objects, cds) /\ HashOK(tree, objects, ihashcache)
  BY <1>2 DEF CdsOK, HashOK
<1>4. PhaseOK(tree, missing, objects, phase, call, query, refs, cds, ihashcache, listed)
  BY <1>2 DEF PhaseOK
<1>5. QED BY <1>1, <1>2, <1>3, <1>4 DEF ResolverInv, CallInv

LEMMA ResolverStays ==
  ASSUME ResolverInv, UNCHANGED <<lookupVars, resolverVars>>
  PROVE  ResolverInv'
<1>1. LookupInv'
  BY LookupStays DEF ResolverInv
<1>2. tree' = tree /\ missing' = missing /\ query' = query /\ objects' = objects
      /\ made' = made /\ call' = call /\ phase' = phase /\ refs' = refs /\ cds' = cds
      /\ ihashcache' = ihashcache /\ listed' = listed /\ outcome' = outcome /\ answer' = answer
  BY DEF lookupVars, resolverVars
<1>3. CallInv'
  BY <1>2 DEF ResolverInv, CallInv
<1>4. QED BY <1>1, <1>3 DEF ResolverInv

(* A lookup is begun, with a prefix of the call.                           *)
LEMMA NextQuery ==
  ASSUME ResolverInv, NEW q, PrefixIn(tree, q), NEW ph, Query(q, ph)
  PROVE  LookupInv' /\ query' = q /\ phase' = ph /\ tree' = tree /\ missing' = missing
<1>1. LookupKeys(q) /\ phase' = ph
  BY DEF Query
<1>2. LookupInv'
  BY <1>1, LookupBegins DEF ResolverInv
<1>3. QED BY <1>1, <1>2 DEF LookupKeys

LEMMA CallTypes ==
  ASSUME NEW t \in Trees, NEW c \in Calls[t]
  PROVE  /\ c.op \in {"get_keys", "get_cd", "get_cd_buf", "get_ci", "instances"}
         /\ c.op = "get_keys" => PrefixIn(t, c.query)
         /\ c.op # "get_keys" =>
              /\ PrefixIn(t, CD(c.ns, c.class)) /\ PrefixIn(t, CD(System, c.class))
              /\ PrefixIn(t, CI(c.ns, c.class))
  BY CallsAssumption

LEMMA CallBegins ==
  ASSUME ResolverInv, GetKeys \/ GetDefinition \/ GetInstance \/ Instances
  PROVE  ResolverInv'
<1>1. tree \in Trees /\ missing \subseteq tree.pages /\ objects \in Objects[tree]
  BY FaultsAssumption DEF ResolverInv, LookupInv, CallInv
<1>2. ASSUME NEW c \in Calls[tree], Begin, call' = c, NEW q, PrefixIn(tree, q), NEW ph,
             ph \in {"own", "keys"}, Query(q, ph),
             ph = "own" => OwnPhase(c, q) /\ c.op # "instances",
             ph = "keys" => KeysPhase(ihashcache, c, q)
      PROVE  ResolverInv'
  <2>1. LookupInv' /\ query' = q /\ phase' = ph /\ tree' = tree /\ missing' = missing
    BY <1>2, NextQuery
  <2>2. objects' = objects /\ refs' = refs /\ cds' = cds /\ ihashcache' = ihashcache
        /\ listed' = <<>>
    BY <1>2 DEF Begin
  <2>3. PhaseOK(tree, missing, objects, ph, c, q, refs, cds, ihashcache, <<>>)
    BY <1>2 DEF PhaseOK
  <2>4. PhaseOK(tree, missing, objects, phase', call', query', refs', cds', ihashcache', listed')
    BY <2>1, <2>2, <2>3, <1>2
  <2>5. CdsOK(tree, missing, objects, cds') /\ HashOK(tree, objects, ihashcache')
    BY <2>2 DEF ResolverInv, CallInv
  <2>6. Same /\ CallInv /\ call' \in Calls[tree] /\ phase' \in {"own", "object", "keys", "each"}
    BY <2>1, <2>2, <1>2 DEF Same, ResolverInv
  <2>7. QED BY <2>1, <2>4, <2>5, <2>6, ToPhase
<1>3. CASE GetKeys
  <2>1. PICK c \in Calls[tree] : c.op = "get_keys" /\ Begin /\ call' = c /\ Query(c.query, "keys")
    BY <1>3 DEF GetKeys
  <2>2. PICK q : q = c.query
    OBVIOUS
  <2>3. PrefixIn(tree, q) /\ KeysPhase(ihashcache, c, q)
    BY <2>1, <2>2, <1>1, CallTypes DEF KeysPhase
  <2>4. QED BY <2>1, <2>2, <2>3, <1>2
<1>4. CASE GetDefinition
  <2>1. PICK c \in Calls[tree] : /\ c.op \in {"get_cd_buf", "get_cd", "get_ci"}
                                 /\ Begin /\ call' = c /\ Query(CD(c.ns, c.class), "own")
    BY <1>4 DEF GetDefinition
  <2>2. PICK q : q = CD(c.ns, c.class)
    OBVIOUS
  <2>3. PrefixIn(tree, q) /\ OwnPhase(c, q) /\ c.op # "instances"
    BY <2>1, <2>2, <1>1, CallTypes DEF OwnPhase
  <2>4. QED BY <2>1, <2>2, <2>3, <1>2
<1>5. CASE GetInstance
  <2>1. PICK c \in Calls[tree] : c.op = "get_ci" /\ Begin /\ call' = c
                                 /\ Query(InstanceQuery(c), "keys")
    BY <1>5 DEF GetInstance
  <2>2. PICK q : q = InstanceQuery(c)
    OBVIOUS
  <2>3. PICK t, mis, o, ih : t = tree /\ mis = missing /\ o = objects /\ ih = ihashcache
    OBVIOUS
  <2>4. q = QueryOf(ih, c)
    BY <2>2, <2>3 DEF InstanceQuery, QueryOf
  <2>5. HashOK(t, o, ih) /\ t \in Trees /\ mis \subseteq t.pages /\ o \in Objects[t] /\ c \in Calls[t]
    BY <2>3, <1>1 DEF ResolverInv, CallInv
  <2>6. PrefixIn(t, q)
    BY <2>1, <2>4, <2>5, HashQuery
  <2>7. KeysPhase(ihashcache, c, q) /\ PrefixIn(tree, q)
    BY <2>1, <2>3, <2>4, <2>6 DEF KeysPhase
  <2>8. QED BY <2>1, <2>2, <2>7, <1>2
<1>6. CASE Instances
  <2>1. PICK c \in Calls[tree] : c.op = "instances" /\ Begin /\ call' = c
                                 /\ Query(CI(c.ns, c.class), "keys")
    BY <1>6 DEF Instances
  <2>2. PICK q : q = CI(c.ns, c.class)
    OBVIOUS
  <2>3. PrefixIn(tree, q) /\ KeysPhase(ihashcache, c, q)
    BY <2>1, <2>2, <1>1, CallTypes DEF KeysPhase
  <2>4. QED BY <2>1, <2>2, <2>3, <1>2
<1>7. QED BY <1>3, <1>4, <1>5, <1>6

LEMMA CachedCall ==
  ASSUME ResolverInv, GetCached
  PROVE  ResolverInv'
<1>1. PICK c \in Calls[tree] :
        /\ c.op = "get_cd" /\ Id(c) \in DOMAIN cds /\ call' = c
        /\ phase' = "idle" /\ outcome' = "ok" /\ answer' = cds[Id(c)]
        /\ objects' = objects /\ cds' = cds /\ ihashcache' = ihashcache /\ UNCHANGED lookupVars
  BY DEF GetCached, Finish
<1>2. LookupInv' /\ Same /\ CallInv
  BY <1>1, LookupStays DEF ResolverInv, Same, lookupVars
<1>3. CdsOK(tree, missing, objects, cds) /\ HashOK(tree, objects, ihashcache)
  BY DEF ResolverInv, CallInv
<1>4. {cds[Id(c)]} = DefIn(tree, Id(c))
  <2>1. PICK id \in DOMAIN cds : id = Id(c)
    BY <1>1
  <2>2. QED BY <2>1, <1>3 DEF CdsOK
<1>5. Result(tree, missing, objects, cds', ihashcache', call', outcome', answer', listed')
  BY <1>1, <1>4 DEF Result, DefResult
<1>6. QED BY <1>1, <1>2, <1>3, <1>5, ToIdle

LEMMA LookupKeeps ==
  ASSUME Lookup
  PROVE  tree' = tree /\ missing' = missing /\ query' = query
  BY DEF Lookup, GetPage, FetchPage, CachedPage, MatchLeft, MatchRight, AboveLeft, BelowNext,
         BelowLast, Return, LookupChild

LEMMA LookingStep ==
  ASSUME ResolverInv, Looking
  PROVE  ResolverInv'
<1>1. /\ phase \in {"own", "object", "keys"} /\ Lookup
      /\ objects' = objects /\ call' = call /\ phase' = phase /\ refs' = refs /\ cds' = cds
      /\ ihashcache' = ihashcache /\ listed' = listed
  BY DEF Looking, resolverVars
<1>2. LookupInv' /\ Same /\ query' = query
  BY <1>1, LookupStep, LookupKeeps DEF ResolverInv, Same
<1>3. /\ CallInv /\ call \in Calls[tree]
      /\ CdsOK(tree, missing, objects, cds) /\ HashOK(tree, objects, ihashcache)
      /\ PhaseOK(tree, missing, objects, phase, call, query, refs, cds, ihashcache, listed)
  BY <1>1 DEF ResolverInv, CallInv
<1>4. PhaseOK(tree, missing, objects, phase', call', query', refs', cds', ihashcache', listed')
  BY <1>1, <1>2, <1>3
<1>5. QED BY <1>1, <1>2, <1>3, <1>4, ToPhase
-----------------------------------------------------------------------------
(* The definition of the class.                                            *)
LEMMA Returned ==
  ASSUME LookupInv, pc = "returned"
  PROVE  ListRight(tree, query, matches) /\ ~ BlockedIn(tree, missing, query)
  BY DEF LookupInv, BlockedIn

LEMMA Raised ==
  ASSUME LookupInv, pc = "raised"
  PROVE  BlockedIn(tree, missing, query)
  BY DEF LookupInv, BlockedIn

LEMMA OwnStep ==
  ASSUME ResolverInv, OwnRefs
  PROVE  ResolverInv'
<1>1. /\ phase = "own" /\ pc = "returned" /\ objects' = objects /\ call' = call /\ refs' = refs
      /\ cds' = cds /\ ihashcache' = ihashcache /\ listed' = listed
  BY DEF OwnRefs
<1>2. PICK q : q = IF matches = <<>> /\ call.op # "get_cd_buf" THEN CD(System, call.class) ELSE query
  OBVIOUS
<1>3. Query(q, "object")
  BY <1>2 DEF OwnRefs
<1>4. /\ tree \in Trees /\ call \in Calls[tree] /\ CallInv
      /\ CdsOK(tree, missing, objects, cds) /\ HashOK(tree, objects, ihashcache)
      /\ PhaseOK(tree, missing, objects, "own", call, query, refs, cds, ihashcache, listed)
  BY <1>1 DEF ResolverInv, LookupInv, CallInv
<1>5. OwnPhase(call, query)
  BY <1>4 DEF PhaseOK
<1>6. ListRight(tree, query, matches) /\ ~ BlockedIn(tree, missing, query)
  BY <1>1, Returned DEF ResolverInv
<1>7. matches = <<>> <=> Wanted(tree, query) = {}
  BY <1>4, <1>6, ListSize
<1>8. Wanted(tree, query) = OwnIn(tree, Id(call)) /\ query = CD(call.ns, call.class)
  BY <1>5 DEF OwnPhase, OwnIn, Id
<1>9. PrefixIn(tree, q)
  BY <1>2, <1>4, <1>5, <1>8, CallTypes DEF OwnPhase
<1>10. LookupInv' /\ query' = q /\ phase' = "object" /\ Same
  BY <1>1, <1>3, <1>9, NextQuery DEF Same
<1>11. ObjectPhase(tree, missing, call, q)
  BY <1>2, <1>5, <1>6, <1>7, <1>8 DEF ObjectPhase, OwnPhase
<1>12. PhaseOK(tree, missing, objects, "object", call, q, refs, cds, ihashcache, listed)
  BY <1>4, <1>11 DEF PhaseOK
<1>13. PhaseOK(tree, missing, objects, phase', call', query', refs', cds', ihashcache', listed')
  BY <1>1, <1>10, <1>12
<1>14. QED BY <1>1, <1>4, <1>10, <1>13, ToPhase

LEMMA FailsStep ==
  ASSUME ResolverInv, phase \in {"own", "object"}, Failed(tree, missing, objects, call),
         DefinitionFails
  PROVE  ResolverInv'
<1>1. /\ objects' = objects /\ call' = call /\ cds' = cds /\ ihashcache' = ihashcache
      /\ listed' = listed /\ UNCHANGED lookupVars
  BY DEF DefinitionFails
<1>2. LookupInv' /\ Same /\ query' = query
  BY <1>1, LookupStays DEF ResolverInv, Same, lookupVars
<1>3. /\ tree \in Trees /\ call \in Calls[tree] /\ CallInv
      /\ CdsOK(tree, missing, objects, cds) /\ HashOK(tree, objects, ihashcache)
      /\ PhaseOK(tree, missing, objects, phase, call, query, refs, cds, ihashcache, listed)
  BY DEF ResolverInv, LookupInv, CallInv
<1>4. CASE call.op = "instances"
  <2>1. phase' = "each" /\ refs' = Tail(refs)
    BY <1>4 DEF DefinitionFails
  <2>2. Listing(tree, missing, objects, cds, call, refs, listed) /\ refs # <<>>
    BY <1>3, <1>4 DEF PhaseOK
  <2>3. UndefIn(tree, missing, objects, Id(call))
    BY <1>4 DEF Failed
  <2>4. PICK v : v = Tail(refs)
    OBVIOUS
  <2>5. Listing(tree, missing, objects, cds, call, v, listed)
    BY <2>2, <2>3, <2>4, <1>3, ListingDrops
  <2>6. PhaseOK(tree, missing, objects, "each", call, query, v, cds, ihashcache, listed)
    BY <2>5, <1>4 DEF PhaseOK, EachPhase
  <2>7. PhaseOK(tree, missing, objects, phase', call', query', refs', cds', ihashcache', listed')
    BY <2>1, <2>4, <2>6, <1>1, <1>2
  <2>8. QED BY <2>1, <2>7, <1>1, <1>2, <1>3, ToPhase
<1>5. CASE call.op # "instances"
  <2>1. phase' = "idle" /\ outcome' = "raised"
    BY <1>5 DEF DefinitionFails, Finish
  <2>2. call.op # "get_cd_buf" => UndefIn(tree, missing, objects, Id(call))
    BY DEF Failed
  <2>3. PICK out, ans : out = "raised" /\ ans = answer'
    OBVIOUS
  <2>4. call.op = "get_ci" =>
          InstanceResult(tree, missing, objects, ihashcache, call, "raised", ans)
    BY <2>2, InstanceBlocked
  <2>5. DefResult(tree, missing, objects, call, "raised", ans)
    BY <2>2 DEF DefResult
  <2>6. Result(tree, missing, objects, cds, ihashcache, call, "raised", ans, listed)
    BY <2>4, <2>5, <1>5 DEF Result
  <2>7. Result(tree, missing, objects, cds', ihashcache', call', outcome', answer', listed')
    BY <2>1, <2>3, <2>6, <1>1
  <2>8. QED BY <2>1, <2>7, <1>1, <1>2, <1>3, ToIdle
<1>6. QED BY <1>4, <1>5

LEMMA RefusedStep ==
  ASSUME ResolverInv, OwnRefsMany \/ DefinitionRefused
  PROVE  ResolverInv'
<1>1. tree \in Trees
      /\ PhaseOK(tree, missing, objects, phase, call, query, refs, cds, ihashcache, listed)
  BY DEF ResolverInv, LookupInv, CallInv
<1>2. CASE OwnRefsMany
  <2>1. phase = "own" /\ pc = "returned" /\ Len(matches) > 1 /\ DefinitionFails
    BY <1>2 DEF OwnRefsMany
  <2>2. OwnPhase(call, query) /\ ListRight(tree, query, matches)
    BY <2>1, <1>1, Returned DEF PhaseOK, ResolverInv
  <2>3. Failed(tree, missing, objects, call)
    BY <2>1, <2>2, <1>1, ClassMany
  <2>4. QED BY <2>1, <2>3, FailsStep
<1>3. CASE phase = "object" /\ pc = "returned" /\ ~ Defined /\ DefinitionFails
  <2>1. ObjectPhase(tree, missing, call, query) /\ ListRight(tree, query, matches)
    BY <1>1, <1>3, Returned DEF PhaseOK, ResolverInv
  <2>2. Len(matches) # 1 \/ objects[matches[1]].state # "ok"
    BY <1>3 DEF Defined
  <2>3. Failed(tree, missing, objects, call)
    BY <2>1, <2>2, <1>1, ClassRefused
  <2>4. QED BY <2>3, <1>3, FailsStep
<1>4. CASE phase \in {"own", "object"} /\ pc = "raised" /\ DefinitionFails
  <2>1. BlockedIn(tree, missing, query)
    BY <1>4, Raised DEF ResolverInv
  <2>2. OwnPhase(call, query) \/ ObjectPhase(tree, missing, call, query)
    BY <1>1, <1>4 DEF PhaseOK
  <2>3. Failed(tree, missing, objects, call)
    BY <2>1, <2>2, ClassBlocked
  <2>4. QED BY <2>3, <1>4, FailsStep
<1>5. QED BY <1>2, <1>3, <1>4 DEF DefinitionRefused

LEMMA CdsAdd ==
  ASSUME NEW t, NEW mis, NEW o, NEW cd, CdsOK(t, mis, o, cd), NEW id, NEW k,
         DefIn(t, id) = {k}, ~ UndefIn(t, mis, o, id), o[k].state = "ok",
         NEW ce, ce = Put(cd, id, k)
  PROVE  CdsOK(t, mis, o, ce) /\ id \in DOMAIN ce
<1>1. DOMAIN ce = DOMAIN cd \union {id} /\ \A y \in DOMAIN ce : ce[y] = IF y = id THEN k ELSE cd[y]
  BY DEF Put
<1>2. QED BY <1>1 DEF CdsOK

LEMMA FoundStep ==
  ASSUME ResolverInv, DefinitionFound
  PROVE  ResolverInv'
<1>1. /\ phase = "object" /\ pc = "returned" /\ Defined /\ Remember
      /\ objects' = objects /\ call' = call /\ refs' = refs /\ ihashcache' = ihashcache
      /\ listed' = listed
  BY DEF DefinitionFound
<1>2. /\ tree \in Trees /\ missing \subseteq tree.pages /\ call \in Calls[tree] /\ CallInv
      /\ objects \in Objects[tree]
      /\ CdsOK(tree, missing, objects, cds) /\ HashOK(tree, objects, ihashcache)
      /\ PhaseOK(tree, missing, objects, "object", call, query, refs, cds, ihashcache, listed)
  BY <1>1, FaultsAssumption DEF ResolverInv, LookupInv, CallInv
<1>3. /\ ObjectPhase(tree, missing, call, query)
      /\ ListRight(tree, query, matches) /\ ~ BlockedIn(tree, missing, query)
  BY <1>1, <1>2, Returned DEF PhaseOK, ResolverInv
<1>4. Len(matches) = 1 /\ (call.op # "get_cd_buf" => objects[matches[1]].state = "ok")
  BY <1>1 DEF Defined
<1>5. PICK k : k = matches[1]
  OBVIOUS
<1>6. PICK id : id = Id(call)
  OBVIOUS
<1>7. call.op # "get_cd_buf" =>
        DefIn(tree, id) = {k} /\ ~ UndefIn(tree, missing, objects, id) /\ objects[k].state = "ok"
  BY <1>2, <1>3, <1>4, <1>5, <1>6, ClassFound
<1>8. PICK ce : ce = cds'
  OBVIOUS
<1>9. CdsOK(tree, missing, objects, ce) /\ (call.op # "get_cd_buf" => id \in DOMAIN ce)
  <2>1. CASE call.op = "get_cd_buf"
    BY <2>1, <1>1, <1>2, <1>8 DEF Remember
  <2>2. CASE call.op # "get_cd_buf"
    <3>1. ce = Put(cds, id, k)
      BY <2>2, <1>1, <1>5, <1>6, <1>8 DEF Remember
    <3>2. QED BY <3>1, <2>2, <1>2, <1>7, CdsAdd
  <2>3. QED BY <2>1, <2>2
<1>10. call.op \in {"get_cd", "get_cd_buf", "get_ci", "instances"}
  BY <1>3 DEF ObjectPhase
<1>11. CASE call.op \in {"get_cd", "get_cd_buf"}
  <2>1. phase' = "idle" /\ outcome' = "ok" /\ answer' = k /\ UNCHANGED lookupVars
    BY <1>5, <1>11 DEF DefinitionFound, Finish
  <2>2. LookupInv' /\ Same
    BY <2>1, <1>1, LookupStays DEF ResolverInv, Same, lookupVars
  <2>3. call.op = "get_cd_buf" => OwnIn(tree, id) = {k}
    BY <1>2, <1>3, <1>4, <1>5, <1>6, BufferFound
  <2>4. Result(tree, missing, objects, ce, ihashcache, call, "ok", k, listed)
    BY <2>3, <1>6, <1>7, <1>11 DEF Result, DefResult
  <2>5. Result(tree, missing, objects, cds', ihashcache', call', outcome', answer', listed')
    BY <2>1, <2>4, <1>1, <1>8
  <2>6. QED BY <2>1, <2>2, <2>5, <1>1, <1>2, <1>8, <1>9, ToIdle
<1>12. CASE call.op = "get_ci"
  <2>1. PICK q : q = InstanceQuery(call)
    OBVIOUS
  <2>2. Query(q, "keys")
    BY <2>1, <1>12 DEF DefinitionFound
  <2>3. q = QueryOf(ihashcache, call)
    BY <2>1 DEF InstanceQuery, QueryOf
  <2>4. PrefixIn(tree, q)
    <3>1. PICK t, mis, o, ih, c : t = tree /\ mis = missing /\ o = objects /\ ih = ihashcache
                                  /\ c = call
      OBVIOUS
    <3>2. HashOK(t, o, ih) /\ t \in Trees /\ mis \subseteq t.pages /\ o \in Objects[t]
          /\ c \in Calls[t] /\ c.op = "get_ci" /\ q = QueryOf(ih, c)
      BY <3>1, <2>3, <1>2, <1>12
    <3>3. PrefixIn(t, q)
      BY <3>2, HashQuery
    <3>4. QED BY <3>1, <3>3
  <2>5. LookupInv' /\ query' = q /\ phase' = "keys" /\ Same
    BY <2>2, <2>4, <1>1, NextQuery DEF Same
  <2>6. PhaseOK(tree, missing, objects, "keys", call, q, refs, ce, ihashcache, listed)
    BY <2>3, <1>12 DEF PhaseOK, KeysPhase
  <2>7. PhaseOK(tree, missing, objects, phase', call', query', refs', cds', ihashcache', listed')
    BY <2>5, <2>6, <1>1, <1>8
  <2>8. QED BY <2>5, <2>7, <1>1, <1>2, <1>8, <1>9, ToPhase
<1>13. CASE call.op = "instances"
  <2>1. phase' = "each" /\ UNCHANGED lookupVars
    BY <1>13 DEF DefinitionFound
  <2>2. LookupInv' /\ Same /\ query' = query
    BY <2>1, <1>1, LookupStays DEF ResolverInv, Same, lookupVars
  <2>3. Listing(tree, missing, objects, cds, call, refs, listed)
    BY <1>2, <1>13 DEF PhaseOK
  <2>4. Id(call) \in DOMAIN ce
    BY <1>6, <1>9, <1>13
  <2>5. Listing(tree, missing, objects, ce, call, refs, listed)
    BY <2>3, <2>4, ListingDefined
  <2>6. PhaseOK(tree, missing, objects, "each", call, query, refs, ce, ihashcache, listed)
    BY <2>5, <1>13 DEF PhaseOK, EachPhase
  <2>7. PhaseOK(tree, missing, objects, phase', call', query', refs', cds', ihashcache', listed')
    BY <2>1, <2>2, <2>6, <1>1, <1>8
  <2>8. QED BY <2>1, <2>2, <2>7, <1>1, <1>2, <1>8, <1>9, ToPhase
<1>14. QED BY <1>10, <1>11, <1>12, <1>13
-----------------------------------------------------------------------------
(* The objects, one by one.                                                *)
LEMMA KeyedStep ==
  ASSUME ResolverInv, Keyed \/ KeysRaise
  PROVE  ResolverInv'
<1>1. /\ phase = "keys" /\ pc \in {"returned", "raised"}
      /\ objects' = objects /\ call' = call /\ cds' = cds /\ ihashcache' = ihashcache
      /\ listed' = listed /\ UNCHANGED lookupVars
  BY DEF Keyed, KeysRaise
<1>2. LookupInv' /\ Same /\ query' = query
  BY <1>1, LookupStays DEF ResolverInv, Same, lookupVars
<1>3. /\ tree \in Trees /\ missing \subseteq tree.pages /\ call \in Calls[tree] /\ CallInv
      /\ objects \in Objects[tree]
      /\ CdsOK(tree, missing, objects, cds) /\ HashOK(tree, objects, ihashcache)
      /\ KeysPhase(ihashcache, call, query)
      /\ call.op = "instances" => listed = <<>>
  BY <1>1, FaultsAssumption DEF ResolverInv, LookupInv, CallInv, PhaseOK
<1>4. CASE Keyed /\ call.op # "get_keys"
  <2>1. pc = "returned" /\ phase' = "each" /\ refs' = matches
    BY <1>4 DEF Keyed
  <2>2. PICK ms : ms = matches
    OBVIOUS
  <2>3. ListRight(tree, query, ms)
    BY <2>1, <2>2, Returned DEF ResolverInv
  <2>4. Remaining(tree, objects, call, query, ms)
    BY <2>3, RemainingStarts
  <2>5. call.op = "instances" => Listing(tree, missing, objects, cds, call, ms, <<>>)
    BY <2>3, <1>3, ListingStarts DEF KeysPhase
  <2>6. PhaseOK(tree, missing, objects, "each", call, query, ms, cds, ihashcache, listed)
    BY <2>4, <2>5, <1>3, <1>4 DEF PhaseOK, KeysPhase, EachPhase
  <2>7. PhaseOK(tree, missing, objects, phase', call', query', refs', cds', ihashcache', listed')
    BY <2>1, <2>2, <2>6, <1>1, <1>2
  <2>8. QED BY <2>1, <2>7, <1>1, <1>2, <1>3, ToPhase
<1>5. CASE Keyed /\ call.op = "get_keys"
  <2>1. phase' = "idle"
    BY <1>5 DEF Keyed, Finish
  <2>2. Result(tree, missing, objects, cds', ihashcache', call', outcome', answer', listed')
    BY <1>1, <1>5 DEF Result, DefResult
  <2>3. QED BY <2>1, <2>2, <1>1, <1>2, <1>3, ToIdle
<1>6. CASE KeysRaise
  <2>1. pc = "raised" /\ phase' = "idle" /\ outcome' = "raised"
    BY <1>6 DEF KeysRaise, Finish
  <2>2. BlockedIn(tree, missing, query)
    BY <2>1, Raised DEF ResolverInv
  <2>3. PICK ans : ans = answer'
    OBVIOUS
  <2>4. ASSUME call.op = "get_ci"
        PROVE  InstanceResult(tree, missing, objects, ihashcache, call, "raised", ans)
    <3>1. PICK t, mis, o, ih, c, q : t = tree /\ mis = missing /\ o = objects /\ ih = ihashcache
                                     /\ c = call /\ q = query
      OBVIOUS
    <3>2. HashOK(t, o, ih) /\ t \in Trees /\ mis \subseteq t.pages /\ o \in Objects[t]
          /\ c \in Calls[t] /\ c.op = "get_ci" /\ q = QueryOf(ih, c)
      BY <3>1, <2>4, <1>3 DEF KeysPhase
    <3>3. Foreign(ih, c) \/ (BlockedIn(t, mis, q) => BlockedIn(t, mis, CI(c.ns, c.class)))
      BY <3>2, HashQuery
    <3>4. Foreign(ih, c) \/ BlockedIn(t, mis, CI(c.ns, c.class))
      BY <3>1, <3>3, <2>2
    <3>5. InstanceResult(t, mis, o, ih, c, "raised", ans)
      BY <3>4, InstanceBlocked
    <3>6. QED BY <3>1, <3>5
  <2>5. ASSUME call.op = "instances"
        PROVE  ListResult(tree, missing, objects, cds, call, "raised", listed)
    <3>1. BlockedIn(tree, missing, CI(call.ns, call.class)) /\ listed = <<>>
      BY <2>2, <2>5, <1>3 DEF KeysPhase
    <3>2. QED BY <3>1, ListingBlocked
  <2>6. Result(tree, missing, objects, cds, ihashcache, call, "raised", ans, listed)
    BY <2>4, <2>5, <1>3 DEF Result, DefResult, KeysPhase
  <2>7. Result(tree, missing, objects, cds', ihashcache', call', outcome', answer', listed')
    BY <2>1, <2>3, <2>6, <1>1
  <2>8. QED BY <2>1, <2>7, <1>1, <1>2, <1>3, ToIdle
<1>7. QED BY <1>4, <1>5, <1>6

(* What every step of the loop starts from.                                *)
LEMMA EachStarts ==
  ASSUME ResolverInv, phase = "each"
  PROVE  /\ tree \in Trees /\ call \in Calls[tree] /\ CallInv
         /\ CdsOK(tree, missing, objects, cds) /\ HashOK(tree, objects, ihashcache)
         /\ EachPhase(ihashcache, call, query)
         /\ call.op \in {"get_ci", "instances"}
         /\ call.op = "instances" => Listing(tree, missing, objects, cds, call, refs, listed)
         /\ call.op = "get_ci" =>
              /\ Remaining(tree, objects, call, query, refs)
              /\ Wanted(tree, query) \subseteq All(tree, call)
              /\ \/ Foreign(ihashcache, call)
                 \/ \A k \in All(tree, call) : Mine(objects, call, k) => k \in Wanted(tree, query)
<1>1. /\ tree \in Trees /\ missing \subseteq tree.pages /\ call \in Calls[tree] /\ CallInv
      /\ objects \in Objects[tree]
      /\ CdsOK(tree, missing, objects, cds) /\ HashOK(tree, objects, ihashcache)
      /\ PhaseOK(tree, missing, objects, phase, call, query, refs, cds, ihashcache, listed)
  BY FaultsAssumption DEF ResolverInv, LookupInv, CallInv
<1>2. EachPhase(ihashcache, call, query)
      /\ (call.op = "get_ci" => Remaining(tree, objects, call, query, refs))
      /\ (call.op = "instances" => Listing(tree, missing, objects, cds, call, refs, listed))
  BY <1>1 DEF PhaseOK
<1>3. ASSUME call.op = "get_ci"
      PROVE  /\ Wanted(tree, query) \subseteq All(tree, call)
             /\ \/ Foreign(ihashcache, call)
                \/ \A k \in All(tree, call) : Mine(objects, call, k) => k \in Wanted(tree, query)
  <2>1. PICK t, mis, o, ih, c, q : t = tree /\ mis = missing /\ o = objects /\ ih = ihashcache
                                   /\ c = call /\ q = query
    OBVIOUS
  <2>2. HashOK(t, o, ih) /\ t \in Trees /\ mis \subseteq t.pages /\ o \in Objects[t]
        /\ c \in Calls[t] /\ c.op = "get_ci" /\ q = QueryOf(ih, c)
    BY <2>1, <1>1, <1>2, <1>3 DEF EachPhase
  <2>3. Wanted(t, q) \subseteq All(t, c)
        /\ (Foreign(ih, c) \/ \A k \in All(t, c) : Mine(o, c, k) => k \in Wanted(t, q))
    BY <2>2, HashQuery
  <2>4. QED BY <2>1, <2>3
<1>4. QED BY <1>1, <1>2, <1>3 DEF EachPhase

(* On to the next object.                                                  *)
LEMMA NextObject ==
  ASSUME ResolverInv, phase = "each", refs # <<>>, refs' = Tail(refs), phase' = "each",
         UNCHANGED <<objects, call, cds, lookupVars>>, HashOK(tree, objects, ihashcache'),
         call.op = "get_ci" => ~ Mine(objects, call, refs[1]) /\ ihashcache' = ihashcache,
         call.op = "instances" =>
           Listing(tree, missing, objects, cds, call, Tail(refs), listed')
  PROVE  ResolverInv'
<1>1. LookupInv' /\ Same /\ query' = query /\ objects' = objects /\ call' = call /\ cds' = cds
  BY LookupStays DEF ResolverInv, Same, lookupVars
<1>2. PICK v, ih, li : v = refs' /\ ih = ihashcache' /\ li = listed'
  OBVIOUS
<1>3. call.op = "get_ci" => Remaining(tree, objects, call, query, v)
  <2>1. SUFFICES ASSUME call.op = "get_ci" PROVE Remaining(tree, objects, call, query, v)
    OBVIOUS
  <2>2. Remaining(tree, objects, call, query, refs) /\ tree \in Trees
    BY <2>1, EachStarts
  <2>3. v = Tail(refs) /\ ~ Mine(objects, call, refs[1])
    BY <2>1, <1>2
  <2>4. QED BY <2>2, <2>3, RemainingDrops
<1>4. EachPhase(ih, call, query)
  <2>1. EachPhase(ihashcache, call, query)
    BY EachStarts
  <2>2. call.op = "get_ci" => ih = ihashcache
    BY <1>2
  <2>3. QED BY <2>1, <2>2 DEF EachPhase
<1>5. PhaseOK(tree, missing, objects, "each", call, query, v, cds, ih, li)
  BY <1>2, <1>3, <1>4 DEF PhaseOK
<1>6. PhaseOK(tree, missing, objects, phase', call', query', refs', cds', ihashcache', listed')
  BY <1>1, <1>2, <1>5
<1>7. CallInv /\ call' \in Calls[tree] /\ CdsOK(tree, missing, objects, cds')
  BY <1>1, EachStarts
<1>8. QED BY <1>1, <1>6, <1>7, ToPhase

(* The call ends.                                                          *)
LEMMA LastObject ==
  ASSUME ResolverInv, phase = "each", NEW how, NEW ans, Finish(how, ans),
         UNCHANGED <<objects, call, cds, ihashcache, listed, lookupVars>>,
         call.op = "get_ci" =>
           InstanceResult(tree, missing, objects, ihashcache, call, how, ans),
         call.op = "instances" =>
           ListResult(tree, missing, objects, cds, call, how, listed)
  PROVE  ResolverInv'
<1>1. LookupInv' /\ Same /\ phase' = "idle" /\ outcome' = how /\ answer' = ans
  BY LookupStays DEF ResolverInv, Same, lookupVars, Finish
<1>2. Result(tree, missing, objects, cds, ihashcache, call, how, ans, listed)
  BY EachStarts DEF Result, DefResult
<1>3. Result(tree, missing, objects, cds', ihashcache', call', outcome', answer', listed')
  BY <1>1, <1>2
<1>4. CallInv /\ CdsOK(tree, missing, objects, cds') /\ HashOK(tree, objects, ihashcache')
  BY EachStarts
<1>5. QED BY <1>1, <1>3, <1>4, ToIdle

LEMMA PassedOver ==
  ASSUME ResolverInv, EachGone \/ InstanceGarbled
  PROVE  ResolverInv'
<1>1. /\ phase = "each" /\ refs # <<>> /\ objects[refs[1]].state \in {"gone", "garbled"}
      /\ refs' = Tail(refs) /\ phase' = "each" /\ UNCHANGED <<objects, call, cds, lookupVars>>
      /\ ihashcache' = ihashcache /\ listed' = listed
  BY DEF EachGone, InstanceGarbled, Each, Next1
<1>2. ~ Mine(objects, call, refs[1])
  BY <1>1 DEF Mine
<1>3. PICK v : v = Tail(refs)
  OBVIOUS
<1>4. objects[refs[1]].state # "ok"
  BY <1>1
<1>5. call.op = "instances" => Listing(tree, missing, objects, cds, call, v, listed)
  BY <1>1, <1>3, <1>4, EachStarts, ListingDrops
<1>6. HashOK(tree, objects, ihashcache')
  BY <1>1, EachStarts
<1>7. call.op = "instances" =>
        Listing(tree, missing, objects, cds, call, Tail(refs), listed')
  BY <1>1, <1>3, <1>5
<1>8. QED BY <1>1, <1>2, <1>6, <1>7, NextObject

LEMMA RaisesStep ==
  ASSUME ResolverInv, EachRaises
  PROVE  ResolverInv'
<1>1. /\ phase = "each" /\ refs # <<>> /\ Finish("raised", NoAnswer)
      /\ objects[refs[1]].state \in {"lost", "garbled"}
      /\ call.op # "get_ci" => objects[refs[1]].state = "lost"
      /\ UNCHANGED <<objects, call, cds, ihashcache, listed, lookupVars>>
  BY DEF EachRaises, Each
<1>2. call.op = "get_ci" =>
        InstanceResult(tree, missing, objects, ihashcache, call, "raised", NoAnswer)
  BY <1>1, EachStarts, InstanceLost
<1>3. call.op = "instances" => ListResult(tree, missing, objects, cds, call, "raised", listed)
  BY <1>1, EachStarts, ListingLost
<1>4. QED BY <1>1, <1>2, <1>3, LastObject

LEMMA ComparedStep ==
  ASSUME ResolverInv, InstanceCompared
  PROVE  ResolverInv'
<1>1. /\ phase = "each" /\ refs # <<>> /\ objects[refs[1]].state = "ok" /\ call.op = "get_ci"
      /\ UNCHANGED <<objects, call, cds, ihashcache, listed, lookupVars>>
  BY DEF InstanceCompared, Each
<1>2. CASE objects[refs[1]].ikey = call.ikey
  <2>1. PICK ans : ans = refs[1]
    OBVIOUS
  <2>2. Finish("ok", ans)
    BY <2>1, <1>2 DEF InstanceCompared
  <2>3. Mine(objects, call, refs[1])
    BY <1>1, <1>2 DEF Mine
  <2>4. InstanceResult(tree, missing, objects, ihashcache, call, "ok", ans)
    BY <2>1, <2>3, <1>1, EachStarts, InstanceTaken
  <2>5. QED BY <2>2, <2>4, <1>1, LastObject
<1>3. CASE objects[refs[1]].ikey # call.ikey
  <2>1. refs' = Tail(refs) /\ phase' = "each"
    BY <1>1, <1>3 DEF InstanceCompared, Next1
  <2>2. ~ Mine(objects, call, refs[1])
    BY <1>3 DEF Mine
  <2>3. HashOK(tree, objects, ihashcache')
    BY <1>1, EachStarts
  <2>4. QED BY <2>1, <2>2, <2>3, <1>1, NextObject
<1>4. QED BY <1>2, <1>3

LEMMA ClassStep ==
  ASSUME ResolverInv, InstanceClass
  PROVE  ResolverInv'
<1>1. /\ call.op = "instances" /\ phase = "each" /\ refs # <<>>
      /\ objects' = objects /\ call' = call /\ refs' = refs /\ cds' = cds
      /\ ihashcache' = ihashcache /\ listed' = listed
  BY DEF InstanceClass
<1>2. PICK q : q = CD(call.ns, call.class)
  OBVIOUS
<1>3. Query(q, "own") /\ PrefixIn(tree, q)
  BY <1>1, <1>2, EachStarts, CallTypes DEF InstanceClass
<1>4. LookupInv' /\ query' = q /\ phase' = "own" /\ Same
  BY <1>1, <1>3, NextQuery DEF Same
<1>5. PhaseOK(tree, missing, objects, "own", call, q, refs, cds, ihashcache, listed)
  BY <1>1, <1>2, EachStarts DEF PhaseOK, OwnPhase
<1>6. PhaseOK(tree, missing, objects, phase', call', query', refs', cds', ihashcache', listed')
  BY <1>1, <1>4, <1>5
<1>7. /\ CallInv /\ call' \in Calls[tree]
      /\ CdsOK(tree, missing, objects, cds') /\ HashOK(tree, objects, ihashcache')
  BY <1>1, EachStarts
<1>8. QED BY <1>4, <1>6, <1>7, ToPhase

LEMMA HashAdd ==
  ASSUME NEW t, NEW o, NEW ih, HashOK(t, o, ih), NEW c, NEW k \in All(t, c), o[k].state = "ok",
         NEW x, x = o[k].ikey, NEW e, e = [hash |-> o[k].hash, by |-> Id(c)],
         NEW ij, ij = Put(ih, x, e)
  PROVE  HashOK(t, o, ij)
<1>1. DOMAIN ij = DOMAIN ih \union {x} /\ \A y \in DOMAIN ij : ij[y] = IF y = x THEN e ELSE ih[y]
  BY DEF Put
<1>2. e.hash = o[k].hash /\ e.by[1] = c.ns /\ e.by[2] = c.class
  BY DEF Id
<1>3. k \in Wanted(t, CI(e.by[1], e.by[2]))
  BY <1>2 DEF All
<1>4. ASSUME NEW y \in DOMAIN ij
      PROVE  \E m \in Wanted(t, CI(ij[y].by[1], ij[y].by[2])) :
               o[m].state = "ok" /\ o[m].ikey = y /\ o[m].hash = ij[y].hash
  <2>1. CASE y = x
    BY <2>1, <1>1, <1>2, <1>3
  <2>2. CASE y # x
    BY <2>2, <1>1 DEF HashOK
  <2>3. QED BY <2>1, <2>2
<1>5. QED BY <1>4 DEF HashOK

LEMMA ListedStep ==
  ASSUME ResolverInv, InstanceListed
  PROVE  ResolverInv'
<1>1. /\ phase = "each" /\ refs # <<>> /\ objects[refs[1]].state = "ok" /\ call.op = "instances"
      /\ Id(call) \in DOMAIN cds
      /\ UNCHANGED <<objects, call, cds, lookupVars>> /\ refs' = Tail(refs) /\ phase' = "each"
  BY DEF InstanceListed, Each, Next1
<1>2. PICK k, x, v, li, ih : k = refs[1] /\ x = objects[k].ikey /\ v = Tail(refs) /\ li = listed'
                             /\ ih = ihashcache'
  OBVIOUS
<1>3. Listing(tree, missing, objects, cds, call, refs, listed) /\ tree \in Trees
      /\ HashOK(tree, objects, ihashcache)
  BY <1>1, EachStarts
<1>4. li = IF x \in In(listed) THEN listed ELSE Append(listed, x)
  BY <1>2 DEF InstanceListed, Range, In
<1>5. Listing(tree, missing, objects, cds, call, v, li)
  BY <1>1, <1>2, <1>3, <1>4, ListingAdds
<1>6. k \in All(tree, call)
  <2>1. refs \in Seq(Int) /\ In(refs) \subseteq All(tree, call)
    BY <1>3 DEF Listing
  <2>2. k \in In(refs)
    BY <2>1, <1>1, <1>2, DropFirst
  <2>3. QED BY <2>1, <2>2
<1>7. HashOK(tree, objects, ih)
  <2>1. PICK e : e = [hash |-> objects[k].hash, by |-> Id(call)]
    OBVIOUS
  <2>2. ih = Put(ihashcache, x, e)
    BY <2>1, <1>2 DEF InstanceListed
  <2>3. QED BY <2>1, <2>2, <1>1, <1>2, <1>3, <1>6, HashAdd
<1>8. HashOK(tree, objects, ihashcache')
      /\ Listing(tree, missing, objects, cds, call, Tail(refs), listed')
  BY <1>2, <1>5, <1>7
<1>9. QED BY <1>1, <1>8, NextObject

LEMMA ExhaustedStep ==
  ASSUME ResolverInv, Exhausted
  PROVE  ResolverInv'
<1>1. /\ phase = "each" /\ refs = <<>>
      /\ UNCHANGED <<objects, call, cds, ihashcache, listed, lookupVars>>
  BY DEF Exhausted
<1>2. CASE call.op = "get_ci"
  <2>1. Finish("raised", NoAnswer)
    BY <1>2 DEF Exhausted
  <2>2. InstanceResult(tree, missing, objects, ihashcache, call, "raised", NoAnswer)
    BY <1>1, <1>2, EachStarts, InstanceMissed
  <2>3. QED BY <2>1, <2>2, <1>1, <1>2, LastObject
<1>3. CASE call.op = "instances"
  <2>1. Finish("ok", NoAnswer)
    BY <1>3 DEF Exhausted
  <2>2. ListResult(tree, missing, objects, cds, call, "ok", listed)
    BY <1>1, <1>3, EachStarts, ListingEnds
  <2>3. QED BY <2>1, <2>2, <1>1, <1>3, LastObject
<1>4. QED BY <1>1, <1>2, <1>3, EachStarts

LEMMA ResolverSteps ==
  ASSUME ResolverInv, ResolverNext
  PROVE  ResolverInv'
<1>1. CASE Call
  BY <1>1, CallBegins, CachedCall DEF Call
<1>2. CASE Looking
  BY <1>2, LookingStep
<1>3. CASE OwnRefs \/ OwnRefsMany \/ DefinitionFound \/ DefinitionRefused
  BY <1>3, OwnStep, RefusedStep, FoundStep
<1>4. CASE Keyed \/ KeysRaise
  BY <1>4, KeyedStep
<1>5. CASE Each1
  BY <1>5, PassedOver, RaisesStep, ComparedStep, ClassStep, ListedStep, ExhaustedStep DEF Each1
<1>6. QED BY <1>1, <1>2, <1>3, <1>4, <1>5 DEF ResolverNext

LEMMA ResolverInvariant == ResolverSpec => []ResolverInv
<1>1. ResolverInv /\ [ResolverNext]_<<lookupVars, resolverVars>> => ResolverInv'
  BY ResolverSteps, ResolverStays
<1>2. QED BY ResolverStarts, <1>1, PTL DEF ResolverSpec

-----------------------------------------------------------------------------
LEMMA ResultRight ==
  ASSUME ResolverInv
  PROVE  DefinitionsRight /\ InstanceFoundUnlessForeign /\ InstancesListed
<1>1. /\ \A q : KeysFor(q) = Wanted(tree, q) /\ (Blocked(q) <=> BlockedIn(tree, missing, q))
      /\ \A id : InOwn(id) = OwnIn(tree, id) /\ DefKeys(id) = DefIn(tree, id)
  BY DEF KeysFor, Blocked, BlockedIn, InOwn, OwnIn, DefKeys, DefIn
<1>2. \A id : Undefinable(id) <=> UndefIn(tree, missing, objects, id)
  BY <1>1 DEF Undefinable, UndefIn
<1>3. PICK id : id = Id(call)
  OBVIOUS
<1>4. \A y \in DOMAIN cds : DefKeys(y) = {cds[y]} /\ objects[cds[y]].state = "ok"
  BY <1>1 DEF ResolverInv, CallInv, CdsOK
<1>5. ASSUME NEW op, Ended(op)
      PROVE  /\ call.op = op
             /\ Result(tree, missing, objects, cds, ihashcache, call, outcome, answer, listed)
  BY <1>5 DEF Ended, ResolverInv, CallInv
<1>6. Ended("get_cd") =>
        IF outcome = "ok" THEN {answer} = DefKeys(id) ELSE Undefinable(id)
  BY <1>1, <1>2, <1>3, <1>5 DEF Result, DefResult
<1>7. Ended("get_cd_buf") =>
        IF outcome = "ok" THEN {answer} = InOwn(id) ELSE Undefinable(id) \/ InOwn(id) = {}
  BY <1>1, <1>2, <1>3, <1>5 DEF Result, DefResult, Failed
<1>8. DefinitionsRight
  BY <1>3, <1>4, <1>6, <1>7 DEF DefinitionsRight
<1>9. InstanceFoundUnlessForeign
  <2>1. SUFFICES ASSUME Ended("get_ci") PROVE InstanceFoundUnlessForeign
    BY DEF InstanceFoundUnlessForeign
  <2>2. InstanceResult(tree, missing, objects, ihashcache, call, outcome, answer)
    BY <2>1, <1>5 DEF Result
  <2>3. PICK q : q = CI(call.ns, call.class)
    OBVIOUS
  <2>4. PICK mine : mine = {k \in KeysFor(q) : objects[k].state = "ok" /\ objects[k].ikey = call.ikey}
    OBVIOUS
  <2>5. All(tree, call) = KeysFor(q) /\ mine = {k \in All(tree, call) : Mine(objects, call, k)}
    BY <2>3, <2>4, <1>1 DEF All, Mine
  <2>6. IF outcome = "ok" THEN answer \in mine
        ELSE \/ Undefinable(id) \/ Blocked(q)
             \/ mine = {}
             \/ \E k \in KeysFor(q) : /\ objects[k].state \in {"lost", "garbled"}
                                     /\ \A m \in mine : k < m
             \/ call.ikey \in DOMAIN ihashcache /\ ihashcache[call.ikey].by # id
    BY <2>2, <2>3, <2>5, <1>1, <1>2, <1>3 DEF InstanceResult, Foreign
  <2>7. QED BY <2>3, <2>4, <2>6, <1>3 DEF InstanceFoundUnlessForeign
<1>10. InstancesListed
  <2>1. SUFFICES ASSUME Ended("instances") PROVE InstancesListed
    BY DEF InstancesListed
  <2>2. ListResult(tree, missing, objects, cds, call, outcome, listed)
    BY <2>1, <1>5 DEF Result
  <2>3. PICK q : q = CI(call.ns, call.class)
    OBVIOUS
  <2>4. PICK ok : ok = {k \in KeysFor(q) : objects[k].state = "ok"}
    OBVIOUS
  <2>5. All(tree, call) = KeysFor(q) /\ ok = {m \in All(tree, call) : objects[m].state = "ok"}
        /\ IKeys(tree, objects, call) = {objects[k].ikey : k \in ok} /\ Range(listed) = In(listed)
    BY <2>3, <2>4, <1>1 DEF All, IKeys, Range, In
  <2>6. /\ IsInjective(listed)
        /\ outcome = "raised" => Blocked(q) \/ \E k \in KeysFor(q) : objects[k].state = "lost"
        /\ outcome = "ok" =>
             /\ Range(listed) = IF id \in DOMAIN cds THEN {objects[k].ikey : k \in ok} ELSE {}
             /\ ok # {} /\ id \notin DOMAIN cds => Undefinable(id)
    BY <2>2, <2>3, <2>5, <1>1, <1>2, <1>3 DEF ListResult
  <2>7. QED BY <2>3, <2>4, <2>6, <1>3 DEF InstancesListed
<1>11. QED BY <1>8, <1>9, <1>10

(* Index.lookup_keys finds every key with the prefix and no other, as      *)
(* often as the pages above it double it and each after the smaller ones,  *)
(* whatever lookups came before over the page cache; a page that cannot be *)
(* fetched raises if the prefix leads there, and only then.                *)
THEOREM LookupsAreRight == ResolverSpec => []LookupRight
<1>1. ResolverInv => LookupRight
  BY LookupInvRight DEF ResolverInv
<1>2. QED BY ResolverInvariant, <1>1, PTL

(* get_cd and get_cd_buf give the definition of the class asked for, now   *)
(* or from the cache, and fail only where there is none that can be had.   *)
THEOREM DefinitionsAreRight == ResolverSpec => []DefinitionsRight
<1>1. ResolverInv => DefinitionsRight
  BY ResultRight
<1>2. QED BY ResolverInvariant, <1>1, PTL

(* get_ci gives the instance asked for, and misses one that is there only  *)
(* behind an object it cannot have, or for the hash another class left.    *)
THEOREM InstancesAreFound == ResolverSpec => []InstanceFoundUnlessForeign
<1>1. ResolverInv => InstanceFoundUnlessForeign
  BY ResultRight
<1>2. QED BY ResolverInvariant, <1>1, PTL

(* TreeClassDefinition.instances yields each instance key once and leaves  *)
(* out no instance that can be parsed, if the class can be had at all.     *)
THEOREM ListingsAreWhole == ResolverSpec => []InstancesListed
<1>1. ResolverInv => InstancesListed
  BY ResultRight
<1>2. QED BY ResolverInvariant, <1>1, PTL
=============================================================================
