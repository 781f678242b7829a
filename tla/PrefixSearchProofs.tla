------------------------- MODULE PrefixSearchProofs -------------------------
(***************************************************************************)
(* For every tree, prefix and state of the file: no key is found twice,    *)
(* and a search that returns TRUE has found every key it could find.       *)
(*                                                                         *)
(* Both rest on one notion: the keys still ahead of the search, those of   *)
(* the page just called and those ahead of each active call.  What is      *)
(* ahead only shrinks; a key found was ahead and is so no longer; a wanted *)
(* key that stops being ahead is found, or one of those known to be        *)
(* missed.                                                                 *)
(***************************************************************************)
EXTENDS PrefixSearch, TLAPS

InSlot(t, p, s, k) == Left(t, p, s) < k /\ k < Right(t, p, s)

(* The keys a call has still to look at: the rest of its page while it     *)
(* scans, and the slots it has put by.                                     *)
AheadOf(t, f, k) ==
  \/ f.at = "scan" /\ Left(t, f.page, f.index) < k /\ k < t.hi[f.page]
  \/ \E j \in f.pageit .. Len(f.nextpages) : InSlot(t, f.page, f.nextpages[j], k)

Ahead(k) ==
  \/ pc = "call" /\ logpage \in tree.pages /\ k \in Under(tree, logpage)
  \/ \E d \in DOMAIN stack : AheadOf(tree, stack[d], k)

FrameType(t) ==
  [page : t.pages, at : {"scan", "descend"}, index : Nat \ {0}, nextpages : Seq(Nat),
   pageit : Nat \ {0}, ret : BOOLEAN]

FrameOK(t, q, f) ==
  /\ f \in FrameType(t)
  /\ f.index \in Slots(t, f.page)
  /\ f.nextpages \in Seq(Slots(t, f.page))
  /\ \A i, j \in DOMAIN f.nextpages : i < j => f.nextpages[i] < f.nextpages[j]
  /\ f.pageit <= Len(f.nextpages) + 1
  /\ f.at = "scan" =>
       /\ \A i \in DOMAIN f.nextpages : f.nextpages[i] < f.index
       /\ f.nextpages # <<>> =>
            f.index > 1 /\ Matches(t.keys[f.page][f.index - 1], q)

SearchTypeOK ==
  /\ tree \in Trees
  /\ query \in Queries
  /\ medium \in Faults[tree]
  /\ bXP \in BOOLEAN
  /\ pc \in {"root", "call", "run", "done", "thrown"}
  /\ logpage \in tree.pages \union {AdminPage}
  /\ stack \in Seq(FrameType(tree))
  /\ \A d \in DOMAIN stack : FrameOK(tree, query, stack[d])
  /\ m_aResult \in Seq(Int)
  /\ ret \in BOOLEAN
  /\ pc = "run" => stack # <<>>
  /\ pc \in {"root", "done"} => stack = <<>>
  /\ pc = "root" => m_aResult = <<>>

(* What is under the page of a call is not ahead of its callers.           *)
Separate ==
  /\ pc = "call" /\ logpage \in tree.pages =>
       \A d \in DOMAIN stack : \A k \in Under(tree, logpage) : ~ AheadOf(tree, stack[d], k)
  /\ \A d, e \in DOMAIN stack : d < e =>
       \A k \in Under(tree, stack[d].page) : ~ AheadOf(tree, stack[e], k)

FoundBehind == \A k \in Found : k \in tree.all /\ ~ Ahead(k)

AllTrue == (\A d \in DOMAIN stack : stack[d].ret) /\ (pc = "done" => ret)

Missed(k) == k \in Found \/ RightOfLast(k) \/ Lost(k)

Covered ==
  RootKnown /\ pc \in {"call", "run", "done"} =>
    /\ pc = "call" => logpage \in tree.pages
    /\ AllActive => AllTrue
    /\ AllTrue => \A k \in Wanted(tree, query) : Missed(k) \/ Ahead(k)

SearchInv == SearchTypeOK /\ Separate /\ FoundBehind /\ ResultsOnce /\ Covered
-----------------------------------------------------------------------------
(* What the assumptions say of one page.                                   *)
LEMMA PageFacts ==
  ASSUME NEW t \in Trees, NEW p \in t.pages
  PROVE  /\ t.keys[p] \in Seq(Int)
         /\ Len(t.keys[p]) \in Nat \ {0}
         /\ DOMAIN t.keys[p] = 1 .. Len(t.keys[p])
         /\ t.lo[p] \in Int /\ t.hi[p] \in Int /\ t.lo[p] < t.hi[p]
         /\ \A i \in 1 .. Len(t.keys[p]) :
              /\ t.keys[p][i] \in Int
              /\ t.keys[p][i] \in Under(t, p)
              /\ t.lo[p] < t.keys[p][i] /\ t.keys[p][i] < t.hi[p]
         /\ \A i, j \in 1 .. Len(t.keys[p]) : i < j => t.keys[p][i] < t.keys[p][j]
<1>1. IsTree(t) /\ Ordered(t) /\ Searchable(t)
  BY TreesAssumption
<1>2. t.keys[p] \in Seq(Int) /\ t.lo[p] \in Int /\ t.hi[p] \in Int
  BY <1>1 DEF IsTree
<1>3. t.keys[p] # <<>>
      /\ (\A i, j \in DOMAIN t.keys[p] : i < j => t.keys[p][i] < t.keys[p][j])
      /\ (\A k \in KeysOf(t, p) : t.lo[p] < k /\ k < t.hi[p])
  BY <1>1 DEF Ordered
<1>4. Len(t.keys[p]) \in Nat \ {0} /\ DOMAIN t.keys[p] = 1 .. Len(t.keys[p])
  BY <1>2, <1>3
<1>5. \A i \in 1 .. Len(t.keys[p]) : t.keys[p][i] \in KeysOf(t, p) /\ t.keys[p][i] \in Int
  BY <1>2, <1>4 DEF KeysOf
<1>6. KeysOf(t, p) \subseteq t.all
  BY <1>1 DEF Searchable
<1>7. \A i \in 1 .. Len(t.keys[p]) : t.keys[p][i] \in Under(t, p)
  BY <1>3, <1>5, <1>6 DEF Under
<1>8. t.lo[p] < t.hi[p]
  <2>1. 1 \in 1 .. Len(t.keys[p])
    BY <1>4
  <2>2. t.lo[p] < t.keys[p][1] /\ t.keys[p][1] < t.hi[p] /\ t.keys[p][1] \in Int
    BY <2>1, <1>3, <1>5
  <2>3. QED BY <2>2, <1>2
<1>9. QED BY <1>2, <1>3, <1>4, <1>5, <1>7, <1>8

LEMMA KeysAreInt ==
  ASSUME NEW t \in Trees, NEW k \in t.all
  PROVE  k \in Int
<1>1. PICK p \in t.pages : k \in KeysOf(t, p)
  BY TreesAssumption DEF Searchable
<1>2. PICK i \in DOMAIN t.keys[p] : k = t.keys[p][i]
  BY <1>1 DEF KeysOf
<1>3. QED BY <1>2, PageFacts

(* A slot lies inside its page, and no key of the page in it.              *)
LEMMA SlotFacts ==
  ASSUME NEW t \in Trees, NEW p \in t.pages, NEW s \in Slots(t, p)
  PROVE  /\ Left(t, p, s) \in Int /\ Right(t, p, s) \in Int
         /\ t.lo[p] <= Left(t, p, s) /\ Right(t, p, s) <= t.hi[p]
         /\ \A i \in 1 .. Len(t.keys[p]) : ~ InSlot(t, p, s, t.keys[p][i])
<1> DEFINE K == t.keys[p]
<1>1. s \in 1 .. Len(K) + 1 /\ Len(K) \in Nat \ {0}
  BY PageFacts DEF Slots
<1>2. t.lo[p] \in Int /\ t.hi[p] \in Int /\ t.lo[p] < t.hi[p]
  BY PageFacts
<1>3. \A i \in 1 .. Len(K) : K[i] \in Int /\ t.lo[p] < K[i] /\ K[i] < t.hi[p]
  BY PageFacts
<1>4. \A i, j \in 1 .. Len(K) : i < j => K[i] < K[j]
  BY PageFacts
<1> HIDE DEF K
<1>5. Left(t, p, s) = IF s = 1 THEN t.lo[p] ELSE K[s - 1]
  BY DEF Left, K
<1>6. Right(t, p, s) = IF s = Len(K) + 1 THEN t.hi[p] ELSE K[s]
  BY DEF Right, K
<1>7. Left(t, p, s) \in Int /\ t.lo[p] <= Left(t, p, s)
  <2>1. CASE s = 1
    BY <2>1, <1>2, <1>5
  <2>2. CASE s # 1
    <3>1. s - 1 \in 1 .. Len(K)
      BY <2>2, <1>1
    <3>2. QED BY <2>2, <3>1, <1>2, <1>3, <1>5
  <2>3. QED BY <2>1, <2>2
<1>8. Right(t, p, s) \in Int /\ Right(t, p, s) <= t.hi[p]
  <2>1. CASE s = Len(K) + 1
    BY <2>1, <1>2, <1>6
  <2>2. CASE s # Len(K) + 1
    <3>1. s \in 1 .. Len(K)
      BY <2>2, <1>1
    <3>2. QED BY <2>2, <3>1, <1>2, <1>3, <1>6
  <2>3. QED BY <2>1, <2>2
<1>9. ASSUME NEW i \in 1 .. Len(K), InSlot(t, p, s, K[i])
      PROVE  FALSE
  <2>1. K[i] \in Int
    BY <1>3
  <2>2. CASE i < s
    <3>1. s - 1 \in 1 .. Len(K) /\ s # 1
      BY <2>2, <1>1
    <3>2. K[i] <= K[s - 1]
      <4>1. CASE i = s - 1
        BY <4>1, <2>1
      <4>2. CASE i # s - 1
        <5>1. i < s - 1
          BY <4>2, <2>2, <1>1
        <5>2. QED BY <5>1, <3>1, <1>4, <1>3
      <4>3. QED BY <4>1, <4>2
    <3>3. QED BY <3>1, <3>2, <1>9, <1>5, <1>3 DEF InSlot
  <2>3. CASE ~ (i < s)
    <3>1. s \in 1 .. Len(K) /\ s # Len(K) + 1
      BY <2>3, <1>1
    <3>2. K[s] <= K[i]
      <4>1. CASE i = s
        BY <4>1, <2>1
      <4>2. CASE i # s
        <5>1. s < i
          BY <4>2, <2>3, <1>1
        <5>2. QED BY <5>1, <3>1, <1>4, <1>3
      <4>3. QED BY <4>1, <4>2
    <3>3. QED BY <3>1, <3>2, <1>9, <1>6, <1>3 DEF InSlot
  <2>4. QED BY <2>2, <2>3
<1>10. QED BY <1>7, <1>8, <1>9 DEF K

(* Two slots of a page have no key in common.                              *)
LEMMA SlotsApart ==
  ASSUME NEW t \in Trees, NEW p \in t.pages, NEW s \in Slots(t, p), NEW r \in Slots(t, p),
         s < r, NEW k \in Int, InSlot(t, p, s, k), InSlot(t, p, r, k)
  PROVE  FALSE
<1> DEFINE K == t.keys[p]
<1>1. s \in 1 .. Len(K) /\ r - 1 \in 1 .. Len(K) /\ s <= r - 1 /\ r # 1 /\ s # Len(K) + 1
  BY PageFacts DEF Slots
<1>2. \A i \in 1 .. Len(K) : K[i] \in Int
  BY PageFacts
<1>3. \A i, j \in 1 .. Len(K) : i < j => K[i] < K[j]
  BY PageFacts
<1>4. k < K[s]
  BY <1>1 DEF InSlot, Right
<1>5. K[r - 1] < k
  BY <1>1 DEF InSlot, Left
<1> HIDE DEF K
<1>6. K[s] <= K[r - 1]
  <2>1. CASE s = r - 1
    BY <2>1, <1>1, <1>2
  <2>2. CASE s # r - 1
    <3>1. s < r - 1
      BY <2>2, <1>1 DEF Slots
    <3>2. QED BY <3>1, <1>1, <1>2, <1>3
  <2>3. QED BY <2>1, <2>2
<1>7. QED BY <1>1, <1>2, <1>4, <1>5, <1>6

(* The keys under a child are those of its slot, and under its parent.     *)
LEMMA ChildFacts ==
  ASSUME NEW t \in Trees, NEW p \in t.pages, NEW s \in Slots(t, p)
  PROVE  /\ t.child[p][s] = NoPage => \A k \in t.all : ~ InSlot(t, p, s, k)
         /\ t.child[p][s] # NoPage =>
              /\ t.child[p][s] \in t.pages
              /\ \A k \in t.all : k \in Under(t, t.child[p][s]) <=> InSlot(t, p, s, k)
              /\ Under(t, t.child[p][s]) \subseteq Under(t, p)
<1> DEFINE c == t.child[p][s]
<1>1. IsTree(t) /\ Searchable(t)
  BY TreesAssumption
<1>2. DOMAIN t.child[p] = Slots(t, p)
  BY <1>1 DEF Searchable
<1>3. c \in t.pages \union {NoPage}
  <2>1. t.child[p] \in Seq(t.pages \union {NoPage})
    BY <1>1 DEF IsTree
  <2>2. QED BY <2>1, <1>2
<1>4. c = NoPage => \A k \in t.all : ~ InSlot(t, p, s, k)
  BY <1>1 DEF Searchable, InSlot
<1>5. ASSUME c # NoPage
      PROVE  /\ c \in t.pages
             /\ \A k \in t.all : k \in Under(t, c) <=> InSlot(t, p, s, k)
             /\ Under(t, c) \subseteq Under(t, p)
  <2>1. t.lo[c] = Left(t, p, s) /\ t.hi[c] = Right(t, p, s)
    BY <1>1, <1>5 DEF Searchable
  <2>2. \A k \in t.all : k \in Under(t, c) <=> InSlot(t, p, s, k)
    BY <2>1 DEF Under, InSlot
  <2>3. ASSUME NEW k \in Under(t, c)
        PROVE  k \in Under(t, p)
    <3>1. k \in t.all /\ k \in Int /\ Left(t, p, s) < k /\ k < Right(t, p, s)
      BY <2>1, KeysAreInt DEF Under
    <3>2. t.lo[p] <= Left(t, p, s) /\ Right(t, p, s) <= t.hi[p]
          /\ Left(t, p, s) \in Int /\ Right(t, p, s) \in Int
          /\ t.lo[p] \in Int /\ t.hi[p] \in Int
      BY SlotFacts, PageFacts
    <3>3. QED BY <3>1, <3>2 DEF Under
  <2>4. QED BY <1>3, <1>5, <2>2, <2>3
<1>6. QED BY <1>4, <1>5
-----------------------------------------------------------------------------
(* A slot put by is ahead as the slots before it are.                      *)
LEMMA PutBy ==
  ASSUME NEW t, NEW p, NEW s \in Seq(Nat), NEW x \in Nat, NEW a \in 1 .. Len(s) + 1, NEW k
  PROVE  (\E j \in a .. Len(Append(s, x)) : InSlot(t, p, Append(s, x)[j], k))
           <=> (\E j \in a .. Len(s) : InSlot(t, p, s[j], k)) \/ InSlot(t, p, x, k)
<1>1. Len(s) \in Nat /\ Len(Append(s, x)) = Len(s) + 1
  OBVIOUS
<1>2. \A j \in 1 .. Len(s) : Append(s, x)[j] = s[j]
  OBVIOUS
<1>3. Append(s, x)[Len(s) + 1] = x
  OBVIOUS
<1>4. ASSUME NEW j \in a .. Len(Append(s, x)), InSlot(t, p, Append(s, x)[j], k)
      PROVE  (\E m \in a .. Len(s) : InSlot(t, p, s[m], k)) \/ InSlot(t, p, x, k)
  <2>1. CASE j = Len(s) + 1
    BY <2>1, <1>3, <1>4
  <2>2. CASE j # Len(s) + 1
    <3>1. j \in a .. Len(s) /\ j \in 1 .. Len(s)
      BY <2>2, <1>1
    <3>2. QED BY <3>1, <1>2, <1>4
  <2>3. QED BY <2>1, <2>2
<1>5. ASSUME NEW j \in a .. Len(s), InSlot(t, p, s[j], k)
      PROVE  \E m \in a .. Len(Append(s, x)) : InSlot(t, p, Append(s, x)[m], k)
  <2>1. j \in a .. Len(Append(s, x)) /\ j \in 1 .. Len(s)
    BY <1>1
  <2>2. QED BY <2>1, <1>2, <1>5
<1>6. ASSUME InSlot(t, p, x, k)
      PROVE  \E m \in a .. Len(Append(s, x)) : InSlot(t, p, Append(s, x)[m], k)
  <2>1. Len(s) + 1 \in a .. Len(Append(s, x))
    BY <1>1
  <2>2. QED BY <2>1, <1>3, <1>6
<1>7. QED BY <1>4, <1>5, <1>6

(* The slots put by with one more stay in order.                           *)
LEMMA PutByInOrder ==
  ASSUME NEW S \in SUBSET Nat, NEW s \in Seq(S), NEW x \in S,
         \A i, j \in DOMAIN s : i < j => s[i] < s[j],
         \A i \in DOMAIN s : s[i] < x
  PROVE  /\ Append(s, x) \in Seq(S)
         /\ Len(Append(s, x)) = Len(s) + 1
         /\ \A i, j \in DOMAIN Append(s, x) : i < j => Append(s, x)[i] < Append(s, x)[j]
         /\ \A i \in DOMAIN Append(s, x) : Append(s, x)[i] <= x
<1> DEFINE w == Append(s, x)
<1>1. Len(s) \in Nat /\ DOMAIN s = 1 .. Len(s) /\ w \in Seq(S) /\ Len(w) = Len(s) + 1
      /\ DOMAIN w = 1 .. Len(s) + 1
  OBVIOUS
<1>2. (\A i \in 1 .. Len(s) : w[i] = s[i]) /\ w[Len(s) + 1] = x
  OBVIOUS
<1>3. x \in Nat /\ \A i \in 1 .. Len(s) : s[i] \in Nat
  <2>1. \A i \in 1 .. Len(s) : s[i] \in S
    OBVIOUS
  <2>2. QED BY <2>1
<1> HIDE DEF w
<1>4. ASSUME NEW i \in DOMAIN w, NEW j \in DOMAIN w, i < j
      PROVE  w[i] < w[j]
  <2>1. i \in 1 .. Len(s) /\ w[i] = s[i] /\ s[i] < x
    BY <1>1, <1>2, <1>4
  <2>2. CASE j = Len(s) + 1
    BY <2>1, <2>2, <1>2
  <2>3. CASE j # Len(s) + 1
    <3>1. j \in 1 .. Len(s) /\ w[j] = s[j]
      BY <2>3, <1>1, <1>2
    <3>2. QED BY <2>1, <3>1, <1>1, <1>4
  <2>4. QED BY <2>2, <2>3
<1>5. ASSUME NEW i \in DOMAIN w
      PROVE  w[i] <= x
  <2>1. CASE i = Len(s) + 1
    BY <2>1, <1>2, <1>3
  <2>2. CASE i # Len(s) + 1
    <3>1. i \in 1 .. Len(s)
      BY <2>2, <1>1
    <3>2. QED BY <3>1, <1>1, <1>2, <1>3
  <2>3. QED BY <2>1, <2>2
<1>6. QED BY <1>1, <1>4, <1>5 DEF w

(* What the facts about a frame come to.                                   *)
LEMMA FrameFacts ==
  ASSUME NEW t \in Trees, NEW q \in Queries, NEW f, FrameOK(t, q, f)
  PROVE  /\ f.page \in t.pages
         /\ f.index \in 1 .. Len(t.keys[f.page]) + 1
         /\ f.nextpages \in Seq(Nat)
         /\ f.pageit \in 1 .. Len(f.nextpages) + 1
         /\ Len(f.nextpages) \in Nat
         /\ Slots(t, f.page) \in SUBSET Nat
         /\ f.at \in {"scan", "descend"} /\ f.ret \in BOOLEAN
<1>1. f \in FrameType(t)
  BY DEF FrameOK
<1>2. f.page \in t.pages /\ f.nextpages \in Seq(Nat) /\ f.pageit \in Nat \ {0}
      /\ f.at \in {"scan", "descend"} /\ f.ret \in BOOLEAN
  BY <1>1 DEF FrameType
<1>3. Len(t.keys[f.page]) \in Nat
  BY <1>2, PageFacts
<1>4. Len(f.nextpages) \in Nat
  BY <1>2
<1>5. f.pageit \in 1 .. Len(f.nextpages) + 1
  BY <1>2, <1>4 DEF FrameOK
<1>6. QED BY <1>2, <1>3, <1>4, <1>5 DEF FrameOK, Slots

(* The keys of one page that can be ahead are compared as integers.        *)
LEMMA ScanMatchFrame ==
  ASSUME NEW t \in Trees, NEW q \in Queries, NEW f, FrameOK(t, q, f),
         f.at = "scan", f.index <= Len(t.keys[f.page]),
         Matches(t.keys[f.page][f.index], q)
  PROVE  LET g   == [f EXCEPT !.nextpages = Append(@, f.index), !.index = @ + 1]
             key == t.keys[f.page][f.index]
         IN  /\ FrameOK(t, q, g) /\ g.page = f.page /\ g.ret = f.ret
             /\ key \in Under(t, f.page) /\ key \in Int
             /\ AheadOf(t, f, key) /\ ~ AheadOf(t, g, key)
             /\ \A k \in Int : AheadOf(t, g, k) => AheadOf(t, f, k)
             /\ \A k \in Int : AheadOf(t, f, k) => AheadOf(t, g, k) \/ k = key
<1> DEFINE x   == f.index
           p   == f.page
           s   == f.nextpages
           key == t.keys[p][x]
           g   == [f EXCEPT !.nextpages = Append(@, x), !.index = @ + 1]
<1>1. f \in FrameType(t) /\ p \in t.pages /\ x \in 1 .. Len(t.keys[p]) /\ s \in Seq(Nat)
      /\ f.pageit \in 1 .. Len(s) + 1 /\ Len(t.keys[p]) \in Nat /\ Len(s) \in Nat
  BY FrameFacts, PageFacts DEF FrameOK
<1>2. /\ g.page = p /\ g.ret = f.ret /\ g.at = "scan" /\ g.pageit = f.pageit
      /\ g.index = x + 1 /\ g.nextpages = Append(s, x) /\ g \in FrameType(t)
  <2>1. x + 1 \in Nat \ {0} /\ Append(s, x) \in Seq(Nat)
    BY <1>1
  <2>2. QED BY <1>1, <2>1 DEF FrameType
<1>3. x \in Slots(t, p) /\ x + 1 \in Slots(t, p) /\ Slots(t, p) \in SUBSET Nat
  BY <1>1 DEF Slots
<1>4. /\ Append(s, x) \in Seq(Slots(t, p))
      /\ Len(Append(s, x)) = Len(s) + 1
      /\ \A i, j \in DOMAIN Append(s, x) : i < j => Append(s, x)[i] < Append(s, x)[j]
      /\ \A i \in DOMAIN Append(s, x) : Append(s, x)[i] <= x
  BY <1>1, <1>3, PutByInOrder DEF FrameOK
<1> HIDE DEF g
<1>5. FrameOK(t, q, g)
  <2>1. \A i \in DOMAIN Append(s, x) : Append(s, x)[i] < x + 1
    <3>1. \A i \in DOMAIN Append(s, x) : Append(s, x)[i] \in Nat
      BY <1>1
    <3>2. x \in Nat /\ \A i \in DOMAIN Append(s, x) : Append(s, x)[i] <= x
      BY <1>1, <1>4
    <3>3. QED BY ONLY <3>1, <3>2
  <2>2. x + 1 > 1 /\ (x + 1) - 1 = x
    BY <1>1
  <2>3. f.pageit <= Len(Append(s, x)) + 1
    BY <1>1, <1>4
  <2>4. QED BY <1>2, <1>3, <1>4, <2>1, <2>2, <2>3 DEF FrameOK
<1>6. key \in Under(t, p) /\ key \in Int /\ t.lo[p] < key /\ key < t.hi[p]
      /\ t.lo[p] \in Int /\ t.hi[p] \in Int
  BY <1>1, PageFacts
<1>7. Left(t, p, x) < key /\ Left(t, p, x) \in Int /\ Right(t, p, x) = key
  <2>1. CASE x = 1
    BY <2>1, <1>1, <1>6 DEF Left, Right
  <2>2. CASE x # 1
    <3>1. x - 1 \in 1 .. Len(t.keys[p]) /\ x - 1 < x /\ x # Len(t.keys[p]) + 1
      BY <2>2, <1>1
    <3>2. t.keys[p][x - 1] \in Int /\ t.keys[p][x - 1] < key
      BY <3>1, <1>1, PageFacts
    <3>3. QED BY <2>2, <3>1, <3>2 DEF Left, Right
  <2>3. QED BY <2>1, <2>2
<1>8. Left(t, p, x + 1) = key
  BY <1>1 DEF Left
<1>9. \A k : AheadOf(t, f, k) <=>
               \/ Left(t, p, x) < k /\ k < t.hi[p]
               \/ \E j \in f.pageit .. Len(s) : InSlot(t, p, s[j], k)
  BY DEF AheadOf
<1>10. \A k : AheadOf(t, g, k) <=>
               \/ key < k /\ k < t.hi[p]
               \/ \E j \in f.pageit .. Len(s) : InSlot(t, p, s[j], k)
               \/ InSlot(t, p, x, k)
  <2>1. \A k : AheadOf(t, g, k) <=>
               \/ key < k /\ k < t.hi[p]
               \/ \E j \in f.pageit .. Len(Append(s, x)) : InSlot(t, p, Append(s, x)[j], k)
    BY <1>2, <1>8 DEF AheadOf
  <2>2. \A k : (\E j \in f.pageit .. Len(Append(s, x)) : InSlot(t, p, Append(s, x)[j], k))
           <=> (\E j \in f.pageit .. Len(s) : InSlot(t, p, s[j], k)) \/ InSlot(t, p, x, k)
    <3>1. x \in Nat
      BY <1>1
    <3>2. QED BY <1>1, <3>1, PutBy
  <2>3. QED BY <2>1, <2>2
<1>11. \A k : InSlot(t, p, x, k) <=> Left(t, p, x) < k /\ k < key
  BY <1>7 DEF InSlot
<1>12. \A j \in f.pageit .. Len(s) : ~ InSlot(t, p, s[j], key)
  <2>1. \A j \in f.pageit .. Len(s) : s[j] \in Slots(t, p)
    BY <1>1 DEF FrameOK
  <2>2. QED BY <2>1, <1>1, SlotFacts
<1> HIDE DEF key, s, x, p
<1>13. AheadOf(t, f, key)
  BY <1>6, <1>7, <1>9
<1>14. ~ AheadOf(t, g, key)
  BY <1>6, <1>10, <1>11, <1>12
<1>15. \A k \in Int : AheadOf(t, g, k) => AheadOf(t, f, k)
  BY <1>6, <1>7, <1>9, <1>10, <1>11
<1>16. \A k \in Int : AheadOf(t, f, k) => AheadOf(t, g, k) \/ k = key
  BY <1>6, <1>7, <1>9, <1>10, <1>11
<1>17. QED BY <1>2, <1>5, <1>6, <1>13, <1>14, <1>15, <1>16 DEF g, key, s, x, p
(* A key below the prefix: nothing before it has the prefix.               *)
LEMMA ScanBelowFrame ==
  ASSUME NEW t \in Trees, NEW q \in Queries, NEW f, FrameOK(t, q, f),
         f.at = "scan", f.index <= Len(t.keys[f.page]),
         Below(t.keys[f.page][f.index], q)
  PROVE  LET g == [f EXCEPT !.index = @ + 1]
         IN  /\ FrameOK(t, q, g) /\ g.page = f.page /\ g.ret = f.ret
             /\ \A k \in Int : AheadOf(t, g, k) => AheadOf(t, f, k)
             /\ \A k \in Int : Matches(k, q) /\ AheadOf(t, f, k) => AheadOf(t, g, k)
<1> DEFINE x   == f.index
           p   == f.page
           s   == f.nextpages
           key == t.keys[p][x]
           g   == [f EXCEPT !.index = @ + 1]
<1>1. f \in FrameType(t) /\ p \in t.pages /\ x \in 1 .. Len(t.keys[p]) /\ s \in Seq(Nat)
      /\ Len(t.keys[p]) \in Nat
  BY FrameFacts, PageFacts DEF FrameOK
<1>2. /\ g.page = p /\ g.ret = f.ret /\ g.at = "scan" /\ g.pageit = f.pageit
      /\ g.index = x + 1 /\ g.nextpages = s /\ g \in FrameType(t)
  <2>1. x + 1 \in Nat \ {0}
    BY <1>1
  <2>2. QED BY <1>1, <2>1 DEF FrameType
<1> HIDE DEF g
<1>3. key \in Int /\ key < q.lo /\ q.lo \in Int /\ q.hi \in Int /\ t.hi[p] \in Int
  BY <1>1, PageFacts, QueriesAssumption DEF Below
<1>4. Left(t, p, x) < key /\ Left(t, p, x) \in Int
  <2>1. CASE x = 1
    <3>1. t.lo[p] \in Int /\ t.lo[p] < key
      BY <1>1, PageFacts
    <3>2. QED BY <2>1, <3>1 DEF Left
  <2>2. CASE x # 1
    <3>1. x - 1 \in 1 .. Len(t.keys[p]) /\ x - 1 < x
      BY <2>2, <1>1
    <3>2. t.keys[p][x - 1] \in Int /\ t.keys[p][x - 1] < key
      BY <3>1, <1>1, PageFacts
    <3>3. QED BY <2>2, <3>2 DEF Left
  <2>3. QED BY <2>1, <2>2
<1>5. Left(t, p, x + 1) = key
  BY <1>1 DEF Left
<1>6. s = <<>>
  <2>1. SUFFICES ASSUME s # <<>> PROVE FALSE
    OBVIOUS
  <2>2. x > 1 /\ Matches(t.keys[p][x - 1], q)
    BY <2>1 DEF FrameOK
  <2>3. Left(t, p, x) = t.keys[p][x - 1]
    BY <2>2 DEF Left
  <2>4. QED BY <2>2, <2>3, <1>3, <1>4 DEF Matches, Below
<1>7. FrameOK(t, q, g)
  <2>1. x + 1 \in Slots(t, p)
    BY <1>1 DEF Slots
  <2>2. DOMAIN s = {}
    BY <1>6
  <2>3. QED BY <1>2, <1>6, <2>1, <2>2 DEF FrameOK
<1>8. \A k \in Int : AheadOf(t, g, k) => AheadOf(t, f, k)
  BY <1>2, <1>3, <1>4, <1>5 DEF AheadOf
<1>9. ASSUME NEW k \in Int, Matches(k, q), AheadOf(t, f, k)
      PROVE  AheadOf(t, g, k)
  <2>1. key < k
    BY <1>3, <1>9 DEF Matches, Below
  <2>2. QED BY <1>2, <1>5, <1>9, <2>1 DEF AheadOf
<1>10. QED BY <1>2, <1>7, <1>8, <1>9 DEF g

(* The scan stops and the slot before the key it stopped at is put by.     *)
LEMMA PutByFrame ==
  ASSUME NEW t \in Trees, NEW q \in Queries, NEW f, FrameOK(t, q, f), f.at = "scan"
  PROVE  LET g == [f EXCEPT !.nextpages = Append(@, f.index), !.at = "descend"]
         IN  /\ FrameOK(t, q, g) /\ g.page = f.page /\ g.ret = f.ret
             /\ \A k \in Int : AheadOf(t, g, k) => AheadOf(t, f, k)
             /\ \A k \in Int : AheadOf(t, f, k) /\ k < Right(t, f.page, f.index)
                                 => AheadOf(t, g, k)
<1> DEFINE x   == f.index
           p   == f.page
           s   == f.nextpages
           g   == [f EXCEPT !.nextpages = Append(@, x), !.at = "descend"]
<1>1. f \in FrameType(t) /\ p \in t.pages /\ x \in Slots(t, p) /\ s \in Seq(Nat)
      /\ f.pageit \in 1 .. Len(s) + 1 /\ Len(s) \in Nat /\ x \in Nat
      /\ Slots(t, p) \in SUBSET Nat
  BY FrameFacts DEF FrameOK
<1>2. /\ g.page = p /\ g.ret = f.ret /\ g.at = "descend" /\ g.pageit = f.pageit
      /\ g.index = x /\ g.nextpages = Append(s, x) /\ g \in FrameType(t)
  <2>1. Append(s, x) \in Seq(Nat)
    BY <1>1
  <2>2. QED BY <1>1, <2>1 DEF FrameType
<1>3. /\ Append(s, x) \in Seq(Slots(t, p))
      /\ Len(Append(s, x)) = Len(s) + 1
      /\ \A i, j \in DOMAIN Append(s, x) : i < j => Append(s, x)[i] < Append(s, x)[j]
  BY <1>1, PutByInOrder DEF FrameOK
<1> HIDE DEF g
<1>4. FrameOK(t, q, g)
  <2>1. f.pageit <= Len(Append(s, x)) + 1
    BY <1>1, <1>3
  <2>2. QED BY <1>1, <1>2, <1>3, <2>1 DEF FrameOK
<1>5. Left(t, p, x) \in Int /\ Right(t, p, x) \in Int /\ Right(t, p, x) <= t.hi[p]
      /\ t.hi[p] \in Int
  BY <1>1, SlotFacts, PageFacts
<1>6. \A k : AheadOf(t, g, k) <=>
               \/ \E j \in f.pageit .. Len(s) : InSlot(t, p, s[j], k)
               \/ InSlot(t, p, x, k)
  <2>1. \A k : AheadOf(t, g, k) <=>
               \E j \in f.pageit .. Len(Append(s, x)) : InSlot(t, p, Append(s, x)[j], k)
    BY <1>2 DEF AheadOf
  <2>2. \A k : (\E j \in f.pageit .. Len(Append(s, x)) : InSlot(t, p, Append(s, x)[j], k))
           <=> (\E j \in f.pageit .. Len(s) : InSlot(t, p, s[j], k)) \/ InSlot(t, p, x, k)
    BY <1>1, PutBy
  <2>3. QED BY <2>1, <2>2
<1>7. \A k : AheadOf(t, f, k) <=>
               \/ Left(t, p, x) < k /\ k < t.hi[p]
               \/ \E j \in f.pageit .. Len(s) : InSlot(t, p, s[j], k)
  BY DEF AheadOf
<1>8. \A k \in Int : AheadOf(t, g, k) => AheadOf(t, f, k)
  BY <1>5, <1>6, <1>7 DEF InSlot
<1>9. \A k \in Int : AheadOf(t, f, k) /\ k < Right(t, p, x) => AheadOf(t, g, k)
  BY <1>6, <1>7 DEF InSlot
<1>10. QED BY <1>2, <1>4, <1>8, <1>9 DEF g

(* A key above the prefix, and nothing after it has the prefix.            *)
LEMMA ScanAboveFrame ==
  ASSUME NEW t \in Trees, NEW q \in Queries, NEW f, FrameOK(t, q, f),
         f.at = "scan", f.index <= Len(t.keys[f.page]),
         Above(t.keys[f.page][f.index], q)
  PROVE  LET g == [f EXCEPT !.nextpages = Append(@, f.index), !.at = "descend"]
         IN  /\ FrameOK(t, q, g) /\ g.page = f.page /\ g.ret = f.ret
             /\ \A k \in Int : AheadOf(t, g, k) => AheadOf(t, f, k)
             /\ \A k \in Int : Matches(k, q) /\ AheadOf(t, f, k) => AheadOf(t, g, k)
<1>1. f.page \in t.pages /\ f.index \in 1 .. Len(t.keys[f.page])
      /\ Len(t.keys[f.page]) \in Nat
  BY FrameFacts, PageFacts
<1>2. Right(t, f.page, f.index) = t.keys[f.page][f.index]
  BY <1>1 DEF Right
<1>3. t.keys[f.page][f.index] \in Int /\ q.hi \in Int
  BY <1>1, PageFacts, QueriesAssumption
<1>4. \A k \in Int : Matches(k, q) => k < Right(t, f.page, f.index)
  BY <1>2, <1>3 DEF Matches, Above
<1>5. QED BY <1>4, PutByFrame

(* No key is left; the last one is what a key still ahead is right of.     *)
LEMMA ScanEndFrame ==
  ASSUME NEW t \in Trees, NEW q \in Queries, NEW f, FrameOK(t, q, f),
         f.at = "scan", f.index > Len(t.keys[f.page])
  PROVE  LET g    == [f EXCEPT !.nextpages = IF @ = <<>> THEN <<f.index>> ELSE @,
                               !.at = "descend"]
             last == t.keys[f.page][Len(t.keys[f.page])]
         IN  /\ FrameOK(t, q, g) /\ g.page = f.page /\ g.ret = f.ret
             /\ \A k \in Int : AheadOf(t, g, k) => AheadOf(t, f, k)
             /\ \A k \in Int : AheadOf(t, f, k) =>
                  \/ AheadOf(t, g, k)
                  \/ Matches(last, q) /\ last < k /\ k < t.hi[f.page]
<1> DEFINE x    == f.index
           p    == f.page
           s    == f.nextpages
           g    == [f EXCEPT !.nextpages = IF @ = <<>> THEN <<x>> ELSE @, !.at = "descend"]
           last == t.keys[p][Len(t.keys[p])]
<1>1. f \in FrameType(t) /\ p \in t.pages /\ x \in Slots(t, p) /\ s \in Seq(Nat)
      /\ Len(t.keys[p]) \in Nat \ {0} /\ x \in 1 .. Len(t.keys[p]) + 1
  BY FrameFacts, PageFacts DEF FrameOK
<1>2. x = Len(t.keys[p]) + 1
  BY <1>1
<1>3. CASE s = <<>>
  <2> DEFINE h == [f EXCEPT !.nextpages = Append(@, x), !.at = "descend"]
  <2>1. g = h
    <3>1. Append(<<>>, x) = <<x>>
      OBVIOUS
    <3>2. QED BY <1>3, <3>1
  <2>2. /\ FrameOK(t, q, h) /\ h.page = p /\ h.ret = f.ret
        /\ \A k \in Int : AheadOf(t, h, k) => AheadOf(t, f, k)
        /\ \A k \in Int : AheadOf(t, f, k) /\ k < Right(t, p, x) => AheadOf(t, h, k)
    BY PutByFrame
  <2> HIDE DEF h, g
  <2>3. Right(t, p, x) = t.hi[p] /\ t.hi[p] \in Int
    BY <1>1, <1>2, PageFacts DEF Right
  <2>4. ASSUME NEW k \in Int, AheadOf(t, f, k)
        PROVE  k < t.hi[p]
    <3>1. Len(s) = 0 /\ f.pageit \in Nat \ {0}
      BY <1>1, <1>3 DEF FrameType
    <3>2. ~ \E j \in f.pageit .. Len(s) : InSlot(t, p, s[j], k)
      BY <3>1
    <3>3. QED BY <2>4, <3>2 DEF AheadOf
  <2>5. QED BY <2>1, <2>2, <2>3, <2>4 DEF g
<1>4. CASE s # <<>>
  <2>1. /\ g.page = p /\ g.ret = f.ret /\ g.at = "descend" /\ g.pageit = f.pageit
        /\ g.index = x /\ g.nextpages = s /\ g \in FrameType(t)
    BY <1>1, <1>4 DEF FrameType
  <2> HIDE DEF g
  <2>2. FrameOK(t, q, g)
    BY <2>1 DEF FrameOK
  <2>3. Matches(last, q)
    <3>1. Matches(t.keys[p][x - 1], q)
      BY <1>4 DEF FrameOK
    <3>2. x - 1 = Len(t.keys[p])
      BY <1>1, <1>2
    <3>3. QED BY <3>1, <3>2
  <2>4. Left(t, p, x) = last
    <3>1. x # 1 /\ x - 1 = Len(t.keys[p])
      BY <1>1, <1>2
    <3>2. QED BY <3>1 DEF Left
  <2>5. QED BY <2>1, <2>2, <2>3, <2>4 DEF AheadOf, g
<1>5. QED BY <1>3, <1>4
(* The call goes down a slot it put by, or passes over it.                 *)
LEMMA NextSlotFrame ==
  ASSUME NEW t \in Trees, NEW q \in Queries, NEW f, FrameOK(t, q, f),
         f.at = "descend", f.pageit <= Len(f.nextpages)
  PROVE  LET g    == [f EXCEPT !.pageit = @ + 1]
             slot == f.nextpages[f.pageit]
         IN  /\ FrameOK(t, q, g) /\ g.page = f.page /\ g.ret = f.ret
             /\ slot \in Slots(t, f.page)
             /\ \A k \in Int : AheadOf(t, f, k) <=> AheadOf(t, g, k) \/ InSlot(t, f.page, slot, k)
             /\ \A k \in Int : ~ (AheadOf(t, g, k) /\ InSlot(t, f.page, slot, k))
<1> DEFINE a    == f.pageit
           p    == f.page
           s    == f.nextpages
           g    == [f EXCEPT !.pageit = @ + 1]
<1>1. f \in FrameType(t) /\ p \in t.pages /\ s \in Seq(Nat) /\ Len(s) \in Nat
      /\ a \in 1 .. Len(s) /\ DOMAIN s = 1 .. Len(s)
  BY FrameFacts DEF FrameOK
<1>2. /\ g.page = p /\ g.ret = f.ret /\ g.at = "descend" /\ g.pageit = a + 1
      /\ g.index = f.index /\ g.nextpages = s /\ g \in FrameType(t)
  <2>1. a + 1 \in Nat \ {0}
    BY <1>1
  <2>2. QED BY <1>1, <2>1 DEF FrameType
<1> HIDE DEF g
<1>3. FrameOK(t, q, g)
  <2>1. a + 1 <= Len(s) + 1
    BY <1>1
  <2>2. QED BY <1>2, <2>1 DEF FrameOK
<1>4. \A j \in 1 .. Len(s) : s[j] \in Slots(t, p)
  BY <1>1 DEF FrameOK
<1>5. \A k : AheadOf(t, f, k) <=> \E j \in a .. Len(s) : InSlot(t, p, s[j], k)
  BY DEF AheadOf
<1>6. \A k : AheadOf(t, g, k) <=> \E j \in a + 1 .. Len(s) : InSlot(t, p, s[j], k)
  BY <1>2 DEF AheadOf
<1>7. \A j : j \in a .. Len(s) <=> j = a \/ j \in a + 1 .. Len(s)
  BY <1>1
<1>8. \A k \in Int : AheadOf(t, f, k) <=> AheadOf(t, g, k) \/ InSlot(t, p, s[a], k)
  BY <1>5, <1>6, <1>7
<1>9. ASSUME NEW k \in Int, AheadOf(t, g, k), InSlot(t, p, s[a], k)
      PROVE  FALSE
  <2>1. PICK j \in a + 1 .. Len(s) : InSlot(t, p, s[j], k)
    BY <1>6, <1>9
  <2>2. j \in 1 .. Len(s) /\ a < j
    BY <1>1
  <2>3. s[a] < s[j]
    BY <1>1, <2>2 DEF FrameOK
  <2>4. QED BY <1>1, <1>4, <1>9, <2>1, <2>2, <2>3, SlotsApart
<1>10. QED BY <1>1, <1>2, <1>3, <1>4, <1>8, <1>9 DEF g

(* A caller takes over what its callee returned.                           *)
LEMMA ReturnFrame ==
  ASSUME NEW t \in Trees, NEW q \in Queries, NEW f, FrameOK(t, q, f), NEW v \in BOOLEAN
  PROVE  LET g == [f EXCEPT !.ret = @ /\ v]
         IN  /\ FrameOK(t, q, g) /\ g.page = f.page /\ g.ret = (f.ret /\ v)
             /\ \A k : AheadOf(t, g, k) <=> AheadOf(t, f, k)
<1> DEFINE g == [f EXCEPT !.ret = @ /\ v]
<1>1. f \in FrameType(t) /\ (f.ret /\ v) \in BOOLEAN
  BY DEF FrameOK
<1>2. /\ g.page = f.page /\ g.ret = (f.ret /\ v) /\ g.at = f.at /\ g.pageit = f.pageit
      /\ g.index = f.index /\ g.nextpages = f.nextpages /\ g \in FrameType(t)
  BY <1>1 DEF FrameType
<1> HIDE DEF g
<1>3. FrameOK(t, q, g)
  BY <1>2 DEF FrameOK
<1>4. \A k : AheadOf(t, g, k) <=> AheadOf(t, f, k)
  BY <1>2 DEF AheadOf
<1>5. QED BY <1>2, <1>3, <1>4 DEF g

(* A call starts with all of its page ahead.                               *)
LEMMA NewFrame ==
  ASSUME NEW t \in Trees, NEW q \in Queries, NEW p \in t.pages
  PROVE  /\ FrameOK(t, q, Frame(p)) /\ Frame(p).page = p /\ Frame(p).ret
         /\ \A k \in t.all : AheadOf(t, Frame(p), k) <=> k \in Under(t, p)
<1> DEFINE f == Frame(p)
<1>1. /\ f.page = p /\ f.ret = TRUE /\ f.at = "scan" /\ f.pageit = 1
      /\ f.index = 1 /\ f.nextpages = <<>>
  BY DEF Frame
<1>2. <<>> \in Seq(Nat) /\ <<>> \in Seq(Slots(t, p)) /\ DOMAIN <<>> = {} /\ Len(<<>>) = 0
  OBVIOUS
<1>3. f \in FrameType(t)
  BY <1>2 DEF Frame, FrameType
<1>4. 1 \in Slots(t, p)
  BY PageFacts DEF Slots
<1> HIDE DEF f
<1>5. FrameOK(t, q, f)
  BY <1>1, <1>2, <1>3, <1>4 DEF FrameOK
<1>6. \A k : AheadOf(t, f, k) <=> t.lo[p] < k /\ k < t.hi[p]
  BY <1>1, <1>2 DEF AheadOf, Left
<1>7. QED BY <1>1, <1>5, <1>6 DEF Under, f

-----------------------------------------------------------------------------
(* The stack, when its top is replaced, pushed or popped.                  *)
LEMMA TopReplaced ==
  ASSUME NEW S, NEW s \in Seq(S), s # <<>>, NEW g \in S
  PROVE  LET r == <<g>> \o Tail(s)
         IN  /\ r \in Seq(S) /\ r # <<>> /\ DOMAIN r = DOMAIN s /\ 1 \in DOMAIN s
             /\ r[1] = g /\ \A d \in DOMAIN s : d # 1 => r[d] = s[d]
<1> DEFINE r == <<g>> \o Tail(s)
<1>1. Len(s) \in Nat \ {0} /\ DOMAIN s = 1 .. Len(s)
  OBVIOUS
<1>2. Tail(s) \in Seq(S) /\ Len(Tail(s)) = Len(s) - 1
      /\ \A d \in 1 .. Len(s) - 1 : Tail(s)[d] = s[d + 1]
  BY <1>1
<1>3. r \in Seq(S) /\ Len(r) = Len(s) /\ DOMAIN r = 1 .. Len(s)
  BY <1>1, <1>2
<1>4. r[1] = g
  BY <1>1, <1>2
<1>5. ASSUME NEW d \in DOMAIN s, d # 1
      PROVE  r[d] = s[d]
  <2>1. d - 1 \in 1 .. Len(s) - 1
    BY <1>1, <1>5
  <2>2. r[d] = Tail(s)[d - 1]
    BY <1>1, <1>2, <1>5
  <2>3. QED BY <1>1, <1>2, <2>1, <2>2
<1>6. QED BY <1>1, <1>3, <1>4, <1>5

LEMMA TopPushed ==
  ASSUME NEW S, NEW s \in Seq(S), NEW g \in S
  PROVE  LET r == <<g>> \o s
         IN  /\ r \in Seq(S) /\ r # <<>> /\ 1 \in DOMAIN r /\ r[1] = g
             /\ DOMAIN r \subseteq Nat
             /\ \A d \in DOMAIN r : d # 1 => d - 1 \in DOMAIN s /\ r[d] = s[d - 1]
             /\ \A d \in DOMAIN s : d + 1 \in DOMAIN r /\ r[d + 1] = s[d]
<1> DEFINE r == <<g>> \o s
<1>1. Len(s) \in Nat /\ DOMAIN s = 1 .. Len(s)
  OBVIOUS
<1>2. r \in Seq(S) /\ Len(r) = Len(s) + 1 /\ DOMAIN r = 1 .. Len(s) + 1 /\ r[1] = g
  BY <1>1
<1>3. \A d \in 1 .. Len(s) + 1 : d # 1 => r[d] = s[d - 1]
  BY <1>1
<1> HIDE DEF r
<1>4. \A d \in 1 .. Len(s) + 1 : d # 1 => d - 1 \in 1 .. Len(s)
  BY <1>1
<1>5. \A d \in 1 .. Len(s) : d + 1 \in 1 .. Len(s) + 1 /\ d + 1 # 1 /\ (d + 1) - 1 = d
  BY <1>1
<1>6. \A d \in 1 .. Len(s) : r[d + 1] = s[d]
  BY <1>3, <1>5
<1>7. 1 \in DOMAIN r /\ DOMAIN r \subseteq Nat /\ r # <<>>
  BY <1>1, <1>2
<1>8. QED BY <1>1, <1>2, <1>3, <1>4, <1>5, <1>6, <1>7 DEF r

LEMMA TopPopped ==
  ASSUME NEW S, NEW s \in Seq(S), s # <<>>
  PROVE  /\ Tail(s) \in Seq(S) /\ DOMAIN Tail(s) \subseteq Nat
         /\ \A d \in DOMAIN Tail(s) : d + 1 \in DOMAIN s /\ Tail(s)[d] = s[d + 1]
         /\ \A d \in DOMAIN s : d # 1 => d - 1 \in DOMAIN Tail(s) /\ Tail(s)[d - 1] = s[d]
         /\ 1 \in DOMAIN s
<1>1. Len(s) \in Nat \ {0} /\ DOMAIN s = 1 .. Len(s)
  OBVIOUS
<1>2. Tail(s) \in Seq(S) /\ DOMAIN Tail(s) = 1 .. Len(s) - 1
      /\ \A d \in 1 .. Len(s) - 1 : Tail(s)[d] = s[d + 1]
  BY <1>1
<1>3. ASSUME NEW d \in DOMAIN s, d # 1
      PROVE  d - 1 \in DOMAIN Tail(s) /\ Tail(s)[d - 1] = s[d]
  <2>1. d - 1 \in 1 .. Len(s) - 1 /\ (d - 1) + 1 = d
    BY <1>1, <1>3
  <2>2. QED BY <1>2, <2>1
<1>4. QED BY <1>1, <1>2, <1>3
-----------------------------------------------------------------------------
LEMMA WantedAreInt ==
  ASSUME tree \in Trees
  PROVE  /\ \A k \in Wanted(tree, query) : k \in tree.all /\ k \in Int /\ Matches(k, query)
         /\ \A p : Under(tree, p) \subseteq tree.all
         /\ tree.all \subseteq Int
<1>1. tree.all \subseteq Int
  BY KeysAreInt
<1>2. QED BY <1>1 DEF Wanted, Under

(* The innermost call goes on: its page and what it returns stay, and no   *)
(* key comes to be ahead of it.                                            *)
LEMMA TopGoesOn ==
  ASSUME SearchInv, pc = "run", NEW g, FrameOK(tree, query, g),
         g.page = Top.page, g.ret = Top.ret,
         \A k \in Int : AheadOf(tree, g, k) => AheadOf(tree, Top, k),
         SetTop(g), m_aResult' \in Seq(Int)
  PROVE  /\ SearchTypeOK' /\ Separate' /\ (AllTrue' <=> AllTrue)
         /\ \A k \in Int : Ahead(k)' => Ahead(k)
         /\ \A k \in Int : Ahead(k) =>
              Ahead(k)' \/ (AheadOf(tree, Top, k) /\ ~ AheadOf(tree, g, k))
<1>1. SearchTypeOK /\ Separate
  BY DEF SearchInv
<1>2. /\ tree' = tree /\ query' = query /\ medium' = medium /\ bXP' = bXP
      /\ pc' = pc /\ logpage' = logpage /\ ret' = ret
      /\ stack' = <<g>> \o Tail(stack)
  BY DEF SetTop, input
<1>3. tree \in Trees /\ stack \in Seq(FrameType(tree)) /\ stack # <<>> /\ g \in FrameType(tree)
  BY <1>1 DEF SearchTypeOK, FrameOK
<1>4. /\ stack' \in Seq(FrameType(tree)) /\ stack' # <<>>
      /\ DOMAIN stack' = DOMAIN stack /\ 1 \in DOMAIN stack
      /\ stack'[1] = g /\ \A d \in DOMAIN stack : d # 1 => stack'[d] = stack[d]
  BY <1>2, <1>3, TopReplaced
<1>5. Top = stack[1]
  BY DEF Top
<1>6. \A d \in DOMAIN stack : FrameOK(tree, query, stack'[d])
  BY <1>1, <1>4 DEF SearchTypeOK
<1>7. SearchTypeOK'
  BY <1>1, <1>2, <1>4, <1>6 DEF SearchTypeOK
<1>8. \A d \in DOMAIN stack : stack'[d].page = stack[d].page /\ stack'[d].ret = stack[d].ret
  BY <1>4, <1>5
<1>9. \A d \in DOMAIN stack : \A k \in Int :
        AheadOf(tree, stack'[d], k) => AheadOf(tree, stack[d], k)
  BY <1>4, <1>5
<1>10. Separate'
  <2>1. \A p : Under(tree, p) \subseteq Int
    BY <1>3, WantedAreInt
  <2>2. \A d, e \in DOMAIN stack : d < e =>
          \A k \in Under(tree, stack'[d].page) : ~ AheadOf(tree, stack'[e], k)
    BY <1>1, <1>8, <1>9, <2>1 DEF Separate
  <2>3. QED BY <1>2, <1>4, <2>2 DEF Separate
<1>11. AllTrue' <=> AllTrue
  BY <1>2, <1>4, <1>8 DEF AllTrue
<1>12. \A k \in Int : Ahead(k)' => Ahead(k)
  BY <1>2, <1>4, <1>9 DEF Ahead
<1>13. ASSUME NEW k \in Int, Ahead(k)
       PROVE  Ahead(k)' \/ (AheadOf(tree, Top, k) /\ ~ AheadOf(tree, g, k))
  <2>1. PICK d \in DOMAIN stack : AheadOf(tree, stack[d], k)
    BY <1>13 DEF Ahead
  <2>2. CASE d # 1
    BY <1>2, <1>4, <2>1, <2>2 DEF Ahead
  <2>3. CASE d = 1
    BY <1>2, <1>4, <1>5, <2>1, <2>3 DEF Ahead
  <2>4. QED BY <2>2, <2>3
<1>14. QED BY <1>7, <1>10, <1>11, <1>12, <1>13

(* It goes on and finds nothing.                                           *)
LEMMA TopGoesOnQuietly ==
  ASSUME SearchInv, pc = "run", NEW g, FrameOK(tree, query, g),
         g.page = Top.page, g.ret = Top.ret,
         \A k \in Int : AheadOf(tree, g, k) => AheadOf(tree, Top, k),
         \A k \in Wanted(tree, query) :
           AheadOf(tree, Top, k) => AheadOf(tree, g, k) \/ RightOfLast(k),
         SetTop(g), UNCHANGED m_aResult
  PROVE  SearchInv'
<1>1. SearchTypeOK /\ FoundBehind /\ ResultsOnce /\ Covered
  BY DEF SearchInv
<1>2. /\ tree' = tree /\ query' = query /\ medium' = medium /\ bXP' = bXP
      /\ pc' = pc /\ logpage' = logpage
  BY DEF SetTop, input
<1>3. tree \in Trees /\ m_aResult \in Seq(Int)
  BY <1>1 DEF SearchTypeOK
<1>4. /\ SearchTypeOK' /\ Separate' /\ (AllTrue' <=> AllTrue)
      /\ \A k \in Int : Ahead(k)' => Ahead(k)
      /\ \A k \in Int : Ahead(k) =>
           Ahead(k)' \/ (AheadOf(tree, Top, k) /\ ~ AheadOf(tree, g, k))
  BY <1>3, TopGoesOn
<1>5. Found' = Found
  BY DEF Found
<1>6. tree.all \subseteq Int /\ \A k \in Wanted(tree, query) : k \in Int
  BY <1>3, WantedAreInt
<1>7. FoundBehind'
  BY <1>1, <1>2, <1>4, <1>5, <1>6 DEF FoundBehind
<1>8. ResultsOnce'
  BY <1>1, <1>2 DEF ResultsOnce
<1>9. \A k : Missed(k)' <=> Missed(k)
  BY <1>2, <1>5 DEF Missed, RightOfLast, Lost
<1>10. (RootKnown' <=> RootKnown) /\ (AllActive' <=> AllActive)
  BY <1>2 DEF RootKnown, AllActive
<1>11. ASSUME RootKnown, AllTrue, NEW k \in Wanted(tree, query)
       PROVE  Missed(k) \/ Ahead(k)'
  <2>1. Missed(k) \/ Ahead(k)
    BY <1>1, <1>11 DEF Covered
  <2>2. QED BY <2>1, <1>4, <1>6 DEF Missed
<1>12. Covered'
  <2>1. (RootKnown /\ pc \in {"call", "run", "done"})' => RootKnown /\ pc = "run"
    BY <1>2, <1>10
  <2>2. SUFFICES ASSUME RootKnown, pc = "run", pc' = "run"
                 PROVE  /\ AllActive' => AllTrue'
                        /\ AllTrue' => \A k \in Wanted(tree', query') : Missed(k)' \/ Ahead(k)'
    BY <1>2, <2>1 DEF Covered
  <2>3. AllActive => AllTrue
    BY <1>1, <2>2 DEF Covered
  <2>4. QED BY <1>2, <1>4, <1>9, <1>10, <1>11, <2>2, <2>3
<1>13. QED BY <1>4, <1>7, <1>8, <1>12 DEF SearchInv
LEMMA TopOK ==
  ASSUME SearchInv, pc = "run"
  PROVE  /\ FrameOK(tree, query, Top) /\ Top.page \in tree.pages
         /\ tree \in Trees /\ query \in Queries /\ m_aResult \in Seq(Int)
<1>1. SearchTypeOK
  BY DEF SearchInv
<1>2. stack \in Seq(FrameType(tree)) /\ stack # <<>> /\ 1 \in DOMAIN stack
  BY <1>1 DEF SearchTypeOK
<1>3. FrameOK(tree, query, Top)
  BY <1>1, <1>2 DEF SearchTypeOK, Top
<1>4. QED BY <1>1, <1>3, FrameFacts DEF SearchTypeOK

-----------------------------------------------------------------------------
(* A key found was ahead, so that it had not been found, and is no longer. *)
LEMMA ScanMatchKeeps ==
  ASSUME SearchInv, ScanMatch
  PROVE  SearchInv'
<1> DEFINE g == [Top EXCEPT !.nextpages = Append(@, Top.index), !.index = @ + 1]
<1>0. PICK key : key = Keys[Top.index]
  OBVIOUS
<1>1. SearchTypeOK /\ Separate /\ FoundBehind /\ ResultsOnce /\ Covered
  BY DEF SearchInv
<1>2. pc = "run" /\ Top.at = "scan" /\ Top.index <= Len(Keys) /\ Matches(key, query)
      /\ m_aResult' = Append(m_aResult, key) /\ SetTop(g)
  BY <1>0 DEF ScanMatch, Running
<1>3. /\ tree' = tree /\ query' = query /\ medium' = medium /\ bXP' = bXP
      /\ pc' = pc /\ logpage' = logpage /\ ret' = ret /\ stack' = <<g>> \o Tail(stack)
  BY <1>2 DEF SetTop, input
<1>4. /\ FrameOK(tree, query, Top) /\ Top.page \in tree.pages /\ tree \in Trees
      /\ query \in Queries /\ m_aResult \in Seq(Int)
  BY <1>2, TopOK
<1>5. /\ FrameOK(tree, query, g) /\ g.page = Top.page /\ g.ret = Top.ret
      /\ key \in Under(tree, Top.page) /\ key \in Int
      /\ AheadOf(tree, Top, key) /\ ~ AheadOf(tree, g, key)
      /\ \A k \in Int : AheadOf(tree, g, k) => AheadOf(tree, Top, k)
      /\ \A k \in Int : AheadOf(tree, Top, k) => AheadOf(tree, g, k) \/ k = key
  BY <1>0, <1>2, <1>4, ScanMatchFrame DEF Keys
<1> HIDE DEF g
<1>6. m_aResult' \in Seq(Int)
  BY <1>2, <1>4, <1>5
<1>7. /\ SearchTypeOK' /\ Separate' /\ (AllTrue' <=> AllTrue)
      /\ \A k \in Int : Ahead(k)' => Ahead(k)
      /\ \A k \in Int : Ahead(k) =>
           Ahead(k)' \/ (AheadOf(tree, Top, k) /\ ~ AheadOf(tree, g, k))
  BY <1>2, <1>5, <1>6, TopGoesOn
<1>8. /\ Len(m_aResult) \in Nat /\ Len(m_aResult') = Len(m_aResult) + 1
      /\ DOMAIN m_aResult = 1 .. Len(m_aResult)
      /\ DOMAIN m_aResult' = 1 .. Len(m_aResult) + 1
      /\ m_aResult'[Len(m_aResult) + 1] = key
      /\ \A i \in DOMAIN m_aResult : m_aResult'[i] = m_aResult[i]
  BY <1>2, <1>4, <1>5
<1>9. \A i \in DOMAIN m_aResult' : i \in DOMAIN m_aResult \/ i = Len(m_aResult) + 1
  BY <1>8
<1>10. Found' = Found \union {key}
  BY <1>8, <1>9 DEF Found
<1>11. tree.all \subseteq Int /\ \A k \in Wanted(tree, query) : k \in Int
       /\ \A p : Under(tree, p) \subseteq tree.all
  BY <1>4, WantedAreInt
<1>12. 1 \in DOMAIN stack /\ DOMAIN stack \subseteq Nat \ {0} /\ Top = stack[1]
  BY <1>1, <1>2 DEF SearchTypeOK, Top
<1>13. Ahead(key) /\ key \notin Found
  <2>1. Ahead(key)
    BY <1>5, <1>12 DEF Ahead
  <2>2. QED BY <2>1, <1>1 DEF FoundBehind
<1>14. ~ Ahead(key)'
  <2>1. /\ DOMAIN stack' = DOMAIN stack
        /\ stack'[1] = g /\ \A d \in DOMAIN stack : d # 1 => stack'[d] = stack[d]
    <3>1. g \in FrameType(tree) /\ stack \in Seq(FrameType(tree)) /\ stack # <<>>
      BY <1>1, <1>2, <1>5 DEF FrameOK, SearchTypeOK
    <3>2. QED BY <1>3, <3>1, TopReplaced
  <2>2. \A d \in DOMAIN stack : d # 1 => 1 < d
    BY <1>12
  <2>3. \A d \in DOMAIN stack : d # 1 => ~ AheadOf(tree, stack[d], key)
    BY <1>1, <1>5, <1>12, <2>2 DEF Separate
  <2>4. \A d \in DOMAIN stack : ~ AheadOf(tree, stack'[d], key)
    BY <1>5, <2>1, <2>3
  <2>5. QED BY <1>2, <1>3, <2>1, <2>4 DEF Ahead
<1>15. FoundBehind'
  <2>1. SUFFICES ASSUME NEW k \in Found' PROVE k \in tree.all /\ ~ Ahead(k)'
    BY <1>3 DEF FoundBehind
  <2>2. CASE k = key
    <3>1. key \in tree.all
      <4>1. key \in Under(tree, Top.page)
        BY <1>5
      <4>2. QED BY <4>1 DEF Under
    <3>2. QED BY <2>2, <3>1, <1>14 DEF Ahead
  <2>3. CASE k # key
    <3>1. k \in tree.all /\ ~ Ahead(k)
      BY <2>3, <1>1, <1>10 DEF FoundBehind
    <3>2. QED BY <3>1, <1>7, <1>11
  <2>4. QED BY <2>2, <2>3
<1>16. ResultsOnce'
  <2>1. \A i \in DOMAIN m_aResult' : Matches(m_aResult'[i], query')
    BY <1>1, <1>2, <1>3, <1>8, <1>9 DEF ResultsOnce
  <2>2. \A i \in DOMAIN m_aResult : m_aResult[i] # key
    BY <1>13 DEF Found
  <2>3. \A i, j \in DOMAIN m_aResult' : m_aResult'[i] = m_aResult'[j] => i = j
    BY <1>1, <1>8, <1>9, <2>2 DEF ResultsOnce
  <2>4. QED BY <2>1, <2>3 DEF ResultsOnce
<1>17. \A k : Missed(k) => Missed(k)'
  BY <1>3, <1>10 DEF Missed, RightOfLast, Lost
<1>18. Missed(key)'
  BY <1>10 DEF Missed
<1>19. Covered'
  <2>1. SUFFICES ASSUME RootKnown
                 PROVE  /\ AllActive => AllTrue'
                        /\ AllTrue' => \A k \in Wanted(tree, query) : Missed(k)' \/ Ahead(k)'
    BY <1>2, <1>3 DEF Covered, RootKnown, AllActive
  <2>2. AllActive => AllTrue
    BY <1>1, <1>2, <2>1 DEF Covered
  <2>3. ASSUME AllTrue, NEW k \in Wanted(tree, query)
        PROVE  Missed(k)' \/ Ahead(k)'
    <3>1. Missed(k) \/ Ahead(k)
      BY <1>1, <1>2, <2>1, <2>3 DEF Covered
    <3>2. QED BY <3>1, <1>5, <1>7, <1>11, <1>17, <1>18
  <2>4. QED BY <1>7, <2>2, <2>3
<1>20. QED BY <1>7, <1>15, <1>16, <1>19 DEF SearchInv

LEMMA ScanBelowKeeps ==
  ASSUME SearchInv, ScanBelow
  PROVE  SearchInv'
<1> DEFINE g == [Top EXCEPT !.index = @ + 1]
<1>1. pc = "run" /\ Top.at = "scan" /\ Top.index <= Len(Keys)
      /\ Below(Keys[Top.index], query) /\ SetTop(g) /\ UNCHANGED m_aResult
  BY DEF ScanBelow, Running
<1>2. FrameOK(tree, query, Top) /\ tree \in Trees /\ query \in Queries
  BY <1>1, TopOK
<1>3. /\ FrameOK(tree, query, g) /\ g.page = Top.page /\ g.ret = Top.ret
      /\ \A k \in Int : AheadOf(tree, g, k) => AheadOf(tree, Top, k)
      /\ \A k \in Int : Matches(k, query) /\ AheadOf(tree, Top, k) => AheadOf(tree, g, k)
  BY <1>1, <1>2, ScanBelowFrame DEF Keys
<1> HIDE DEF g
<1>4. QED BY <1>1, <1>2, <1>3, WantedAreInt, TopGoesOnQuietly

LEMMA ScanAboveKeeps ==
  ASSUME SearchInv, ScanAbove
  PROVE  SearchInv'
<1> DEFINE g == [Top EXCEPT !.nextpages = Append(@, Top.index), !.at = "descend"]
<1>1. pc = "run" /\ Top.at = "scan" /\ Top.index <= Len(Keys)
      /\ Above(Keys[Top.index], query) /\ SetTop(g) /\ UNCHANGED m_aResult
  BY DEF ScanAbove, Running
<1>2. FrameOK(tree, query, Top) /\ tree \in Trees /\ query \in Queries
  BY <1>1, TopOK
<1>3. /\ FrameOK(tree, query, g) /\ g.page = Top.page /\ g.ret = Top.ret
      /\ \A k \in Int : AheadOf(tree, g, k) => AheadOf(tree, Top, k)
      /\ \A k \in Int : Matches(k, query) /\ AheadOf(tree, Top, k) => AheadOf(tree, g, k)
  BY <1>1, <1>2, ScanAboveFrame DEF Keys
<1> HIDE DEF g
<1>4. QED BY <1>1, <1>2, <1>3, WantedAreInt, TopGoesOnQuietly

(* What the last slot would have led to is right of a last key.            *)
LEMMA ScanEndKeeps ==
  ASSUME SearchInv, ScanEnd
  PROVE  SearchInv'
<1> DEFINE g    == [Top EXCEPT !.nextpages = IF @ = <<>> THEN <<Top.index>> ELSE @,
                               !.at = "descend"]
           last == Keys[Len(Keys)]
<1>1. pc = "run" /\ Top.at = "scan" /\ Top.index > Len(Keys) /\ SetTop(g)
      /\ UNCHANGED m_aResult
  BY DEF ScanEnd, Running
<1>2. FrameOK(tree, query, Top) /\ Top.page \in tree.pages /\ tree \in Trees
      /\ query \in Queries
  BY <1>1, TopOK
<1>3. /\ FrameOK(tree, query, g) /\ g.page = Top.page /\ g.ret = Top.ret
      /\ \A k \in Int : AheadOf(tree, g, k) => AheadOf(tree, Top, k)
      /\ \A k \in Int : AheadOf(tree, Top, k) =>
           \/ AheadOf(tree, g, k)
           \/ Matches(last, query) /\ last < k /\ k < tree.hi[Top.page]
  BY <1>1, <1>2, ScanEndFrame DEF Keys
<1> HIDE DEF g
<1>4. \A k : Matches(last, query) /\ last < k /\ k < tree.hi[Top.page] => RightOfLast(k)
  BY <1>2 DEF RightOfLast, Keys
<1>5. QED BY <1>1, <1>2, <1>3, <1>4, WantedAreInt, TopGoesOnQuietly

(* There is no key in the slot of a leaf.                                  *)
LEMMA ChildNoneKeeps ==
  ASSUME SearchInv, ChildNone
  PROVE  SearchInv'
<1> DEFINE g    == [Top EXCEPT !.pageit = @ + 1]
           slot == Top.nextpages[Top.pageit]
<1>1. pc = "run" /\ Top.at = "descend" /\ Top.pageit <= Len(Top.nextpages) /\ SetTop(g)
      /\ Child = NoPage /\ UNCHANGED m_aResult
  BY DEF ChildNone, Descending
<1>2. FrameOK(tree, query, Top) /\ Top.page \in tree.pages /\ tree \in Trees
      /\ query \in Queries
  BY <1>1, TopOK
<1>3. /\ FrameOK(tree, query, g) /\ g.page = Top.page /\ g.ret = Top.ret
      /\ slot \in Slots(tree, Top.page)
      /\ \A k \in Int : AheadOf(tree, Top, k)
                          <=> AheadOf(tree, g, k) \/ InSlot(tree, Top.page, slot, k)
  BY <1>1, <1>2, NextSlotFrame
<1> HIDE DEF g
<1>4. \A k \in tree.all : ~ InSlot(tree, Top.page, slot, k)
  BY <1>1, <1>2, <1>3, ChildFacts DEF Child
<1>5. QED BY <1>1, <1>2, <1>3, <1>4, WantedAreInt, TopGoesOnQuietly
-----------------------------------------------------------------------------
(* A call returns v to its callers, those of the stack without what is     *)
(* over.  A failure reaches every one of them.                             *)
LEMMA ReturnKeeps ==
  ASSUME SearchInv, pc \in {"call", "run"},
         NEW callers \in Seq(FrameType(tree)), NEW v \in BOOLEAN, NEW o \in {0, 1},
         \A d \in DOMAIN callers : d + o \in DOMAIN stack /\ callers[d] = stack[d + o],
         Return(callers, v), UNCHANGED <<input, logpage, m_aResult>>,
         RootKnown /\ AllActive /\ AllTrue => v,
         v /\ (\A d \in DOMAIN callers : callers[d].ret) => AllTrue,
         \A k \in Wanted(tree, query) : RootKnown /\ v /\ Ahead(k) =>
           Missed(k) \/ \E d \in DOMAIN callers : AheadOf(tree, callers[d], k)
  PROVE  SearchInv'
<1>1. SearchTypeOK /\ Separate /\ FoundBehind /\ ResultsOnce /\ Covered
  BY DEF SearchInv
<1>2. /\ tree' = tree /\ query' = query /\ medium' = medium /\ bXP' = bXP
      /\ logpage' = logpage /\ m_aResult' = m_aResult
  BY DEF input
<1>3. tree \in Trees /\ query \in Queries
  BY <1>1 DEF SearchTypeOK
<1>4. \A d \in DOMAIN callers : FrameOK(tree, query, callers[d])
  BY <1>1 DEF SearchTypeOK
<1>5. DOMAIN callers \subseteq Nat
  OBVIOUS
<1>6. /\ stack' \in Seq(FrameType(tree)) /\ DOMAIN stack' = DOMAIN callers
      /\ pc' = (IF callers = <<>> THEN "done" ELSE "run")
      /\ callers = <<>> => ret' = v /\ stack' = <<>>
      /\ callers # <<>> => ret' = ret /\ stack' # <<>> /\ 1 \in DOMAIN callers
                           /\ stack'[1].ret = (callers[1].ret /\ v)
      /\ \A d \in DOMAIN callers :
           /\ FrameOK(tree, query, stack'[d])
           /\ stack'[d].page = callers[d].page
           /\ d # 1 => stack'[d] = callers[d]
           /\ \A k : AheadOf(tree, stack'[d], k) <=> AheadOf(tree, callers[d], k)
  <2>1. CASE callers = <<>>
    BY <2>1 DEF Return
  <2>2. CASE callers # <<>>
    <3> DEFINE g == [callers[1] EXCEPT !.ret = @ /\ v]
    <3>1. 1 \in DOMAIN callers
      BY <2>2
    <3>2. /\ FrameOK(tree, query, g) /\ g.page = callers[1].page
          /\ g.ret = (callers[1].ret /\ v)
          /\ \A k : AheadOf(tree, g, k) <=> AheadOf(tree, callers[1], k)
      BY <1>3, <1>4, <3>1, ReturnFrame
    <3>3. pc' = "run" /\ stack' = <<g>> \o Tail(callers) /\ ret' = ret
      BY <2>2 DEF Return
    <3> HIDE DEF g
    <3>4. g \in FrameType(tree)
      BY <3>2 DEF FrameOK
    <3>5. /\ stack' \in Seq(FrameType(tree)) /\ stack' # <<>> /\ DOMAIN stack' = DOMAIN callers
          /\ stack'[1] = g /\ \A d \in DOMAIN callers : d # 1 => stack'[d] = callers[d]
      BY <2>2, <3>3, <3>4, TopReplaced
    <3>6. \A d \in DOMAIN callers :
           /\ FrameOK(tree, query, stack'[d])
           /\ stack'[d].page = callers[d].page
           /\ d # 1 => stack'[d] = callers[d]
           /\ \A k : AheadOf(tree, stack'[d], k) <=> AheadOf(tree, callers[d], k)
      BY <1>4, <3>2, <3>5
    <3>7. QED BY <2>2, <3>1, <3>2, <3>3, <3>5, <3>6
  <2>3. QED BY <2>1, <2>2
<1>7. SearchTypeOK'
  <2>1. ret' \in BOOLEAN
    BY <1>1, <1>6 DEF SearchTypeOK
  <2>2. QED BY <1>1, <1>2, <1>6, <2>1 DEF SearchTypeOK
<1>8. \A d, e \in DOMAIN callers : d < e => d + o < e + o
  BY <1>5
<1>9. Separate'
  <2>1. \A d, e \in DOMAIN callers : d < e =>
          \A k \in Under(tree, callers[d].page) : ~ AheadOf(tree, callers[e], k)
    BY <1>1, <1>8 DEF Separate
  <2>2. \A d, e \in DOMAIN stack' : d < e =>
          \A k \in Under(tree, stack'[d].page) : ~ AheadOf(tree, stack'[e], k)
    BY <1>6, <2>1
  <2>3. pc' # "call"
    BY <1>6
  <2>4. QED BY <1>2, <2>2, <2>3 DEF Separate
<1>10. \A k : Ahead(k)' <=> \E d \in DOMAIN callers : AheadOf(tree, callers[d], k)
  BY <1>2, <1>6 DEF Ahead
<1>11. \A k : Ahead(k)' => Ahead(k)
  BY <1>10 DEF Ahead
<1>12. FoundBehind'
  BY <1>1, <1>2, <1>11 DEF FoundBehind, Found
<1>13. ResultsOnce'
  BY <1>1, <1>2 DEF ResultsOnce
<1>14. AllTrue' <=> v /\ \A d \in DOMAIN callers : callers[d].ret
  <2>1. CASE callers = <<>>
    BY <1>6, <2>1 DEF AllTrue
  <2>2. CASE callers # <<>>
    <3>1. \A d \in DOMAIN callers : d # 1 => stack'[d].ret = callers[d].ret
      BY <1>6
    <3>2. AllTrue' <=> \A d \in DOMAIN callers : stack'[d].ret
      BY <1>6, <2>2 DEF AllTrue
    <3>3. QED BY <1>6, <2>2, <3>1, <3>2
  <2>3. QED BY <2>1, <2>2
<1>15. AllTrue => \A d \in DOMAIN callers : callers[d].ret
  BY DEF AllTrue
<1>16. \A k : Missed(k)' <=> Missed(k)
  BY <1>2 DEF Missed, Found, RightOfLast, Lost
<1>17. Covered'
  <2>1. SUFFICES ASSUME RootKnown
                 PROVE  /\ AllActive => AllTrue'
                        /\ AllTrue' => \A k \in Wanted(tree, query) : Missed(k) \/ Ahead(k)'
    BY <1>2, <1>6, <1>16 DEF Covered, RootKnown, AllActive
  <2>2. AllActive => AllTrue
    BY <1>1, <2>1 DEF Covered
  <2>3. ASSUME AllTrue', NEW k \in Wanted(tree, query)
        PROVE  Missed(k) \/ Ahead(k)'
    <3>1. v /\ AllTrue
      BY <1>14, <2>3
    <3>2. Missed(k) \/ Ahead(k)
      BY <1>1, <2>1, <3>1 DEF Covered
    <3>3. QED BY <1>10, <2>1, <3>1, <3>2
  <2>4. QED BY <1>14, <1>15, <2>1, <2>2, <2>3
<1>18. QED BY <1>7, <1>9, <1>12, <1>13, <1>17 DEF SearchInv

LEMMA AtCall ==
  ASSUME SearchInv, pc = "call"
  PROVE  /\ stack \in Seq(FrameType(tree))
         /\ RootKnown => logpage \in tree.pages
         /\ \A k : Ahead(k) => \/ logpage \in tree.pages /\ k \in Under(tree, logpage)
                               \/ \E d \in DOMAIN stack : AheadOf(tree, stack[d], k)
  BY DEF SearchInv, SearchTypeOK, Covered, Ahead

(* What is under a page that is not mapped or retired is lost.             *)
LEMMA CallSkipsKeeps ==
  ASSUME SearchInv, CallSkips
  PROVE  SearchInv'
<1>1. pc = "call" /\ medium[logpage] \in {"unmapped", "retired"} /\ Return(stack, TRUE)
      /\ UNCHANGED <<input, logpage, m_aResult>>
  BY DEF CallSkips
<1>2. stack \in Seq(FrameType(tree))
  BY <1>1, AtCall
<1>3. \A d \in DOMAIN stack : d + 0 \in DOMAIN stack /\ stack[d] = stack[d + 0]
  <2>1. \A d \in DOMAIN stack : d + 0 = d
    BY <1>2
  <2>2. QED BY <2>1
<1>4. (\A d \in DOMAIN stack : stack[d].ret) => AllTrue
  BY <1>1 DEF AllTrue
<1>5. \A k : RootKnown /\ Ahead(k) =>
               Missed(k) \/ \E d \in DOMAIN stack : AheadOf(tree, stack[d], k)
  BY <1>1, AtCall DEF Missed, Lost
<1>6. 0 \in {0, 1} /\ TRUE \in BOOLEAN
  OBVIOUS
<1>7. QED BY <1>1, <1>2, <1>3, <1>4, <1>5, <1>6, ReturnKeeps

LEMMA CallFailsKeeps ==
  ASSUME SearchInv, CallFails
  PROVE  SearchInv'
<1>1. pc = "call" /\ medium[logpage] \in {"short", "foreign"} /\ Return(stack, FALSE)
      /\ UNCHANGED <<input, logpage, m_aResult>>
  BY DEF CallFails
<1>2. stack \in Seq(FrameType(tree))
  BY <1>1, AtCall
<1>3. \A d \in DOMAIN stack : d + 0 \in DOMAIN stack /\ stack[d] = stack[d + 0]
  <2>1. \A d \in DOMAIN stack : d + 0 = d
    BY <1>2
  <2>2. QED BY <2>1
<1>4. ~ (RootKnown /\ AllActive)
  BY <1>1, AtCall DEF AllActive
<1>5. 0 \in {0, 1} /\ FALSE \in BOOLEAN
  OBVIOUS
<1>6. QED BY <1>1, <1>2, <1>3, <1>4, <1>5, ReturnKeeps

LEMMA PageReturnKeeps ==
  ASSUME SearchInv, PageReturn
  PROVE  SearchInv'
<1>1. pc = "run" /\ Top.at = "descend" /\ Top.pageit > Len(Top.nextpages)
      /\ Return(Tail(stack), Top.ret) /\ UNCHANGED <<input, logpage, m_aResult>>
  BY DEF PageReturn, Descending
<1>2. FrameOK(tree, query, Top) /\ tree \in Trees /\ query \in Queries
  BY <1>1, TopOK
<1>3. stack \in Seq(FrameType(tree)) /\ stack # <<>> /\ Top = stack[1]
  BY <1>1 DEF SearchInv, SearchTypeOK, Top
<1>4. /\ Tail(stack) \in Seq(FrameType(tree))
      /\ \A d \in DOMAIN Tail(stack) : d + 1 \in DOMAIN stack /\ Tail(stack)[d] = stack[d + 1]
      /\ \A d \in DOMAIN stack : d # 1 =>
           d - 1 \in DOMAIN Tail(stack) /\ Tail(stack)[d - 1] = stack[d]
      /\ 1 \in DOMAIN stack
  BY <1>3, TopPopped
<1>5. Top.ret \in BOOLEAN /\ ~ \E k : AheadOf(tree, Top, k)
  <2>1. Top.ret \in BOOLEAN /\ Len(Top.nextpages) \in Nat /\ Top.pageit \in Nat
    BY <1>2, FrameFacts
  <2>2. \A j \in Top.pageit .. Len(Top.nextpages) : FALSE
    BY <1>1, <2>1
  <2>3. QED BY <1>1, <2>1, <2>2 DEF AheadOf
<1>6. AllTrue => Top.ret
  BY <1>3, <1>4 DEF AllTrue
<1>7. Top.ret /\ (\A d \in DOMAIN Tail(stack) : Tail(stack)[d].ret) => AllTrue
  BY <1>1, <1>3, <1>4 DEF AllTrue
<1>8. \A k : Ahead(k) => \E d \in DOMAIN Tail(stack) : AheadOf(tree, Tail(stack)[d], k)
  BY <1>1, <1>3, <1>4, <1>5 DEF Ahead
<1>9. 1 \in {0, 1}
  OBVIOUS
<1>10. QED BY <1>1, <1>4, <1>5, <1>6, <1>7, <1>8, <1>9, ReturnKeeps
-----------------------------------------------------------------------------
(* The exception ends the search where it is.                              *)
LEMMA CallThrowsKeeps ==
  ASSUME SearchInv, CallThrows
  PROVE  SearchInv'
<1>1. SearchTypeOK /\ Separate /\ FoundBehind /\ ResultsOnce
  BY DEF SearchInv
<1>2. /\ tree' = tree /\ query' = query /\ medium' = medium /\ bXP' = bXP
      /\ logpage' = logpage /\ m_aResult' = m_aResult /\ stack' = stack /\ ret' = ret
      /\ pc' = "thrown"
  BY DEF CallThrows, input
<1>3. SearchTypeOK' /\ Separate'
  BY <1>1, <1>2 DEF SearchTypeOK, Separate
<1>4. \A k : Ahead(k)' => Ahead(k)
  BY <1>2 DEF Ahead
<1>5. FoundBehind' /\ ResultsOnce'
  BY <1>1, <1>2, <1>4 DEF FoundBehind, Found, ResultsOnce
<1>6. Covered'
  BY <1>2 DEF Covered
<1>7. QED BY <1>3, <1>5, <1>6 DEF SearchInv

(* What was ahead of the call is ahead of its new frame.                   *)
LEMMA CallPageKeeps ==
  ASSUME SearchInv, CallPage
  PROVE  SearchInv'
<1> DEFINE g == Frame(logpage)
<1>1. SearchTypeOK /\ Separate /\ FoundBehind /\ ResultsOnce /\ Covered
  BY DEF SearchInv
<1>2. /\ pc = "call" /\ medium[logpage] = "active" /\ pc' = "run" /\ stack' = <<g>> \o stack
      /\ tree' = tree /\ query' = query /\ medium' = medium /\ bXP' = bXP
      /\ logpage' = logpage /\ m_aResult' = m_aResult /\ ret' = ret
  BY DEF CallPage, input
<1>3. tree \in Trees /\ query \in Queries /\ stack \in Seq(FrameType(tree))
  BY <1>1 DEF SearchTypeOK
<1>4. logpage \in tree.pages
  <2>1. medium[AdminPage] # "active"
    BY <1>1, FaultsAssumption DEF SearchTypeOK
  <2>2. QED BY <1>1, <1>2, <2>1 DEF SearchTypeOK
<1>5. /\ FrameOK(tree, query, g) /\ g.page = logpage /\ g.ret
      /\ \A k \in tree.all : AheadOf(tree, g, k) <=> k \in Under(tree, logpage)
  BY <1>3, <1>4, NewFrame
<1> HIDE DEF g
<1>6. g \in FrameType(tree)
  BY <1>5 DEF FrameOK
<1>7. /\ stack' \in Seq(FrameType(tree)) /\ stack' # <<>> /\ 1 \in DOMAIN stack'
      /\ stack'[1] = g /\ DOMAIN stack' \subseteq Nat
      /\ \A d \in DOMAIN stack' : d # 1 => d - 1 \in DOMAIN stack /\ stack'[d] = stack[d - 1]
      /\ \A d \in DOMAIN stack : d + 1 \in DOMAIN stack' /\ stack'[d + 1] = stack[d]
  BY <1>2, <1>3, <1>6, TopPushed
<1>8. \A d \in DOMAIN stack' : FrameOK(tree, query, stack'[d])
  BY <1>1, <1>5, <1>7 DEF SearchTypeOK
<1>9. SearchTypeOK'
  BY <1>1, <1>2, <1>7, <1>8 DEF SearchTypeOK
<1>10. Separate'
  <2>1. SUFFICES ASSUME NEW d \in DOMAIN stack', NEW e \in DOMAIN stack', d < e,
                        NEW k \in Under(tree, stack'[d].page)
                 PROVE  ~ AheadOf(tree, stack'[e], k)
    BY <1>2 DEF Separate
  <2>2. d \in Nat /\ e \in Nat
    BY <1>7
  <2>3. DOMAIN stack' = 1 .. Len(stack')
    BY <1>7
  <2>4. e # 1 /\ e - 1 \in DOMAIN stack /\ stack'[e] = stack[e - 1]
    BY <1>7, <2>1, <2>2, <2>3
  <2>5. CASE d = 1
    BY <1>1, <1>2, <1>4, <1>5, <1>7, <2>1, <2>4, <2>5 DEF Separate
  <2>6. CASE d # 1
    <3>1. d - 1 \in DOMAIN stack /\ stack'[d] = stack[d - 1] /\ d - 1 < e - 1
      BY <1>7, <2>1, <2>2, <2>6
    <3>2. QED BY <1>1, <2>1, <2>4, <3>1 DEF Separate
  <2>7. QED BY <2>5, <2>6
<1>11. \A k \in tree.all : Ahead(k)' <=> Ahead(k)
  <2>1. \A k \in tree.all : Ahead(k)' => Ahead(k)
    BY <1>2, <1>4, <1>5, <1>7 DEF Ahead
  <2>2. \A k \in tree.all : Ahead(k) => Ahead(k)'
    BY <1>2, <1>4, <1>5, <1>7 DEF Ahead
  <2>3. QED BY <2>1, <2>2
<1>12. FoundBehind' /\ ResultsOnce'
  BY <1>1, <1>2, <1>11 DEF FoundBehind, Found, ResultsOnce
<1>13. AllTrue' <=> AllTrue
  BY <1>2, <1>5, <1>7 DEF AllTrue
<1>14. \A k : Missed(k)' <=> Missed(k)
  BY <1>2 DEF Missed, Found, RightOfLast, Lost
<1>15. Covered'
  <2>1. SUFFICES ASSUME RootKnown
                 PROVE  /\ AllActive => AllTrue'
                        /\ AllTrue' => \A k \in Wanted(tree, query) : Missed(k) \/ Ahead(k)'
    BY <1>2, <1>14 DEF Covered, RootKnown, AllActive
  <2>2. QED BY <1>1, <1>2, <1>3, <1>11, <1>13, <2>1, WantedAreInt DEF Covered
<1>16. QED BY <1>9, <1>10, <1>12, <1>15 DEF SearchInv

(* What was ahead in the slot is ahead of the call.                        *)
LEMMA ChildCallKeeps ==
  ASSUME SearchInv, ChildCall
  PROVE  SearchInv'
<1> DEFINE g    == [Top EXCEPT !.pageit = @ + 1]
           slot == Top.nextpages[Top.pageit]
<1>1. SearchTypeOK /\ Separate /\ FoundBehind /\ ResultsOnce /\ Covered
  BY DEF SearchInv
<1>2. /\ pc = "run" /\ Top.at = "descend" /\ Top.pageit <= Len(Top.nextpages)
      /\ Child # NoPage /\ logpage' = Child /\ stack' = <<g>> \o Tail(stack) /\ pc' = "call"
      /\ tree' = tree /\ query' = query /\ medium' = medium /\ bXP' = bXP
      /\ m_aResult' = m_aResult /\ ret' = ret
  BY DEF ChildCall, Descending, input
<1>3. FrameOK(tree, query, Top) /\ Top.page \in tree.pages /\ tree \in Trees
      /\ query \in Queries
  BY <1>2, TopOK
<1>4. /\ FrameOK(tree, query, g) /\ g.page = Top.page /\ g.ret = Top.ret
      /\ slot \in Slots(tree, Top.page)
      /\ \A k \in Int : AheadOf(tree, Top, k)
                          <=> AheadOf(tree, g, k) \/ InSlot(tree, Top.page, slot, k)
      /\ \A k \in Int : ~ (AheadOf(tree, g, k) /\ InSlot(tree, Top.page, slot, k))
  BY <1>2, <1>3, NextSlotFrame
<1> HIDE DEF g
<1>5. /\ logpage' \in tree.pages
      /\ \A k \in tree.all : k \in Under(tree, logpage') <=> InSlot(tree, Top.page, slot, k)
      /\ Under(tree, logpage') \subseteq Under(tree, Top.page)
  BY <1>2, <1>3, <1>4, ChildFacts DEF Child
<1> HIDE DEF slot
<1>6. stack \in Seq(FrameType(tree)) /\ stack # <<>> /\ g \in FrameType(tree)
  BY <1>1, <1>2, <1>4 DEF SearchTypeOK, FrameOK
<1>7. /\ stack' \in Seq(FrameType(tree)) /\ stack' # <<>>
      /\ DOMAIN stack' = DOMAIN stack /\ 1 \in DOMAIN stack
      /\ stack'[1] = g /\ \A d \in DOMAIN stack : d # 1 => stack'[d] = stack[d]
  BY <1>2, <1>6, TopReplaced
<1>8. Top = stack[1] /\ \A d \in DOMAIN stack : d # 1 => 1 < d
  <2>1. DOMAIN stack = 1 .. Len(stack)
    BY <1>6
  <2>2. QED BY <2>1 DEF Top
<1>9. \A d \in DOMAIN stack : FrameOK(tree, query, stack'[d])
  BY <1>1, <1>4, <1>7 DEF SearchTypeOK
<1>10. SearchTypeOK'
  BY <1>1, <1>2, <1>5, <1>7, <1>9 DEF SearchTypeOK
<1>11. \A d \in DOMAIN stack : /\ stack'[d].page = stack[d].page
                               /\ stack'[d].ret = stack[d].ret
  BY <1>4, <1>7, <1>8
<1>12. \A d \in DOMAIN stack : \A k \in Int :
         AheadOf(tree, stack'[d], k) => AheadOf(tree, stack[d], k)
  BY <1>4, <1>7, <1>8
<1>13. tree.all \subseteq Int /\ \A p : Under(tree, p) \subseteq tree.all
  BY <1>3, WantedAreInt
<1>14. \A d, e \in DOMAIN stack : d < e =>
         \A k \in Under(tree, stack'[d].page) : ~ AheadOf(tree, stack'[e], k)
  BY <1>1, <1>11, <1>12, <1>13 DEF Separate
<1>15. \A d \in DOMAIN stack : \A k \in Under(tree, logpage') : ~ AheadOf(tree, stack'[d], k)
  <2>1. ASSUME NEW d \in DOMAIN stack, NEW k \in Under(tree, logpage')
        PROVE  ~ AheadOf(tree, stack'[d], k)
    <3>1. k \in tree.all /\ k \in Int /\ InSlot(tree, Top.page, slot, k)
          /\ k \in Under(tree, Top.page)
      BY <1>5, <1>13, <2>1
    <3>2. CASE d = 1
      BY <1>4, <1>7, <3>1, <3>2
    <3>3. CASE d # 1
      BY <1>1, <1>7, <1>8, <3>1, <3>3 DEF Separate
    <3>4. QED BY <3>2, <3>3
  <2>2. QED BY <2>1
<1>16. Separate'
  BY <1>2, <1>7, <1>14, <1>15 DEF Separate
<1>17. ASSUME NEW k \in tree.all
       PROVE  Ahead(k)' <=> Ahead(k)
  <2>1. k \in Int /\ (k \in Under(tree, logpage') <=> InSlot(tree, Top.page, slot, k))
    BY <1>5, <1>13
  <2>2. Ahead(k)' <=> \/ k \in Under(tree, logpage')
                      \/ \E d \in DOMAIN stack : AheadOf(tree, stack'[d], k)
    BY <1>2, <1>5, <1>7 DEF Ahead
  <2>3. Ahead(k) <=> \E d \in DOMAIN stack : AheadOf(tree, stack[d], k)
    BY <1>2 DEF Ahead
  <2>4. \A d \in DOMAIN stack : d # 1 => stack'[d] = stack[d]
    BY <1>7
  <2>5. AheadOf(tree, stack[1], k) <=>
          AheadOf(tree, stack'[1], k) \/ k \in Under(tree, logpage')
    BY <1>4, <1>7, <1>8, <2>1
  <2>6. QED BY <1>7, <2>2, <2>3, <2>4, <2>5
<1>18. FoundBehind' /\ ResultsOnce'
  BY <1>1, <1>2, <1>17 DEF FoundBehind, Found, ResultsOnce
<1>19. AllTrue' <=> AllTrue
  BY <1>2, <1>7, <1>11 DEF AllTrue
<1>20. \A k : Missed(k)' <=> Missed(k)
  BY <1>2 DEF Missed, Found, RightOfLast, Lost
<1>21. Covered'
  <2>1. SUFFICES ASSUME RootKnown
                 PROVE  /\ AllActive => AllTrue'
                        /\ AllTrue' => \A k \in Wanted(tree, query) : Missed(k) \/ Ahead(k)'
    BY <1>2, <1>5, <1>20 DEF Covered, RootKnown, AllActive
  <2>2. QED BY <1>1, <1>2, <1>3, <1>17, <1>19, <2>1, WantedAreInt DEF Covered
<1>22. QED BY <1>10, <1>16, <1>18, <1>21 DEF SearchInv

(* Every key is under the root.                                            *)
LEMMA RootPageKeeps ==
  ASSUME SearchInv, RootPage
  PROVE  SearchInv'
<1>1. SearchTypeOK /\ FoundBehind /\ ResultsOnce
  BY DEF SearchInv
<1>2. /\ pc = "root" /\ stack' = stack /\ stack = <<>>
      /\ tree' = tree /\ query' = query /\ medium' = medium /\ bXP' = bXP
      /\ m_aResult' = m_aResult /\ ret' = ret
  BY <1>1 DEF RootPage, input, SearchTypeOK
<1>3. \/ pc' = "thrown" /\ logpage' = logpage
      \/ pc' = "call" /\ logpage' \in {AdminPage, tree.root}
         /\ (RootKnown => logpage' = tree.root)
  BY DEF RootPage, RootKnown
<1>4. tree \in Trees
  BY <1>1 DEF SearchTypeOK
<1>5. tree.root \in tree.pages /\ Under(tree, tree.root) = tree.all
  BY <1>4, TreesAssumption DEF IsTree, Searchable
<1>6. SearchTypeOK'
  BY <1>1, <1>2, <1>3, <1>5 DEF SearchTypeOK
<1>7. DOMAIN stack' = {}
  BY <1>2
<1>8. Separate'
  BY <1>7 DEF Separate
<1>9. m_aResult = <<>>
  BY <1>1, <1>2 DEF SearchTypeOK
<1>10. FoundBehind' /\ ResultsOnce'
  BY <1>2, <1>9 DEF FoundBehind, Found, ResultsOnce
<1>11. AllTrue' \/ pc' = "thrown"
  BY <1>3, <1>7 DEF AllTrue
<1>12. RootKnown /\ pc' = "call" => \A k \in Wanted(tree, query) : Ahead(k)'
  BY <1>2, <1>3, <1>4, <1>5, WantedAreInt DEF Ahead
<1>13. Covered'
  <2>1. SUFFICES ASSUME RootKnown, pc' = "call"
                 PROVE  /\ logpage' \in tree.pages
                        /\ AllTrue'
                        /\ \A k \in Wanted(tree, query) : Ahead(k)'
    BY <1>2, <1>3 DEF Covered, RootKnown
  <2>2. QED BY <1>3, <1>5, <1>11, <1>12, <2>1
<1>14. QED BY <1>6, <1>8, <1>10, <1>13 DEF SearchInv
-----------------------------------------------------------------------------
LEMMA SearchInitOK == Init => SearchInv
<1>1. SUFFICES ASSUME Init PROVE SearchInv
  OBVIOUS
<1>2. SearchTypeOK
  <2>1. <<>> \in Seq(FrameType(tree)) /\ <<>> \in Seq(Int) /\ DOMAIN <<>> = {}
    OBVIOUS
  <2>2. QED BY <1>1, <2>1 DEF Init, SearchTypeOK
<1>3. Separate
  BY <1>1 DEF Init, Separate
<1>4. FoundBehind /\ ResultsOnce
  BY <1>1 DEF Init, FoundBehind, Found, ResultsOnce
<1>5. Covered
  BY <1>1 DEF Init, Covered
<1>6. QED BY <1>2, <1>3, <1>4, <1>5 DEF SearchInv

LEMMA SearchNextOK == SearchInv /\ [Next]_vars => SearchInv'
<1>1. SUFFICES ASSUME SearchInv, [Next]_vars PROVE SearchInv'
  OBVIOUS
<1>2. CASE RootPage
  BY <1>1, <1>2, RootPageKeeps
<1>3. CASE CallSkips
  BY <1>1, <1>3, CallSkipsKeeps
<1>4. CASE CallFails
  BY <1>1, <1>4, CallFailsKeeps
<1>5. CASE CallThrows
  BY <1>1, <1>5, CallThrowsKeeps
<1>6. CASE CallPage
  BY <1>1, <1>6, CallPageKeeps
<1>7. CASE ScanMatch
  BY <1>1, <1>7, ScanMatchKeeps
<1>8. CASE ScanBelow
  BY <1>1, <1>8, ScanBelowKeeps
<1>9. CASE ScanAbove
  BY <1>1, <1>9, ScanAboveKeeps
<1>10. CASE ScanEnd
  BY <1>1, <1>10, ScanEndKeeps
<1>11. CASE ChildNone
  BY <1>1, <1>11, ChildNoneKeeps
<1>12. CASE ChildCall
  BY <1>1, <1>12, ChildCallKeeps
<1>13. CASE PageReturn
  BY <1>1, <1>13, PageReturnKeeps
<1>14. CASE UNCHANGED vars
  <2>1. /\ tree' = tree /\ query' = query /\ medium' = medium /\ bXP' = bXP
        /\ logpage' = logpage /\ m_aResult' = m_aResult /\ stack' = stack /\ ret' = ret
        /\ pc' = pc
    BY <1>14 DEF vars, input
  <2>2. SearchTypeOK' /\ Separate' /\ FoundBehind' /\ ResultsOnce'
    BY <1>1, <2>1 DEF SearchInv, SearchTypeOK, Separate, FoundBehind, Found, Ahead, ResultsOnce
  <2>3. Covered'
    BY <1>1, <2>1 DEF SearchInv, Covered, RootKnown, AllActive, AllTrue, Missed, Found,
                      RightOfLast, Lost, Ahead
  <2>4. QED BY <2>2, <2>3 DEF SearchInv
<1>15. QED
  BY <1>1, <1>2, <1>3, <1>4, <1>5, <1>6, <1>7, <1>8, <1>9, <1>10, <1>11, <1>12, <1>13, <1>14
     DEF Next, Call, Scan

LEMMA SearchInvariance == Spec => []SearchInv
  BY SearchInitOK, SearchNextOK, PTL DEF Spec

-----------------------------------------------------------------------------
(* No search finds a key twice, or one without the prefix                  *)
(* (IndexBTR::SearchBTRFile).                                              *)
THEOREM SearchFindsOnce == Spec => []ResultsOnce
<1>1. SearchInv => ResultsOnce
  BY DEF SearchInv
<1>2. QED BY <1>1, SearchInvariance, PTL

(* When a search from the right root is over it is true of a sound index,  *)
(* and when it is true every key with the prefix is found but for those    *)
(* under a page that is not mapped or retired, and those right of the last *)
(* key of a page that matched to its last key.                             *)
THEOREM TrueSearchIsComplete == Spec => []TrueMeansSearched
<1>1. SearchInv => TrueMeansSearched
  <2>1. SUFFICES ASSUME SearchInv, pc = "done", RootKnown
                 PROVE  /\ AllActive => ret
                        /\ ret => \A k \in Wanted(tree, query) \ Found :
                                    RightOfLast(k) \/ Lost(k)
    BY DEF TrueMeansSearched
  <2>2. stack = <<>>
    BY <2>1 DEF SearchInv, SearchTypeOK
  <2>3. DOMAIN stack = {}
    BY <2>2
  <2>4. (AllTrue <=> ret) /\ \A k : ~ Ahead(k)
    BY <2>1, <2>3 DEF AllTrue, Ahead, SearchInv, SearchTypeOK
  <2>5. QED BY <2>1, <2>4 DEF SearchInv, Covered, Missed
<1>2. QED BY <1>1, SearchInvariance, PTL
(* A key right of a last key has that one before it: in a sound index the  *)
(* first key with the prefix is always found, and with it the only one of  *)
(* a search that one key answers.                                          *)
FirstFound ==
  pc = "done" /\ RootKnown /\ AllActive =>
    \A k \in Wanted(tree, query) : (\A m \in Wanted(tree, query) : k <= m) => k \in Found

THEOREM FirstKeyIsFound == Spec => []FirstFound
<1>1. SearchInv /\ TrueMeansSearched => FirstFound
  <2>1. SUFFICES ASSUME SearchInv, TrueMeansSearched, pc = "done", RootKnown, AllActive,
                        NEW k \in Wanted(tree, query), \A m \in Wanted(tree, query) : k <= m,
                        k \notin Found
                 PROVE  FALSE
    BY DEF FirstFound
  <2>2. tree \in Trees
    BY <2>1 DEF SearchInv, SearchTypeOK
  <2>3. RightOfLast(k)
    BY <2>1 DEF TrueMeansSearched, Lost, AllActive
  <2>4. PICK p \in tree.pages :
               /\ Matches(tree.keys[p][Len(tree.keys[p])], query)
               /\ tree.keys[p][Len(tree.keys[p])] < k
    BY <2>3 DEF RightOfLast
  <2>5. Len(tree.keys[p]) \in 1 .. Len(tree.keys[p])
    BY <2>2, PageFacts
  <2>6. tree.keys[p][Len(tree.keys[p])] \in tree.all /\ tree.keys[p][Len(tree.keys[p])] \in Int
    BY <2>2, <2>5, PageFacts DEF Under
  <2>7. tree.keys[p][Len(tree.keys[p])] \in Wanted(tree, query) /\ k \in Int
    BY <2>2, <2>4, <2>6, WantedAreInt DEF Wanted
  <2>8. QED BY <2>1, <2>4, <2>6, <2>7
<1>2. QED BY <1>1, SearchInvariance, TrueSearchIsComplete, PTL
=============================================================================
