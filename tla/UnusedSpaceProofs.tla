------------------------- MODULE UnusedSpaceProofs --------------------------
(***************************************************************************)
(* Proofs about the recovery tools: for every map, page size, number of    *)
(* pages and every table of contents, as long as the repository is sound.  *)
(***************************************************************************)
EXTENDS UnusedSpace, TLAPS, FiniteSetTheorems, WellFoundedInduction

USE MaxEntriesAssumption, PageNumbersAssumption, FilePagesAssumption, PageSizeAssumption

Bytes     == 0 .. PageSize - 1
Intervals == (0 .. PageSize) \X (0 .. PageSize)

(* Byte b is in one of the intervals s.                                    *)
Within(s, b) == \E r \in s : r[1] <= b /\ b < r[2]

(* What the loops have yielded, page by page.                              *)
RegionsAt(l)  == {<<entries[l], r[1], r[2]>> : r \in Slack(TocOf(l))}
RegionsRight  == regions = UNION {RegionsAt(l) : l \in {k \in DOMAIN entries : Reachable(k) /\ Visited(k)}}

Searched == IF phase = "unallocated" THEN i
            ELSE IF phase = "done" /\ tool = "carve" THEN FilePages ELSE 0
PagesRight == pages = {p \in 0 .. Searched - 1 : \A l \in DOMAIN entries : entries[l] # p}

SpaceTypeOK ==
  /\ entries \in Maps
  /\ toc \in [0 .. FilePages - 1 -> Tocs]
  /\ Sound
  /\ reverse \in {NoEntries, BuildReverseMapping}
  /\ tool \in {"slack", "carve", "find"}
  /\ i \in Nat

(* A dump asks for one page after the other, and raises at the first that  *)
(* has no entry.                                                           *)
Progress ==
  /\ tool = "slack" => phase \in {"slack", "done", "raised"}
  /\ tool = "carve" => phase \in {"slack", "unallocated", "done"}
  /\ tool = "find"  => phase = "find"
  /\ phase = "slack" => i <= EndOf(tool)
  /\ phase \in {"slack", "raised"} /\ tool = "slack" => i <= Count
  /\ phase = "raised" => i = Count /\ Count < FilePages
  /\ phase \in {"unallocated", "find"} => i <= FilePages

SpaceInv == SpaceTypeOK /\ Progress /\ RegionsRight /\ PagesRight /\ VerdictsRight
-----------------------------------------------------------------------------
(* The interval tree.                                                      *)
LEMMA Lesser ==
  ASSUME NEW a \in Int, NEW b \in Int
  PROVE  Min({a, b}) = (IF a <= b THEN a ELSE b)
<1>1. PICK m : m = IF a <= b THEN a ELSE b
  OBVIOUS
<1>2. /\ m \in {a, b} /\ \A y \in {a, b} : m <= y
      /\ \A x \in {a, b} : (\A y \in {a, b} : x <= y) => x = m
  BY <1>1
<1>3. Min({a, b}) = m
  BY <1>2 DEF Min
<1>4. QED BY <1>1, <1>3

LEMMA Greater ==
  ASSUME NEW a \in Int, NEW b \in Int
  PROVE  Max({a, b}) = (IF a <= b THEN b ELSE a)
<1>1. PICK m : m = IF a <= b THEN b ELSE a
  OBVIOUS
<1>2. /\ m \in {a, b} /\ \A y \in {a, b} : m >= y
      /\ \A x \in {a, b} : (\A y \in {a, b} : x >= y) => x = m
  BY <1>1
<1>3. Max({a, b}) = m
  BY <1>2 DEF Max
<1>4. QED BY <1>1, <1>3

(* What chop leaves of one interval.                                       *)
LEMMA ChopOne ==
  ASSUME NEW r \in Intervals, NEW b \in Nat, NEW e \in Nat
  PROVE  /\ Min({r[2], b}) = (IF r[2] <= b THEN r[2] ELSE b)
         /\ Max({r[1], e}) = (IF r[1] <= e THEN e ELSE r[1])
<1>1. PICK p \in Int : p = r[1]
  BY DEF Intervals
<1>2. PICK q \in Int : q = r[2]
  BY DEF Intervals
<1>3. Min({q, b}) = (IF q <= b THEN q ELSE b)
  BY Lesser
<1>4. Max({p, e}) = (IF p <= e THEN e ELSE p)
  BY Greater
<1>5. QED BY <1>1, <1>2, <1>3, <1>4

(* chop takes out the bytes from b up to e and no other.                   *)
LEMMA ChopBytes ==
  ASSUME NEW s \in SUBSET Intervals, NEW b \in Nat, NEW e \in Nat
  PROVE  /\ Chop(s, b, e) \in SUBSET Intervals
         /\ \A x \in Nat : Within(Chop(s, b, e), x) <=> Within(s, x) /\ ~ (b <= x /\ x < e)
<1>1. CASE b >= e
  <2>1. Chop(s, b, e) = s
    BY <1>1 DEF Chop
  <2>2. \A x \in Nat : ~ (b <= x /\ x < e)
    BY <1>1
  <2>3. QED BY <2>1, <2>2
<1>2. CASE ~ b >= e
  <2>1. PICK c : c = Chop(s, b, e)
    OBVIOUS
  <2>2. \A p, q : <<p, q>> \in c <=>
          p < q /\ \E r \in s : \/ p = r[1] /\ q = (IF r[2] <= b THEN r[2] ELSE b)
                                \/ p = (IF r[1] <= e THEN e ELSE r[1]) /\ q = r[2]
    <3>1. \A r \in s : /\ r[1] \in Int /\ r[2] \in Int
                       /\ Min({r[2], b}) = (IF r[2] <= b THEN r[2] ELSE b)
                       /\ Max({r[1], e}) = (IF r[1] <= e THEN e ELSE r[1])
      <4>1. ASSUME NEW r \in s
            PROVE  /\ r[1] \in Int /\ r[2] \in Int
                   /\ Min({r[2], b}) = (IF r[2] <= b THEN r[2] ELSE b)
                   /\ Max({r[1], e}) = (IF r[1] <= e THEN e ELSE r[1])
        <5>1. r \in Intervals /\ r[1] \in Int /\ r[2] \in Int
          BY DEF Intervals
        <5>2. QED BY <5>1, ChopOne
      <4>2. QED BY <4>1
    <3>2. c = {r \in UNION {{<<r[1], Min({r[2], b})>>, <<Max({r[1], e}), r[2]>>} : r \in s} :
                 r[1] < r[2]}
      BY <1>2, <2>1 DEF Chop
    <3>3. \A p, q : <<p, q>> \in c <=>
            p < q /\ \E r \in s : <<p, q>> \in {<<r[1], Min({r[2], b})>>, <<Max({r[1], e}), r[2]>>}
      BY <3>2
    <3>4. ASSUME NEW p, NEW q, NEW r \in s
          PROVE  <<p, q>> \in {<<r[1], Min({r[2], b})>>, <<Max({r[1], e}), r[2]>>} <=>
                   \/ p = r[1] /\ q = (IF r[2] <= b THEN r[2] ELSE b)
                   \/ p = (IF r[1] <= e THEN e ELSE r[1]) /\ q = r[2]
      <4>1. PICK u, v, w, z : /\ u = r[1] /\ v = Min({r[2], b})
                              /\ w = Max({r[1], e}) /\ z = r[2]
        OBVIOUS
      <4>2. <<p, q>> \in {<<u, v>>, <<w, z>>} <=> (p = u /\ q = v) \/ (p = w /\ q = z)
        BY ONLY TRUE
      <4>3. v = (IF r[2] <= b THEN r[2] ELSE b) /\ w = (IF r[1] <= e THEN e ELSE r[1])
        BY <3>1, <4>1
      <4>4. QED BY <4>1, <4>2, <4>3
    <3>5. DEFINE A(p, q, r) == <<p, q>> \in {<<r[1], Min({r[2], b})>>, <<Max({r[1], e}), r[2]>>}
                 B(p, q, r) == \/ p = r[1] /\ q = (IF r[2] <= b THEN r[2] ELSE b)
                               \/ p = (IF r[1] <= e THEN e ELSE r[1]) /\ q = r[2]
    <3>6. \A p, q : <<p, q>> \in c <=> p < q /\ \E r \in s : A(p, q, r)
      BY <3>3
    <3>7. \A p, q : \A r \in s : A(p, q, r) <=> B(p, q, r)
      BY <3>4
    <3>8. \A p, q : <<p, q>> \in c <=> p < q /\ \E r \in s : B(p, q, r)
      <4>1. HIDE DEF A, B
      <4>2. QED BY ONLY <3>6, <3>7
    <3>9. QED BY <3>8
  <2>3. c \in SUBSET Intervals
    <3>1. ASSUME NEW x \in c PROVE x \in Intervals
      <4>1. PICK r \in s : x \in {<<r[1], Min({r[2], b})>>, <<Max({r[1], e}), r[2]>>} /\ x[1] < x[2]
        BY <1>2, <2>1 DEF Chop
      <4>2. r[1] \in 0 .. PageSize /\ r[2] \in 0 .. PageSize
        BY DEF Intervals
      <4>3. /\ Min({r[2], b}) = (IF r[2] <= b THEN r[2] ELSE b)
            /\ Max({r[1], e}) = (IF r[1] <= e THEN e ELSE r[1])
        BY ChopOne
      <4>4. CASE x = <<r[1], Min({r[2], b})>>
        BY <4>2, <4>3, <4>4 DEF Intervals
      <4>5. CASE x = <<Max({r[1], e}), r[2]>>
        BY <4>1, <4>2, <4>3, <4>5 DEF Intervals
      <4>6. QED BY <4>1, <4>4, <4>5
    <3>2. QED BY <3>1
  <2>4. ASSUME NEW x \in Nat
        PROVE  Within(c, x) <=> Within(s, x) /\ ~ (b <= x /\ x < e)
    <3>1. ASSUME Within(c, x) PROVE Within(s, x) /\ ~ (b <= x /\ x < e)
      <4>1. PICK p \in Int, q \in Int : <<p, q>> \in c /\ p <= x /\ x < q
        <5>1. PICK y \in c : y[1] <= x /\ x < y[2]
          BY <3>1 DEF Within
        <5>2. y \in Intervals
          BY <2>3
        <5>3. y[1] \in Int /\ y[2] \in Int /\ y = <<y[1], y[2]>>
          BY <5>2 DEF Intervals
        <5>4. QED BY <5>1, <5>3
      <4>2. PICK r \in s : \/ p = r[1] /\ q = (IF r[2] <= b THEN r[2] ELSE b)
                           \/ p = (IF r[1] <= e THEN e ELSE r[1]) /\ q = r[2]
        BY <2>2, <4>1
      <4>3. r[1] \in Int /\ r[2] \in Int
        BY DEF Intervals
      <4>4. r[1] <= x /\ x < r[2] /\ ~ (b <= x /\ x < e)
        BY <4>1, <4>2, <4>3
      <4>5. QED BY <4>4 DEF Within
    <3>2. ASSUME Within(s, x), ~ (b <= x /\ x < e) PROVE Within(c, x)
      <4>1. PICK r \in s : r[1] <= x /\ x < r[2]
        BY <3>2 DEF Within
      <4>2. r[1] \in Int /\ r[2] \in Int
        BY DEF Intervals
      <4>3. CASE x < b
        <5>1. PICK p, q : p = r[1] /\ q = (IF r[2] <= b THEN r[2] ELSE b)
          OBVIOUS
        <5>2. p <= x /\ x < q /\ p < q
          BY <4>1, <4>2, <4>3, <5>1
        <5>3. <<p, q>> \in c
          BY <2>2, <5>1, <5>2
        <5>4. QED BY <5>2, <5>3 DEF Within
      <4>4. CASE x >= e
        <5>1. PICK p, q : p = (IF r[1] <= e THEN e ELSE r[1]) /\ q = r[2]
          OBVIOUS
        <5>2. p <= x /\ x < q /\ p < q
          BY <4>1, <4>2, <4>4, <5>1
        <5>3. <<p, q>> \in c
          BY <2>2, <5>1, <5>2
        <5>4. QED BY <5>2, <5>3 DEF Within
      <4>5. QED BY <3>2, <4>3, <4>4
    <3>3. QED BY <3>1, <3>2
  <2>5. QED BY <2>1, <2>3, <2>4
<1>3. QED BY <1>1, <1>2

LEMMA LeastNatural ==
  ASSUME NEW S \in SUBSET Nat, S # {}
  PROVE  \E m \in S : \A n \in S : m <= n
<1>1. PICK m \in S : \A n \in S : ~ (<<n, m>> \in OpToRel(<, Nat))
  BY NatLessThanWellFounded, WFMin
<1>2. \A n \in S : ~ (n < m)
  BY <1>1 DEF OpToRel
<1>3. QED BY <1>2

(* The intervals after n entries of t, when g has those after fewer.       *)
NextChop(g, s, t, n) ==
  IF n = 0 THEN s ELSE Chop(g[n - 1], t[n].Offset, t[n].Offset + t[n].Size)

AreChops(g, s, t, N) == g = [n \in 0 .. N |-> NextChop(g, s, t, n)]

LEMMA ChopsExist ==
  ASSUME NEW s, NEW t, NEW N \in Nat
  PROVE  \E g : AreChops(g, s, t, N)
<1> USE DEF AreChops
<1> DEFINE Upto(m) == \E g : g = [n \in 0 .. m |-> NextChop(g, s, t, n)]
           None    == {m \in Nat : ~ Upto(m)}
<1>1. SUFFICES ASSUME None # {} PROVE FALSE
  OBVIOUS
<1>2. PICK m \in None : \A n \in None : m <= n
  <2>1. None \in SUBSET Nat
    OBVIOUS
  <2>2. HIDE DEF None
  <2>3. QED BY <1>1, <2>1, LeastNatural
<1>3. CASE m = 0
  <2>1. PICK g : g = [n \in 0 .. 0 |-> s]
    OBVIOUS
  <2>2. \A n \in 0 .. 0 : NextChop(g, s, t, n) = s
    BY DEF NextChop
  <2>3. g = [n \in 0 .. m |-> NextChop(g, s, t, n)]
    BY <1>3, <2>1, <2>2
  <2>4. QED BY <2>3
<1>4. CASE m # 0
  <2>1. m - 1 \in Nat /\ m - 1 \notin None
    <3>1. m \in Nat
      OBVIOUS
    <3>2. m - 1 \in Nat /\ ~ m <= m - 1
      BY <1>4, <3>1
    <3>3. QED BY <1>2, <3>2
  <2>2. PICK h : h = [n \in 0 .. m - 1 |-> NextChop(h, s, t, n)]
    BY <2>1
  <2>3. PICK last : last = NextChop(h, s, t, m)
    OBVIOUS
  <2>4. PICK g : g = [n \in 0 .. m |-> IF n = m THEN last ELSE h[n]]
    OBVIOUS
  <2>5. ASSUME NEW n \in 0 .. m PROVE g[n] = NextChop(g, s, t, n)
    <3>1. n # 0 => g[n - 1] = h[n - 1]
      BY <2>4
    <3>2. NextChop(g, s, t, n) = NextChop(h, s, t, n)
      BY <3>1 DEF NextChop
    <3>3. CASE n = m
      BY <2>3, <2>4, <3>2, <3>3
    <3>4. CASE n # m
      <4>1. n \in 0 .. m - 1 /\ g[n] = h[n]
        BY <2>4, <3>4
      <4>2. h[n] = NextChop(h, s, t, n)
        BY <2>2, <4>1
      <4>3. QED BY <3>2, <4>1, <4>2
    <3>5. QED BY <3>3, <3>4
  <2>6. g = [n \in 0 .. m |-> NextChop(g, s, t, n)]
    <3>1. DOMAIN g = 0 .. m
      BY <2>4
    <3>2. g = [n \in 0 .. m |-> g[n]]
      BY <2>4
    <3>3. QED BY <2>5, <3>2
  <2>7. QED BY <2>6
<1>5. QED BY <1>3, <1>4

(* The objects of t, one after the other, take out their bytes.            *)
LEMMA ObjectsOut ==
  ASSUME NEW t \in Tocs, NEW s \in SUBSET Intervals
  PROVE  /\ WithoutObjects(s, t) \in SUBSET Intervals
         /\ \A x \in Nat : Within(WithoutObjects(s, t), x) <=>
                             Within(s, x) /\ \A k \in DOMAIN t : ~ InEntry(t[k], x)
<1>1. t \in Seq([Offset : Nat, Size : Nat])
  BY TocsAssumption
<1>2. PICK N \in Nat : N = Len(t) /\ DOMAIN t = 1 .. N
  BY <1>1
<1>3. PICK g : AreChops(g, s, t, N) /\ WithoutObjects(s, t) = g[N]
  <2>1. \E g : AreChops(g, s, t, N)
    BY ONLY <1>2, ChopsExist
  <2>2. WithoutObjects(s, t) = (CHOOSE g : AreChops(g, s, t, N))[N]
    BY <1>2 DEF WithoutObjects, NextChop, AreChops
  <2>3. AreChops(CHOOSE g : AreChops(g, s, t, N), s, t, N)
    BY ONLY <2>1
  <2>4. QED BY <2>2, <2>3
<1>4. DEFINE Out(n) == /\ g[n] \in SUBSET Intervals
                       /\ \A x \in Nat : Within(g[n], x) <=>
                                           Within(s, x) /\ \A k \in 1 .. n : ~ InEntry(t[k], x)
             Bad == {n \in Nat : n <= N /\ ~ Out(n)}
<1>5. Bad = {}
  <2>1. SUFFICES ASSUME Bad # {} PROVE FALSE
    OBVIOUS
  <2>2. PICK m \in Bad : \A n \in Bad : m <= n
    <3>1. Bad \in SUBSET Nat
      OBVIOUS
    <3>2. HIDE DEF Bad
    <3>3. QED BY <2>1, <3>1, LeastNatural
  <2>3. m \in 0 .. N /\ ~ Out(m) /\ g[m] = NextChop(g, s, t, m)
    <3>1. m \in Nat /\ m <= N /\ ~ Out(m)
      OBVIOUS
    <3>2. m \in 0 .. N
      BY <3>1
    <3>3. g[m] = NextChop(g, s, t, m)
      BY <1>3, <3>2 DEF AreChops
    <3>4. QED BY <3>1, <3>2, <3>3
  <2>4. CASE m = 0
    <3>1. g[m] = s /\ 1 .. m = {}
      BY <2>3, <2>4 DEF NextChop
    <3>2. Out(m)
      BY <3>1
    <3>3. QED BY <2>3, <3>2
  <2>5. CASE m # 0
    <3>1. m - 1 \in Nat /\ m \in 1 .. N /\ Out(m - 1)
      <4>1. m - 1 \in Nat /\ m - 1 <= N /\ ~ m <= m - 1 /\ m \in 1 .. N
        BY <2>3, <2>5
      <4>2. QED BY <2>2, <4>1
    <3>2. t[m].Offset \in Nat /\ t[m].Size \in Nat
      <4>1. PICK x : x = t[m]
        OBVIOUS
      <4>2. PICK R : R = [Offset : Nat, Size : Nat]
        OBVIOUS
      <4>3. t \in Seq(R) /\ m \in DOMAIN t
        BY <1>1, <1>2, <3>1, <4>2
      <4>4. x \in R
        BY ONLY <4>1, <4>3
      <4>5. QED BY <4>1, <4>2, <4>4
    <3>3. PICK h, b, e : h = g[m - 1] /\ b = t[m].Offset /\ e = t[m].Offset + t[m].Size
      OBVIOUS
    <3>4. b \in Nat /\ e \in Nat /\ h \in SUBSET Intervals
      BY <3>1, <3>2, <3>3
    <3>5. g[m] = Chop(h, b, e)
      BY <2>3, <2>5, <3>3 DEF NextChop
    <3>6. /\ g[m] \in SUBSET Intervals
          /\ \A x \in Nat : Within(g[m], x) <=> Within(h, x) /\ ~ (b <= x /\ x < e)
      BY <3>4, <3>5, ChopBytes
    <3>7. ASSUME NEW x \in Nat
          PROVE  Within(g[m], x) <=> Within(s, x) /\ \A k \in 1 .. m : ~ InEntry(t[k], x)
      <4>1. InEntry(t[m], x) <=> (b <= x /\ x < e)
        BY <3>3 DEF InEntry
      <4>2. Within(h, x) <=> Within(s, x) /\ \A k \in 1 .. m - 1 : ~ InEntry(t[k], x)
        BY <3>1, <3>3
      <4>3. \A k \in 1 .. m : k = m \/ k \in 1 .. m - 1
        BY <3>1
      <4>4. m \in 1 .. m /\ 1 .. m - 1 \subseteq 1 .. m
        BY <3>1
      <4>5. QED BY <3>6, <4>1, <4>2, <4>3, <4>4
    <3>8. Out(m)
      BY <3>6, <3>7
    <3>9. QED BY <2>3, <3>8
  <2>6. QED BY <2>4, <2>5
<1>6. Out(N)
  BY <1>5
<1>7. QED BY <1>2, <1>3, <1>6

(* The slack of a page is what neither its table of contents, the empty    *)
(* entry that ends it included, nor an object takes up.                    *)
LEMMA SlackBytes ==
  ASSUME NEW t \in Tocs, NEW b \in Bytes
  PROVE  Within(Slack(t), b) <=>
           /\ t = <<>> \/ b > Len(t)
           /\ \A k \in DOMAIN t : ~ InEntry(t[k], b)
<1>1. t \in Seq([Offset : Nat, Size : Nat]) /\ Len(t) \in Nat /\ b \in Nat /\ b < PageSize
  BY TocsAssumption DEF Bytes
<1>2. PICK page : page = {<<0, PageSize>>}
  OBVIOUS
<1>3. page \in SUBSET Intervals /\ Within(page, b)
  <2>1. <<0, PageSize>> \in Intervals
    BY DEF Intervals
  <2>2. QED BY <1>1, <1>2, <2>1 DEF Within
<1>4. PICK m : m = Len(t) + (IF t = <<>> THEN 0 ELSE 1)
  OBVIOUS
<1>5. m \in Nat /\ (t = <<>> => Len(t) = 0 /\ m = 0) /\ (t # <<>> => m = Len(t) + 1)
  BY <1>1, <1>4
<1>6. PICK c : c = Chop(page, 0, Len(t))
  OBVIOUS
<1>7. c \in SUBSET Intervals /\ (Within(c, b) <=> ~ b < Len(t))
  <2>1. PICK l \in Nat : l = Len(t)
    BY <1>1
  <2>2. /\ Chop(page, 0, l) \in SUBSET Intervals
        /\ \A x \in Nat : Within(Chop(page, 0, l), x) <=> Within(page, x) /\ ~ (0 <= x /\ x < l)
    BY <1>3, ChopBytes
  <2>3. 0 <= b
    BY <1>1
  <2>4. QED BY <1>1, <1>3, <1>6, <2>1, <2>2, <2>3
<1>8. PICK d : d = Chop(c, Len(t), m)
  OBVIOUS
<1>9. d \in SUBSET Intervals /\ (Within(d, b) <=> Within(c, b) /\ ~ (Len(t) <= b /\ b < m))
  BY <1>1, <1>5, <1>7, <1>8, ChopBytes
<1>10. Within(d, b) <=> (t = <<>> \/ b > Len(t))
  BY <1>1, <1>5, <1>7, <1>9
<1>11. WithoutToc(page, t) = d
  BY <1>4, <1>6, <1>8 DEF WithoutToc
<1>12. PICK f : f = WithoutObjects(d, t)
  OBVIOUS
<1>13. /\ f \in SUBSET Intervals
       /\ Within(f, b) <=> Within(d, b) /\ \A k \in DOMAIN t : ~ InEntry(t[k], b)
  BY <1>1, <1>9, <1>12, ObjectsOut
<1>14. \A r \in f : ~ Skipped(r)
  <2>1. \A r \in f : r[1] \in 0 .. PageSize /\ r[2] \in 0 .. PageSize
    BY <1>13 DEF Intervals
  <2>2. QED BY <2>1 DEF Skipped
<1>15. Slack(t) = f
  <2>1. Slack(t) = {r \in f : ~ Skipped(r)}
    BY <1>2, <1>11, <1>12 DEF Slack
  <2>2. QED BY <1>14, <2>1
<1>16. QED BY <1>10, <1>13, <1>15
-----------------------------------------------------------------------------
(* The map.                                                                *)
LEMMA MapFacts ==
  ASSUME entries \in Maps
  PROVE  \E n \in Nat : /\ DOMAIN entries = 0 .. n - 1 /\ Count = n
                        /\ \A l \in DOMAIN entries : entries[l] \in PageNumbers
<1>1. PICK n \in 1 .. MaxEntries : entries \in [0 .. n - 1 -> PageNumbers]
  BY DEF Maps
<1>2. n \in Nat /\ DOMAIN entries = 0 .. n - 1
  BY <1>1
<1>3. Cardinality(0 .. n - 1) = n
  <2>1. 0 \in Int /\ n - 1 \in Int
    BY <1>2
  <2>2. Cardinality(0 .. n - 1) = IF 0 > n - 1 THEN 0 ELSE (n - 1) - 0 + 1
    BY <2>1, FS_Interval
  <2>3. QED BY <1>2, <2>2
<1>4. QED BY <1>1, <1>2, <1>3 DEF Count

LEMMA LastOfFacts ==
  ASSUME entries \in Maps, NEW p, NEW k \in DOMAIN entries, entries[k] = p
  PROVE  LastOf(p) \in DOMAIN entries /\ entries[LastOf(p)] = p
<1>1. PICK n \in Nat : DOMAIN entries = 0 .. n - 1
  BY MapFacts
<1>2. PICK S : S = {m \in Nat : m < n /\ entries[n - 1 - m] = p}
  OBVIOUS
<1>3. S \in SUBSET Nat /\ n - 1 - k \in S
  <2>1. k \in Nat /\ k < n
    BY <1>1
  <2>2. n - 1 - k \in Nat /\ n - 1 - k < n /\ n - 1 - (n - 1 - k) = k
    BY <2>1
  <2>3. QED BY <1>2, <2>2
<1>4. PICK m \in S : \A j \in S : m <= j
  BY <1>3, LeastNatural
<1>5. PICK l : l = n - 1 - m
  OBVIOUS
<1>6. l \in DOMAIN entries /\ entries[l] = p
  <2>1. m \in Nat /\ m < n
    BY <1>2
  <2>2. QED BY <1>1, <1>2, <1>5, <2>1
<1>7. \A j \in DOMAIN entries : entries[j] = p => j <= l
  <2>1. ASSUME NEW j \in DOMAIN entries, entries[j] = p PROVE j <= l
    <3>1. j \in Nat /\ j < n /\ m \in Nat
      BY <1>1, <1>2
    <3>2. n - 1 - j \in Nat /\ n - 1 - j < n /\ n - 1 - (n - 1 - j) = j
      BY <3>1
    <3>3. n - 1 - j \in S
      BY <1>2, <2>1, <3>2
    <3>4. m <= n - 1 - j
      BY <1>4, <3>3
    <3>5. QED BY <1>5, <3>1, <3>4
  <2>2. QED BY <2>1
<1>8. QED BY <1>6, <1>7 DEF LastOf
(* The reverse map, once built and kept, still is the one of this map: a   *)
(* page of the file has an entry in it exactly when an entry of the map    *)
(* leads to it, and its entry leads to it.                                 *)
LEMMA ReverseFacts ==
  ASSUME SpaceTypeOK, NEW p \in 0 .. FilePages - 1
  PROVE  /\ ReverseMapping = BuildReverseMapping
         /\ p \in DOMAIN ReverseMapping <=> \E l \in DOMAIN entries : entries[l] = p
         /\ p \in DOMAIN ReverseMapping =>
              /\ ReverseMapping[p] = LastOf(p)
              /\ LastOf(p) \in DOMAIN entries /\ entries[LastOf(p)] = p
              /\ Reachable(LastOf(p))
<1>1. ReverseMapping = BuildReverseMapping
  BY DEF ReverseMapping, SpaceTypeOK
<1>2. p # UNMAPPED
  BY DEF Maps
<1>3. PICK B : B = BuildReverseMapping
  OBVIOUS
<1>4. DOMAIN B = {entries[l] : l \in DOMAIN entries} \ {UNMAPPED}
  BY <1>3 DEF BuildReverseMapping
<1>5. p \in DOMAIN B <=> \E l \in DOMAIN entries : entries[l] = p
  BY <1>2, <1>4
<1>6. ASSUME p \in DOMAIN B
      PROVE  /\ B[p] = LastOf(p)
             /\ LastOf(p) \in DOMAIN entries /\ entries[LastOf(p)] = p
             /\ Reachable(LastOf(p))
  <2>1. B[p] = LastOf(p)
    BY <1>3, <1>4, <1>6 DEF BuildReverseMapping
  <2>2. LastOf(p) \in DOMAIN entries /\ entries[LastOf(p)] = p
    BY <1>5, <1>6, LastOfFacts DEF SpaceTypeOK
  <2>3. Reachable(LastOf(p))
    BY <1>2, <2>2 DEF Reachable, Mapped
  <2>4. QED BY <2>1, <2>2, <2>3
<1>7. QED BY <1>1, <1>3, <1>5, <1>6
-----------------------------------------------------------------------------
(* The bytes of a page.                                                    *)
LEMMA TocFacts ==
  ASSUME SpaceTypeOK, NEW l, Reachable(l)
  PROVE  /\ l \in DOMAIN entries /\ l \in Nat /\ TocOf(l) \in Tocs
         /\ \A n \in DOMAIN TocOf(l) : TocOf(l)[n].Offset \in Nat /\ TocOf(l)[n].Size \in Nat
<1>1. l \in DOMAIN entries /\ entries[l] \in 0 .. FilePages - 1
  BY DEF Reachable, Mapped
<1>2. l \in Nat
  BY <1>1, MapFacts DEF SpaceTypeOK
<1>3. PICK t : t = TocOf(l)
  OBVIOUS
<1>4. t \in Tocs
  BY <1>1, <1>3 DEF TocOf, SpaceTypeOK
<1>5. PICK R : R = [Offset : Nat, Size : Nat]
  OBVIOUS
<1>6. t \in Seq(R)
  BY <1>4, <1>5, TocsAssumption
<1>7. ASSUME NEW n \in DOMAIN t PROVE t[n].Offset \in Nat /\ t[n].Size \in Nat
  <2>1. PICK x : x = t[n]
    OBVIOUS
  <2>2. x \in R
    BY ONLY <1>6, <2>1, n \in DOMAIN t
  <2>3. QED BY <1>5, <2>1, <2>2
<1>8. QED BY <1>1, <1>2, <1>3, <1>4, <1>7

(* An object of page k that reaches into a later page runs on to it.       *)
LEMMA ReachIsRun ==
  ASSUME NEW k \in Nat, NEW l \in Nat, k < l, NEW b \in Bytes,
         NEW o \in Nat, NEW s \in Nat, (l - k) * PageSize + b < o + s
  PROVE  l \in k .. k + (o + s - 1) \div PageSize
<1>1. PICK d \in Nat : d = l - k
  OBVIOUS
<1>2. PICK a : a = o + s - 1
  OBVIOUS
<1>3. d * PageSize \in Nat /\ b \in Nat
  <2>1. \A x \in Nat : x * PageSize \in Nat
    OBVIOUS
  <2>2. QED BY <2>1 DEF Bytes
<1>4. a \in Nat /\ a >= d * PageSize
  BY <1>1, <1>2, <1>3
<1>5. \A x \in Nat : x >= d * PageSize => x \div PageSize \in Nat /\ x \div PageSize >= d
  BY SMTT(30)
<1>6. PICK q \in Nat : q = a \div PageSize /\ q >= d
  BY <1>4, <1>5
<1>7. l \in k .. k + q
  BY <1>1, <1>6
<1>8. QED BY <1>2, <1>6, <1>7

(* The bytes of page l that its own objects take up.                       *)
LEMMA OwnBytes ==
  ASSUME SpaceTypeOK, NEW l, Reachable(l), NEW b \in Bytes
  PROVE  b \in LiveFrom(l, l) <=> \E n \in DOMAIN TocOf(l) : InEntry(TocOf(l)[n], b)
<1>1. (l - l) * PageSize + b = b
  <2>1. l \in Nat /\ b \in Nat
    BY TocFacts DEF Bytes
  <2>2. l - l = 0
    BY <2>1
  <2>3. 0 * PageSize = 0
    OBVIOUS
  <2>4. QED BY <2>1, <2>2, <2>3
<1>2. \A n \in DOMAIN TocOf(l) : Covers(l, TocOf(l)[n], l, b) <=> InEntry(TocOf(l)[n], b)
  BY <1>1 DEF Covers, InEntry
<1>3. QED BY <1>2 DEF LiveFrom, Bytes

LEMMA LiveFacts ==
  ASSUME SpaceTypeOK, NEW l, Reachable(l), NEW b \in Bytes
  PROVE  /\ (\E n \in DOMAIN TocOf(l) : InEntry(TocOf(l)[n], b)) => b \in Live(l)
         /\ (TocOf(l) # <<>> \/ ~ Continued(l)) /\ b \in Live(l) =>
              \E n \in DOMAIN TocOf(l) : InEntry(TocOf(l)[n], b)
<1>1. l \in Nat /\ l \in 0 .. l
  BY TocFacts
<1>2. b \in Live(l) <=> \E k \in 0 .. l : Reachable(k) /\ b \in LiveFrom(k, l)
  BY DEF Live
<1>3. ASSUME \E n \in DOMAIN TocOf(l) : InEntry(TocOf(l)[n], b) PROVE b \in Live(l)
  BY <1>1, <1>2, <1>3, OwnBytes
<1>4. ASSUME TocOf(l) # <<>> \/ ~ Continued(l), b \in Live(l)
      PROVE  \E n \in DOMAIN TocOf(l) : InEntry(TocOf(l)[n], b)
  <2>1. PICK k \in 0 .. l : Reachable(k) /\ b \in LiveFrom(k, l)
    BY <1>2, <1>4
  <2>2. CASE k = l
    BY <2>1, <2>2, OwnBytes
  <2>3. CASE k # l
    <3>1. k \in Nat /\ k < l /\ k \in 0 .. l - 1
      BY <1>1, <2>3
    <3>2. Continued(l)
      BY <2>1, <3>1 DEF Continued
    <3>3. PICK n \in DOMAIN TocOf(k) : Covers(k, TocOf(k)[n], l, b)
      BY <2>1 DEF LiveFrom
    <3>4. PICK o \in Nat, s \in Nat : o = TocOf(k)[n].Offset /\ s = TocOf(k)[n].Size
      BY <2>1, TocFacts
    <3>5. (l - k) * PageSize + b < o + s
      BY <3>3, <3>4 DEF Covers
    <3>6. l \in k .. k + (o + s - 1) \div PageSize
      BY <1>1, <3>1, <3>5, ReachIsRun
    <3>7. l \in k .. RunsTo(k, TocOf(k)[n])
      BY <3>4, <3>6 DEF RunsTo
    <3>8. k \in DOMAIN entries
      BY <2>1, TocFacts
    <3>9. TocOf(l) = <<>>
      BY <2>1, <2>3, <3>3, <3>7, <3>8 DEF Sound, SpaceTypeOK
    <3>10. QED BY <1>4, <3>2, <3>9
  <2>4. QED BY <2>2, <2>3
<1>5. QED BY <1>3, <1>4
-----------------------------------------------------------------------------
(* The invariant holds at the start.                                       *)
LEMMA EndFacts ==
  ASSUME SpaceTypeOK
  PROVE  Count \in Nat /\ EndOf(tool) \in Nat /\ DOMAIN entries = 0 .. Count - 1
BY MapFacts DEF SpaceTypeOK, EndOf

LEMMA InitSpaceInv == Init => SpaceInv
<1> SUFFICES ASSUME Init PROVE SpaceInv
  OBVIOUS
<1>1. SpaceTypeOK
  BY DEF Init, SpaceTypeOK
<1>2. Progress
  <2>1. i = 0 /\ tool \in {"slack", "carve", "find"} /\ phase = IF tool = "find" THEN "find" ELSE "slack"
    BY DEF Init
  <2>2. Count \in Nat /\ EndOf(tool) \in Nat /\ FilePages \in Nat
    BY <1>1, EndFacts
  <2>3. QED BY ONLY <2>1, <2>2 DEF Progress
<1>3. RegionsRight
  <2>1. \A k \in DOMAIN entries : ~ Visited(k)
    <3>1. \A k \in DOMAIN entries : k \in Nat
      BY <1>1, EndFacts
    <3>2. \A k \in Nat : ~ k < 0
      OBVIOUS
    <3>3. phase = "slack" \/ tool = "find"
      BY DEF Init
    <3>4. QED BY <3>1, <3>2, <3>3 DEF Init, Visited
  <2>2. regions = {}
    BY DEF Init
  <2>3. QED BY <2>1, <2>2 DEF RegionsRight
<1>4. PagesRight
  <2>1. pages = {} /\ Searched = 0
    BY DEF Init, Searched
  <2>2. 0 .. 0 - 1 = {}
    OBVIOUS
  <2>3. QED BY <2>1, <2>2 DEF PagesRight
<1>5. VerdictsRight
  BY DEF Init, VerdictsRight
<1>6. QED BY <1>1, <1>2, <1>3, <1>4, <1>5 DEF SpaceInv
-----------------------------------------------------------------------------
(* No step changes the file.                                               *)
SameFile == entries' = entries /\ toc' = toc /\ tool' = tool

LEMMA NextSameFile == [Next]_vars => SameFile
BY DEF Next, vars, SameFile, DumpPage, CarvePage, SlackDone, Unallocated, AllDone, FindHit, FindNothing

LEMMA StepType == SpaceTypeOK /\ [Next]_vars => SpaceTypeOK'
<1> SUFFICES ASSUME SpaceTypeOK, [Next]_vars PROVE SpaceTypeOK'
  OBVIOUS
<1>1. SameFile
  BY NextSameFile
<1>2. entries' \in Maps /\ toc' \in [0 .. FilePages - 1 -> Tocs] /\ tool' \in {"slack", "carve", "find"}
  BY <1>1 DEF SpaceTypeOK, SameFile
<1>3. Sound'
  BY <1>1 DEF SpaceTypeOK, SameFile, Sound, RunsTo, TocOf, Reachable, Mapped
<1>4. BuildReverseMapping' = BuildReverseMapping
  BY <1>1 DEF SameFile, BuildReverseMapping, LastOf
<1>5. reverse' \in {NoEntries, BuildReverseMapping}
  <2>1. reverse' \in {reverse, ReverseMapping}
    BY DEF Next, vars, DumpPage, CarvePage, SlackDone, Unallocated, AllDone, FindHit, FindNothing
  <2>2. QED BY <2>1 DEF SpaceTypeOK, ReverseMapping
<1>6. i' \in Nat
  <2>1. i' \in {i, i + 1, 0}
    BY DEF Next, vars, DumpPage, CarvePage, SlackDone, Unallocated, AllDone, FindHit, FindNothing
  <2>2. QED BY <2>1 DEF SpaceTypeOK
<1>7. QED BY <1>2, <1>3, <1>4, <1>5, <1>6 DEF SpaceTypeOK, NoEntries
(* What is said of the file alone stays as it was.                         *)
LEMMA SameFacts ==
  ASSUME SameFile
  PROVE  /\ Count' = Count /\ EndOf(tool)' = EndOf(tool)
         /\ \A l : TocOf(l)' = TocOf(l) /\ Live(l)' = Live(l) /\ RegionsAt(l)' = RegionsAt(l)
         /\ \A l : Reachable(l)' = Reachable(l)
<1>1. entries' = entries /\ toc' = toc /\ tool' = tool
  BY DEF SameFile
<1>2. Count' = Count /\ EndOf(tool)' = EndOf(tool)
  BY <1>1 DEF Count, EndOf
<1>3. ASSUME NEW l
      PROVE  TocOf(l)' = TocOf(l) /\ Live(l)' = Live(l) /\ RegionsAt(l)' = RegionsAt(l)
  BY <1>1 DEF TocOf, Live, LiveFrom, Reachable, Mapped, RegionsAt
<1>4. ASSUME NEW l PROVE Reachable(l)' = Reachable(l)
  BY <1>1 DEF Reachable, Mapped
<1>5. QED BY <1>2, <1>3, <1>4

LEMMA StepProgress == SpaceInv /\ [Next]_vars => Progress'
<1> SUFFICES ASSUME SpaceInv, [Next]_vars PROVE Progress'
  OBVIOUS
<1>1. PICK e, n : e = EndOf(tool) /\ n = Count
  OBVIOUS
<1>2. e \in Nat /\ n \in Nat /\ EndOf(tool)' = e /\ Count' = n /\ tool' = tool
  BY <1>1, EndFacts, NextSameFile, SameFacts DEF SpaceInv, SameFile
<1>3. i \in Nat /\ FilePages \in Nat /\ tool \in {"slack", "carve", "find"}
  BY DEF SpaceInv, SpaceTypeOK
<1>4. tool = "slack" => e = FilePages
  BY <1>1 DEF EndOf
<1>5. /\ tool = "slack" => phase \in {"slack", "done", "raised"}
      /\ tool = "carve" => phase \in {"slack", "unallocated", "done"}
      /\ tool = "find"  => phase = "find"
      /\ phase = "slack" => i <= e
      /\ phase \in {"slack", "raised"} /\ tool = "slack" => i <= n
      /\ phase = "raised" => i = n /\ n < FilePages
      /\ phase \in {"unallocated", "find"} => i <= FilePages
  BY <1>1 DEF SpaceInv, Progress
<1> DEFINE Goal ==
      /\ tool = "slack" => phase' \in {"slack", "done", "raised"}
      /\ tool = "carve" => phase' \in {"slack", "unallocated", "done"}
      /\ tool = "find"  => phase' = "find"
      /\ phase' = "slack" => i' <= e
      /\ phase' \in {"slack", "raised"} /\ tool = "slack" => i' <= n
      /\ phase' = "raised" => i' = n /\ n < FilePages
      /\ phase' \in {"unallocated", "find"} => i' <= FilePages
<1> SUFFICES Goal
  BY <1>2 DEF Progress
<1>6. CASE DumpPage
  <2>1. phase = "slack" /\ tool = "slack" /\ i < e
    BY <1>1, <1>6 DEF DumpPage
  <2>2. DOMAIN entries = 0 .. n - 1
    BY <1>1, EndFacts DEF SpaceInv
  <2>3. \/ phase' = "raised" /\ i' = i /\ i \notin DOMAIN entries
        \/ phase' = phase /\ i' = i + 1 /\ i \in DOMAIN entries
    BY <1>6 DEF DumpPage, IsLogicalPageMapped, Returns, EntryError, Raises
  <2>4. QED BY ONLY <1>2, <1>3, <1>4, <1>5, <2>1, <2>2, <2>3
<1>7. CASE CarvePage
  <2>1. phase = "slack" /\ tool = "carve" /\ i < e /\ i' = i + 1 /\ phase' = phase
    BY <1>1, <1>7 DEF CarvePage
  <2>2. QED BY ONLY <1>2, <1>3, <1>5, <2>1
<1>8. CASE SlackDone
  <2>1. phase = "slack" /\ i' = 0 /\ phase' = IF tool = "slack" THEN "done" ELSE "unallocated"
    BY <1>8 DEF SlackDone
  <2>2. QED BY ONLY <1>2, <1>3, <1>5, <2>1
<1>9. CASE Unallocated
  <2>1. phase = "unallocated" /\ i < FilePages /\ i' = i + 1 /\ phase' = phase
    BY <1>9 DEF Unallocated
  <2>2. QED BY ONLY <1>2, <1>3, <1>5, <2>1
<1>10. CASE AllDone
  <2>1. phase = "unallocated" /\ phase' = "done"
    BY <1>10 DEF AllDone
  <2>2. QED BY ONLY <1>2, <1>3, <1>5, <2>1
<1>11. CASE FindNothing \/ \E b \in 0 .. PageSize - 1 : FindHit(b)
  <2>1. phase = "find" /\ i < FilePages /\ i' = i + 1 /\ phase' = phase
    BY <1>11 DEF FindHit, FindNothing
  <2>2. QED BY ONLY <1>2, <1>3, <1>5, <2>1
<1>12. CASE UNCHANGED vars
  <2>1. i' = i /\ phase' = phase
    BY <1>12 DEF vars
  <2>2. QED BY ONLY <1>2, <1>3, <1>5, <2>1
<1>13. HIDE DEF Goal
<1>14. QED BY <1>6, <1>7, <1>8, <1>9, <1>10, <1>11, <1>12 DEF Next
(* A page is gone through when the loop passes it, and at no other step.   *)
LEMMA StepVisited ==
  ASSUME SpaceInv, [Next]_vars
  PROVE  \/ /\ regions' = regions
            /\ \A k \in DOMAIN entries : Visited(k)' <=> Visited(k)
         \/ /\ regions' = regions \union (IF Reachable(i) THEN RegionsAt(i) ELSE {})
            /\ \A k \in DOMAIN entries : Visited(k)' <=> Visited(k) \/ k = i
<1>1. PICK e : e = EndOf(tool)
  OBVIOUS
<1>2. e \in Nat /\ EndOf(tool)' = e /\ tool' = tool /\ i \in Nat
  BY <1>1, EndFacts, NextSameFile, SameFacts DEF SpaceInv, SpaceTypeOK, SameFile
<1>3. \A k \in DOMAIN entries : k \in Nat
  BY EndFacts DEF SpaceInv
<1>4. \A k : Visited(k) <=> tool # "find" /\ k < (IF phase \in {"slack", "raised"} THEN i ELSE e)
  BY <1>1 DEF Visited
<1>5. \A k : Visited(k)' <=> tool # "find" /\ k < (IF phase' \in {"slack", "raised"} THEN i' ELSE e)
  BY <1>2 DEF Visited
<1> DEFINE Same   == regions' = regions /\ \A k \in DOMAIN entries : Visited(k)' <=> Visited(k)
           Passed == /\ regions' = regions \union (IF Reachable(i) THEN RegionsAt(i) ELSE {})
                     /\ \A k \in DOMAIN entries : Visited(k)' <=> Visited(k) \/ k = i
<1> SUFFICES Same \/ Passed
  OBVIOUS
<1>6. ASSUME phase = "slack", tool # "find", Yield(i), i' = i + 1, phase' = phase PROVE Passed
  <2>1. regions' = regions \union (IF Reachable(i) THEN RegionsAt(i) ELSE {})
    BY <1>6 DEF Yield, RegionsAt
  <2>2. ASSUME NEW k \in DOMAIN entries PROVE Visited(k)' <=> Visited(k) \/ k = i
    <3>1. k \in Nat
      BY <1>3
    <3>2. (Visited(k) <=> k < i) /\ (Visited(k)' <=> k < i + 1)
      BY <1>4, <1>5, <1>6
    <3>3. QED BY <1>2, <3>1, <3>2
  <2>3. QED BY <2>1, <2>2
<1>7. CASE DumpPage
  <2>1. phase = "slack" /\ tool = "slack"
    BY <1>7 DEF DumpPage
  <2>2. CASE phase' = "raised" /\ UNCHANGED <<i, regions>>
    <3>1. \A k : Visited(k)' <=> Visited(k)
      BY <1>4, <1>5, <2>1, <2>2
    <3>2. QED BY <2>2, <3>1
  <2>3. CASE Yield(i) /\ i' = i + 1 /\ UNCHANGED phase
    BY <1>6, <2>1, <2>3
  <2>4. QED BY <1>7, <2>2, <2>3 DEF DumpPage
<1>8. CASE CarvePage
  <2>1. phase = "slack" /\ tool # "find" /\ Yield(i) /\ i' = i + 1 /\ phase' = phase
    BY <1>8 DEF CarvePage
  <2>2. QED BY <1>6, <2>1
<1>9. CASE SlackDone
  <2>1. phase = "slack" /\ i = e /\ phase' \in {"done", "unallocated"} /\ regions' = regions
    BY <1>1, <1>9 DEF SlackDone
  <2>2. \A k : Visited(k)' <=> Visited(k)
    BY <1>4, <1>5, <2>1
  <2>3. QED BY <2>1, <2>2
<1>10. CASE Unallocated \/ AllDone
  <2>1. phase = "unallocated" /\ phase' \in {"done", "unallocated"} /\ regions' = regions
    BY <1>10 DEF Unallocated, AllDone
  <2>2. \A k : Visited(k)' <=> Visited(k)
    BY <1>4, <1>5, <2>1
  <2>3. QED BY <2>1, <2>2
<1>11. CASE FindNothing \/ \E b \in 0 .. PageSize - 1 : FindHit(b)
  <2>1. phase = "find" /\ regions' = regions
    BY <1>11 DEF FindNothing, FindHit
  <2>2. tool = "find"
    BY <2>1 DEF SpaceInv, SpaceTypeOK, Progress
  <2>3. \A k : Visited(k)' <=> Visited(k)
    BY <1>4, <1>5, <2>2
  <2>4. QED BY <2>1, <2>3
<1>12. CASE UNCHANGED vars
  <2>1. i' = i /\ phase' = phase /\ regions' = regions
    BY <1>12 DEF vars
  <2>2. \A k : Visited(k)' <=> Visited(k)
    BY <1>4, <1>5, <2>1
  <2>3. QED BY <2>1, <2>2
<1>13. HIDE DEF Same, Passed
<1>14. QED BY <1>7, <1>8, <1>9, <1>10, <1>11, <1>12 DEF Next

LEMMA StepRegions == SpaceInv /\ [Next]_vars => RegionsRight'
<1> SUFFICES ASSUME SpaceInv, [Next]_vars PROVE RegionsRight'
  OBVIOUS
<1>1. entries' = entries /\ (\A l : RegionsAt(l)' = RegionsAt(l)) /\ (\A l : Reachable(l)' = Reachable(l))
  BY NextSameFile, SameFacts DEF SameFile
<1>2. PICK V : V = {k \in DOMAIN entries : Reachable(k) /\ Visited(k)}
  OBVIOUS
<1>3. PICK W : W = {k \in DOMAIN entries : Reachable(k) /\ Visited(k)'}
  OBVIOUS
<1>4. regions = UNION {RegionsAt(l) : l \in V}
  BY <1>2 DEF SpaceInv, RegionsRight
<1>5. regions' = UNION {RegionsAt(l) : l \in W}
  <2>1. CASE regions' = regions /\ \A k \in DOMAIN entries : Visited(k)' <=> Visited(k)
    <3>1. V = W
      BY <1>2, <1>3, <2>1
    <3>2. QED BY <1>4, <2>1, <3>1
  <2>2. CASE /\ regions' = regions \union (IF Reachable(i) THEN RegionsAt(i) ELSE {})
             /\ \A k \in DOMAIN entries : Visited(k)' <=> Visited(k) \/ k = i
    <3>1. Reachable(i) => i \in DOMAIN entries
      BY DEF Reachable, Mapped
    <3>2. W = V \union (IF Reachable(i) THEN {i} ELSE {})
      BY <1>2, <1>3, <2>2, <3>1
    <3>3. QED BY ONLY <1>4, <2>2, <3>2
  <2>3. QED BY <2>1, <2>2, StepVisited
<1>6. (UNION {RegionsAt(l) : l \in {k \in DOMAIN entries : Reachable(k) /\ Visited(k)}})'
        = UNION {RegionsAt(l) : l \in W}
  BY <1>1, <1>3
<1>7. QED BY <1>5, <1>6 DEF RegionsRight
(* The reverse map tells the pages that no entry leads to.                 *)
LEMMA StepPages == SpaceInv /\ [Next]_vars => PagesRight'
<1> SUFFICES ASSUME SpaceInv, [Next]_vars PROVE PagesRight'
  OBVIOUS
<1> DEFINE Unnamed(n) == {p \in 0 .. n - 1 : \A l \in DOMAIN entries : entries[l] # p}
<1>1. entries' = entries /\ tool' = tool /\ tool \in {"slack", "carve", "find"}
  BY NextSameFile DEF SameFile, SpaceInv, SpaceTypeOK
<1>2. pages = Unnamed(Searched)
  BY DEF SpaceInv, PagesRight
<1>3. /\ tool = "slack" => phase \in {"slack", "done", "raised"}
      /\ tool = "carve" => phase \in {"slack", "unallocated", "done"}
      /\ tool = "find"  => phase = "find"
  BY DEF SpaceInv, Progress
<1>4. SUFFICES pages' = Unnamed(Searched')
  BY <1>1 DEF PagesRight
<1>5. ASSUME pages' = pages, Searched' = Searched PROVE pages' = Unnamed(Searched')
  BY <1>2, <1>5
<1>6. CASE DumpPage \/ CarvePage \/ SlackDone
  <2>1. /\ phase = "slack" /\ pages' = pages
        /\ \/ phase' \in {"slack", "raised"}
           \/ phase' = "done" /\ tool = "slack"
           \/ phase' = "unallocated" /\ i' = 0
    BY <1>6 DEF DumpPage, CarvePage, SlackDone
  <2>2. Searched' = Searched
    BY <1>1, <2>1 DEF Searched
  <2>3. QED BY <1>5, <2>1, <2>2
<1>7. CASE Unallocated
  <2>1. /\ phase = "unallocated" /\ phase' = phase /\ i < FilePages /\ i' = i + 1
        /\ pages' = pages \union (IF i \in DOMAIN ReverseMapping THEN {} ELSE {i})
    BY <1>7 DEF Unallocated, IsPhysicalPageMapped, Returns
  <2>2. i \in Nat /\ i \in 0 .. FilePages - 1
    BY <2>1 DEF SpaceInv, SpaceTypeOK
  <2>3. i \in DOMAIN ReverseMapping <=> \E l \in DOMAIN entries : entries[l] = i
    BY <2>2, ReverseFacts DEF SpaceInv
  <2>4. Searched = i /\ Searched' = i + 1
    BY <2>1 DEF Searched
  <2>5. 0 .. i + 1 - 1 = (0 .. i - 1) \union {i}
    BY <2>2
  <2>6. QED BY <1>2, <2>1, <2>3, <2>4, <2>5
<1>8. CASE AllDone
  <2>1. phase = "unallocated" /\ phase' = "done" /\ i = FilePages /\ pages' = pages
    BY <1>8 DEF AllDone
  <2>2. tool = "carve"
    BY <1>1, <1>3, <2>1
  <2>3. Searched' = Searched
    BY <1>1, <2>1, <2>2 DEF Searched
  <2>4. QED BY <1>5, <2>1, <2>3
<1>9. CASE FindNothing \/ \E b \in 0 .. PageSize - 1 : FindHit(b)
  <2>1. phase = "find" /\ phase' = phase /\ pages' = pages
    BY <1>9 DEF FindNothing, FindHit
  <2>2. Searched' = Searched
    BY <2>1 DEF Searched
  <2>3. QED BY <1>5, <2>1, <2>2
<1>10. CASE UNCHANGED vars
  <2>1. Searched' = Searched /\ pages' = pages
    BY <1>10 DEF vars, Searched
  <2>2. QED BY <1>5, <2>1
<1>11. QED
  <2>1. HIDE DEF Unnamed
  <2>2. QED BY <1>6, <1>7, <1>8, <1>9, <1>10 DEF Next

(* What find_bytes.py says of a byte of a page that is mapped.             *)
LEMMA VerdictFacts ==
  ASSUME SpaceTypeOK, NEW l, Reachable(l), NEW b \in Bytes, NEW v, v = Verdicts(TocOf(l), b)
  PROVE  /\ v # {} /\ "unallocated" \notin v /\ "unreadable" \notin v
         /\ "object" \in v => b \in Live(l)
         /\ "slack" \in v => b \notin Taken(l) \/ b = Len(TocOf(l))
         /\ v = {"unknown"} <=> TocOf(l) = <<>>
<1>1. PICK t : t = TocOf(l)
  OBVIOUS
<1>2. PICK in : in <=> \E k \in DOMAIN t : InEntry(t[k], b)
  OBVIOUS
<1>3. PICK n \in Nat : n = Len(t)
  <2>1. t \in Tocs
    BY <1>1, TocFacts
  <2>2. t \in Seq([Offset : Nat, Size : Nat])
    BY <2>1, TocsAssumption
  <2>3. QED BY <2>2
<1>4. PICK found : found = (IF b < n THEN {"toc"} ELSE {}) \union (IF in THEN {"object"} ELSE {})
  OBVIOUS
<1>5. v = IF t = <<>> THEN {"unknown"} ELSE IF found = {} THEN {"slack"} ELSE found
  BY <1>1, <1>2, <1>3, <1>4 DEF Verdicts
<1>6. v # {} /\ "unallocated" \notin v /\ "unreadable" \notin v
  BY ONLY <1>4, <1>5
<1>7. v = {"unknown"} <=> t = <<>>
  BY ONLY <1>4, <1>5
<1>8. ASSUME "object" \in v PROVE b \in Live(l)
  <2>1. in
    BY ONLY <1>4, <1>5, <1>8
  <2>2. QED BY <1>1, <1>2, <2>1, LiveFacts
<1>9. ASSUME "slack" \in v PROVE b \notin Taken(l) \/ b = Len(t)
  <2>1. t # <<>> /\ ~ in /\ ~ b < n
    BY ONLY <1>4, <1>5, <1>9
  <2>2. b \notin Live(l)
    BY <1>1, <1>2, <2>1, LiveFacts
  <2>3. b \in 0 .. n => b = n
    BY <2>1 DEF Bytes
  <2>4. QED BY <1>1, <1>3, <2>1, <2>2, <2>3 DEF Taken
<1>10. QED BY <1>1, <1>6, <1>7, <1>8, <1>9

LEMMA StepVerdicts == SpaceInv /\ [Next]_vars => VerdictsRight'
<1> SUFFICES ASSUME SpaceInv, [Next]_vars PROVE VerdictsRight'
  OBVIOUS
<1>1. SpaceTypeOK /\ entries' = entries /\ toc' = toc
  BY NextSameFile DEF SpaceInv, SameFile
<1>2. \A l : TocOf(l)' = TocOf(l) /\ Live(l)' = Live(l) /\ Taken(l)' = Taken(l)
  BY NextSameFile, SameFacts DEF Taken
<1>3. \A p : LastOf(p)' = LastOf(p)
  BY <1>1 DEF LastOf
<1> DEFINE Right(h) ==
      LET l == LastOf(h.page)
          mapped == \E k \in DOMAIN entries : entries[k] = h.page
      IN  h.verdicts # {} =>
            /\ h.verdicts = {"unallocated"} <=> ~ mapped
            /\ "object" \in h.verdicts => h.offset \in Live(l)
            /\ "slack" \in h.verdicts => h.offset \notin Taken(l) \/ h.offset = Len(TocOf(l))
            /\ h.verdicts = {"unknown"} <=> mapped /\ TocOf(l) = <<>>
            /\ "unreadable" \notin h.verdicts
<1>4. Right(hit)
  BY DEF SpaceInv, VerdictsRight
<1>5. VerdictsRight' <=> Right(hit')
  BY <1>1, <1>2, <1>3 DEF VerdictsRight
<1>6. CASE \E b \in 0 .. PageSize - 1 : FindHit(b)
  <2>1. PICK b \in Bytes : FindHit(b)
    BY <1>6 DEF Bytes
  <2>2. i \in 0 .. FilePages - 1
    <3>1. i \in Nat
      BY <1>1 DEF SpaceTypeOK
    <3>2. i < FilePages
      BY <2>1 DEF FindHit
    <3>3. QED BY <3>1, <3>2
  <2>3. PICK v : hit' = [page |-> i, offset |-> b, verdicts |-> v]
    BY <2>1 DEF FindHit
  <2>4. CASE i \notin DOMAIN ReverseMapping
    <3>1. v = {"unallocated"}
      BY <2>1, <2>3, <2>4 DEF FindHit, GetLogicalPageNumber, Raises
    <3>2. ~ \E k \in DOMAIN entries : entries[k] = i
      BY <1>1, <2>2, <2>4, ReverseFacts
    <3>3. QED BY <1>5, <2>3, <3>1, <3>2
  <2>5. CASE i \in DOMAIN ReverseMapping
    <3>1. PICK l : l = LastOf(i)
      OBVIOUS
    <3>2. Reachable(l) /\ ReverseMapping[i] = l /\ \E k \in DOMAIN entries : entries[k] = i
      BY <1>1, <2>2, <2>5, <3>1, ReverseFacts
    <3>3. v = Verdicts(TocOf(l), b)
      BY <2>1, <2>3, <2>5, <3>2 DEF FindHit, GetLogicalPageNumber, Returns
    <3>4. /\ v # {} /\ "unallocated" \notin v /\ "unreadable" \notin v
          /\ "object" \in v => b \in Live(l)
          /\ "slack" \in v => b \notin Taken(l) \/ b = Len(TocOf(l))
          /\ v = {"unknown"} <=> TocOf(l) = <<>>
      BY <1>1, <3>2, <3>3, VerdictFacts
    <3>5. Right([page |-> i, offset |-> b, verdicts |-> v])
      BY <3>1, <3>2, <3>4
    <3>6. QED BY <1>5, <2>3, <3>5
  <2>6. QED BY <2>4, <2>5
<1>7. CASE hit' = hit
  BY <1>4, <1>5, <1>7
<1>8. QED
  BY <1>6, <1>7 DEF Next, vars, DumpPage, CarvePage, SlackDone, Unallocated, AllDone, FindNothing
LEMMA SpaceInvariant == Spec => []SpaceInv
<1>1. Init => SpaceInv
  BY InitSpaceInv
<1>2. SpaceInv /\ [Next]_vars => SpaceInv'
  BY StepType, StepProgress, StepRegions, StepPages, StepVerdicts DEF SpaceInv
<1>3. QED BY <1>1, <1>2, PTL DEF Spec
-----------------------------------------------------------------------------
(* What the regions of a page that was gone through are.                   *)
LEMMA RegionFacts ==
  ASSUME SpaceInv, NEW l, Reachable(l), Visited(l), NEW b \in Bytes
  PROVE  InRegion(entries[l], b) <=>
           /\ TocOf(l) = <<>> \/ b > Len(TocOf(l))
           /\ \A n \in DOMAIN TocOf(l) : ~ InEntry(TocOf(l)[n], b)
<1>1. l \in DOMAIN entries /\ TocOf(l) \in Tocs
  BY TocFacts DEF SpaceInv
<1>2. PICK p : p = entries[l]
  OBVIOUS
<1>3. regions = UNION {RegionsAt(k) : k \in {j \in DOMAIN entries : Reachable(j) /\ Visited(j)}}
  BY DEF SpaceInv, RegionsRight
<1>4. ASSUME InRegion(p, b) PROVE Within(Slack(TocOf(l)), b)
  <2>1. PICK r \in regions : r[1] = p /\ r[2] <= b /\ b < r[3]
    BY <1>4 DEF InRegion
  <2>2. PICK k \in DOMAIN entries : r \in RegionsAt(k)
    BY <1>3, <2>1
  <2>3. PICK q \in Slack(TocOf(k)) : r = <<entries[k], q[1], q[2]>>
    BY <2>2 DEF RegionsAt
  <2>4. entries[k] = p
    BY <2>1, <2>3
  <2>5. TocOf(k) = TocOf(l)
    BY <1>2, <2>4 DEF TocOf
  <2>6. q[1] <= b /\ b < q[2]
    BY <2>1, <2>3
  <2>7. QED BY <2>3, <2>5, <2>6 DEF Within
<1>5. ASSUME Within(Slack(TocOf(l)), b) PROVE InRegion(p, b)
  <2>1. PICK q \in Slack(TocOf(l)) : q[1] <= b /\ b < q[2]
    BY <1>5 DEF Within
  <2>2. PICK r : r = <<p, q[1], q[2]>>
    OBVIOUS
  <2>3. r \in RegionsAt(l)
    BY <1>2, <2>2 DEF RegionsAt
  <2>4. r \in regions
    BY <1>1, <1>3, <2>3
  <2>5. QED BY <2>1, <2>2, <2>4 DEF InRegion
<1>6. QED BY <1>1, <1>2, <1>4, <1>5, SlackBytes

LEMMA TakenFacts ==
  ASSUME SpaceTypeOK, NEW l, Reachable(l), NEW b \in Bytes
  PROVE  b \in Taken(l) <=> b \in Live(l) \/ ~ (TocOf(l) = <<>> \/ b > Len(TocOf(l)))
<1>1. TocOf(l) \in Seq([Offset : Nat, Size : Nat])
  BY TocFacts, TocsAssumption
<1>2. PICK n \in Nat : n = Len(TocOf(l))
  BY <1>1
<1>3. b \in 0 .. n <=> ~ b > n
  BY DEF Bytes
<1>4. QED BY <1>2, <1>3 DEF Taken

(* For every sound file, the slack yielded of the pages gone through is    *)
(* what is neither table of contents nor object, byte for byte, on every   *)
(* page that does not continue an object; and a dump of a file of more     *)
(* pages than map entries raises just past the last entry, never before    *)
(* (extract_data_page_slack, dump_page_slack.py).                          *)
THEOREM SlackIsExact == Spec => []SlackIsTheRest
<1>1. SpaceInv => SlackIsTheRest
  <2> SUFFICES ASSUME SpaceInv PROVE SlackIsTheRest
    OBVIOUS
  <2>1. ASSUME NEW l \in DOMAIN entries, Reachable(l), ~ Continued(l), Visited(l),
               NEW b \in 0 .. PageSize - 1
        PROVE  InRegion(entries[l], b) <=> b \notin Taken(l)
    <3>1. b \in Bytes /\ SpaceTypeOK
      BY DEF Bytes, SpaceInv
    <3>2. InRegion(entries[l], b) <=>
            /\ TocOf(l) = <<>> \/ b > Len(TocOf(l))
            /\ \A n \in DOMAIN TocOf(l) : ~ InEntry(TocOf(l)[n], b)
      BY <2>1, <3>1, RegionFacts
    <3>3. b \in Live(l) <=> \E n \in DOMAIN TocOf(l) : InEntry(TocOf(l)[n], b)
      BY <2>1, <3>1, LiveFacts
    <3>4. b \in Taken(l) <=> b \in Live(l) \/ ~ (TocOf(l) = <<>> \/ b > Len(TocOf(l)))
      BY <2>1, <3>1, TakenFacts
    <3>5. QED BY <3>2, <3>3, <3>4
  <2>2. phase = "raised" => i = Count /\ Count < FilePages
    BY DEF SpaceInv, Progress
  <2>3. QED BY <2>1, <2>2 DEF SlackIsTheRest
<1>2. QED BY <1>1, SpaceInvariant, PTL

(* For every sound file, a carve that ends has been through every byte     *)
(* that is neither table of contents nor object, as slack or on an         *)
(* unallocated page and never as both, and the pages it calls unallocated  *)
(* are those that no map entry leads to (find_unallocated_pages,           *)
(* auto_carve_class_definitions.py).                                       *)
THEOREM CarveIsComplete == Spec => []CarveMissesNothing
<1>1. SpaceInv => CarveMissesNothing
  <2> SUFFICES ASSUME SpaceInv, phase = "done", tool = "carve"
               PROVE  /\ pages = {p \in 0 .. FilePages - 1 :
                                    \A l \in DOMAIN entries : entries[l] # p}
                      /\ \A r \in regions : r[1] \notin pages
                      /\ \A l \in DOMAIN entries : Reachable(l) =>
                           \A b \in (0 .. PageSize - 1) \ Taken(l) : InRegion(entries[l], b)
    BY DEF CarveMissesNothing
  <2>1. pages = {p \in 0 .. FilePages - 1 : \A l \in DOMAIN entries : entries[l] # p}
    BY DEF SpaceInv, PagesRight, Searched
  <2>2. ASSUME NEW r \in regions PROVE r[1] \notin pages
    <3>1. PICK l \in DOMAIN entries : r \in RegionsAt(l)
      BY DEF SpaceInv, RegionsRight
    <3>2. r[1] = entries[l]
      BY <3>1 DEF RegionsAt
    <3>3. QED BY <2>1, <3>2
  <2>3. ASSUME NEW l \in DOMAIN entries, Reachable(l),
               NEW b \in (0 .. PageSize - 1) \ Taken(l)
        PROVE  InRegion(entries[l], b)
    <3>1. b \in Bytes /\ SpaceTypeOK
      BY DEF Bytes, SpaceInv
    <3>2. Visited(l)
      <4>1. DOMAIN entries = 0 .. Count - 1 /\ Count \in Nat
        BY <3>1, EndFacts
      <4>2. l < Count
        BY <4>1
      <4>3. QED BY <4>2 DEF Visited, EndOf
    <3>3. b \notin Live(l) /\ (TocOf(l) = <<>> \/ b > Len(TocOf(l)))
      BY <2>3, <3>1, TakenFacts
    <3>4. ~ \E n \in DOMAIN TocOf(l) : InEntry(TocOf(l)[n], b)
      BY <2>3, <3>1, <3>3, LiveFacts
    <3>5. QED BY <2>3, <3>1, <3>2, <3>3, <3>4, RegionFacts
  <2>4. QED BY <2>1, <2>2, <2>3
<1>2. QED BY <1>1, SpaceInvariant, PTL

(* For every sound file, find_bytes.py calls a hit what it is: part of an  *)
(* object only where one has the byte, slack only where none has it,       *)
(* unallocated exactly where no map entry leads to the page; and the page  *)
(* the reverse map gives can always be fetched.                            *)
THEOREM VerdictsAreRight == Spec => []VerdictsRight
<1>1. SpaceInv => VerdictsRight
  BY DEF SpaceInv
<1>2. QED BY <1>1, SpaceInvariant, PTL
=============================================================================
