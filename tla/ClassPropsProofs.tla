-------------------------- MODULE ClassPropsProofs --------------------------
(***************************************************************************)
(* Proofs about the properties of a class and the values of an instance,   *)
(* for every set of chains: of any length, with any number of properties,  *)
(* ancestors missing and properties refused.                               *)
(***************************************************************************)
EXTENDS ClassProps, TLAPS, FiniteSetTheorems, WellFoundedInduction

(* A value, and an entry of the vector.                                    *)
ValueType == [of : {"none", "class", "instance"}, class : Nat, at : Nat]
Entry(c)  == [Index : 0 .. Len(c.widths) - 1, by : Nat, DefaultValue : ValueType]

(* What a class puts into the vector, what the classes up to class k have  *)
(* put there when the first m are not read, and what class k has put there *)
(* when the loop is at its property p.                                     *)
Takes(c, k)    == OwnProps(c.classes[k]) \ c.classes[k].bad
Taken(c, m, k) == UNION {Takes(c, l) : l \in m + 1 .. k}
Seen(c, k, p)  == {c.classes[k].own[j] : j \in 1 .. p - 1} \ c.classes[k].bad
Gap(c, m)      ==
  \E k \in m + 2 .. Len(c.classes) :
    \E n \in Takes(c, k) \intersect Taken(c, m, k - 1) : ~ (0 .. n - 1) \subseteq Taken(c, m, k - 1)

(* Without such a gap the vector s has each property once, and one whose   *)
(* lower indexes are all taken by the classes up to k at its own place.    *)
Once(s)       == \A j, l \in 1 .. Len(s) : s[j].Index = s[l].Index => j = l
Holds(s, set) == {s[j].Index : j \in 1 .. Len(s)} = set
InPlace(c, m, k, s) ==
  \A n \in Taken(c, m, k) :
    0 .. n \subseteq Taken(c, m, k) => n + 1 <= Len(s) /\ s[n + 1].Index = n
Vec(c, m, k, new, s) ==
  /\ Once(s)
  /\ Holds(s, Taken(c, m, k) \union new)
  /\ InPlace(c, m, k, s)

(* Nothing is missing: then each is as its last class defines it, with the *)
(* default value of the nearest class that gives one.                      *)
Whole(c, m)     == m = 0 /\ \A k \in DOMAIN c.classes : c.classes[k].bad = {}
Gives(c, l, i)  == i \in PropsUpTo(c, l) /\ c.classes[l].flags[i] = 0
Defines(c, k, i, l) ==
  /\ l \in 1 .. k /\ i \in OwnProps(c.classes[l])
  /\ \A m \in l + 1 .. k : i \notin OwnProps(c.classes[m])
DefaultRight(c, k, i, d) ==
  /\ (\A l \in 1 .. k : ~ Gives(c, l, i)) => d = None
  /\ \A l \in 1 .. k :
       Gives(c, l, i) /\ (\A m \in l + 1 .. k : ~ Gives(c, m, i)) => d = TocValue(c, l, i)
Full(c, k, new, s) ==
  \A j \in 1 .. Len(s) :
    /\ s[j].Index \in new => s[j].by = k + 1
    /\ s[j].Index \notin new => Defines(c, k, s[j].Index, s[j].by)
    /\ DefaultRight(c, k, s[j].Index, s[j].DefaultValue)

PropsTypeOK ==
  /\ chain \in Chains /\ missing \in 0 .. Last - 1
  /\ flagsBuf \in [PropsUpTo(chain, Last) -> Flags]
  /\ pc \in {"props", "instance", "done", "undefined", "refused", "misread"}
  /\ level \in missing + 1 .. Last
  /\ pc \in {"instance", "done", "misread"} => level = Last
  /\ propMeta \in 1 .. Len(Class.own) + 1
  /\ iprops \in Seq(Entry(chain))
  /\ Values \in Seq(ValueType)

Filled == pc \in {"instance", "done", "misread"}
VecInv ==
  ~ Gap(chain, missing) =>
    /\ pc # "undefined"
    /\ pc = "props" => Vec(chain, missing, level - 1, Seen(chain, level, propMeta), iprops)
    /\ Filled => Vec(chain, missing, Last, {}, iprops)
FullInv ==
  Whole(chain, missing) =>
    /\ pc \notin {"refused", "misread"}
    /\ pc = "props" => Full(chain, level - 1, Seen(chain, level, propMeta), iprops)
    /\ Filled => Full(chain, Last, {}, iprops)
ValueOf(c, buf, p, j) ==
  LET n == Cardinality(PropsUpTo(c, Len(c.classes)))
  IN  IF Bit0(buf[j - 1]) \/ ~ Offset(c, p.Index) + c.widths[p.Index + 1] < Offset(c, n) THEN None
      ELSE IF Bit1(buf[j - 1]) THEN p.DefaultValue
      ELSE OwnValue(FlagBytes(n) + Offset(c, p.Index))
ValuesInv ==
  /\ pc = "props" => Values = <<>>
  /\ Filled => Len(Values) <= Len(iprops)
  /\ pc = "done" => Len(Values) = Len(iprops)
  /\ Whole(chain, missing) /\ Filled =>
       \A j \in 1 .. Len(Values) : Values[j] = ValueOf(chain, flagsBuf, iprops[j], j)
PropsInv == PropsTypeOK /\ VecInv /\ FullInv /\ ValuesInv
-----------------------------------------------------------------------------
LEMMA LeastNatural ==
  ASSUME NEW S \in SUBSET Nat, S # {}
  PROVE  \E m \in S : \A n \in S : m <= n
<1>1. PICK m \in S : \A n \in S : ~ (<<n, m>> \in OpToRel(<, Nat))
  BY NatLessThanWellFounded, WFMin
<1>2. \A n \in S : ~ (n < m)
  BY <1>1 DEF OpToRel
<1>3. QED BY <1>2

(* As many different elements as places: no two places have the same.      *)
LEMMA NoRepeats ==
  ASSUME NEW L \in Nat, NEW s, Cardinality({s[j] : j \in 1 .. L}) = L
  PROVE  \A j, l \in 1 .. L : s[j] = s[l] => j = l
<1>1. PICK S : S = {s[j] : j \in 1 .. L}
  OBVIOUS
<1>2. PICK f : f = [j \in 1 .. L |-> s[j]]
  OBVIOUS
<1>3. f \in Surjection(1 .. L, S)
  BY <1>1, <1>2 DEF Surjection
<1>4. IsFiniteSet(1 .. L) /\ Cardinality(1 .. L) = L
  BY FS_Interval
<1>5. f \in Injection(1 .. L, S)
  BY <1>1, <1>3, <1>4, FS_Surjection
<1>6. \A j, l \in 1 .. L : f[j] = f[l] => j = l
  BY <1>5 DEF Injection, IsInjective
<1>7. QED BY <1>2, <1>6

(* What is assumed of a class of a chain, by name.                         *)
LEMMA ClassFacts ==
  ASSUME NEW c \in Chains, NEW k \in 1 .. Len(c.classes)
  PROVE  \E n \in Nat :
           /\ Cardinality(PropsUpTo(c, k)) = n /\ PropsUpTo(c, k) = 0 .. n - 1
           /\ n <= Len(c.widths)
           /\ c.classes[k].flags \in [0 .. n - 1 -> Flags]
           /\ c.classes[k].own \in Seq(Nat)
           /\ Takes(c, k) \subseteq 0 .. n - 1 /\ OwnProps(c.classes[k]) \subseteq 0 .. n - 1
           /\ c.classes[k].bad \subseteq OwnProps(c.classes[k])
           /\ \A i \in (0 .. n - 1) \ OwnProps(c.classes[k]) : Bit1(c.classes[k].flags[i])
           /\ Cardinality(OwnProps(c.classes[k])) = Len(c.classes[k].own)
           /\ k = 1 => OwnProps(c.classes[k]) = 0 .. n - 1
           /\ k = 1 => \A i \in 0 .. n - 1 : ~ Bit1(c.classes[k].flags[i])
           /\ k # 1 => /\ PropsUpTo(c, k - 1) \subseteq 0 .. n - 1
                       /\ (0 .. n - 1) \ PropsUpTo(c, k - 1) \subseteq OwnProps(c.classes[k])
                       /\ \A i \in 0 .. n - 1 :
                            Bit1(c.classes[k].flags[i]) =>
                              /\ i \in PropsUpTo(c, k - 1)
                              /\ Bit0(c.classes[k].flags[i]) = Bit0(c.classes[k - 1].flags[i])
<1>1. ClassOK(c, k)
  BY ChainsAssumption
<1>2. PICK cls, n, above : /\ cls = c.classes[k] /\ n = Cardinality(PropsUpTo(c, k))
                           /\ above = IF k = 1 THEN {} ELSE PropsUpTo(c, k - 1)
  OBVIOUS
<1>3. /\ n \in Nat /\ cls.flags \in [0 .. n - 1 -> Flags] /\ n <= Len(c.widths)
      /\ above \subseteq 0 .. n - 1
      /\ cls.own \in Seq(Nat) /\ Cardinality(OwnProps(cls)) = Len(cls.own)
      /\ (0 .. n - 1) \ above \subseteq OwnProps(cls) /\ OwnProps(cls) \subseteq 0 .. n - 1
      /\ \A i \in 0 .. n - 1 :
           Bit1(cls.flags[i]) =>
             i \in above /\ Bit0(cls.flags[i]) = Bit0(c.classes[k - 1].flags[i])
      /\ \A i \in (0 .. n - 1) \ OwnProps(cls) : Bit1(cls.flags[i])
      /\ cls.bad \subseteq OwnProps(cls)
  BY <1>1, <1>2 DEF ClassOK
<1>4. PropsUpTo(c, k) = 0 .. n - 1
  BY <1>2, <1>3 DEF PropsUpTo
<1>5. Takes(c, k) \subseteq 0 .. n - 1
  BY <1>2, <1>3 DEF Takes
<1>6. CASE k = 1
  <2>1. above = {}
    BY <1>2, <1>6
  <2>2. OwnProps(cls) = 0 .. n - 1 /\ \A i \in 0 .. n - 1 : ~ Bit1(cls.flags[i])
    BY <1>3, <2>1
  <2>3. QED BY <1>2, <1>3, <1>4, <1>5, <1>6, <2>2
<1>7. CASE k # 1
  <2>1. above = PropsUpTo(c, k - 1)
    BY <1>2, <1>7
  <2>2. QED BY <1>2, <1>3, <1>4, <1>5, <1>7, <2>1
<1>8. QED BY <1>6, <1>7
-----------------------------------------------------------------------------
(* Where the slots are.  Offset and SizeOfProps are both sums that grow    *)
(* place by place.                                                         *)
NextSum(f, w, j)   == IF j = 0 THEN 0 ELSE f[j - 1] + w[j]
AreSums(f, w, n)   == f = [j \in 0 .. n |-> NextSum(f, w, j)]

LEMMA SumsExist ==
  ASSUME NEW w, NEW N \in Nat
  PROVE  \E f : AreSums(f, w, N)
<1> DEFINE None0 == {m \in Nat : ~ \E f : AreSums(f, w, m)}
<1>1. SUFFICES ASSUME None0 # {} PROVE FALSE
  OBVIOUS
<1>2. PICK m \in None0 : \A n \in None0 : m <= n
  <2>1. None0 \in SUBSET Nat
    OBVIOUS
  <2>2. HIDE DEF None0
  <2>3. QED BY <1>1, <2>1, LeastNatural
<1>3. CASE m = 0
  <2>1. PICK f : f = [n \in 0 .. 0 |-> 0]
    OBVIOUS
  <2>2. \A n \in 0 .. 0 : NextSum(f, w, n) = 0
    BY DEF NextSum
  <2>3. f = [n \in 0 .. m |-> NextSum(f, w, n)]
    BY <1>3, <2>1, <2>2
  <2>4. QED BY <2>3 DEF AreSums
<1>4. CASE m # 0
  <2>1. m - 1 \in Nat /\ m - 1 \notin None0
    <3>1. m \in Nat
      OBVIOUS
    <3>2. m - 1 \in Nat /\ ~ m <= m - 1
      BY <1>4, <3>1
    <3>3. QED BY <1>2, <3>2
  <2>2. PICK h : h = [n \in 0 .. m - 1 |-> NextSum(h, w, n)]
    BY <2>1 DEF AreSums
  <2>3. PICK last : last = NextSum(h, w, m)
    OBVIOUS
  <2>4. PICK f : f = [n \in 0 .. m |-> IF n = m THEN last ELSE h[n]]
    OBVIOUS
  <2>5. ASSUME NEW n \in 0 .. m PROVE f[n] = NextSum(f, w, n)
    <3>1. n # 0 => f[n - 1] = h[n - 1]
      BY <2>4
    <3>2. NextSum(f, w, n) = NextSum(h, w, n)
      BY <3>1 DEF NextSum
    <3>3. CASE n = m
      BY <2>3, <2>4, <3>2, <3>3
    <3>4. CASE n # m
      <4>1. n \in 0 .. m - 1 /\ f[n] = h[n]
        BY <2>4, <3>4
      <4>2. h[n] = NextSum(h, w, n)
        BY <2>2, <4>1
      <4>3. QED BY <3>2, <4>1, <4>2
    <3>5. QED BY <3>3, <3>4
  <2>6. f = [n \in 0 .. m |-> f[n]]
    BY <2>4
  <2>7. f = [n \in 0 .. m |-> NextSum(f, w, n)]
    BY <2>5, <2>6
  <2>8. QED BY <2>7 DEF AreSums
<1>5. QED BY <1>3, <1>4

(* Two sums of the same terms.                                             *)
LEMMA SumsAgree ==
  ASSUME NEW n \in Nat, NEW N \in Nat, n <= N, NEW v, NEW w, NEW f, NEW g,
         AreSums(f, v, n), AreSums(g, w, N), \A j \in 1 .. n : v[j] = w[j]
  PROVE  \A j \in 0 .. n : f[j] = g[j]
<1> DEFINE Bad == {j \in Nat : j <= n /\ f[j] # g[j]}
<1>1. SUFFICES ASSUME Bad # {} PROVE FALSE
  OBVIOUS
<1>2. PICK m \in Bad : \A j \in Bad : m <= j
  <2>1. Bad \in SUBSET Nat
    OBVIOUS
  <2>2. HIDE DEF Bad
  <2>3. QED BY <1>1, <2>1, LeastNatural
<1>3. m \in Nat /\ m <= n /\ f[m] # g[m]
  OBVIOUS
<1>4. f[m] = NextSum(f, v, m) /\ g[m] = NextSum(g, w, m)
  <2>1. m \in 0 .. n /\ m \in 0 .. N
    BY <1>3
  <2>2. f = [j \in 0 .. n |-> NextSum(f, v, j)] /\ g = [j \in 0 .. N |-> NextSum(g, w, j)]
    BY DEF AreSums
  <2>3. f[m] = NextSum(f, v, m)
    BY ONLY <2>1, <2>2
  <2>4. g[m] = NextSum(g, w, m)
    BY ONLY <2>1, <2>2
  <2>5. QED BY <2>3, <2>4
<1>5. CASE m = 0
  BY <1>3, <1>4, <1>5 DEF NextSum
<1>6. CASE m # 0
  <2>1. m - 1 \in Nat /\ m - 1 <= n /\ ~ m <= m - 1 /\ m \in 1 .. n
    BY <1>3, <1>6
  <2>2. f[m - 1] = g[m - 1]
    BY <1>2, <2>1
  <2>3. v[m] = w[m]
    BY <2>1
  <2>4. QED BY <1>3, <1>4, <1>6, <2>2, <2>3 DEF NextSum
<1>7. QED BY <1>5, <1>6

(* Sums of positive terms.                                                 *)
LEMMA SumsGrow ==
  ASSUME NEW N \in Nat, NEW w, NEW f, AreSums(f, w, N),
         \A j \in 1 .. N : w[j] \in Nat \ {0}
  PROVE  /\ f[0] = 0
         /\ \A j \in 1 .. N : f[j] = f[j - 1] + w[j]
         /\ \A j \in 0 .. N : f[j] \in Nat /\ \A i \in 0 .. j : i < j => f[i] < f[j]
<1>1. \A j \in 0 .. N : f[j] = NextSum(f, w, j)
  <2>1. f = [j \in 0 .. N |-> NextSum(f, w, j)]
    BY DEF AreSums
  <2>2. QED BY ONLY <2>1
<1>2. f[0] = 0 /\ \A j \in 1 .. N : f[j] = f[j - 1] + w[j]
  BY <1>1 DEF NextSum
<1> DEFINE Right(j) == f[j] \in Nat /\ \A i \in 0 .. j : i < j => f[i] < f[j]
           Bad      == {j \in Nat : j <= N /\ ~ Right(j)}
<1>3. SUFFICES ASSUME Bad # {} PROVE FALSE
  BY <1>2
<1>4. PICK m \in Bad : \A j \in Bad : m <= j
  <2>1. Bad \in SUBSET Nat
    OBVIOUS
  <2>2. HIDE DEF Bad
  <2>3. QED BY <1>3, <2>1, LeastNatural
<1>5. m \in Nat /\ m <= N /\ ~ Right(m)
  OBVIOUS
<1>6. m # 0
  BY <1>2, <1>5
<1>7. m - 1 \in Nat /\ m - 1 <= N /\ ~ m <= m - 1 /\ m \in 1 .. N
  BY <1>5, <1>6
<1>8. Right(m - 1)
  BY <1>4, <1>7
<1>9. PICK a, b, x : a = f[m - 1] /\ b = f[m] /\ x = w[m]
  OBVIOUS
<1>10. a \in Nat /\ x \in Nat \ {0} /\ b = a + x
  BY <1>2, <1>7, <1>8, <1>9
<1>11. b \in Nat /\ a < b
  BY ONLY <1>10
<1>12. ASSUME NEW i \in 0 .. m, i < m PROVE f[i] < b
  <2>1. CASE i = m - 1
    BY <1>9, <1>11, <2>1
  <2>2. CASE i # m - 1
    <3>1. i \in 0 .. m - 1 /\ i < m - 1
      BY <1>5, <1>12, <2>2
    <3>2. f[i] < a
      BY <1>8, <1>9, <3>1
    <3>3. i \in Nat /\ i <= N /\ ~ m <= i
      BY <1>5, <1>12
    <3>4. f[i] \in Nat
      BY <1>4, <3>3
    <3>5. QED BY <1>10, <1>11, <3>2, <3>4
  <2>3. QED BY <2>1, <2>2
<1>13. Right(m)
  BY <1>9, <1>11, <1>12
<1>14. QED BY <1>5, <1>13

LEMMA Offsets ==
  ASSUME NEW c \in Chains
  PROVE  \E f : /\ AreSums(f, c.widths, Len(c.widths))
                /\ \A i \in 0 .. Len(c.widths) : Offset(c, i) = f[i]
<1>1. PICK w, N : w = c.widths /\ N = Len(c.widths)
  OBVIOUS
<1>2. N \in Nat
  BY <1>1, ChainsAssumption
<1>3. PICK f : AreSums(f, w, N)
  BY <1>2, SumsExist
<1>4. ASSUME NEW i \in 0 .. N PROVE Offset(c, i) = f[i]
  <2>1. i \in Nat /\ i <= N
    BY <1>2
  <2>2. \E g : AreSums(g, w, i)
    BY <2>1, SumsExist
  <2>3. PICK g : g = CHOOSE h : AreSums(h, w, i)
    OBVIOUS
  <2>4. AreSums(g, w, i)
    BY <2>2, <2>3
  <2>5. Offset(c, i) = g[i]
    BY <1>1, <2>3 DEF Offset, AreSums, NextSum
  <2>6. \A j \in 0 .. i : g[j] = f[j]
    BY <1>2, <1>3, <2>1, <2>4, SumsAgree
  <2>7. QED BY <2>1, <2>5, <2>6
<1>5. QED BY <1>1, <1>3, <1>4

(* A slot is after those of the lower indexes and before the next.         *)
LEMMA SlotFacts ==
  ASSUME NEW c \in Chains
  PROVE  /\ Len(c.widths) \in Nat
         /\ \A i \in 0 .. Len(c.widths) : Offset(c, i) \in Nat
         /\ \A i \in 0 .. Len(c.widths) - 1 :
              /\ c.widths[i + 1] \in Nat \ {0}
              /\ Offset(c, i + 1) = Offset(c, i) + c.widths[i + 1]
         /\ \A i, j \in 0 .. Len(c.widths) : i < j => Offset(c, i) < Offset(c, j)
<1>1. PICK w, N : w = c.widths /\ N = Len(c.widths)
  OBVIOUS
<1>2. N \in Nat /\ \A j \in 1 .. N : w[j] \in Nat \ {0}
  <2>1. w \in Seq(Nat \ {0})
    BY <1>1, ChainsAssumption
  <2>2. QED BY <1>1, <2>1
<1>3. PICK f : AreSums(f, w, N) /\ \A i \in 0 .. N : Offset(c, i) = f[i]
  BY <1>1, Offsets
<1>4. /\ \A j \in 1 .. N : f[j] = f[j - 1] + w[j]
      /\ \A j \in 0 .. N : f[j] \in Nat /\ \A i \in 0 .. j : i < j => f[i] < f[j]
  BY <1>2, <1>3, SumsGrow
<1>5. ASSUME NEW i \in 0 .. N - 1
      PROVE  w[i + 1] \in Nat \ {0} /\ Offset(c, i + 1) = Offset(c, i) + w[i + 1]
  <2>1. i + 1 \in 1 .. N /\ i + 1 - 1 = i /\ i \in 0 .. N /\ i + 1 \in 0 .. N
    BY <1>2
  <2>2. f[i + 1] = f[i] + w[i + 1]
    BY <1>4, <2>1
  <2>3. QED BY <1>2, <1>3, <2>1, <2>2
<1>6. ASSUME NEW i \in 0 .. N, NEW j \in 0 .. N, i < j
      PROVE  Offset(c, i) < Offset(c, j)
  <2>1. i \in 0 .. j
    BY <1>6
  <2>2. QED BY <1>3, <1>4, <1>6, <2>1
<1>7. QED BY <1>1, <1>2, <1>3, <1>4, <1>5, <1>6
-----------------------------------------------------------------------------
(* The vector.                                                             *)
LEMMA TakenNone ==
  ASSUME NEW c, NEW m \in Nat
  PROVE  Taken(c, m, m) = {}
<1>1. m + 1 .. m = {}
  OBVIOUS
<1>2. QED BY <1>1 DEF Taken

LEMMA TakenNext ==
  ASSUME NEW c, NEW m \in Nat, NEW k \in Nat, m <= k, NEW l, l = k + 1
  PROVE  Taken(c, m, l) = Taken(c, m, k) \union Takes(c, l)
<1>1. m + 1 .. l = (m + 1 .. k) \union {l}
  OBVIOUS
<1>2. QED BY <1>1 DEF Taken

LEMMA TakenBound ==
  ASSUME NEW c \in Chains, NEW m \in Nat, NEW k \in 0 .. Len(c.classes)
  PROVE  Taken(c, m, k) \subseteq 0 .. Len(c.widths) - 1
<1>1. ASSUME NEW l \in m + 1 .. k PROVE Takes(c, l) \subseteq 0 .. Len(c.widths) - 1
  <2>1. Len(c.classes) \in Nat /\ Len(c.widths) \in Nat
    BY ChainsAssumption, SlotFacts
  <2>2. l \in 1 .. Len(c.classes)
    BY <2>1
  <2>3. PICK n \in Nat : n <= Len(c.widths) /\ Takes(c, l) \subseteq 0 .. n - 1
    BY <2>2, ClassFacts
  <2>4. QED BY <2>1, <2>3
<1>2. QED BY <1>1 DEF Taken

(* What is said of the indexes does not depend on the rest.                *)
LEMMA SameIndexes ==
  ASSUME NEW s, NEW t, Len(t) = Len(s), \A j \in 1 .. Len(s) : t[j].Index = s[j].Index
  PROVE  /\ Once(s) => Once(t)
         /\ \A S : Holds(s, S) => Holds(t, S)
         /\ \A c, m, k :
              InPlace(c, m, k, s) /\ Taken(c, m, k) \subseteq Nat /\ Len(s) \in Nat =>
                InPlace(c, m, k, t)
<1>1. Once(s) => Once(t)
  BY DEF Once
<1>2. ASSUME NEW S, Holds(s, S) PROVE Holds(t, S)
  BY <1>2 DEF Holds
<1>3. ASSUME NEW c, NEW m, NEW k, InPlace(c, m, k, s), Taken(c, m, k) \subseteq Nat, Len(s) \in Nat
      PROVE  InPlace(c, m, k, t)
  <2>1. SUFFICES ASSUME NEW n \in Taken(c, m, k), 0 .. n \subseteq Taken(c, m, k)
                 PROVE  n + 1 <= Len(t) /\ t[n + 1].Index = n
    BY DEF InPlace
  <2>2. n + 1 <= Len(s) /\ s[n + 1].Index = n
    BY <1>3, <2>1 DEF InPlace
  <2>3. n + 1 \in 1 .. Len(s)
    BY <1>3, <2>1, <2>2
  <2>4. QED BY <2>2, <2>3
<1>4. QED BY <1>1, <1>2, <1>3
(* The part of a list of properties the loop has seen.                     *)
LEMMA SeenFacts ==
  ASSUME NEW c \in Chains, NEW k \in 1 .. Len(c.classes)
  PROVE  /\ Len(c.classes[k].own) \in Nat
         /\ Seen(c, k, 1) = {}
         /\ Seen(c, k, Len(c.classes[k].own) + 1) = Takes(c, k)
         /\ \A p \in 1 .. Len(c.classes[k].own) :
              LET n == c.classes[k].own[p]
              IN  /\ n \in 0 .. Len(c.widths) - 1
                  /\ n \in c.classes[k].bad => Seen(c, k, p + 1) = Seen(c, k, p)
                  /\ n \notin c.classes[k].bad =>
                       /\ n \in Takes(c, k) /\ n \notin Seen(c, k, p)
                       /\ Seen(c, k, p + 1) = Seen(c, k, p) \union {n}
<1>1. PICK own, bad, L : own = c.classes[k].own /\ bad = c.classes[k].bad /\ L = Len(own)
  OBVIOUS
<1>2. PICK n0 \in Nat : /\ n0 <= Len(c.widths) /\ own \in Seq(Nat)
                        /\ OwnProps(c.classes[k]) \subseteq 0 .. n0 - 1
                        /\ Cardinality(OwnProps(c.classes[k])) = L
  BY <1>1, ClassFacts
<1>3. L \in Nat /\ DOMAIN own = 1 .. L
  BY <1>1, <1>2
<1>4. OwnProps(c.classes[k]) = {own[j] : j \in 1 .. L}
  BY <1>1, <1>3 DEF OwnProps
<1>5. \A j, l \in 1 .. L : own[j] = own[l] => j = l
  BY <1>2, <1>3, <1>4, NoRepeats
<1>6. \A p : Seen(c, k, p) = {own[j] : j \in 1 .. p - 1} \ bad
  BY <1>1 DEF Seen
<1>7. Seen(c, k, 1) = {}
  <2>1. 1 .. 1 - 1 = {}
    OBVIOUS
  <2>2. QED BY <1>6, <2>1
<1>8. Seen(c, k, L + 1) = Takes(c, k)
  <2>1. L + 1 - 1 = L
    BY <1>3
  <2>2. QED BY <1>1, <1>4, <1>6, <2>1 DEF Takes
<1>9. ASSUME NEW p \in 1 .. L
      PROVE  /\ own[p] \in 0 .. Len(c.widths) - 1
             /\ own[p] \in bad => Seen(c, k, p + 1) = Seen(c, k, p)
             /\ own[p] \notin bad =>
                  /\ own[p] \in Takes(c, k) /\ own[p] \notin Seen(c, k, p)
                  /\ Seen(c, k, p + 1) = Seen(c, k, p) \union {own[p]}
  <2>1. p \in Nat /\ 1 .. p + 1 - 1 = (1 .. p - 1) \union {p}
    BY <1>3
  <2>2. {own[j] : j \in 1 .. p + 1 - 1} = {own[j] : j \in 1 .. p - 1} \union {own[p]}
    BY <2>1
  <2>3. own[p] \in OwnProps(c.classes[k])
    BY <1>4
  <2>4. own[p] \in 0 .. Len(c.widths) - 1
    <3>1. Len(c.widths) \in Nat
      BY SlotFacts
    <3>2. own[p] \in 0 .. n0 - 1
      BY <1>2, <2>3
    <3>3. QED BY <1>2, <3>1, <3>2
  <2>5. own[p] \notin {own[j] : j \in 1 .. p - 1}
    <3>1. \A j \in 1 .. p - 1 : j \in 1 .. L /\ j # p
      BY <1>3, <2>1
    <3>2. QED BY <1>5, <3>1
  <2>6. own[p] \notin bad => own[p] \in Takes(c, k)
    BY <1>1, <2>3 DEF Takes
  <2>7. Seen(c, k, p + 1) = ({own[j] : j \in 1 .. p - 1} \union {own[p]}) \ bad
    BY <1>6, <2>2
  <2>8. Seen(c, k, p) = {own[j] : j \in 1 .. p - 1} \ bad
    BY <1>6
  <2>9. QED BY <2>4, <2>5, <2>6, <2>7, <2>8
<1>10. QED BY <1>1, <1>3, <1>7, <1>8, <1>9

(* A vector in the order of the indexes has those without a gap below them *)
(* at their places.                                                        *)
InOrder(f, L, A) ==
  /\ f \in [1 .. L -> Nat]
  /\ \A j, l \in 1 .. L : f[j] = f[l] => j = l
  /\ \A j, l \in 1 .. L : j < l => f[j] <= f[l]
  /\ \A x \in A : \E j \in 1 .. L : f[j] = x
AtPlace(f, L, n) == n + 1 <= L /\ f[n + 1] = n

LEMMA SortedInPlace ==
  ASSUME NEW L \in Nat, NEW f, NEW A, InOrder(f, L, A), NEW n \in Nat, 0 .. n \subseteq A
  PROVE  AtPlace(f, L, n)
<1> USE DEF InOrder, AtPlace
<1> DEFINE Right(j) == j + 1 <= L /\ f[j + 1] = j
           Bad      == {j \in Nat : j <= n /\ ~ Right(j)}
<1>1. SUFFICES ASSUME Bad # {} PROVE FALSE
  <2>1. n \in Nat /\ n <= n
    OBVIOUS
  <2>2. Bad = {} => Right(n)
    BY <2>1
  <2>3. QED BY <2>2
<1>2. PICK m \in Bad : \A j \in Bad : m <= j
  <2>1. Bad \in SUBSET Nat
    OBVIOUS
  <2>2. HIDE DEF Bad
  <2>3. QED BY <1>1, <2>1, LeastNatural
<1>3. m \in Nat /\ m <= n /\ ~ Right(m)
  OBVIOUS
<1>4. \A j \in 0 .. m - 1 : j + 1 <= L /\ f[j + 1] = j
  <2>1. \A j \in 0 .. m - 1 : j \in Nat /\ j <= n /\ ~ m <= j
    BY <1>3
  <2>2. QED BY <1>2, <2>1
<1>5. PICK l \in 1 .. L : f[l] = m
  <2>1. m \in 0 .. n
    BY <1>3
  <2>2. QED BY <2>1
<1>6. m + 1 <= l
  <2>1. SUFFICES ASSUME l <= m PROVE FALSE
    BY <1>3
  <2>2. l - 1 \in 0 .. m - 1 /\ l - 1 + 1 = l
    BY <2>1, <1>3
  <2>3. f[l] = l - 1
    BY <1>4, <2>2
  <2>4. QED BY <1>3, <1>5, <2>1, <2>3
<1>7. m + 1 \in 1 .. L /\ f[m + 1] \in Nat
  BY <1>3, <1>6
<1>8. f[m + 1] <= m
  <2>1. CASE m + 1 = l
    BY <1>3, <1>5, <2>1
  <2>2. CASE m + 1 # l
    <3>1. m + 1 < l
      BY <1>3, <1>6, <2>2
    <3>2. QED BY <1>5, <1>7, <3>1
  <2>3. QED BY <2>1, <2>2
<1>9. CASE f[m + 1] = m
  BY <1>3, <1>7, <1>9
<1>10. CASE f[m + 1] < m
  <2>1. PICK x : x = f[m + 1]
    OBVIOUS
  <2>2. x \in 0 .. m - 1
    BY <1>3, <1>7, <1>10, <2>1
  <2>3. x + 1 <= L /\ f[x + 1] = x
    BY <1>4, <2>2
  <2>4. x + 1 \in 1 .. L /\ x + 1 # m + 1
    BY <1>3, <2>2, <2>3
  <2>5. QED BY <1>7, <2>1, <2>3, <2>4
<1>11. QED BY <1>3, <1>7, <1>8, <1>9, <1>10

ReordersBy(f, L, s, t) ==
  /\ f \in [1 .. L -> 1 .. L]
  /\ \A j \in 1 .. L : t[j] = s[f[j]]
  /\ \A j, l \in 1 .. L : f[j] = f[l] => j = l
  /\ \A l \in 1 .. L : \E j \in 1 .. L : f[j] = l

(* Sorting changes the places of the entries, and nothing else.            *)
LEMMA SortedFacts ==
  ASSUME NEW E, NEW s \in Seq(E), NEW t \in Sorted(s)
  PROVE  /\ t \in Seq(E) /\ Len(t) = Len(s)
         /\ \A j, l \in 1 .. Len(s) : j < l => t[j].Index <= t[l].Index
         /\ \E f : ReordersBy(f, Len(s), s, t)
<1>1. PICK L : L = Len(s)
  OBVIOUS
<1>2. L \in Nat /\ DOMAIN s = 1 .. L
  BY <1>1
<1>3. PICK f \in [1 .. L -> 1 .. L] :
        /\ \A j, l \in 1 .. L : f[j] = f[l] => j = l
        /\ \A j, l \in 1 .. L : j < l => s[f[j]].Index <= s[f[l]].Index
        /\ t = [j \in 1 .. L |-> s[f[j]]]
  BY <1>2 DEF Sorted
<1>4. t \in Seq(E) /\ Len(t) = L
  <2>1. \A j \in 1 .. L : s[f[j]] \in E
    BY <1>2
  <2>2. t \in [1 .. L -> E]
    BY <1>3, <2>1
  <2>3. QED BY <1>2, <2>2
<1>5. \A j \in 1 .. L : t[j] = s[f[j]]
  BY <1>3
<1>6. \A l \in 1 .. L : \E j \in 1 .. L : f[j] = l
  <2>1. IsFiniteSet(1 .. L)
    BY <1>2, FS_Interval
  <2>2. f \in Injection(1 .. L, 1 .. L)
    BY <1>3 DEF Injection, IsInjective
  <2>3. f \in Surjection(1 .. L, 1 .. L)
    BY <2>1, <2>2, FS_Injection
  <2>4. QED BY <2>3 DEF Surjection
<1>7. ReordersBy(f, L, s, t)
  BY <1>3, <1>5, <1>6 DEF ReordersBy
<1>8. \A j, l \in 1 .. L : j < l => t[j].Index <= t[l].Index
  BY <1>3, <1>5
<1>9. QED BY <1>1, <1>4, <1>7, <1>8
(* One entry of a vector.                                                  *)
LEMMA EntryFacts ==
  ASSUME NEW c \in Chains, NEW e \in Entry(c)
  PROVE  /\ e.Index \in Nat /\ e.Index \in 0 .. Len(c.widths) - 1 /\ e.by \in Nat
         /\ e.DefaultValue \in ValueType
<1>1. Len(c.widths) \in Nat
  BY SlotFacts
<1>2. QED BY <1>1 DEF Entry

(* A property the vector does not have is appended.                        *)
Appended(c, m, k, new, s, e, t) ==
  /\ t \in Seq(Entry(c)) /\ Len(t) = Len(s) + 1 /\ t[Len(s) + 1] = e
  /\ \A j \in 1 .. Len(s) : t[j] = s[j] /\ s[j].Index # e.Index
  /\ Vec(c, m, k, new \union {e.Index}, t)

LEMMA AppendVec ==
  ASSUME NEW c \in Chains, NEW m \in Nat, NEW k \in 0 .. Len(c.classes), NEW new,
         NEW s \in Seq(Entry(c)), Vec(c, m, k, new, s),
         NEW e \in Entry(c), e.Index \notin Taken(c, m, k) \union new
  PROVE  Appended(c, m, k, new, s, e, Append(s, e))
<1>1. PICK t, L : t = Append(s, e) /\ L = Len(s)
  OBVIOUS
<1>2. /\ L \in Nat /\ t \in Seq(Entry(c)) /\ Len(t) = L + 1 /\ t[L + 1] = e
      /\ \A j \in 1 .. L : t[j] = s[j]
  BY <1>1
<1>3. /\ \A j, l \in 1 .. L : s[j].Index = s[l].Index => j = l
      /\ {s[j].Index : j \in 1 .. L} = Taken(c, m, k) \union new
      /\ InPlace(c, m, k, s)
  BY <1>1 DEF Vec, Once, Holds
<1>4. PICK n : n = e.Index
  OBVIOUS
<1>5. \A j \in 1 .. L : s[j].Index # n
  BY <1>3, <1>4
<1>6. \A j \in 1 .. L + 1 : j = L + 1 \/ j \in 1 .. L
  BY <1>2
<1>7. Once(t)
  <2>1. ASSUME NEW j \in 1 .. L + 1, NEW l \in 1 .. L + 1, t[j].Index = t[l].Index
        PROVE  j = l
    <3>1. t[L + 1].Index = n
      BY <1>2, <1>4
    <3>2. \A x \in 1 .. L : t[x].Index = s[x].Index
      BY <1>2
    <3>3. QED BY <1>3, <1>5, <1>6, <2>1, <3>1, <3>2
  <2>2. QED BY <1>2, <2>1 DEF Once
<1>8. Holds(t, Taken(c, m, k) \union (new \union {n}))
  <2>1. 1 .. L + 1 = (1 .. L) \union {L + 1}
    BY <1>2
  <2>2. {t[j].Index : j \in 1 .. L + 1} = {s[j].Index : j \in 1 .. L} \union {n}
    BY <1>2, <1>4, <2>1
  <2>3. QED BY <1>2, <1>3, <2>2 DEF Holds
<1>9. InPlace(c, m, k, t)
  <2>1. SUFFICES ASSUME NEW x \in Taken(c, m, k), 0 .. x \subseteq Taken(c, m, k)
                 PROVE  x + 1 <= Len(t) /\ t[x + 1].Index = x
    BY DEF InPlace
  <2>2. x + 1 <= L /\ s[x + 1].Index = x
    BY <1>1, <1>3, <2>1 DEF InPlace
  <2>3. x \in Nat
    <3>1. Len(c.widths) \in Nat
      BY SlotFacts
    <3>2. x \in 0 .. Len(c.widths) - 1
      BY TakenBound
    <3>3. QED BY <3>1, <3>2
  <2>4. x + 1 \in 1 .. L /\ x + 1 <= L + 1
    BY <1>2, <2>2, <2>3
  <2>5. QED BY <1>2, <2>2, <2>4
<1>10. Vec(c, m, k, new \union {n}, t)
  BY <1>7, <1>8, <1>9 DEF Vec
<1>11. QED BY <1>1, <1>2, <1>4, <1>5, <1>10 DEF Appended

Redefined(old, n, lv) == [[old EXCEPT !.Index = n] EXCEPT !.by = lv]
LEMMA NewDefinition ==
  ASSUME NEW I, NEW V, NEW old \in [Index : I, by : Nat, DefaultValue : V], NEW n, NEW lv
  PROVE  Redefined(old, n, lv) = [Index |-> n, by |-> lv, DefaultValue |-> old.DefaultValue]
<1>1. PICK i, b, d : old = [Index |-> i, by |-> b, DefaultValue |-> d] /\ d = old.DefaultValue
  OBVIOUS
<1>2. [old EXCEPT !.Index = n] = [Index |-> n, by |-> b, DefaultValue |-> d]
  BY <1>1
<1>3. PICK r : r = [old EXCEPT !.Index = n]
  OBVIOUS
<1>4. [r EXCEPT !.by = lv] = [Index |-> n, by |-> lv, DefaultValue |-> d]
  <2>1. r = [Index |-> n, by |-> b, DefaultValue |-> d]
    BY <1>2, <1>3
  <2>2. \A q : q = [Index |-> n, by |-> b, DefaultValue |-> d] =>
                 [q EXCEPT !.by = lv] = [Index |-> n, by |-> lv, DefaultValue |-> d]
    OBVIOUS
  <2>3. QED BY <2>1, <2>2
<1>5. Redefined(old, n, lv) = [r EXCEPT !.by = lv]
  BY <1>3 DEF Redefined
<1>6. QED BY <1>1, <1>4, <1>5

LEMMA ExceptEntry ==
  ASSUME NEW E, NEW s \in Seq(E), NEW p \in 1 .. Len(s), NEW e \in E
  PROVE  LET t == [s EXCEPT ![p] = e]
         IN  /\ t \in Seq(E) /\ Len(t) = Len(s) /\ t[p] = e
             /\ \A j \in 1 .. Len(s) : j # p => t[j] = s[j]
OBVIOUS

(* The entry of a property is given a new class.                           *)
RedefinedAt(c, s, n, lv, t) ==
  /\ t \in Seq(Entry(c)) /\ Len(t) = Len(s)
  /\ t[n + 1] = [Index |-> n, by |-> lv, DefaultValue |-> s[n + 1].DefaultValue]
  /\ \A j \in 1 .. Len(s) : j # n + 1 => t[j] = s[j]

LEMMA ReplaceEntry ==
  ASSUME NEW c, NEW s \in Seq(Entry(c)), NEW n \in 0 .. Len(c.widths) - 1,
         n + 1 \in 1 .. Len(s), NEW lv \in Nat,
         NEW t, t = [s EXCEPT ![n + 1].Index = n, ![n + 1].by = lv]
  PROVE  RedefinedAt(c, s, n, lv, t)
<1>1. PICK old, e : /\ old = s[n + 1]
                    /\ e = [Index |-> n, by |-> lv, DefaultValue |-> old.DefaultValue]
  OBVIOUS
<1>2. PICK E : E = Entry(c)
  OBVIOUS
<1>3. s \in Seq(E)
  BY <1>2
<1>4. old \in E
  BY <1>1, <1>3
<1>5. PICK I : I = 0 .. Len(c.widths) - 1
  OBVIOUS
<1>6. E = [Index : I, by : Nat, DefaultValue : ValueType]
  BY <1>2, <1>5 DEF Entry
<1>7. n \in I /\ old.DefaultValue \in ValueType
  BY <1>4, <1>5, <1>6
<1>8. e \in E
  BY <1>1, <1>6, <1>7
<1>9. t = [s EXCEPT ![n + 1] = e]
  <2>1. Redefined(old, n, lv) = e
    BY <1>1, <1>4, <1>6, NewDefinition
  <2>2. t = [[s EXCEPT ![n + 1] = [@ EXCEPT !.Index = n]] EXCEPT ![n + 1] = [@ EXCEPT !.by = lv]]
    OBVIOUS
  <2>3. DOMAIN s = 1 .. Len(s)
    OBVIOUS
  <2>4. QED BY <1>1, <2>1, <2>2, <2>3 DEF Redefined
<1>10. /\ t \in Seq(E) /\ Len(t) = Len(s) /\ t[n + 1] = e
       /\ \A j \in 1 .. Len(s) : j # n + 1 => t[j] = s[j]
  BY ONLY <1>3, <1>8, <1>9, n + 1 \in 1 .. Len(s), ExceptEntry
<1>11. QED BY <1>1, <1>2, <1>10 DEF RedefinedAt

(* One that it has, without a gap below, is replaced at its own place.     *)
Replaced(c, m, k, new, s, n, lv, t) ==
  /\ n < Len(s) /\ n + 1 \in 1 .. Len(s)
  /\ t \in Seq(Entry(c)) /\ Len(t) = Len(s)
  /\ \A j \in 1 .. Len(s) : j # n + 1 => t[j] = s[j] /\ s[j].Index # n
  /\ t[n + 1].by = lv /\ t[n + 1].DefaultValue = s[n + 1].DefaultValue
  /\ \A j \in 1 .. Len(s) : t[j].Index = s[j].Index
  /\ Vec(c, m, k, new \union {n}, t)

LEMMA ReplaceVec ==
  ASSUME NEW c \in Chains, NEW m \in Nat, NEW k \in 0 .. Len(c.classes), NEW new,
         NEW s \in Seq(Entry(c)), Vec(c, m, k, new, s), NEW lv \in Nat,
         NEW n \in Taken(c, m, k), 0 .. n \subseteq Taken(c, m, k),
         NEW t, t = [s EXCEPT ![n + 1].Index = n, ![n + 1].by = lv]
  PROVE  Replaced(c, m, k, new, s, n, lv, t)
<1>1. PICK L : L = Len(s)
  OBVIOUS
<1>2. n \in Nat /\ n \in 0 .. Len(c.widths) - 1 /\ L \in Nat /\ DOMAIN s = 1 .. L
  <2>1. Len(c.widths) \in Nat
    BY SlotFacts
  <2>2. n \in 0 .. Len(c.widths) - 1
    BY TakenBound
  <2>3. QED BY <1>1, <2>1, <2>2
<1>3. n + 1 <= L /\ s[n + 1].Index = n
  BY <1>1 DEF Vec, InPlace
<1>4. n < L /\ n + 1 \in 1 .. L
  BY <1>2, <1>3
<1>9. /\ t \in Seq(Entry(c)) /\ Len(t) = L
      /\ t[n + 1] = [Index |-> n, by |-> lv, DefaultValue |-> s[n + 1].DefaultValue]
      /\ \A j \in 1 .. L : j # n + 1 => t[j] = s[j]
  <2>1. n + 1 \in 1 .. Len(s)
    BY <1>1, <1>4
  <2>2. RedefinedAt(c, s, n, lv, t)
    BY <1>2, <2>1, ReplaceEntry
  <2>3. QED BY <1>1, <2>2 DEF RedefinedAt
<1>10. \A j \in 1 .. L : t[j].Index = s[j].Index
  BY <1>3, <1>9
<1>11. Once(s) /\ Holds(s, Taken(c, m, k) \union new) /\ InPlace(c, m, k, s)
  BY DEF Vec
<1>12. \A j \in 1 .. L : j # n + 1 => s[j].Index # n
  BY <1>1, <1>3, <1>4, <1>11 DEF Once
<1>13. Taken(c, m, k) \subseteq Nat
  <2>1. Len(c.widths) \in Nat
    BY SlotFacts
  <2>2. QED BY <2>1, TakenBound
<1>14. Once(t) /\ Holds(t, Taken(c, m, k) \union new) /\ InPlace(c, m, k, t)
  <2>1. Len(t) = Len(s) /\ Len(s) \in Nat /\ \A j \in 1 .. Len(s) : t[j].Index = s[j].Index
    BY <1>1, <1>2, <1>9, <1>10
  <2>2. QED BY <1>11, <1>13, <2>1, SameIndexes
<1>15. Taken(c, m, k) \union (new \union {n}) = Taken(c, m, k) \union new
  OBVIOUS
<1>16. Vec(c, m, k, new \union {n}, t)
  BY <1>14, <1>15 DEF Vec
<1>17. t[n + 1].by = lv /\ t[n + 1].DefaultValue = s[n + 1].DefaultValue
  BY <1>9
<1>18. QED BY <1>1, <1>4, <1>9, <1>10, <1>12, <1>16, <1>17 DEF Replaced

(* The end of a class.                                                     *)
LEMMA SortVec ==
  ASSUME NEW c \in Chains, NEW m \in Nat, NEW k \in 0 .. Len(c.classes) - 1, m <= k,
         NEW s \in Seq(Entry(c)), Vec(c, m, k, Takes(c, k + 1), s), NEW t \in Sorted(s)
  PROVE  Vec(c, m, k + 1, {}, t)
<1>1. PICK L, A : L = Len(s) /\ A = Taken(c, m, k + 1)
  OBVIOUS
<1>2. PICK f : ReordersBy(f, L, s, t)
  BY <1>1, SortedFacts
<1>3. /\ t \in Seq(Entry(c)) /\ Len(t) = L /\ L \in Nat
      /\ \A j, l \in 1 .. L : j < l => t[j].Index <= t[l].Index
  BY <1>1, SortedFacts
<1>4. k \in Nat /\ k + 1 \in 0 .. Len(c.classes) /\ Len(c.widths) \in Nat
  BY ChainsAssumption, SlotFacts
<1>5. A = Taken(c, m, k) \union Takes(c, k + 1) /\ A \subseteq Nat
  <2>1. A \subseteq 0 .. Len(c.widths) - 1
    BY <1>1, <1>4, TakenBound
  <2>2. A \subseteq Nat
    BY <1>4, <2>1
  <2>3. QED BY <1>1, <1>4, <2>2, TakenNext
<1>6. /\ \A j, l \in 1 .. L : s[j].Index = s[l].Index => j = l
      /\ {s[j].Index : j \in 1 .. L} = A
  BY <1>1, <1>5 DEF Vec, Once, Holds
<1>7. \A j, l \in 1 .. L : t[j].Index = t[l].Index => j = l
  <2>1. ASSUME NEW j \in 1 .. L, NEW l \in 1 .. L, t[j].Index = t[l].Index PROVE j = l
    <3>1. f[j] \in 1 .. L /\ f[l] \in 1 .. L /\ s[f[j]].Index = s[f[l]].Index
      BY <1>2, <2>1 DEF ReordersBy
    <3>2. f[j] = f[l]
      BY <1>6, <3>1
    <3>3. QED BY <1>2, <3>2 DEF ReordersBy
  <2>2. QED BY <2>1
<1>8. {t[j].Index : j \in 1 .. L} = A
  <2>1. \A j \in 1 .. L : t[j].Index \in A
    BY <1>2, <1>6 DEF ReordersBy
  <2>2. ASSUME NEW x \in A PROVE \E j \in 1 .. L : t[j].Index = x
    <3>1. PICK l \in 1 .. L : s[l].Index = x
      BY <1>6
    <3>2. PICK j \in 1 .. L : f[j] = l
      BY <1>2 DEF ReordersBy
    <3>3. QED BY <1>2, <3>1, <3>2 DEF ReordersBy
  <2>3. QED BY <2>1, <2>2
<1>9. PICK g : g = [j \in 1 .. L |-> t[j].Index]
  OBVIOUS
<1>10. g \in [1 .. L -> Nat] /\ \A j \in 1 .. L : g[j] = t[j].Index
  BY <1>5, <1>8, <1>9
<1>11. ASSUME NEW n \in A, 0 .. n \subseteq A PROVE n + 1 <= L /\ t[n + 1].Index = n
  <2>1. n \in Nat
    BY <1>5
  <2>2. n + 1 <= L /\ g[n + 1] = n
    <3>1. \A j, l \in 1 .. L : g[j] = g[l] => j = l
      BY <1>7, <1>10
    <3>2. \A j, l \in 1 .. L : j < l => g[j] <= g[l]
      BY <1>3, <1>10
    <3>3. \A x \in A : \E j \in 1 .. L : g[j] = x
      BY <1>8, <1>10
    <3>4. L \in Nat /\ 0 .. n \subseteq A /\ InOrder(g, L, A)
      BY <1>3, <1>10, <1>11, <3>1, <3>2, <3>3 DEF InOrder
    <3>5. AtPlace(g, L, n)
      BY ONLY <2>1, <3>4, SortedInPlace
    <3>6. QED BY <3>5 DEF AtPlace
  <2>3. n + 1 \in 1 .. L
    BY <1>3, <2>1, <2>2
  <2>4. QED BY <1>10, <2>2, <2>3
<1>12. Once(t) /\ Holds(t, A \union {}) /\ InPlace(c, m, k + 1, t)
  BY <1>1, <1>3, <1>7, <1>8, <1>11 DEF Once, Holds, InPlace
<1>13. QED BY <1>1, <1>12 DEF Vec
-----------------------------------------------------------------------------
(* A chain of which nothing is missing.                                    *)
LEMMA WholeTaken ==
  ASSUME NEW c \in Chains, Whole(c, 0)
  PROVE  \A k \in 1 .. Len(c.classes) : Taken(c, 0, k) = PropsUpTo(c, k)
<1> DEFINE Bad == {k \in Nat : k \in 1 .. Len(c.classes) /\ Taken(c, 0, k) # PropsUpTo(c, k)}
<1>1. SUFFICES ASSUME Bad # {} PROVE FALSE
  <2>1. \A k \in 1 .. Len(c.classes) : k \in Nat
    OBVIOUS
  <2>2. QED BY <2>1
<1>2. PICK k \in Bad : \A j \in Bad : k <= j
  <2>1. Bad \in SUBSET Nat
    OBVIOUS
  <2>2. HIDE DEF Bad
  <2>3. QED BY <1>1, <2>1, LeastNatural
<1>3. k \in Nat /\ k \in 1 .. Len(c.classes) /\ Taken(c, 0, k) # PropsUpTo(c, k)
  OBVIOUS
<1>4. Takes(c, k) = OwnProps(c.classes[k])
  BY <1>3, ChainsAssumption DEF Whole, Takes
<1>5. PICK n \in Nat :
        /\ PropsUpTo(c, k) = 0 .. n - 1
        /\ OwnProps(c.classes[k]) \subseteq 0 .. n - 1
        /\ k = 1 => OwnProps(c.classes[k]) = 0 .. n - 1
        /\ k # 1 => /\ PropsUpTo(c, k - 1) \subseteq 0 .. n - 1
                    /\ (0 .. n - 1) \ PropsUpTo(c, k - 1) \subseteq OwnProps(c.classes[k])
  BY <1>3, ClassFacts
<1>6. k - 1 \in Nat /\ k - 1 + 1 = k
  BY <1>3
<1>7. Taken(c, 0, k) = Taken(c, 0, k - 1) \union OwnProps(c.classes[k])
  <2>1. PICK p \in Nat : p = k - 1 /\ k = p + 1
    BY <1>6
  <2>2. 0 \in Nat /\ 0 <= p
    OBVIOUS
  <2>3. Taken(c, 0, k) = Taken(c, 0, p) \union Takes(c, k)
    BY <2>1, <2>2, TakenNext
  <2>4. QED BY <1>4, <2>1, <2>3
<1>8. CASE k = 1
  <2>1. Taken(c, 0, k - 1) = {}
    BY <1>8, TakenNone
  <2>2. QED BY <1>3, <1>5, <1>7, <1>8, <2>1
<1>9. CASE k # 1
  <2>1. k - 1 \in 1 .. Len(c.classes) /\ ~ k <= k - 1
    BY <1>3, <1>9, ChainsAssumption
  <2>2. Taken(c, 0, k - 1) = PropsUpTo(c, k - 1)
    BY <1>2, <1>6, <2>1
  <2>3. QED BY <1>3, <1>5, <1>7, <1>9, <2>2
<1>10. QED BY <1>8, <1>9

LEMMA WholeNoGap ==
  ASSUME NEW c \in Chains, Whole(c, 0)
  PROVE  ~ Gap(c, 0)
<1>1. SUFFICES ASSUME NEW k \in 2 .. Len(c.classes), NEW n \in Taken(c, 0, k - 1)
               PROVE  0 .. n - 1 \subseteq Taken(c, 0, k - 1)
  BY DEF Gap
<1>2. Len(c.classes) \in Nat /\ k - 1 \in 1 .. Len(c.classes)
  BY ChainsAssumption
<1>3. PICK p \in Nat : PropsUpTo(c, k - 1) = 0 .. p - 1
  BY <1>2, ClassFacts
<1>4. Taken(c, 0, k - 1) = 0 .. p - 1
  BY <1>2, <1>3, WholeTaken
<1>5. QED BY <1>4

(* The vector of such a chain has the properties at their places.          *)
LEMMA WholeVec ==
  ASSUME NEW c \in Chains, NEW k, NEW n \in Nat, Taken(c, 0, k) = 0 .. n - 1,
         NEW s, Len(s) \in Nat, Vec(c, 0, k, {}, s)
  PROVE  Len(s) = n /\ \A j \in 1 .. n : s[j].Index = j - 1
<1>1. PICK L : L = Len(s)
  OBVIOUS
<1>2. /\ L \in Nat
      /\ \A j, l \in 1 .. L : s[j].Index = s[l].Index => j = l
      /\ {s[j].Index : j \in 1 .. L} = 0 .. n - 1
      /\ \A x \in 0 .. n - 1 : 0 .. x \subseteq 0 .. n - 1 => x + 1 <= L /\ s[x + 1].Index = x
  BY <1>1 DEF Vec, Once, Holds, InPlace
<1>3. ASSUME NEW x \in 0 .. n - 1 PROVE x + 1 \in 1 .. L /\ s[x + 1].Index = x
  <2>1. 0 .. x \subseteq 0 .. n - 1
    OBVIOUS
  <2>2. QED BY <1>2, <2>1
<1>4. \A j \in 1 .. n : j - 1 \in 0 .. n - 1 /\ j - 1 + 1 = j
  OBVIOUS
<1>5. n <= L
  <2>1. CASE n = 0
    BY <1>2, <2>1
  <2>2. CASE n # 0
    <3>1. n \in 1 .. n
      BY <2>2
    <3>2. n \in 1 .. L
      BY <1>3, <1>4, <3>1
    <3>3. QED BY <1>2, <3>2
  <2>3. QED BY <2>1, <2>2
<1>6. ~ n < L
  <2>1. SUFFICES ASSUME n < L PROVE FALSE
    OBVIOUS
  <2>2. n + 1 \in 1 .. L
    BY <1>2, <2>1
  <2>3. PICK x : x = s[n + 1].Index
    OBVIOUS
  <2>4. x \in 0 .. n - 1
    BY <1>2, <2>2, <2>3
  <2>5. x + 1 \in 1 .. L /\ s[x + 1].Index = x
    BY <1>3, <2>4
  <2>6. x + 1 = n + 1
    BY <1>2, <2>2, <2>3, <2>5
  <2>7. QED BY <2>4, <2>6
<1>7. L = n
  BY <1>2, <1>5, <1>6
<1>8. QED BY <1>1, <1>3, <1>4, <1>7

(* A class that gives a value gives the default, one that does not leaves  *)
(* it.                                                                     *)
LEMMA DefaultStep ==
  ASSUME NEW c, NEW k \in Nat, NEW x
  PROVE  /\ Gives(c, k + 1, x) => DefaultRight(c, k + 1, x, TocValue(c, k + 1, x))
         /\ \A d : ~ Gives(c, k + 1, x) /\ DefaultRight(c, k, x, d) => DefaultRight(c, k + 1, x, d)
<1>1. 1 .. k + 1 = (1 .. k) \union {k + 1} /\ k + 1 + 1 .. k + 1 = {}
  OBVIOUS
<1>2. \A l \in 1 .. k : l + 1 .. k + 1 = (l + 1 .. k) \union {k + 1}
  OBVIOUS
<1>3. ASSUME Gives(c, k + 1, x) PROVE DefaultRight(c, k + 1, x, TocValue(c, k + 1, x))
  <2>1. ASSUME NEW l \in 1 .. k + 1, \A m \in l + 1 .. k + 1 : ~ Gives(c, m, x)
        PROVE  l = k + 1
    BY <1>1, <1>2, <1>3, <2>1
  <2>2. k + 1 \in 1 .. k + 1
    OBVIOUS
  <2>3. QED BY <1>3, <2>1, <2>2 DEF DefaultRight
<1>4. ASSUME NEW d, ~ Gives(c, k + 1, x), DefaultRight(c, k, x, d)
      PROVE  DefaultRight(c, k + 1, x, d)
  <2>1. (\A l \in 1 .. k + 1 : ~ Gives(c, l, x)) => d = None
    BY <1>1, <1>4 DEF DefaultRight
  <2>2. ASSUME NEW l \in 1 .. k + 1, Gives(c, l, x), \A m \in l + 1 .. k + 1 : ~ Gives(c, m, x)
        PROVE  d = TocValue(c, l, x)
    <3>1. l \in 1 .. k
      BY <1>1, <1>4, <2>2
    <3>2. \A m \in l + 1 .. k : ~ Gives(c, m, x)
      BY <1>2, <2>2, <3>1
    <3>3. QED BY <1>4, <2>2, <3>1, <3>2 DEF DefaultRight
  <2>3. QED BY <2>1, <2>2 DEF DefaultRight
<1>5. QED BY <1>3, <1>4

(* Likewise for the definition.                                            *)
LEMMA DefinesStep ==
  ASSUME NEW c, NEW k \in Nat, NEW x
  PROVE  /\ x \in OwnProps(c.classes[k + 1]) => Defines(c, k + 1, x, k + 1)
         /\ \A l : x \notin OwnProps(c.classes[k + 1]) /\ Defines(c, k, x, l) =>
                     Defines(c, k + 1, x, l)
<1>1. k + 1 \in 1 .. k + 1 /\ k + 1 + 1 .. k + 1 = {}
  OBVIOUS
<1>2. \A l \in 1 .. k : l \in 1 .. k + 1 /\ l + 1 .. k + 1 = (l + 1 .. k) \union {k + 1}
  OBVIOUS
<1>3. QED BY <1>1, <1>2 DEF Defines
(* The three ways the vector of such a chain changes.                      *)
LEMMA AppendFull ==
  ASSUME NEW c \in Chains, NEW m \in Nat, NEW k \in 0 .. Len(c.classes), NEW new,
         NEW s \in Seq(Entry(c)), Vec(c, m, k, new, s), Full(c, k, new, s),
         NEW n, n \notin Taken(c, m, k) \union new, \A l \in 1 .. k : ~ Gives(c, l, n),
         NEW e \in Entry(c), e = [Index |-> n, by |-> k + 1, DefaultValue |-> None]
  PROVE  Full(c, k, new \union {n}, Append(s, e))
<1>1. PICK t, L : t = Append(s, e) /\ L = Len(s)
  OBVIOUS
<1>2. e.Index = n /\ e.by = k + 1 /\ e.DefaultValue = None
  OBVIOUS
<1>3. /\ L \in Nat /\ Len(t) = L + 1 /\ t[L + 1] = e
      /\ \A j \in 1 .. L : t[j] = s[j] /\ s[j].Index # n
  <2>1. L \in Nat
    BY <1>1
  <2>2. e.Index \notin Taken(c, m, k) \union new
    BY <1>2
  <2>3. Appended(c, m, k, new, s, e, Append(s, e))
    BY <2>2, AppendVec
  <2>4. QED BY <1>1, <1>2, <2>1, <2>3 DEF Appended
<1>4. ASSUME NEW j \in 1 .. L
      PROVE  /\ t[j].Index \in new \union {n} => t[j].by = k + 1
             /\ t[j].Index \notin new \union {n} => Defines(c, k, t[j].Index, t[j].by)
             /\ DefaultRight(c, k, t[j].Index, t[j].DefaultValue)
  BY <1>1, <1>3 DEF Full
<1>5. DefaultRight(c, k, n, None)
  BY DEF DefaultRight
<1>6. \A j \in 1 .. L + 1 : j = L + 1 \/ j \in 1 .. L
  BY <1>3
<1>7. Full(c, k, new \union {n}, t)
  BY <1>2, <1>3, <1>4, <1>5, <1>6 DEF Full
<1>8. QED BY <1>1, <1>7

LEMMA ReplaceFull ==
  ASSUME NEW c \in Chains, NEW m \in Nat, NEW k \in 0 .. Len(c.classes), NEW new,
         NEW s \in Seq(Entry(c)), Vec(c, m, k, new, s), Full(c, k, new, s),
         NEW n \in Taken(c, m, k), 0 .. n \subseteq Taken(c, m, k),
         NEW t, t = [s EXCEPT ![n + 1].Index = n, ![n + 1].by = k + 1]
  PROVE  Full(c, k, new \union {n}, t)
<1>1. PICK lv \in Nat : lv = k + 1
  BY ChainsAssumption
<1>2. /\ n + 1 \in 1 .. Len(s) /\ Len(t) = Len(s)
      /\ \A j \in 1 .. Len(s) : j # n + 1 => t[j] = s[j] /\ s[j].Index # n
      /\ t[n + 1].by = k + 1 /\ t[n + 1].DefaultValue = s[n + 1].DefaultValue
      /\ \A j \in 1 .. Len(s) : t[j].Index = s[j].Index
  <2>1. t = [s EXCEPT ![n + 1].Index = n, ![n + 1].by = lv]
    BY <1>1
  <2>2. Replaced(c, m, k, new, s, n, lv, t)
    BY <2>1, ReplaceVec
  <2>3. QED BY <1>1, <2>2 DEF Replaced
<1>3. ASSUME NEW j \in 1 .. Len(s)
      PROVE  /\ t[j].Index \in new \union {n} => t[j].by = k + 1
             /\ t[j].Index \notin new \union {n} => Defines(c, k, t[j].Index, t[j].by)
             /\ DefaultRight(c, k, t[j].Index, t[j].DefaultValue)
  <2>1. /\ s[j].Index \in new => s[j].by = k + 1
        /\ s[j].Index \notin new => Defines(c, k, s[j].Index, s[j].by)
        /\ DefaultRight(c, k, s[j].Index, s[j].DefaultValue)
    BY DEF Full
  <2>2. CASE j = n + 1
    <3>1. s[j].Index = n
      <4>1. s[n + 1].Index = n
        BY DEF Vec, InPlace
      <4>2. QED BY <2>2, <4>1
    <3>2. t[j].Index = n /\ t[j].by = k + 1 /\ t[j].DefaultValue = s[j].DefaultValue
      BY <1>2, <2>2, <3>1
    <3>3. QED BY <2>1, <3>1, <3>2
  <2>3. CASE j # n + 1
    <3>1. t[j] = s[j] /\ s[j].Index # n
      BY <1>2, <2>3
    <3>2. QED BY <2>1, <3>1
  <2>4. QED BY <2>2, <2>3
<1>4. QED BY <1>2, <1>3 DEF Full

(* Sorted: the indexes are the places, the definitions those of the chain  *)
(* up to the class.                                                        *)
LEMMA SortFull ==
  ASSUME NEW c \in Chains, Whole(c, 0), NEW k \in 0 .. Len(c.classes) - 1,
         NEW s \in Seq(Entry(c)), Vec(c, 0, k, Takes(c, k + 1), s),
         Full(c, k, Takes(c, k + 1), s), NEW t \in Sorted(s)
  PROVE  \E n \in Nat :
           /\ n = Cardinality(PropsUpTo(c, k + 1)) /\ PropsUpTo(c, k + 1) = 0 .. n - 1
           /\ n <= Len(c.widths) /\ Len(t) = n
           /\ \A j \in 1 .. n :
                /\ t[j].Index = j - 1
                /\ Defines(c, k + 1, j - 1, t[j].by)
                /\ DefaultRight(c, k, j - 1, t[j].DefaultValue)
<1>1. k \in Nat /\ k + 1 \in 1 .. Len(c.classes)
  BY ChainsAssumption
<1>2. PICK n \in Nat :
        /\ n = Cardinality(PropsUpTo(c, k + 1)) /\ PropsUpTo(c, k + 1) = 0 .. n - 1
        /\ n <= Len(c.widths)
  BY <1>1, ClassFacts
<1>3. Taken(c, 0, k + 1) = 0 .. n - 1
  BY <1>1, <1>2, WholeTaken
<1>4. Vec(c, 0, k + 1, {}, t)
  BY <1>1, SortVec
<1>5. Len(t) = Len(s) /\ Len(s) \in Nat /\ \E f : ReordersBy(f, Len(s), s, t)
  BY SortedFacts
<1>6. Len(t) = n /\ \A j \in 1 .. n : t[j].Index = j - 1
  BY <1>3, <1>4, <1>5, WholeVec
<1>7. ASSUME NEW j \in 1 .. n
      PROVE  Defines(c, k + 1, j - 1, t[j].by) /\ DefaultRight(c, k, j - 1, t[j].DefaultValue)
  <2>1. PICK l \in 1 .. Len(s) : t[j] = s[l]
    BY <1>5, <1>6 DEF ReordersBy
  <2>2. PICK x, y, d : x = s[l].Index /\ y = s[l].by /\ d = s[l].DefaultValue
    OBVIOUS
  <2>3. /\ x \in Takes(c, k + 1) => y = k + 1
        /\ x \notin Takes(c, k + 1) => Defines(c, k, x, y)
        /\ DefaultRight(c, k, x, d)
    BY <2>2 DEF Full
  <2>4. Takes(c, k + 1) = OwnProps(c.classes[k + 1])
    BY <1>1, ChainsAssumption DEF Whole, Takes
  <2>5. Defines(c, k + 1, x, y)
    BY <1>1, <2>3, <2>4, DefinesStep
  <2>6. x = j - 1 /\ t[j].by = y /\ t[j].DefaultValue = d
    BY <1>6, <2>1, <2>2
  <2>7. QED BY <2>3, <2>5, <2>6
<1>8. QED BY <1>2, <1>6, <1>7
-----------------------------------------------------------------------------
(* What SetDefaultValues makes of a sorted vector.                         *)
LEMMA FlagBytesType ==
  ASSUME NEW n \in Nat
  PROVE  FlagBytes(n) \in Nat
<1>1. PICK F \in Nat \ {0} : F = FlagsPerByte
  BY FlagsPerByteAssumption
<1>2. n + F - 1 \in Nat
  OBVIOUS
<1>3. (n + F - 1) \div F \in Nat
  BY <1>2
<1>4. QED BY <1>1, <1>3 DEF FlagBytes

NewDefault(p, metaBytesCnt) ==
  IF Fits(DefValSize - metaBytesCnt, p)
    THEN DefaultOf(level, metaBytesCnt + Offset(chain, p.Index))
    ELSE None

LEMMA NewDefaultType ==
  ASSUME chain \in Chains, level \in Nat, NEW p \in Entry(chain), NEW mb \in Nat
  PROVE  NewDefault(p, mb) \in ValueType
<1>1. Offset(chain, p.Index) \in Nat
  <2>1. p.Index \in 0 .. Len(chain.widths) - 1 /\ Len(chain.widths) \in Nat
    BY EntryFacts, SlotFacts
  <2>2. p.Index \in 0 .. Len(chain.widths)
    BY <2>1
  <2>3. QED BY <2>2, SlotFacts
<1>2. PICK pos : pos = mb + Offset(chain, p.Index)
  OBVIOUS
<1>3. pos \in Nat
  BY <1>1, <1>2
<1>4. DefaultOf(level, pos) \in ValueType
  BY <1>3 DEF DefaultOf, ValueType
<1>5. None \in ValueType
  BY DEF None, ValueType
<1>6. NewDefault(p, mb) = DefaultOf(level, pos) \/ NewDefault(p, mb) = None
  BY <1>2 DEF NewDefault
<1>7. QED BY <1>4, <1>5, <1>6

LEMMA NewValue ==
  ASSUME NEW I, NEW V, NEW e \in [Index : I, by : Nat, DefaultValue : V], NEW d \in V,
         NEW x, x = [e EXCEPT !.DefaultValue = d]
  PROVE  /\ x \in [Index : I, by : Nat, DefaultValue : V]
         /\ x.Index = e.Index /\ x.by = e.by /\ x.DefaultValue = d
OBVIOUS

LEMMA EndType ==
  ASSUME chain \in Chains, level \in Nat, NEW t \in Seq(Entry(chain))
  PROVE  /\ WithDefaults(t) \in Seq(Entry(chain)) /\ Len(WithDefaults(t)) = Len(t)
         /\ \A j \in 1 .. Len(t) :
              /\ WithDefaults(t)[j].Index = t[j].Index
              /\ WithDefaults(t)[j].by = t[j].by
              /\ Class.flags[j - 1] # 0 => WithDefaults(t)[j].DefaultValue = t[j].DefaultValue
              /\ Class.flags[j - 1] = 0 =>
                   WithDefaults(t)[j].DefaultValue = NewDefault(t[j], FlagBytes(Len(t)))
<1>1. PICK L, mb, u, E : L = Len(t) /\ mb = FlagBytes(L) /\ u = WithDefaults(t) /\ E = Entry(chain)
  OBVIOUS
<1>2. L \in Nat /\ DOMAIN t = 1 .. L /\ mb \in Nat /\ \A j \in 1 .. L : t[j] \in E
  BY <1>1, FlagBytesType
<1>3. u = [j \in 1 .. L |-> IF Class.flags[j - 1] # 0 THEN t[j]
                            ELSE [t[j] EXCEPT !.DefaultValue = NewDefault(t[j], mb)]]
  BY <1>1, <1>2 DEF WithDefaults, NewDefault
<1>4. ASSUME NEW j \in 1 .. L
      PROVE  /\ u[j] \in E /\ u[j].Index = t[j].Index /\ u[j].by = t[j].by
             /\ Class.flags[j - 1] # 0 => u[j].DefaultValue = t[j].DefaultValue
             /\ Class.flags[j - 1] = 0 => u[j].DefaultValue = NewDefault(t[j], mb)
  <2>1. CASE Class.flags[j - 1] # 0
    <3>1. u[j] = t[j]
      BY <1>3, <2>1
    <3>2. QED BY <1>2, <2>1, <3>1
  <2>2. CASE Class.flags[j - 1] = 0
    <3>1. PICK e, d, x : e = t[j] /\ d = NewDefault(t[j], mb) /\ x = u[j]
      OBVIOUS
    <3>2. x = [e EXCEPT !.DefaultValue = d]
      BY <1>3, <2>2, <3>1
    <3>3. e \in Entry(chain)
      BY <1>1, <1>2, <3>1
    <3>4. d \in ValueType
      BY <1>2, <3>1, <3>3, NewDefaultType
    <3>5. PICK I : I = 0 .. Len(chain.widths) - 1
      OBVIOUS
    <3>6. E = [Index : I, by : Nat, DefaultValue : ValueType]
      BY <1>1, <3>5 DEF Entry
    <3>7. x \in E /\ x.Index = e.Index /\ x.by = e.by /\ x.DefaultValue = d
      BY ONLY <1>1, <3>2, <3>3, <3>4, <3>6, NewValue
    <3>8. QED BY <2>2, <3>1, <3>7
  <2>3. QED BY <2>1, <2>2
<1>5. u \in Seq(E) /\ Len(u) = L
  <2>1. u \in [1 .. L -> E]
    BY <1>3, <1>4
  <2>2. QED BY <1>2, <2>1
<1>6. QED BY <1>1, <1>4, <1>5

(* The default of a class fits when the flags are those of all properties  *)
(* so far.                                                                 *)
LEMMA DefaultFits ==
  ASSUME chain \in Chains, NEW n \in Nat, n = Cardinality(PropsUpTo(chain, level)),
         n <= Len(chain.widths), NEW p, p.Index \in 0 .. n - 1
  PROVE  NewDefault(p, FlagBytes(n)) = TocValue(chain, level, p.Index)
<1>1. PICK x, mb, N : x = p.Index /\ mb = FlagBytes(n) /\ N = Len(chain.widths)
  OBVIOUS
<1>2. mb \in Nat /\ N \in Nat /\ x \in 0 .. N - 1 /\ x + 1 <= n /\ x \in Nat
  <2>1. mb \in Nat
    BY <1>1, FlagBytesType
  <2>2. N \in Nat
    BY <1>1, SlotFacts
  <2>3. x \in 0 .. n - 1 /\ n <= N
    BY <1>1
  <2>4. x \in Nat /\ x + 1 <= n /\ x \in 0 .. N - 1
    BY <2>2, <2>3
  <2>5. QED BY <2>1, <2>2, <2>4
<1>3. PICK a, b, d, w : /\ a = Offset(chain, x) /\ b = Offset(chain, x + 1)
                        /\ d = Offset(chain, n) /\ w = chain.widths[x + 1]
  OBVIOUS
<1>4. a \in Nat /\ b \in Nat /\ d \in Nat /\ w \in Nat /\ b = a + w
  <2>1. x \in 0 .. N /\ x + 1 \in 0 .. N /\ n \in 0 .. N
    BY <1>1, <1>2
  <2>2. QED BY <1>1, <1>2, <1>3, <2>1, SlotFacts
<1>5. b <= d
  <2>1. CASE x + 1 = n
    BY <1>3, <1>4, <2>1
  <2>2. CASE x + 1 # n
    <3>1. x + 1 < n /\ x + 1 \in 0 .. N /\ n \in 0 .. N
      BY <1>1, <1>2, <2>2
    <3>2. b < d
      BY <1>1, <1>3, <3>1, SlotFacts
    <3>3. QED BY <1>4, <3>2
  <2>3. QED BY <2>1, <2>2
<1>6. DefValSize - mb = d
  <2>1. DefValSize = mb + d
    BY <1>1, <1>3 DEF DefValSize, TableSize
  <2>2. QED BY <1>2, <1>4, <2>1
<1>7. Fits(DefValSize - mb, p)
  <2>1. a + w <= d
    BY <1>4, <1>5
  <2>2. QED BY <1>1, <1>3, <1>6, <2>1 DEF Fits
<1>8. QED BY <1>1, <1>7 DEF NewDefault, TocValue

LEMMA EndFull ==
  ASSUME chain \in Chains, Whole(chain, 0), NEW k \in 0 .. Len(chain.classes) - 1,
         level = k + 1, iprops \in Seq(Entry(chain)),
         Vec(chain, 0, k, Takes(chain, k + 1), iprops),
         Full(chain, k, Takes(chain, k + 1), iprops), NEW t \in Sorted(iprops)
  PROVE  Full(chain, k + 1, {}, WithDefaults(t))
<1>1. PICK n \in Nat :
        /\ n = Cardinality(PropsUpTo(chain, k + 1)) /\ PropsUpTo(chain, k + 1) = 0 .. n - 1
        /\ n <= Len(chain.widths) /\ Len(t) = n
        /\ \A j \in 1 .. n :
             /\ t[j].Index = j - 1
             /\ Defines(chain, k + 1, j - 1, t[j].by)
             /\ DefaultRight(chain, k, j - 1, t[j].DefaultValue)
  BY SortFull
<1>2. level \in Nat /\ k \in Nat
  BY ChainsAssumption
<1>3. t \in Seq(Entry(chain))
  BY SortedFacts
<1>4. PICK u : u = WithDefaults(t)
  OBVIOUS
<1>5. /\ Len(u) = n
      /\ \A j \in 1 .. n :
           /\ u[j].Index = t[j].Index /\ u[j].by = t[j].by
           /\ Class.flags[j - 1] # 0 => u[j].DefaultValue = t[j].DefaultValue
           /\ Class.flags[j - 1] = 0 => u[j].DefaultValue = NewDefault(t[j], FlagBytes(n))
  BY <1>1, <1>2, <1>3, <1>4, EndType
<1>6. ASSUME NEW j \in 1 .. n
      PROVE  /\ Defines(chain, k + 1, u[j].Index, u[j].by)
             /\ DefaultRight(chain, k + 1, u[j].Index, u[j].DefaultValue)
  <2>1. PICK x : x = j - 1
    OBVIOUS
  <2>2. x \in 0 .. n - 1 /\ x \in PropsUpTo(chain, k + 1)
    BY <1>1, <2>1
  <2>3. u[j].Index = x /\ u[j].by = t[j].by /\ t[j].Index = x
    BY <1>1, <1>5, <2>1
  <2>4. Class.flags[x] = chain.classes[k + 1].flags[x]
    BY DEF Class
  <2>5. CASE Class.flags[x] # 0
    <3>1. u[j].DefaultValue = t[j].DefaultValue
      BY <1>5, <2>1, <2>5
    <3>2. DefaultRight(chain, k, x, t[j].DefaultValue)
      BY <1>1, <2>1
    <3>3. ~ Gives(chain, k + 1, x)
      BY <2>4, <2>5 DEF Gives
    <3>4. DefaultRight(chain, k + 1, x, t[j].DefaultValue)
      BY <1>2, <3>2, <3>3, DefaultStep
    <3>5. QED BY <1>1, <2>1, <2>3, <3>1, <3>4
  <2>6. CASE Class.flags[x] = 0
    <3>1. u[j].DefaultValue = NewDefault(t[j], FlagBytes(n))
      BY <1>5, <2>1, <2>6
    <3>2. NewDefault(t[j], FlagBytes(n)) = TocValue(chain, k + 1, x)
      <4>1. n = Cardinality(PropsUpTo(chain, level)) /\ t[j].Index \in 0 .. n - 1
        BY <1>1, <2>2, <2>3
      <4>2. NewDefault(t[j], FlagBytes(n)) = TocValue(chain, level, t[j].Index)
        BY <1>1, <4>1, DefaultFits
      <4>3. QED BY <2>3, <4>2
    <3>3. Gives(chain, k + 1, x)
      BY <2>2, <2>4, <2>6 DEF Gives
    <3>4. DefaultRight(chain, k + 1, x, TocValue(chain, k + 1, x))
      BY <1>2, <3>3, DefaultStep
    <3>5. QED BY <1>1, <2>1, <2>3, <3>1, <3>2, <3>4
  <2>7. QED BY <2>5, <2>6
<1>7. Full(chain, k + 1, {}, u)
  BY <1>5, <1>6 DEF Full
<1>8. QED BY <1>4, <1>7
-----------------------------------------------------------------------------
(* The invariant.                                                          *)
LEMMA InitProps == Init => PropsInv
<1>1. SUFFICES ASSUME Init PROVE PropsInv
  OBVIOUS
<1>2. PICK c, m, N : c = chain /\ m = missing /\ N = Len(chain.classes)
  OBVIOUS
<1>3. /\ c \in Chains /\ m \in 0 .. N - 1 /\ N \in Nat /\ Last = N
      /\ pc = "props" /\ level = m + 1 /\ propMeta = 1 /\ iprops = <<>> /\ Values = <<>>
  BY <1>1, <1>2, ChainsAssumption DEF Init, Last
<1>4. m \in Nat /\ m + 1 \in 1 .. N /\ level - 1 = m
  BY <1>3
<1>5. PropsTypeOK
  <2>1. PICK n \in Nat : PropsUpTo(c, N) = 0 .. n - 1
    <3>1. N \in 1 .. N
      BY <1>3
    <3>2. QED BY <1>2, <1>3, <3>1, ClassFacts
  <2>2. flagsBuf \in [PropsUpTo(chain, Last) -> Flags]
    <3>1. PICK shift \in Flags : flagsBuf = [x \in 0 .. n - 1 |-> (x + shift) % 4]
      BY <1>1, <1>2, <1>3, <2>1 DEF Init
    <3>2. \A x \in 0 .. n - 1 : (x + shift) % 4 \in Flags
      BY DEF Flags
    <3>3. QED BY <1>2, <1>3, <2>1, <3>1, <3>2
  <2>3. Len(Class.own) \in Nat
    BY <1>2, <1>3, <1>4, SeenFacts DEF Class
  <2>4. 1 \in 1 .. Len(Class.own) + 1
    BY <2>3
  <2>5. level \in missing + 1 .. Last
    BY <1>2, <1>3
  <2>6. iprops \in Seq(Entry(chain)) /\ Values \in Seq(ValueType)
    BY <1>3
  <2>7. QED BY <1>2, <1>3, <2>2, <2>4, <2>5, <2>6 DEF PropsTypeOK
<1>6. Seen(chain, level, propMeta) = {}
  BY <1>2, <1>3, <1>4, SeenFacts
<1>7. Taken(c, m, m) = {}
  BY <1>4, TakenNone
<1>8. Vec(c, m, m, {}, <<>>)
  <2>1. Len(<<>>) = 0 /\ 1 .. 0 = {}
    OBVIOUS
  <2>2. QED BY <1>7, <2>1 DEF Vec, Once, Holds, InPlace
<1>9. VecInv
  BY <1>2, <1>3, <1>4, <1>6, <1>8 DEF VecInv, Filled
<1>10. FullInv
  BY <1>3 DEF FullInv, Filled, Full
<1>11. ValuesInv
  BY <1>3 DEF ValuesInv, Filled
<1>12. QED BY <1>5, <1>9, <1>10, <1>11 DEF PropsInv

(* What the steps of ParseProps have in common.                            *)
LEMMA ParsingFacts ==
  ASSUME PropsTypeOK, pc = "props"
  PROVE  /\ chain \in Chains /\ missing \in Nat /\ Last \in Nat /\ level \in Nat
         /\ level \in 1 .. Len(chain.classes) /\ level - 1 \in 0 .. Len(chain.classes) - 1
         /\ level - 1 \in 0 .. Len(chain.classes) /\ missing <= level - 1
         /\ level - 1 + 1 = level
         /\ Class = chain.classes[level] /\ Len(Class.own) \in Nat
         /\ propMeta \in 1 .. Len(Class.own) + 1
         /\ propMeta <= Len(Class.own) => propMeta \in 1 .. Len(chain.classes[level].own)
<1>1. Len(chain.classes) \in Nat /\ chain \in Chains
  BY ChainsAssumption DEF PropsTypeOK
<1>2. missing \in 0 .. Last - 1 /\ level \in missing + 1 .. Last /\ Last = Len(chain.classes)
  BY DEF PropsTypeOK, Last
<1>3. /\ missing \in Nat /\ level \in Nat /\ level \in 1 .. Len(chain.classes)
      /\ level - 1 \in 0 .. Len(chain.classes) - 1 /\ level - 1 \in 0 .. Len(chain.classes)
      /\ missing <= level - 1 /\ level - 1 + 1 = level
  BY <1>1, <1>2
<1>4. Class = chain.classes[level]
  BY DEF Class
<1>5. Len(Class.own) \in Nat
  BY <1>1, <1>3, <1>4, SeenFacts
<1>6. propMeta \in 1 .. Len(Class.own) + 1
  BY DEF PropsTypeOK
<1>7. propMeta <= Len(Class.own) => propMeta \in 1 .. Len(chain.classes[level].own)
  BY <1>4, <1>5, <1>6
<1>8. QED BY <1>1, <1>2, <1>3, <1>4, <1>5, <1>6, <1>7

(* The next class, or the instance.                                        *)
LEMMA NextClassFacts ==
  ASSUME PropsTypeOK, pc = "props", NextClass, pc' = PcAfterClass
  PROVE  /\ level' \in missing + 1 .. Last
         /\ pc' \in {"props", "instance"}
         /\ pc' = "props" => level' = level + 1
         /\ pc' # "props" => level' = Last /\ level = Last
         /\ propMeta' \in 1 .. Len(chain.classes[level'].own) + 1 /\ propMeta' = 1
<1>1. /\ chain \in Chains /\ missing \in Nat /\ Last \in Nat /\ level \in Nat
      /\ level \in missing + 1 .. Last /\ Last = Len(chain.classes)
  BY ParsingFacts DEF PropsTypeOK, Last
<1>2. level' = (IF level < Last THEN level + 1 ELSE level) /\ propMeta' = 1
      /\ pc' = (IF level < Last THEN "props" ELSE "instance")
  BY DEF NextClass, PcAfterClass
<1>3. /\ level' \in missing + 1 .. Last /\ pc' \in {"props", "instance"}
      /\ pc' = "props" => level' = level + 1
      /\ pc' # "props" => level' = Last /\ level = Last
  BY <1>1, <1>2
<1>4. level' \in 1 .. Len(chain.classes)
  BY <1>1, <1>3
<1>5. Len(chain.classes[level'].own) \in Nat
  BY <1>1, <1>4, SeenFacts
<1>6. QED BY <1>2, <1>3, <1>5

(* What an instance is given as a value.                                   *)
LEMMA ValueIsTyped ==
  ASSUME PropsTypeOK, NEW j \in 1 .. Len(iprops)
  PROVE  Value(j) \in ValueType
<1>1. PICK p : p = iprops[j]
  OBVIOUS
<1>2. p \in Entry(chain) /\ chain \in Chains /\ Len(iprops) \in Nat
  BY <1>1 DEF PropsTypeOK
<1>3. p.DefaultValue \in ValueType
  BY <1>2, EntryFacts
<1>4. Offset(chain, p.Index) \in Nat
  <2>1. p.Index \in 0 .. Len(chain.widths) - 1 /\ Len(chain.widths) \in Nat
    BY <1>2, EntryFacts, SlotFacts
  <2>2. p.Index \in 0 .. Len(chain.widths)
    BY <2>1
  <2>3. QED BY <1>2, <2>2, SlotFacts
<1>5. FlagBytes(Len(iprops)) \in Nat
  BY <1>2, FlagBytesType
<1>6. PICK pos \in Nat : pos = FlagBytes(Len(iprops)) + Offset(chain, p.Index)
  BY <1>4, <1>5
<1>7. OwnValue(pos) \in ValueType
  BY DEF OwnValue, ValueType
<1>8. None \in ValueType
  BY DEF None, ValueType
<1>9. Value(j) = None \/ Value(j) = p.DefaultValue \/ Value(j) = OwnValue(pos)
  BY <1>1, <1>6 DEF Value
<1>10. QED BY <1>3, <1>7, <1>8, <1>9

LEMMA StepPropsType == PropsTypeOK /\ [Next]_vars => PropsTypeOK'
<1>1. SUFFICES ASSUME PropsTypeOK, [Next]_vars PROVE PropsTypeOK'
  OBVIOUS
<1>2. CASE UNCHANGED vars
  BY <1>1, <1>2 DEF PropsTypeOK, vars, input, Last, Class, Entry
<1>3. CASE Next
  <2>1. chain' = chain /\ missing' = missing /\ flagsBuf' = flagsBuf
    BY <1>3 DEF Next, ParseProps, RefusedProp, NewProp, KnownProp, ParsingProp, EndProps,
                EndPropsFails, NoProps, NextClass, Misread, InstValue, InstDone, input
  <2>2. Last' = Last
    BY <2>1 DEF Last
  <2>3. chain' \in Chains /\ missing' \in 0 .. Last' - 1
        /\ flagsBuf' \in [PropsUpTo(chain', Last') -> Flags]
    BY <1>1, <2>1, <2>2 DEF PropsTypeOK
  <2>4. ASSUME pc' \in {"props", "instance", "done", "undefined", "refused", "misread"},
               level' \in missing + 1 .. Last,
               pc' \in {"instance", "done", "misread"} => level' = Last,
               propMeta' \in 1 .. Len(chain.classes[level'].own) + 1,
               iprops' \in Seq(Entry(chain)), Values' \in Seq(ValueType)
        PROVE  PropsTypeOK'
    <3>1. Class' = chain.classes[level']
      BY <2>1 DEF Class
    <3>2. QED BY <2>1, <2>2, <2>3, <2>4, <3>1 DEF PropsTypeOK
  <2>5. /\ Values \in Seq(ValueType) /\ iprops \in Seq(Entry(chain))
        /\ level \in missing + 1 .. Last /\ propMeta \in 1 .. Len(chain.classes[level].own) + 1
        /\ pc \in {"instance", "done", "misread"} => level = Last
    BY <1>1 DEF PropsTypeOK, Class
  <2>6. CASE RefusedProp \/ NewProp \/ KnownProp
    <3>1. /\ pc = "props" /\ propMeta' = propMeta + 1 /\ level' = level /\ Values' = Values
          /\ propMeta <= Len(Class.own)
      BY <2>6 DEF RefusedProp, NewProp, KnownProp, ParsingProp
    <3>2. /\ chain \in Chains /\ level \in 1 .. Len(chain.classes) /\ level \in Nat
          /\ propMeta \in 1 .. Len(chain.classes[level].own)
          /\ Class = chain.classes[level] /\ Len(chain.classes[level].own) \in Nat
      BY <1>1, <3>1, ParsingFacts
    <3>3. propMeta' \in 1 .. Len(chain.classes[level'].own) + 1
      BY <3>1, <3>2
    <3>4. PICK n : n = PropIndex
      OBVIOUS
    <3>5. n = chain.classes[level].own[propMeta]
      BY <3>2, <3>4 DEF PropIndex
    <3>6. n \in 0 .. Len(chain.widths) - 1
      BY <3>2, <3>5, SeenFacts
    <3>7. iprops' \in Seq(Entry(chain)) /\ pc' \in {"props", "undefined"}
      <4>1. CASE RefusedProp
        BY <2>5, <3>1, <4>1 DEF RefusedProp
      <4>2. CASE NewProp
        <5>1. None \in ValueType
          BY DEF None, ValueType
        <5>2. NewEntry \in Entry(chain)
          BY <3>2, <3>4, <3>6, <5>1 DEF NewEntry, Entry
        <5>3. iprops' = Append(iprops, NewEntry) /\ pc' = pc
          BY <4>2 DEF NewProp
        <5>4. QED BY <2>5, <3>1, <5>2, <5>3
      <4>3. CASE KnownProp
        <5>1. CASE n < Len(iprops)
          <6>1. n + 1 \in 1 .. Len(iprops)
            <7>1. Len(iprops) \in Nat /\ Len(chain.widths) \in Nat
              BY <2>5, <3>2, SlotFacts
            <7>2. QED BY <3>6, <5>1, <7>1
          <6>2. /\ iprops' = [iprops EXCEPT ![n + 1].Index = n, ![n + 1].by = level]
                /\ pc' = pc
            BY <3>4, <4>3, <5>1 DEF KnownProp
          <6>3. RedefinedAt(chain, iprops, n, level, iprops')
            BY <2>5, <3>2, <3>6, <6>1, <6>2, ReplaceEntry
          <6>4. QED BY <3>1, <6>2, <6>3 DEF RedefinedAt
        <5>2. CASE ~ n < Len(iprops)
          BY <2>5, <3>4, <4>3, <5>2 DEF KnownProp
        <5>3. QED BY <5>1, <5>2
      <4>4. QED BY <2>6, <4>1, <4>2, <4>3
    <3>8. QED BY <2>4, <2>5, <3>1, <3>3, <3>7
  <2>7. CASE EndProps \/ NoProps
    <3>1. pc = "props" /\ NextClass /\ pc' = PcAfterClass /\ Values' = Values
      BY <2>7 DEF EndProps, NoProps, NextClass
    <3>2. /\ level' \in missing + 1 .. Last /\ pc' \in {"props", "instance"}
          /\ pc' # "props" => level' = Last
          /\ propMeta' \in 1 .. Len(chain.classes[level'].own) + 1
      BY <1>1, <3>1, NextClassFacts
    <3>3. chain \in Chains /\ level \in Nat
      BY <1>1, <3>1, ParsingFacts
    <3>4. iprops' \in Seq(Entry(chain))
      <4>1. CASE EndProps
        <5>1. PICK t \in Sorted(iprops) : iprops' = WithDefaults(t)
          BY <4>1 DEF EndProps
        <5>2. t \in Seq(Entry(chain))
          BY <2>5, SortedFacts
        <5>3. QED BY <3>3, <5>1, <5>2, EndType
      <4>2. CASE NoProps
        BY <2>5, <4>2 DEF NoProps
      <4>3. QED BY <2>7, <4>1, <4>2
    <3>5. QED BY <2>4, <2>5, <3>1, <3>2, <3>4
  <2>8. CASE EndPropsFails \/ Misread \/ InstDone
    <3>1. /\ level' = level /\ propMeta' = propMeta /\ iprops' = iprops /\ Values' = Values
          /\ pc' \in {"refused", "misread", "done"}
          /\ pc' \in {"instance", "done", "misread"} => pc = "instance"
      BY <2>8 DEF EndPropsFails, Misread, InstDone
    <3>2. QED BY <2>4, <2>5, <3>1
  <2>9. CASE InstValue
    <3>1. /\ level' = level /\ propMeta' = propMeta /\ iprops' = iprops /\ pc' = pc
          /\ pc = "instance" /\ Values' = Append(Values, Value(Len(Values) + 1))
          /\ Len(Values) < Len(iprops)
      BY <2>9 DEF InstValue
    <3>2. PICK j : j = Len(Values) + 1
      OBVIOUS
    <3>3. j \in 1 .. Len(iprops)
      <4>1. Len(Values) \in Nat /\ Len(iprops) \in Nat
        BY <2>5
      <4>2. QED BY <3>1, <3>2, <4>1
    <3>4. Value(j) \in ValueType
      BY <1>1, <3>3, ValueIsTyped
    <3>5. Values' \in Seq(ValueType)
      BY <2>5, <3>1, <3>2, <3>4
    <3>6. QED BY <2>4, <2>5, <3>1, <3>5
  <2>10. QED BY <1>3, <2>6, <2>7, <2>8, <2>9 DEF Next, ParseProps
<1>4. QED BY <1>1, <1>2, <1>3
(* A property that the vector has, without a gap in the chain, has none    *)
(* below it: it is at its own place.                                       *)
LEMMA KnownNoGap ==
  ASSUME NEW c \in Chains, NEW m \in Nat, NEW lv \in 1 .. Len(c.classes), m <= lv - 1,
         ~ Gap(c, m), NEW p \in 1 .. Len(c.classes[lv].own), NEW s,
         Vec(c, m, lv - 1, Seen(c, lv, p), s),
         NEW n, n = c.classes[lv].own[p], n \notin c.classes[lv].bad,
         \E j \in 1 .. Len(s) : s[j].Index = n
  PROVE  n \in Taken(c, m, lv - 1) /\ 0 .. n \subseteq Taken(c, m, lv - 1)
<1>1. Len(c.classes) \in Nat /\ lv \in Nat /\ Len(c.widths) \in Nat
  BY ChainsAssumption, SlotFacts
<1>2. n \in Takes(c, lv) /\ n \notin Seen(c, lv, p) /\ n \in 0 .. Len(c.widths) - 1
  BY SeenFacts
<1>3. n \in Taken(c, m, lv - 1)
  <2>1. {s[j].Index : j \in 1 .. Len(s)} = Taken(c, m, lv - 1) \union Seen(c, lv, p)
    BY DEF Vec, Holds
  <2>2. n \in {s[j].Index : j \in 1 .. Len(s)}
    OBVIOUS
  <2>3. QED BY <1>2, <2>1, <2>2
<1>4. lv # m + 1
  <2>1. SUFFICES ASSUME lv = m + 1 PROVE FALSE
    OBVIOUS
  <2>2. lv - 1 = m
    BY <1>1, <2>1
  <2>3. Taken(c, m, m) = {}
    BY TakenNone
  <2>4. QED BY <1>3, <2>2, <2>3
<1>5. lv \in m + 2 .. Len(c.classes)
  BY <1>1, <1>4
<1>6. 0 .. n - 1 \subseteq Taken(c, m, lv - 1)
  BY <1>2, <1>3, <1>5 DEF Gap
<1>7. n \in Nat
  BY <1>1, <1>2
<1>8. 0 .. n = (0 .. n - 1) \union {n}
  BY <1>7
<1>9. QED BY <1>3, <1>6, <1>8

(* One property of a class, as the steps of ParseProps take it.            *)
LEMMA PropFacts ==
  ASSUME PropsTypeOK, pc = "props", propMeta <= Len(Class.own)
  PROVE  /\ PropIndex \in 0 .. Len(chain.widths) - 1
         /\ PropIndex = chain.classes[level].own[propMeta]
         /\ PropIndex \in Class.bad =>
              Seen(chain, level, propMeta + 1) = Seen(chain, level, propMeta)
         /\ PropIndex \notin Class.bad =>
              /\ PropIndex \in Takes(chain, level)
              /\ Seen(chain, level, propMeta + 1) = Seen(chain, level, propMeta) \union {PropIndex}
<1>1. /\ chain \in Chains /\ level \in 1 .. Len(chain.classes)
      /\ propMeta \in 1 .. Len(chain.classes[level].own)
      /\ Class = chain.classes[level]
  BY ParsingFacts
<1>2. PropIndex = chain.classes[level].own[propMeta]
  BY <1>1 DEF PropIndex
<1>3. QED BY <1>1, <1>2, SeenFacts

LEMMA StepVec == PropsTypeOK /\ VecInv /\ [Next]_vars => VecInv'
<1>1. SUFFICES ASSUME PropsTypeOK, VecInv, [Next]_vars, ~ Gap(chain', missing') PROVE
               /\ pc' # "undefined"
               /\ pc' = "props" =>
                    Vec(chain', missing', level' - 1, Seen(chain', level', propMeta'), iprops')
               /\ Filled' => Vec(chain', missing', Last', {}, iprops')
  BY DEF VecInv
<1>2. CASE UNCHANGED vars
  <2>1. /\ chain' = chain /\ missing' = missing /\ pc' = pc /\ level' = level
        /\ propMeta' = propMeta /\ iprops' = iprops /\ Last' = Last /\ Filled' = Filled
    BY <1>2 DEF vars, input, Last, Filled
  <2>2. QED BY <1>1, <2>1 DEF VecInv
<1>3. CASE Next
  <2>1. PICK c, m, N : c = chain /\ m = missing /\ N = Last
    OBVIOUS
  <2>2. chain' = c /\ missing' = m /\ Last' = N
    <3>1. chain' = chain /\ missing' = missing
      BY <1>3 DEF Next, ParseProps, RefusedProp, NewProp, KnownProp, ParsingProp, EndProps,
                  EndPropsFails, NoProps, NextClass, Misread, InstValue, InstDone, input
    <3>2. QED BY <2>1, <3>1 DEF Last
  <2>3. ~ Gap(c, m)
    BY <1>1, <2>2
  <2>4. /\ pc # "undefined"
        /\ pc = "props" => Vec(c, m, level - 1, Seen(c, level, propMeta), iprops)
        /\ pc \in {"instance", "done", "misread"} => Vec(c, m, N, {}, iprops)
    BY <1>1, <2>1, <2>3 DEF VecInv, Filled
  <2>5. ASSUME pc' = "props" => Vec(c, m, level' - 1, Seen(c, level', propMeta'), iprops'),
               pc' \in {"instance", "done", "misread"} => Vec(c, m, N, {}, iprops'),
               pc' # "undefined"
        PROVE  /\ pc' # "undefined"
               /\ pc' = "props" =>
                    Vec(chain', missing', level' - 1, Seen(chain', level', propMeta'), iprops')
               /\ Filled' => Vec(chain', missing', Last', {}, iprops')
    BY <2>2, <2>5 DEF Filled
  <2> DEFINE Goal == /\ pc' = "props" => Vec(c, m, level' - 1, Seen(c, level', propMeta'), iprops')
                     /\ pc' \in {"instance", "done", "misread"} => Vec(c, m, N, {}, iprops')
                     /\ pc' # "undefined"
  <2>6. SUFFICES Goal
    BY <2>5
  <2>7. iprops \in Seq(Entry(c)) /\ DOMAIN iprops = 1 .. Len(iprops)
    BY <1>1, <2>1 DEF PropsTypeOK
  <2>8. CASE RefusedProp \/ NewProp \/ KnownProp
    <3>1. /\ pc = "props" /\ propMeta' = propMeta + 1 /\ level' = level
          /\ propMeta <= Len(Class.own)
      BY <2>8 DEF RefusedProp, NewProp, KnownProp, ParsingProp
    <3>2. PICK n, lv, p : n = PropIndex /\ lv = level /\ p = propMeta
      OBVIOUS
    <3>3. /\ c \in Chains /\ m \in Nat /\ lv \in Nat /\ lv \in 1 .. Len(c.classes)
          /\ lv - 1 \in 0 .. Len(c.classes) /\ m <= lv - 1
          /\ p \in 1 .. Len(c.classes[lv].own) /\ Class = c.classes[lv]
      BY <1>1, <2>1, <3>1, <3>2, ParsingFacts
    <3>4. /\ n \in 0 .. Len(c.widths) - 1 /\ n = c.classes[lv].own[p]
          /\ n \in Class.bad => Seen(c, lv, p + 1) = Seen(c, lv, p)
          /\ n \notin Class.bad => Seen(c, lv, p + 1) = Seen(c, lv, p) \union {n}
      BY <1>1, <2>1, <3>1, <3>2, PropFacts
    <3>5. Vec(c, m, lv - 1, Seen(c, lv, p), iprops)
      BY <2>4, <3>1, <3>2
    <3>6. PICK s : s = iprops
      OBVIOUS
    <3>7. s \in Seq(Entry(c)) /\ Vec(c, m, lv - 1, Seen(c, lv, p), s)
      BY <2>7, <3>5, <3>6
    <3>8. pc' = "props" /\ Vec(c, m, lv - 1, Seen(c, lv, p + 1), iprops')
      <4>1. CASE RefusedProp
        <5>1. pc' = pc /\ iprops' = s /\ n \in Class.bad
          BY <3>2, <3>6, <4>1 DEF RefusedProp
        <5>2. QED BY <3>1, <3>4, <3>7, <5>1
      <4>2. CASE NewProp
        <5>1. pc' = pc /\ iprops' = Append(s, NewEntry) /\ n \notin Class.bad
              /\ ~ FindProp(n, s)
          BY <3>2, <3>6, <4>2 DEF NewProp
        <5>2. PICK e : e = NewEntry
          OBVIOUS
        <5>3. e \in Entry(c) /\ e.Index = n
          <6>1. None \in ValueType
            BY DEF None, ValueType
          <6>2. QED BY <3>2, <3>3, <3>4, <5>2, <6>1 DEF NewEntry, Entry
        <5>4. e.Index \notin Taken(c, m, lv - 1) \union Seen(c, lv, p)
          <6>1. \A j \in 1 .. Len(s) : s[j].Index # n
            BY <2>7, <3>6, <5>1 DEF FindProp
          <6>2. {s[j].Index : j \in 1 .. Len(s)} = Taken(c, m, lv - 1) \union Seen(c, lv, p)
            BY <3>7 DEF Vec, Holds
          <6>3. QED BY <5>3, <6>1, <6>2
        <5>5. Appended(c, m, lv - 1, Seen(c, lv, p), s, e, Append(s, e))
          BY <3>3, <3>7, <5>3, <5>4, AppendVec
        <5>6. Vec(c, m, lv - 1, Seen(c, lv, p) \union {n}, Append(s, e))
          BY <5>3, <5>5 DEF Appended
        <5>7. QED BY <3>1, <3>4, <5>1, <5>2, <5>6
      <4>3. CASE KnownProp
        <5>1. n \notin Class.bad /\ FindProp(n, s)
          BY <3>2, <3>6, <4>3 DEF KnownProp
        <5>2. \E j \in 1 .. Len(s) : s[j].Index = n
          BY <2>7, <3>6, <5>1 DEF FindProp
        <5>3. n \in Taken(c, m, lv - 1) /\ 0 .. n \subseteq Taken(c, m, lv - 1)
          BY <2>3, <3>3, <3>4, <3>7, <5>1, <5>2, KnownNoGap
        <5>4. PICK t : t = [s EXCEPT ![n + 1].Index = n, ![n + 1].by = lv]
          OBVIOUS
        <5>5. Replaced(c, m, lv - 1, Seen(c, lv, p), s, n, lv, t)
          BY <3>3, <3>7, <5>3, <5>4, ReplaceVec
        <5>6. n < Len(s) /\ Vec(c, m, lv - 1, Seen(c, lv, p) \union {n}, t)
          BY <5>5 DEF Replaced
        <5>7. pc' = pc /\ iprops' = t
          BY <3>2, <3>6, <4>3, <5>4, <5>6 DEF KnownProp
        <5>8. QED BY <3>1, <3>4, <5>1, <5>6, <5>7
      <4>4. QED BY <2>8, <4>1, <4>2, <4>3
    <3>9. QED BY <3>1, <3>2, <3>8
  <2>9. CASE EndProps \/ NoProps
    <3>1. pc = "props" /\ NextClass /\ pc' = PcAfterClass
      BY <2>9 DEF EndProps, NoProps, NextClass
    <3>2. PICK lv, s : lv = level /\ s = iprops
      OBVIOUS
    <3>3. /\ c \in Chains /\ m \in Nat /\ lv \in Nat /\ lv \in 1 .. Len(c.classes)
          /\ lv - 1 \in 0 .. Len(c.classes) - 1 /\ lv - 1 + 1 = lv /\ m <= lv - 1
          /\ Class = c.classes[lv] /\ propMeta \in 1 .. Len(c.classes[lv].own) + 1
          /\ Len(c.classes[lv].own) \in Nat
      BY <1>1, <2>1, <3>1, <3>2, ParsingFacts
    <3>4. Vec(c, m, lv - 1, Seen(c, lv, propMeta), s) /\ s \in Seq(Entry(c))
      BY <2>4, <2>7, <3>1, <3>2
    <3>5. Vec(c, m, lv, {}, iprops')
      <4>1. CASE EndProps
        <5>1. propMeta = Len(c.classes[lv].own) + 1
          BY <3>3, <4>1 DEF EndProps
        <5>2. Seen(c, lv, propMeta) = Takes(c, lv)
          BY <3>3, <5>1, SeenFacts
        <5>3. PICK t \in Sorted(s) : iprops' = WithDefaults(t)
          BY <3>2, <4>1 DEF EndProps
        <5>4. PICK k : k = lv - 1
          OBVIOUS
        <5>5. Vec(c, m, k + 1, {}, t)
          BY <3>3, <3>4, <5>2, <5>4, SortVec
        <5>6. t \in Seq(Entry(c))
          BY <3>4, SortedFacts
        <5>7. PICK u : u = WithDefaults(t)
          OBVIOUS
        <5>8. Len(u) = Len(t) /\ \A j \in 1 .. Len(t) : u[j].Index = t[j].Index
          BY <2>1, <3>2, <3>3, <5>6, <5>7, EndType
        <5>9. Taken(c, m, lv) \subseteq Nat
          <6>1. lv \in 0 .. Len(c.classes) /\ Len(c.widths) \in Nat
            BY <3>3, SlotFacts
          <6>2. QED BY <3>3, <6>1, TakenBound
        <5>10. Once(t) /\ Holds(t, Taken(c, m, lv) \union {}) /\ InPlace(c, m, lv, t)
          BY <3>3, <5>4, <5>5 DEF Vec
        <5>11. Len(t) \in Nat
          BY <5>6
        <5>12. Once(u) /\ Holds(u, Taken(c, m, lv) \union {}) /\ InPlace(c, m, lv, u)
          BY <5>8, <5>9, <5>10, <5>11, SameIndexes
        <5>13. QED BY <5>3, <5>7, <5>12 DEF Vec
      <4>2. CASE NoProps
        <5>1. c.classes[lv].own = <<>> /\ iprops' = s
          BY <3>2, <3>3, <4>2 DEF NoProps
        <5>2. Len(c.classes[lv].own) = 0
          BY <5>1
        <5>3. Seen(c, lv, propMeta) = {} /\ Takes(c, lv) = {}
          <6>1. propMeta = 1 /\ propMeta = Len(c.classes[lv].own) + 1
            BY <3>3, <5>2
          <6>2. QED BY <3>3, <6>1, SeenFacts
        <5>4. Taken(c, m, lv) = Taken(c, m, lv - 1)
          <6>1. PICK k \in Nat : k = lv - 1 /\ lv = k + 1
            BY <3>3
          <6>2. m \in Nat /\ k \in Nat /\ m <= k /\ lv = k + 1
            BY <3>3, <6>1
          <6>3. Taken(c, m, lv) = Taken(c, m, k) \union Takes(c, lv)
            BY ONLY <6>2, TakenNext
          <6>4. QED BY <5>3, <6>1, <6>3
        <5>5. QED BY <3>4, <5>1, <5>3, <5>4 DEF Vec, Once, Holds, InPlace
      <4>3. QED BY <2>9, <4>1, <4>2
    <3>6. /\ pc' \in {"props", "instance"} /\ level' \in missing + 1 .. Last
          /\ pc' = "props" => level' = lv + 1
          /\ pc' # "props" => lv = N
          /\ propMeta' = 1
      BY <1>1, <2>1, <3>1, <3>2, NextClassFacts
    <3>7. CASE pc' = "props"
      <4>1. level' - 1 = lv
        BY <3>3, <3>6, <3>7
      <4>2. level' \in 1 .. Len(c.classes)
        <5>1. Last = Len(c.classes) /\ missing = m
          BY <2>1 DEF Last
        <5>2. QED BY <3>3, <3>6, <5>1
      <4>3. Seen(c, level', propMeta') = {}
        BY <3>3, <3>6, <4>2, SeenFacts
      <4>4. QED BY <3>5, <3>7, <4>1, <4>3
    <3>8. CASE pc' # "props"
      BY <3>5, <3>6, <3>8
    <3>9. QED BY <3>7, <3>8
  <2>10. CASE EndPropsFails \/ Misread \/ InstDone \/ InstValue
    <3>1. /\ pc' \in {"refused", "misread", "done", "instance"} /\ iprops' = iprops
          /\ pc' # "refused" => pc = "instance"
      BY <2>10 DEF EndPropsFails, Misread, InstDone, InstValue
    <3>2. QED BY <2>4, <3>1
  <2>11. HIDE DEF Goal
  <2>12. QED BY <1>3, <2>8, <2>9, <2>10 DEF Next, ParseProps
<1>4. QED BY <1>1, <1>2, <1>3
(* What the vector of a whole chain has when all classes are parsed.       *)
LEMMA WholeFacts ==
  ASSUME PropsTypeOK, VecInv, Whole(chain, missing), Filled
  PROVE  \E n \in Nat :
           /\ n = Cardinality(PropsUpTo(chain, Last)) /\ PropsUpTo(chain, Last) = 0 .. n - 1
           /\ n <= Len(chain.widths) /\ Len(iprops) = n
           /\ \A j \in 1 .. n : iprops[j].Index = j - 1
<1>1. /\ chain \in Chains /\ missing = 0 /\ Last = Len(chain.classes) /\ Last \in Nat
      /\ Last \in 1 .. Len(chain.classes)
  <2>1. chain \in Chains /\ missing = 0 /\ missing \in 0 .. Last - 1 /\ Last = Len(chain.classes)
    BY DEF PropsTypeOK, Whole, Last
  <2>2. Last \in Nat
    BY <2>1, ChainsAssumption
  <2>3. QED BY <2>1, <2>2
<1>2. PICK n \in Nat :
        /\ n = Cardinality(PropsUpTo(chain, Last)) /\ PropsUpTo(chain, Last) = 0 .. n - 1
        /\ n <= Len(chain.widths)
  BY <1>1, ClassFacts
<1>3. Taken(chain, 0, Last) = 0 .. n - 1
  BY <1>1, <1>2, WholeTaken
<1>4. Vec(chain, 0, Last, {}, iprops)
  BY <1>1, WholeNoGap DEF VecInv
<1>5. Len(iprops) \in Nat
  BY DEF PropsTypeOK
<1>6. Len(iprops) = n /\ \A j \in 1 .. n : iprops[j].Index = j - 1
  BY <1>1, <1>3, <1>4, <1>5, WholeVec
<1>7. QED BY <1>2, <1>6

(* The record of an instance is then read the way it was written.          *)
LEMMA SizeFacts ==
  ASSUME PropsTypeOK, VecInv, Whole(chain, missing), Filled
  PROVE  /\ SizeOfProps = Offset(chain, Cardinality(PropsUpTo(chain, Last)))
         /\ ReadAsWritten
<1>1. PICK n \in Nat :
        /\ n = Cardinality(PropsUpTo(chain, Last))
        /\ n <= Len(chain.widths) /\ Len(iprops) = n
        /\ \A j \in 1 .. n : iprops[j].Index = j - 1
  BY WholeFacts
<1>2. PICK N, w, f : N = Len(chain.widths) /\ w = chain.widths /\ AreSums(f, w, N)
                     /\ \A x \in 0 .. N : Offset(chain, x) = f[x]
  BY Offsets DEF PropsTypeOK
<1>3. N \in Nat /\ n <= N
  BY <1>1, <1>2, SlotFacts DEF PropsTypeOK
<1>4. PICK v : v = [j \in 1 .. n |-> Width(iprops[j])]
  OBVIOUS
<1>5. \A j \in 1 .. n : v[j] = w[j]
  BY <1>1, <1>2, <1>4 DEF Width
<1>6. PICK g : g = CHOOSE h : h = [j \in 0 .. n |-> IF j = 0 THEN 0 ELSE h[j - 1] + Width(iprops[j])]
  OBVIOUS
<1>7. SizeOfProps = g[n]
  BY <1>1, <1>6 DEF SizeOfProps
<1>8. PICK h : AreSums(h, v, n)
  BY SumsExist
<1>9. h = [j \in 0 .. n |-> IF j = 0 THEN 0 ELSE h[j - 1] + Width(iprops[j])]
  <2>1. \A j \in 0 .. n : NextSum(h, v, j) = IF j = 0 THEN 0 ELSE h[j - 1] + Width(iprops[j])
    BY <1>4 DEF NextSum
  <2>2. h = [j \in 0 .. n |-> NextSum(h, v, j)]
    BY <1>8 DEF AreSums
  <2>3. QED BY <2>1, <2>2
<1>10. g = [j \in 0 .. n |-> IF j = 0 THEN 0 ELSE g[j - 1] + Width(iprops[j])]
  BY <1>6, <1>9
<1>11. AreSums(g, v, n)
  <2>1. \A j \in 0 .. n : NextSum(g, v, j) = IF j = 0 THEN 0 ELSE g[j - 1] + Width(iprops[j])
    BY <1>4 DEF NextSum
  <2>2. g = [j \in 0 .. n |-> NextSum(g, v, j)]
    BY <1>10, <2>1
  <2>3. QED BY <2>2 DEF AreSums
<1>12. \A j \in 0 .. n : g[j] = f[j]
  BY <1>2, <1>3, <1>5, <1>11, SumsAgree
<1>13. n \in 0 .. n /\ n \in 0 .. N
  BY <1>3
<1>14. SizeOfProps = Offset(chain, n)
  BY <1>2, <1>7, <1>12, <1>13
<1>15. level = Last
  BY DEF PropsTypeOK, Filled
<1>16. ReadAsWritten
  BY <1>1, <1>14, <1>15 DEF ReadAsWritten, TableSize
<1>17. QED BY <1>1, <1>14, <1>16
(* A class that lists nothing gives nothing.                               *)
LEMMA NoneFull ==
  ASSUME NEW c \in Chains, NEW k \in Nat, k + 1 \in 1 .. Len(c.classes),
         OwnProps(c.classes[k + 1]) = {}, NEW s, Full(c, k, {}, s)
  PROVE  Full(c, k + 1, {}, s)
<1>1. ASSUME NEW x PROVE ~ Gives(c, k + 1, x)
  <2>1. SUFFICES ASSUME x \in PropsUpTo(c, k + 1), c.classes[k + 1].flags[x] = 0 PROVE FALSE
    BY DEF Gives
  <2>2. PICK n \in Nat :
          /\ PropsUpTo(c, k + 1) = 0 .. n - 1
          /\ \A i \in (0 .. n - 1) \ OwnProps(c.classes[k + 1]) : Bit1(c.classes[k + 1].flags[i])
    BY ClassFacts
  <2>3. Bit1(c.classes[k + 1].flags[x])
    BY <2>1, <2>2
  <2>4. QED BY <2>1, <2>3 DEF Bit1
<1>2. ASSUME NEW j \in 1 .. Len(s)
      PROVE  /\ Defines(c, k + 1, s[j].Index, s[j].by)
             /\ DefaultRight(c, k + 1, s[j].Index, s[j].DefaultValue)
  <2>1. PICK x, y, d : x = s[j].Index /\ y = s[j].by /\ d = s[j].DefaultValue
    OBVIOUS
  <2>2. Defines(c, k, x, y) /\ DefaultRight(c, k, x, d)
    BY <2>1 DEF Full
  <2>3. Defines(c, k + 1, x, y)
    BY <2>2, DefinesStep
  <2>4. DefaultRight(c, k + 1, x, d)
    BY <1>1, <2>2, DefaultStep
  <2>5. QED BY <2>1, <2>3, <2>4
<1>3. QED BY <1>2 DEF Full

LEMMA StepFull == PropsTypeOK /\ VecInv /\ FullInv /\ [Next]_vars => FullInv'
<1>1. SUFFICES ASSUME PropsTypeOK, VecInv, FullInv, [Next]_vars, Whole(chain', missing') PROVE
               /\ pc' \notin {"refused", "misread"}
               /\ pc' = "props" => Full(chain', level' - 1, Seen(chain', level', propMeta'), iprops')
               /\ Filled' => Full(chain', Last', {}, iprops')
  BY DEF FullInv
<1>2. CASE UNCHANGED vars
  <2>1. /\ chain' = chain /\ missing' = missing /\ pc' = pc /\ level' = level
        /\ propMeta' = propMeta /\ iprops' = iprops /\ Last' = Last /\ Filled' = Filled
    BY <1>2 DEF vars, input, Last, Filled
  <2>2. QED BY <1>1, <2>1 DEF FullInv
<1>3. CASE Next
  <2>1. PICK c, N : c = chain /\ N = Last
    OBVIOUS
  <2>2. chain' = c /\ Last' = N /\ missing' = missing
    <3>1. chain' = chain /\ missing' = missing
      BY <1>3 DEF Next, ParseProps, RefusedProp, NewProp, KnownProp, ParsingProp, EndProps,
                  EndPropsFails, NoProps, NextClass, Misread, InstValue, InstDone, input
    <3>2. QED BY <2>1, <3>1 DEF Last
  <2>3. missing = 0 /\ Whole(c, 0) /\ c \in Chains /\ Whole(chain, missing)
    BY <1>1, <2>1, <2>2 DEF Whole, PropsTypeOK
  <2>4. ~ Gap(c, 0)
    BY <2>3, WholeNoGap
  <2>5. /\ pc \notin {"refused", "misread", "undefined"}
        /\ pc = "props" => /\ Vec(c, 0, level - 1, Seen(c, level, propMeta), iprops)
                           /\ Full(c, level - 1, Seen(c, level, propMeta), iprops)
        /\ pc \in {"instance", "done"} => Full(c, N, {}, iprops)
    BY <1>1, <2>1, <2>3, <2>4 DEF VecInv, FullInv, Filled
  <2> DEFINE Goal == /\ pc' \notin {"refused", "misread"}
                     /\ pc' = "props" => Full(c, level' - 1, Seen(c, level', propMeta'), iprops')
                     /\ pc' \in {"instance", "done", "misread"} => Full(c, N, {}, iprops')
  <2>6. SUFFICES Goal
    BY <2>2 DEF Filled
  <2>7. iprops \in Seq(Entry(c)) /\ DOMAIN iprops = 1 .. Len(iprops)
    BY <1>1, <2>1 DEF PropsTypeOK
  <2>8. CASE RefusedProp \/ NewProp \/ KnownProp
    <3>1. /\ pc = "props" /\ propMeta' = propMeta + 1 /\ level' = level
          /\ propMeta <= Len(Class.own)
      BY <2>8 DEF RefusedProp, NewProp, KnownProp, ParsingProp
    <3>2. PICK n, lv, p, s : n = PropIndex /\ lv = level /\ p = propMeta /\ s = iprops
      OBVIOUS
    <3>3. /\ lv \in Nat /\ lv \in 1 .. Len(c.classes)
          /\ lv - 1 \in 0 .. Len(c.classes) /\ 0 <= lv - 1 /\ lv - 1 + 1 = lv
          /\ p \in 1 .. Len(c.classes[lv].own) /\ Class = c.classes[lv]
      BY <1>1, <2>1, <2>3, <3>1, <3>2, ParsingFacts
    <3>4. /\ n \in 0 .. Len(c.widths) - 1 /\ n = c.classes[lv].own[p]
          /\ n \in Class.bad => Seen(c, lv, p + 1) = Seen(c, lv, p)
          /\ n \notin Class.bad => Seen(c, lv, p + 1) = Seen(c, lv, p) \union {n}
      BY <1>1, <2>1, <3>1, <3>2, PropFacts
    <3>5. /\ Vec(c, 0, lv - 1, Seen(c, lv, p), s) /\ Full(c, lv - 1, Seen(c, lv, p), s)
          /\ s \in Seq(Entry(c))
      BY <2>5, <2>7, <3>1, <3>2
    <3>6. PICK k : k = lv - 1 /\ k + 1 = lv
      BY <3>3
    <3>7. /\ k \in 0 .. Len(c.classes) /\ 0 \in Nat /\ Vec(c, 0, k, Seen(c, lv, p), s)
          /\ Full(c, k, Seen(c, lv, p), s)
      BY <3>3, <3>5, <3>6
    <3>8. pc' = "props" /\ Full(c, k, Seen(c, lv, p + 1), iprops')
      <4>1. CASE RefusedProp
        <5>1. pc' = pc /\ iprops' = s /\ n \in Class.bad
          BY <3>2, <4>1 DEF RefusedProp
        <5>2. QED BY <3>1, <3>4, <3>7, <5>1
      <4>2. CASE NewProp
        <5>1. pc' = pc /\ iprops' = Append(s, NewEntry) /\ n \notin Class.bad
              /\ ~ FindProp(n, s)
          BY <3>2, <4>2 DEF NewProp
        <5>2. PICK e : e = NewEntry
          OBVIOUS
        <5>3. e \in Entry(c) /\ e = [Index |-> n, by |-> k + 1, DefaultValue |-> None]
          <6>1. None \in ValueType
            BY DEF None, ValueType
          <6>2. QED BY <3>2, <3>3, <3>4, <3>6, <5>2, <6>1 DEF NewEntry, Entry
        <5>4. n \notin Taken(c, 0, k) \union Seen(c, lv, p)
          <6>1. \A j \in 1 .. Len(s) : s[j].Index # n
            BY <2>7, <3>2, <5>1 DEF FindProp
          <6>2. {s[j].Index : j \in 1 .. Len(s)} = Taken(c, 0, k) \union Seen(c, lv, p)
            BY <3>7 DEF Vec, Holds
          <6>3. QED BY <6>1, <6>2
        <5>5. ASSUME NEW l \in 1 .. k PROVE ~ Gives(c, l, n)
          <6>1. l \in 1 .. Len(c.classes) /\ 0 + 1 .. l \subseteq 0 + 1 .. k
            BY <3>3, <3>6
          <6>2. PropsUpTo(c, l) = Taken(c, 0, l)
            BY <2>3, <6>1, WholeTaken
          <6>3. Taken(c, 0, l) \subseteq Taken(c, 0, k)
            BY <6>1 DEF Taken
          <6>4. QED BY <5>4, <6>2, <6>3 DEF Gives
        <5>6. Full(c, k, Seen(c, lv, p) \union {n}, Append(s, e))
          BY <2>3, <3>5, <3>7, <5>3, <5>4, <5>5, AppendFull
        <5>7. QED BY <3>1, <3>4, <5>1, <5>2, <5>6
      <4>3. CASE KnownProp
        <5>1. n \notin Class.bad /\ FindProp(n, s)
          BY <3>2, <4>3 DEF KnownProp
        <5>2. \E j \in 1 .. Len(s) : s[j].Index = n
          BY <2>7, <3>2, <5>1 DEF FindProp
        <5>3. n \in Taken(c, 0, lv - 1) /\ 0 .. n \subseteq Taken(c, 0, lv - 1)
          BY <2>3, <2>4, <3>3, <3>4, <3>5, <3>7, <5>1, <5>2, KnownNoGap
        <5>4. PICK t : t = [s EXCEPT ![n + 1].Index = n, ![n + 1].by = k + 1]
          OBVIOUS
        <5>5. n \in Taken(c, 0, k) /\ 0 .. n \subseteq Taken(c, 0, k)
          BY <3>6, <5>3
        <5>6. Full(c, k, Seen(c, lv, p) \union {n}, t)
          BY <2>3, <3>5, <3>7, <5>4, <5>5, ReplaceFull
        <5>7. n < Len(s)
          <6>1. n + 1 <= Len(s)
            BY <3>7, <5>5 DEF Vec, InPlace
          <6>2. n \in Nat /\ Len(s) \in Nat
            BY <2>3, <3>4, <3>5, SlotFacts
          <6>3. QED BY <6>1, <6>2
        <5>8. pc' = pc /\ iprops' = t
          BY <3>2, <3>6, <4>3, <5>4, <5>7 DEF KnownProp
        <5>9. QED BY <3>1, <3>4, <5>1, <5>6, <5>8
      <4>4. QED BY <2>8, <4>1, <4>2, <4>3
    <3>9. QED BY <3>1, <3>2, <3>6, <3>8
  <2>9. CASE EndProps \/ NoProps
    <3>1. pc = "props" /\ NextClass /\ pc' = PcAfterClass
      BY <2>9 DEF EndProps, NoProps, NextClass
    <3>2. PICK lv, s : lv = level /\ s = iprops
      OBVIOUS
    <3>3. /\ lv \in Nat /\ lv \in 1 .. Len(c.classes)
          /\ lv - 1 \in 0 .. Len(c.classes) - 1 /\ lv - 1 + 1 = lv /\ lv - 1 \in Nat
          /\ Class = c.classes[lv] /\ propMeta \in 1 .. Len(c.classes[lv].own) + 1
          /\ Len(c.classes[lv].own) \in Nat
      <4>1. /\ lv \in Nat /\ lv \in 1 .. Len(c.classes)
            /\ lv - 1 \in 0 .. Len(c.classes) - 1 /\ lv - 1 + 1 = lv
            /\ Class = c.classes[lv] /\ propMeta \in 1 .. Len(c.classes[lv].own) + 1
            /\ Len(c.classes[lv].own) \in Nat
        BY <1>1, <2>1, <3>1, <3>2, ParsingFacts
      <4>2. QED BY <4>1
    <3>4. /\ Vec(c, 0, lv - 1, Seen(c, lv, propMeta), s) /\ s \in Seq(Entry(c))
          /\ Full(c, lv - 1, Seen(c, lv, propMeta), s)
      BY <2>5, <2>7, <3>1, <3>2
    <3>5. PICK k : k = lv - 1 /\ k + 1 = lv
      BY <3>3
    <3>6. Full(c, lv, {}, iprops')
      <4>1. CASE EndProps
        <5>1. propMeta = Len(c.classes[lv].own) + 1
          BY <3>3, <4>1 DEF EndProps
        <5>2. Seen(c, lv, propMeta) = Takes(c, lv)
          BY <2>3, <3>3, <5>1, SeenFacts
        <5>3. PICK t \in Sorted(iprops) : iprops' = WithDefaults(t)
          BY <4>1 DEF EndProps
        <5>4. /\ k \in 0 .. Len(chain.classes) - 1 /\ level = k + 1
              /\ iprops \in Seq(Entry(chain)) /\ chain \in Chains /\ Whole(chain, 0)
              /\ Vec(chain, 0, k, Takes(chain, k + 1), iprops)
              /\ Full(chain, k, Takes(chain, k + 1), iprops)
          BY <2>1, <2>3, <3>2, <3>3, <3>4, <3>5, <5>2
        <5>5. Full(chain, k + 1, {}, WithDefaults(t))
          BY <5>4, EndFull
        <5>6. QED BY <2>1, <3>5, <5>3, <5>5
      <4>2. CASE NoProps
        <5>1. c.classes[lv].own = <<>> /\ iprops' = s
          BY <3>2, <3>3, <4>2 DEF NoProps
        <5>2. Len(c.classes[lv].own) = 0
          BY <5>1
        <5>3. Seen(c, lv, propMeta) = {} /\ OwnProps(c.classes[lv]) = {}
          <6>1. propMeta = 1
            BY <3>3, <5>2
          <6>2. QED BY <2>3, <3>3, <5>1, <6>1, SeenFacts DEF OwnProps
        <5>4. /\ k \in Nat /\ k + 1 \in 1 .. Len(c.classes) /\ OwnProps(c.classes[k + 1]) = {}
              /\ Full(c, k, {}, s)
          BY <3>3, <3>4, <3>5, <5>3
        <5>5. Full(c, k + 1, {}, s)
          BY <2>3, <5>4, NoneFull
        <5>6. QED BY <3>5, <5>1, <5>5
      <4>3. QED BY <2>9, <4>1, <4>2
    <3>7. /\ pc' \in {"props", "instance"} /\ level' \in missing + 1 .. Last
          /\ pc' = "props" => level' = lv + 1
          /\ pc' # "props" => lv = N
          /\ propMeta' = 1
      BY <1>1, <2>1, <3>1, <3>2, NextClassFacts
    <3>8. CASE pc' = "props"
      <4>1. level' - 1 = lv
        BY <3>3, <3>7, <3>8
      <4>2. level' \in 1 .. Len(c.classes)
        <5>1. Last = Len(c.classes) /\ missing = 0
          BY <2>1, <2>3 DEF Last
        <5>2. QED BY <3>3, <3>7, <5>1
      <4>3. Seen(c, level', propMeta') = {}
        BY <2>3, <3>7, <4>2, SeenFacts
      <4>4. QED BY <3>6, <3>8, <4>1, <4>3
    <3>9. CASE pc' # "props"
      BY <3>6, <3>7, <3>9
    <3>10. QED BY <3>8, <3>9
  <2>10. CASE EndPropsFails
    <3>1. pc = "props" /\ iprops = <<>> /\ Class.own # <<>> /\ propMeta = Len(Class.own) + 1
      BY <2>10 DEF EndPropsFails
    <3>2. PICK lv : lv = level
      OBVIOUS
    <3>3. /\ lv \in 1 .. Len(c.classes) /\ Class = c.classes[lv]
      BY <1>1, <2>1, <3>1, <3>2, ParsingFacts
    <3>4. Seen(c, lv, propMeta) = Takes(c, lv) /\ Holds(<<>>, Taken(c, 0, lv - 1) \union Takes(c, lv))
      <4>1. Seen(c, lv, propMeta) = Takes(c, lv)
        BY <2>3, <3>1, <3>3, SeenFacts
      <4>2. QED BY <2>5, <3>1, <3>2, <4>1 DEF Vec
    <3>5. Takes(c, lv) = {}
      <4>1. Len(<<>>) = 0 /\ 1 .. 0 = {}
        OBVIOUS
      <4>2. QED BY <3>4, <4>1 DEF Holds
    <3>6. OwnProps(c.classes[lv]) = {}
      <4>1. DOMAIN c.classes = 1 .. Len(c.classes)
        BY <2>3, ChainsAssumption
      <4>2. c.classes[lv].bad = {}
        BY <2>3, <3>3, <4>1 DEF Whole
      <4>3. QED BY <3>5, <4>2 DEF Takes
    <3>7. c.classes[lv].own \in Seq(Nat)
      BY <2>3, <3>3, ClassFacts
    <3>8. 1 \in DOMAIN c.classes[lv].own
      BY <3>1, <3>3, <3>7
    <3>9. QED BY <3>6, <3>8 DEF OwnProps
  <2>11. CASE Misread
    BY <1>1, <2>3, <2>11, SizeFacts DEF Misread, Filled
  <2>12. CASE InstDone \/ InstValue
    <3>1. pc' \in {"done", "instance"} /\ iprops' = iprops /\ pc = "instance"
      BY <2>12 DEF InstDone, InstValue
    <3>2. QED BY <2>5, <3>1
  <2>13. HIDE DEF Goal
  <2>14. QED BY <1>3, <2>8, <2>9, <2>10, <2>11, <2>12 DEF Next, ParseProps
<1>4. QED BY <1>1, <1>2, <1>3
LEMMA ValueFacts ==
  ASSUME PropsTypeOK, VecInv, Whole(chain, missing), Filled, NEW j \in 1 .. Len(iprops)
  PROVE  Value(j) = ValueOf(chain, flagsBuf, iprops[j], j)
<1>1. PICK n, p : n = Cardinality(PropsUpTo(chain, Last)) /\ p = iprops[j]
  OBVIOUS
<1>2. SizeOfProps = Offset(chain, n)
  BY <1>1, SizeFacts
<1>3. Len(iprops) = n
  BY <1>1, WholeFacts
<1>4. SlotRead(p) <=> Offset(chain, p.Index) + chain.widths[p.Index + 1] < Offset(chain, n)
  BY <1>2 DEF SlotRead, Width
<1>5. QED BY <1>1, <1>3, <1>4 DEF Value, ValueOf, Last

LEMMA StepValues == PropsTypeOK /\ VecInv /\ ValuesInv /\ [Next]_vars => ValuesInv'
<1>1. SUFFICES ASSUME PropsTypeOK, VecInv, ValuesInv, [Next]_vars PROVE
               /\ pc' = "props" => Values' = <<>>
               /\ Filled' => Len(Values') <= Len(iprops')
               /\ pc' = "done" => Len(Values') = Len(iprops')
               /\ Whole(chain', missing') /\ Filled' =>
                    \A j \in 1 .. Len(Values') :
                      Values'[j] = ValueOf(chain', flagsBuf', iprops'[j], j)
  BY DEF ValuesInv
<1>2. CASE UNCHANGED vars
  <2>1. /\ chain' = chain /\ missing' = missing /\ pc' = pc /\ flagsBuf' = flagsBuf
        /\ Values' = Values /\ iprops' = iprops /\ Filled' = Filled
    BY <1>2 DEF vars, input, Filled
  <2>2. QED BY <1>1, <2>1 DEF ValuesInv
<1>3. CASE Next
  <2>1. chain' = chain /\ missing' = missing /\ flagsBuf' = flagsBuf
    BY <1>3 DEF Next, ParseProps, RefusedProp, NewProp, KnownProp, ParsingProp, EndProps,
                EndPropsFails, NoProps, NextClass, Misread, InstValue, InstDone, input
  <2>2. Values \in Seq(ValueType) /\ iprops \in Seq(Entry(chain)) /\ Len(iprops) \in Nat
    BY <1>1 DEF PropsTypeOK
  <2>3. CASE ParseProps
    <3>1. pc = "props" /\ Values' = Values /\ pc' \in {"props", "undefined", "refused", "instance"}
      BY <2>3 DEF ParseProps, RefusedProp, NewProp, KnownProp, ParsingProp, EndProps,
                  EndPropsFails, NoProps, NextClass, PcAfterClass
    <3>2. Values' = <<>>
      BY <1>1, <3>1 DEF ValuesInv
    <3>3. iprops' \in Seq(Entry(chain'))
      BY <1>1, StepPropsType DEF PropsTypeOK
    <3>4. PICK v, s, E : v = Values' /\ s = iprops' /\ E = Entry(chain')
      OBVIOUS
    <3>5. s \in Seq(E) /\ Len(v) = 0
      BY <3>2, <3>3, <3>4
    <3>6. Len(s) \in Nat
      BY <3>5
    <3>7. Len(v) <= Len(s) /\ 1 .. Len(v) = {}
      BY ONLY <3>5, <3>6
    <3>8. QED BY <3>1, <3>2, <3>4, <3>7
  <2>4. CASE Misread
    <3>1. ~ Whole(chain, missing)
      BY <1>1, <2>4, SizeFacts DEF Misread, Filled
    <3>2. pc' = "misread" /\ pc = "instance" /\ Values' = Values /\ iprops' = iprops
      BY <2>4 DEF Misread
    <3>3. QED BY <1>1, <2>1, <3>1, <3>2 DEF ValuesInv, Filled
  <2>5. CASE InstDone
    <3>1. /\ pc' = "done" /\ pc = "instance" /\ Values' = Values /\ iprops' = iprops
          /\ Len(Values) = Len(iprops)
      BY <2>5 DEF InstDone
    <3>2. QED BY <1>1, <2>1, <3>1 DEF ValuesInv, Filled
  <2>6. CASE InstValue
    <3>1. /\ pc' = "instance" /\ pc = "instance" /\ iprops' = iprops
          /\ Values' = Append(Values, Value(Len(Values) + 1)) /\ Len(Values) < Len(iprops)
      BY <2>6 DEF InstValue
    <3>2. PICK v, L, x : v = Values /\ L = Len(Values) /\ x = Value(L + 1)
      OBVIOUS
    <3>3. L \in Nat /\ L + 1 \in 1 .. Len(iprops) /\ L + 1 <= Len(iprops)
      <4>1. L \in Nat
        BY <2>2, <3>2
      <4>2. QED BY <2>2, <3>1, <3>2, <4>1
    <3>4. /\ Len(Values') = L + 1 /\ Values'[L + 1] = x
          /\ \A j \in 1 .. L : Values'[j] = Values[j]
      <4>1. v \in Seq(ValueType) /\ Values' = Append(v, x) /\ L = Len(v)
        BY <2>2, <3>1, <3>2
      <4>2. QED BY <3>2, <4>1
    <3>5. ASSUME Whole(chain, missing), NEW j \in 1 .. L + 1
          PROVE  Values'[j] = ValueOf(chain, flagsBuf, iprops[j], j)
      <4>1. CASE j = L + 1
        <5>1. x = ValueOf(chain, flagsBuf, iprops[L + 1], L + 1)
          BY <1>1, <3>1, <3>2, <3>3, <3>5, ValueFacts DEF Filled
        <5>2. QED BY <3>4, <4>1, <5>1
      <4>2. CASE j # L + 1
        <5>1. j \in 1 .. L
          BY <3>3, <4>2
        <5>2. Values[j] = ValueOf(chain, flagsBuf, iprops[j], j)
          BY <1>1, <3>1, <3>2, <3>5, <5>1 DEF ValuesInv, Filled
        <5>3. QED BY <3>4, <5>1, <5>2
      <4>3. QED BY <4>1, <4>2
    <3>6. QED BY <2>1, <3>1, <3>3, <3>4, <3>5
  <2>7. QED BY <1>3, <2>3, <2>4, <2>5, <2>6 DEF Next
<1>4. QED BY <1>1, <1>2, <1>3

LEMMA PropsInvariant == Spec => []PropsInv
<1>1. PropsInv /\ [Next]_vars => PropsInv'
  BY StepPropsType, StepVec, StepFull, StepValues DEF PropsInv
<1>2. QED BY <1>1, InitProps, PTL DEF Spec

-----------------------------------------------------------------------------
(* What follows.  The class that defines a property is the only one.       *)
LEMMA DefinerUnique ==
  ASSUME NEW c, NEW k \in Nat, NEW x, NEW l, Defines(c, k, x, l)
  PROVE  Definer(c, k, x) = l
<1>1. ASSUME NEW p, Defines(c, k, x, p) PROVE p = l
  <2>1. p \in 1 .. k /\ l \in 1 .. k
    BY <1>1 DEF Defines
  <2>2. ~ p < l
    <3>1. p < l => l \in p + 1 .. k
      BY <2>1
    <3>2. QED BY <1>1, <3>1 DEF Defines
  <2>3. ~ l < p
    <3>1. l < p => p \in l + 1 .. k
      BY <2>1
    <3>2. QED BY <1>1, <3>1 DEF Defines
  <2>4. QED BY <2>1, <2>2, <2>3
<1>2. PICK d : d = CHOOSE p \in 1 .. k :
                     /\ x \in OwnProps(c.classes[p])
                     /\ \A m \in p + 1 .. k : x \notin OwnProps(c.classes[m])
  OBVIOUS
<1>3. l \in 1 .. k /\ x \in OwnProps(c.classes[l])
      /\ \A m \in l + 1 .. k : x \notin OwnProps(c.classes[m])
  BY DEF Defines
<1>4. Defines(c, k, x, d)
  BY <1>2, <1>3 DEF Defines
<1>5. d = l
  BY <1>1, <1>4
<1>6. QED BY <1>2, <1>5 DEF Definer

LEMMA CompleteIsWhole == Complete <=> Whole(chain, missing)
BY DEF Complete, Whole

(* Once all classes are parsed, the vector is the layout of the chain.     *)
LEMMA LayoutFacts ==
  ASSUME PropsInv, Complete, Parsed
  PROVE  \E n \in Nat :
           /\ n = Cardinality(PropsUpTo(chain, Last)) /\ PropsUpTo(chain, Last) = 0 .. n - 1
           /\ n <= Len(chain.widths) /\ Len(iprops) = n
           /\ \A j \in 1 .. n :
                /\ iprops[j].Index = j - 1
                /\ Defines(chain, Last, j - 1, iprops[j].by)
                /\ DefaultRight(chain, Last, j - 1, iprops[j].DefaultValue)
<1>1. Whole(chain, missing) /\ Filled /\ PropsTypeOK /\ VecInv /\ FullInv
  BY CompleteIsWhole DEF Parsed, Filled, PropsInv
<1>2. PICK n \in Nat :
        /\ n = Cardinality(PropsUpTo(chain, Last)) /\ PropsUpTo(chain, Last) = 0 .. n - 1
        /\ n <= Len(chain.widths) /\ Len(iprops) = n
        /\ \A j \in 1 .. n : iprops[j].Index = j - 1
  BY <1>1, WholeFacts
<1>3. Full(chain, Last, {}, iprops)
  BY <1>1 DEF FullInv
<1>4. ASSUME NEW j \in 1 .. n
      PROVE  /\ Defines(chain, Last, j - 1, iprops[j].by)
             /\ DefaultRight(chain, Last, j - 1, iprops[j].DefaultValue)
  <2>1. iprops[j].Index = j - 1 /\ j \in 1 .. Len(iprops)
    BY <1>2
  <2>2. QED BY <1>3, <2>1 DEF Full
<1>5. QED BY <1>2, <1>4

(* The layout WMIParser makes is that of python-cim (ParseProps against    *)
(* ClassLayout.properties), and nothing goes wrong on the way.             *)
THEOREM LayoutsMatch == Spec => []PropsMatchLayout
<1>1. PropsInv => PropsMatchLayout
  <2>1. SUFFICES ASSUME PropsInv, Complete
                 PROVE  /\ pc \notin {"refused", "undefined", "misread"}
                        /\ Parsed => [j \in DOMAIN iprops |-> <<iprops[j].Index, iprops[j].by>>]
                                       = [j \in 1 .. Cardinality(PropsUpTo(chain, Last)) |->
                                            <<j - 1, Definer(chain, Last, j - 1)>>]
    BY DEF PropsMatchLayout
  <2>2. Whole(chain, missing) /\ PropsTypeOK /\ VecInv /\ FullInv
    BY <2>1, CompleteIsWhole DEF PropsInv
  <2>3. pc \notin {"refused", "undefined", "misread"}
    <3>1. missing = 0 /\ chain \in Chains
      BY <2>2 DEF Whole, PropsTypeOK
    <3>2. ~ Gap(chain, missing)
      BY <2>2, <3>1, WholeNoGap
    <3>3. QED BY <2>2, <3>2 DEF VecInv, FullInv
  <2>4. ASSUME Parsed
        PROVE  [j \in DOMAIN iprops |-> <<iprops[j].Index, iprops[j].by>>]
                 = [j \in 1 .. Cardinality(PropsUpTo(chain, Last)) |->
                      <<j - 1, Definer(chain, Last, j - 1)>>]
    <3>1. PICK n \in Nat :
            /\ n = Cardinality(PropsUpTo(chain, Last)) /\ Len(iprops) = n
            /\ \A j \in 1 .. n :
                 iprops[j].Index = j - 1 /\ Defines(chain, Last, j - 1, iprops[j].by)
      BY <2>1, <2>4, LayoutFacts
    <3>2. DOMAIN iprops = 1 .. n
      BY <2>2, <3>1 DEF PropsTypeOK
    <3>3. Last \in Nat
      BY <2>2, ChainsAssumption DEF PropsTypeOK, Last
    <3>4. \A j \in 1 .. n : iprops[j].by = Definer(chain, Last, j - 1)
      BY <3>1, <3>3, DefinerUnique
    <3>5. \A j \in 1 .. n : <<iprops[j].Index, iprops[j].by>> = <<j - 1, Definer(chain, Last, j - 1)>>
      BY <3>1, <3>4
    <3>6. QED BY <3>1, <3>2, <3>5
  <2>5. QED BY <2>3, <2>4
<1>2. QED BY <1>1, PropsInvariant, PTL
(* An ancestor that is not read, or a property that is refused, takes      *)
(* nothing else away as long as no class declares a property again above   *)
(* a gap (KnownProp).                                                      *)
THEOREM LossIsOnlyAboveGap == Spec => []LossOnlyAboveGap
<1>1. PropsInv => LossOnlyAboveGap
  <2>1. SUFFICES ASSUME PropsInv, ~ AboveGap
                 PROVE  /\ pc # "undefined"
                        /\ pc \in {"instance", "done", "misread"} =>
                             /\ {iprops[j].Index : j \in DOMAIN iprops} = Accepted(Last)
                             /\ Len(iprops) = Cardinality(Accepted(Last))
    BY DEF LossOnlyAboveGap
  <2>2. \A k : Accepted(k) = Taken(chain, missing, k)
    BY DEF Accepted, Taken, Takes
  <2>3. ~ Gap(chain, missing)
    BY <2>1, <2>2 DEF AboveGap, Gap, Takes, Last
  <2>4. PropsTypeOK /\ pc # "undefined" /\ (Filled => Vec(chain, missing, Last, {}, iprops))
    BY <2>1, <2>3 DEF PropsInv, VecInv
  <2>5. ASSUME Filled
        PROVE  /\ {iprops[j].Index : j \in DOMAIN iprops} = Accepted(Last)
               /\ Len(iprops) = Cardinality(Accepted(Last))
    <3>1. PICK L, S, f : /\ L = Len(iprops) /\ S = Accepted(Last)
                         /\ f = [j \in 1 .. L |-> iprops[j].Index]
      OBVIOUS
    <3>2. L \in Nat /\ DOMAIN iprops = 1 .. L
      BY <2>4, <3>1 DEF PropsTypeOK
    <3>3. /\ \A j, l \in 1 .. L : iprops[j].Index = iprops[l].Index => j = l
          /\ {iprops[j].Index : j \in 1 .. L} = S
      BY <2>2, <2>4, <2>5, <3>1 DEF Vec, Once, Holds
    <3>4. f \in Bijection(1 .. L, S)
      <4>1. f \in [1 .. L -> S]
        BY <3>1, <3>3
      <4>2. \A j, l \in 1 .. L : f[j] = f[l] => j = l
        BY <3>1, <3>3
      <4>3. \A x \in S : \E j \in 1 .. L : f[j] = x
        BY <3>1, <3>3
      <4>4. QED BY <4>1, <4>2, <4>3 DEF Bijection, Injection, Surjection, IsInjective
    <3>5. ExistsBijection(1 .. L, S)
      BY <3>4 DEF ExistsBijection
    <3>6. Cardinality(S) = L
      BY <3>2, <3>5, FS_CountingElements
    <3>7. QED BY <3>1, <3>2, <3>3, <3>6
  <2>6. QED BY <2>4, <2>5 DEF Filled
<1>2. QED BY <1>1, PropsInvariant, PTL

-----------------------------------------------------------------------------
(* The default values.  ClassLayoutProperty.default_value goes up the      *)
(* derivation; where the class has a default it ends at the nearest class  *)
(* that gives one.                                                         *)
NextDefault(f, c, x, l) ==
  IF l = 0 \/ ~ (x \in PropsUpTo(c, l) /\ has_default_value(c, l, x)) THEN Raises
  ELSE IF is_inherited(c, l, x) THEN f[l - 1]
  ELSE Returns(TocValue(c, l, x))
AreDefaults(f, c, x, k) == f = [l \in 0 .. k |-> NextDefault(f, c, x, l)]

LEMMA DefaultsExist ==
  ASSUME NEW c, NEW x, NEW N \in Nat
  PROVE  \E f : AreDefaults(f, c, x, N)
<1> DEFINE None0 == {m \in Nat : ~ \E f : AreDefaults(f, c, x, m)}
<1>1. SUFFICES ASSUME None0 # {} PROVE FALSE
  OBVIOUS
<1>2. PICK m \in None0 : \A n \in None0 : m <= n
  <2>1. None0 \in SUBSET Nat
    OBVIOUS
  <2>2. HIDE DEF None0
  <2>3. QED BY <1>1, <2>1, LeastNatural
<1>3. CASE m = 0
  <2>1. PICK f : f = [n \in 0 .. 0 |-> Raises]
    OBVIOUS
  <2>2. \A n \in 0 .. 0 : NextDefault(f, c, x, n) = Raises
    BY DEF NextDefault
  <2>3. f = [n \in 0 .. m |-> NextDefault(f, c, x, n)]
    BY <1>3, <2>1, <2>2
  <2>4. QED BY <2>3 DEF AreDefaults
<1>4. CASE m # 0
  <2>1. m - 1 \in Nat /\ m - 1 \notin None0
    <3>1. m \in Nat
      OBVIOUS
    <3>2. m - 1 \in Nat /\ ~ m <= m - 1
      BY <1>4, <3>1
    <3>3. QED BY <1>2, <3>2
  <2>2. PICK h : h = [n \in 0 .. m - 1 |-> NextDefault(h, c, x, n)]
    BY <2>1 DEF AreDefaults
  <2>3. PICK last : last = NextDefault(h, c, x, m)
    OBVIOUS
  <2>4. PICK f : f = [n \in 0 .. m |-> IF n = m THEN last ELSE h[n]]
    OBVIOUS
  <2>5. ASSUME NEW n \in 0 .. m PROVE f[n] = NextDefault(f, c, x, n)
    <3>1. n # 0 => f[n - 1] = h[n - 1]
      BY <2>4
    <3>2. NextDefault(f, c, x, n) = NextDefault(h, c, x, n)
      BY <3>1 DEF NextDefault
    <3>3. CASE n = m
      BY <2>3, <2>4, <3>2, <3>3
    <3>4. CASE n # m
      <4>1. n \in 0 .. m - 1 /\ f[n] = h[n]
        BY <2>4, <3>4
      <4>2. h[n] = NextDefault(h, c, x, n)
        BY <2>2, <4>1
      <4>3. QED BY <3>2, <4>1, <4>2
    <3>5. QED BY <3>3, <3>4
  <2>6. f = [n \in 0 .. m |-> f[n]]
    BY <2>4
  <2>7. f = [n \in 0 .. m |-> NextDefault(f, c, x, n)]
    BY <2>5, <2>6
  <2>8. QED BY <2>7 DEF AreDefaults
<1>5. QED BY <1>3, <1>4

LEMMA DefaultBack ==
  ASSUME NEW c, NEW k \in Nat, NEW p, p = k + 1, NEW x, NEW d, DefaultRight(c, p, x, d)
  PROVE  /\ Gives(c, p, x) => d = TocValue(c, p, x)
         /\ ~ Gives(c, p, x) => DefaultRight(c, k, x, d)
<1>1. 1 .. p = (1 .. k) \union {p} /\ p + 1 .. p = {} /\ p \in 1 .. p
  OBVIOUS
<1>2. \A l \in 1 .. k : l \in 1 .. p /\ l + 1 .. p = (l + 1 .. k) \union {p}
  OBVIOUS
<1>3. QED BY <1>1, <1>2 DEF DefaultRight

LEMMA DefaultValueFacts ==
  ASSUME NEW c \in Chains, NEW k \in 1 .. Len(c.classes), NEW x \in PropsUpTo(c, k),
         has_default_value(c, k, x), NEW d, DefaultRight(c, k, x, d)
  PROVE  default_value(c, k, x) = Returns(d)
<1>1. k \in Nat /\ Len(c.classes) \in Nat
  BY ChainsAssumption
<1>2. PICK f : AreDefaults(f, c, x, k) /\ default_value(c, k, x) = f[k]
  <2>1. PICK f : f = CHOOSE h : AreDefaults(h, c, x, k)
    OBVIOUS
  <2>2. AreDefaults(f, c, x, k)
    BY <1>1, <2>1, DefaultsExist
  <2>3. default_value(c, k, x) = f[k]
    BY <2>1 DEF default_value, AreDefaults, NextDefault
  <2>4. QED BY <2>2, <2>3
<1>3. \A l \in 0 .. k : f[l] = NextDefault(f, c, x, l)
  <2>1. f = [l \in 0 .. k |-> NextDefault(f, c, x, l)]
    BY <1>2 DEF AreDefaults
  <2>2. QED BY ONLY <2>1
<1> DEFINE Right(l) == x \in PropsUpTo(c, l) /\ has_default_value(c, l, x) =>
                         \A v : DefaultRight(c, l, x, v) => f[l] = Returns(v)
           Bad      == {l \in Nat : l \in 1 .. k /\ ~ Right(l)}
<1>4. SUFFICES ASSUME Bad # {} PROVE FALSE
  <2>1. Bad = {} => Right(k)
    BY <1>1
  <2>2. QED BY <1>2, <2>1
<1>5. PICK l \in Bad : \A j \in Bad : l <= j
  <2>1. Bad \in SUBSET Nat
    OBVIOUS
  <2>2. HIDE DEF Bad
  <2>3. QED BY <1>4, <2>1, LeastNatural
<1>6. l \in Nat /\ l \in 1 .. k /\ ~ Right(l)
  OBVIOUS
<1>7. PICK v : /\ x \in PropsUpTo(c, l) /\ has_default_value(c, l, x)
               /\ DefaultRight(c, l, x, v) /\ f[l] # Returns(v)
  BY <1>6
<1>8. l \in 1 .. Len(c.classes) /\ l \in 0 .. k /\ l # 0
  BY <1>1, <1>6
<1>9. PICK n \in Nat :
        /\ PropsUpTo(c, l) = 0 .. n - 1
        /\ c.classes[l].flags \in [0 .. n - 1 -> Flags]
        /\ l = 1 => \A i \in 0 .. n - 1 : ~ Bit1(c.classes[l].flags[i])
        /\ l # 1 => \A i \in 0 .. n - 1 :
                      Bit1(c.classes[l].flags[i]) =>
                        /\ i \in PropsUpTo(c, l - 1)
                        /\ Bit0(c.classes[l].flags[i]) = Bit0(c.classes[l - 1].flags[i])
  BY <1>8, ClassFacts
<1>10. PICK fl \in Flags : fl = c.classes[l].flags[x] /\ ~ Bit0(fl)
  BY <1>7, <1>9 DEF has_default_value
<1>11. PICK k0 \in Nat : k0 = l - 1 /\ l = k0 + 1
  BY <1>6
<1>12. CASE ~ Bit1(fl)
  <2>1. fl = 0
    BY <1>10, <1>12 DEF Bit0, Bit1, Flags
  <2>2. Gives(c, l, x)
    BY <1>7, <1>10, <2>1 DEF Gives
  <2>3. v = TocValue(c, l, x)
    <3>1. l \in 1 .. l /\ l + 1 .. l = {}
      BY <1>6
    <3>2. DefaultRight(c, l, x, v)
      BY <1>7
    <3>3. QED BY ONLY <2>2, <3>1, <3>2 DEF DefaultRight
  <2>4. f[l] = Returns(TocValue(c, l, x))
    BY <1>3, <1>7, <1>8, <1>10, <1>12 DEF NextDefault, is_inherited
  <2>5. QED BY <1>7, <2>3, <2>4
<1>13. CASE Bit1(fl)
  <2>1. ~ Gives(c, l, x)
    BY <1>10, <1>13 DEF Gives, Bit1
  <2>2. DefaultRight(c, k0, x, v)
    BY <1>7, <1>11, <2>1, DefaultBack
  <2>3. l # 1
    BY <1>7, <1>9, <1>10, <1>13
  <2>4. x \in PropsUpTo(c, k0) /\ has_default_value(c, k0, x)
    BY <1>7, <1>9, <1>10, <1>11, <1>13, <2>3 DEF has_default_value
  <2>5. k0 \in 1 .. k /\ ~ l <= k0
    BY <1>1, <1>6, <1>11, <2>3
  <2>6. Right(k0)
    BY <1>5, <2>5
  <2>7. f[k0] = Returns(v)
    BY <2>2, <2>4, <2>6
  <2>8. f[l] = f[k0]
    BY <1>3, <1>7, <1>8, <1>10, <1>11, <1>13 DEF NextDefault, is_inherited
  <2>9. QED BY <1>7, <2>7, <2>8
<1>14. QED BY <1>12, <1>13
(* A class without a default of its own or inherited: the accessor raises. *)
LEMMA DefaultRaises ==
  ASSUME NEW c, NEW k \in Nat, NEW x, ~ has_default_value(c, k, x)
  PROVE  default_value(c, k, x) = Raises
<1>1. PICK f : AreDefaults(f, c, x, k) /\ default_value(c, k, x) = f[k]
  <2>1. PICK f : f = CHOOSE h : AreDefaults(h, c, x, k)
    OBVIOUS
  <2>2. AreDefaults(f, c, x, k)
    BY <2>1, DefaultsExist
  <2>3. default_value(c, k, x) = f[k]
    BY <2>1 DEF default_value, AreDefaults, NextDefault
  <2>4. QED BY <2>2, <2>3
<1>2. f = [l \in 0 .. k |-> NextDefault(f, c, x, l)]
  BY <1>1 DEF AreDefaults
<1>3. f[k] = NextDefault(f, c, x, k)
  <2>1. k \in 0 .. k
    OBVIOUS
  <2>2. QED BY ONLY <1>2, <2>1
<1>4. NextDefault(f, c, x, k) = Raises
  BY DEF NextDefault
<1>5. QED BY <1>1, <1>3, <1>4

LEMMA GreatestUpTo ==
  ASSUME NEW N \in Nat, NEW S \in SUBSET (1 .. N), S # {}
  PROVE  \E m \in S : \A n \in S : n <= m
<1> DEFINE Bounds == {b \in Nat : \A n \in S : n <= b}
<1>1. Bounds \in SUBSET Nat /\ N \in Bounds
  OBVIOUS
<1>2. PICK b \in Bounds : \A a \in Bounds : b <= a
  <2>1. Bounds # {}
    BY <1>1
  <2>2. HIDE DEF Bounds
  <2>3. QED BY <1>1, <2>1, LeastNatural
<1>3. b \in Nat /\ \A n \in S : n \in Nat /\ n <= b /\ 1 <= n
  OBVIOUS
<1>4. ASSUME b \notin S PROVE FALSE
  <2>1. \A n \in S : n <= b - 1
    BY <1>3, <1>4
  <2>2. b - 1 \in Nat
    <3>1. PICK n \in S : TRUE
      OBVIOUS
    <3>2. n <= b /\ 1 <= n /\ n \in Nat
      BY <1>3
    <3>3. QED BY <1>3, <3>2
  <2>3. b <= b - 1
    BY <1>2, <2>1, <2>2
  <2>4. QED BY <1>3, <2>3
<1>5. QED BY <1>3, <1>4

(* The default of a property is that of the nearest class that gives one,  *)
(* and python-cim's wherever it has one (SetDefaultValues of WMIParser     *)
(* against ClassLayoutProperty.default_value).                             *)
THEOREM DefaultsAreNearest == Spec => []DefaultsOfNearest
<1>1. PropsInv => DefaultsOfNearest
  <2>1. SUFFICES ASSUME PropsInv, Complete, Parsed, NEW i \in PropsUpTo(chain, Last),
                        NEW d, d = iprops[i + 1].DefaultValue
                 PROVE  /\ Givers(i) = {} => d = None
                        /\ Givers(i) # {} => \E k \in Givers(i) : /\ \A l \in Givers(i) : l <= k
                                                                  /\ d = TocValue(chain, k, i)
                        /\ has_default_value(chain, Last, i) =>
                             Returns(d) = default_value(chain, Last, i)
    BY DEF DefaultsOfNearest
  <2>2. PICK N, c : N = Last /\ c = chain
    OBVIOUS
  <2>3. c \in Chains /\ N \in Nat /\ N = Len(c.classes) /\ N \in 1 .. Len(c.classes)
    <3>1. chain \in Chains /\ missing \in 0 .. Last - 1 /\ Last = Len(chain.classes)
      BY <2>1 DEF PropsInv, PropsTypeOK, Last
    <3>2. N \in Nat
      BY <2>2, <3>1, ChainsAssumption
    <3>3. QED BY <2>2, <3>1, <3>2
  <2>4. PICK n \in Nat :
          /\ PropsUpTo(c, N) = 0 .. n - 1
          /\ \A j \in 1 .. n : DefaultRight(c, N, j - 1, iprops[j].DefaultValue)
    BY <2>1, <2>2, LayoutFacts
  <2>5. DefaultRight(c, N, i, d)
    <3>1. i \in 0 .. n - 1
      BY <2>1, <2>2, <2>4
    <3>2. i + 1 \in 1 .. n /\ i + 1 - 1 = i
      BY <3>1
    <3>3. PICK j : j = i + 1
      OBVIOUS
    <3>4. DefaultRight(c, N, j - 1, iprops[j].DefaultValue)
      BY <2>4, <3>2, <3>3
    <3>5. j - 1 = i
      BY <3>1, <3>3
    <3>6. iprops[j].DefaultValue = d
      BY <2>1, <3>3
    <3>7. QED BY ONLY <3>4, <3>5, <3>6
  <2>6. PICK S : S = Givers(i)
    OBVIOUS
  <2>7. S = {k \in 1 .. N : Gives(c, k, i)}
    BY <2>2, <2>6 DEF Givers, Gives
  <2>8. S = {} => d = None
    BY <2>5, <2>7 DEF DefaultRight
  <2>9. ASSUME S # {}
        PROVE  \E k \in S : (\A l \in S : l <= k) /\ d = TocValue(c, k, i)
    <3>1. S \in SUBSET (1 .. N)
      BY <2>7
    <3>2. PICK k \in S : \A l \in S : l <= k
      BY <2>3, <2>9, <3>1, GreatestUpTo
    <3>3. k \in 1 .. N /\ Gives(c, k, i)
      BY <2>7
    <3>4. \A m \in k + 1 .. N : m \in 1 .. N /\ ~ m <= k
      BY <2>3, <3>3
    <3>5. \A m \in k + 1 .. N : ~ Gives(c, m, i)
      BY <2>7, <3>2, <3>4
    <3>6. d = TocValue(c, k, i)
      BY <2>5, <3>3, <3>5 DEF DefaultRight
    <3>7. QED BY <3>2, <3>6
  <2>10. ASSUME has_default_value(c, N, i) PROVE Returns(d) = default_value(c, N, i)
    BY <2>1, <2>2, <2>3, <2>5, <2>10, DefaultValueFacts
  <2>11. QED BY <2>2, <2>6, <2>8, <2>9, <2>10
<1>2. QED BY <1>1, PropsInvariant, PTL

(* The values of an instance are those of python-cim, but for the property *)
(* in the last slot, which has none (Create of InstanceDec.cpp against     *)
(* ClassInstance.properties).                                              *)
THEOREM ValuesAreAgreed == Spec => []ValuesAgree
<1>1. PropsInv => ValuesAgree
  <2>1. SUFFICES ASSUME PropsInv, Complete, pc = "done", NEW i \in PropsUpTo(chain, Last)
                 PROVE  IF i = LastSlot THEN Values[i + 1] = None ELSE Agrees(i)
    BY DEF ValuesAgree
  <2>2. PICK N, c, buf, p, j : /\ N = Last /\ c = chain /\ buf = flagsBuf
                               /\ j = i + 1 /\ p = iprops[j]
    OBVIOUS
  <2>3. Parsed /\ Filled /\ Whole(chain, missing)
    BY <2>1, CompleteIsWhole DEF Parsed, Filled
  <2>4. c \in Chains /\ N \in Nat /\ N = Len(c.classes) /\ N \in 1 .. Len(c.classes)
    <3>1. chain \in Chains /\ missing \in 0 .. Last - 1 /\ Last = Len(chain.classes)
      BY <2>1 DEF PropsInv, PropsTypeOK, Last
    <3>2. N \in Nat
      BY <2>2, <3>1, ChainsAssumption
    <3>3. QED BY <2>2, <3>1, <3>2
  <2>5. PICK n \in Nat :
          /\ n = Cardinality(PropsUpTo(c, N)) /\ PropsUpTo(c, N) = 0 .. n - 1
          /\ n <= Len(c.widths) /\ Len(iprops) = n
          /\ \A l \in 1 .. n : /\ iprops[l].Index = l - 1
                               /\ DefaultRight(c, N, l - 1, iprops[l].DefaultValue)
    BY <2>1, <2>2, <2>3, LayoutFacts
  <2>6. i \in 0 .. n - 1 /\ j \in 1 .. n /\ j - 1 = i /\ i \in Int
    <3>1. i \in 0 .. n - 1
      BY <2>1, <2>2, <2>5
    <3>2. QED BY <2>2, <3>1
  <2>7. p.Index = i /\ DefaultRight(c, N, i, p.DefaultValue)
    BY <2>2, <2>5, <2>6
  <2>8. Values[j] = ValueOf(c, buf, p, j)
    <3>1. /\ \A l \in 1 .. Len(Values) : Values[l] = ValueOf(chain, flagsBuf, iprops[l], l)
          /\ Len(Values) = Len(iprops)
      BY <2>1, <2>3 DEF PropsInv, ValuesInv
    <3>2. QED BY <2>2, <2>5, <2>6, <3>1
  <2>9. PICK W, a, b, t : /\ W = Len(c.widths) /\ a = Offset(c, i) + c.widths[i + 1]
                          /\ b = Offset(c, j) /\ t = Offset(c, n)
    OBVIOUS
  <2>10. a = b /\ b \in Nat /\ t \in Nat /\ (j < n => b < t) /\ (j = n => b = t)
    <3>1. /\ W \in Nat /\ \A x \in 0 .. W : Offset(c, x) \in Nat
          /\ \A x \in 0 .. W - 1 : Offset(c, x + 1) = Offset(c, x) + c.widths[x + 1]
          /\ \A x, y \in 0 .. W : x < y => Offset(c, x) < Offset(c, y)
      BY <2>4, <2>9, SlotFacts
    <3>2. i \in 0 .. W - 1 /\ j \in 0 .. W /\ n \in 0 .. W
      BY <2>5, <2>6, <2>9, <3>1
    <3>3. a = Offset(c, i + 1)
      BY <2>9, <3>1, <3>2
    <3>4. QED BY <2>2, <2>9, <3>1, <3>2, <3>3
  <2>11. Values[j] = IF Bit0(buf[i]) \/ ~ a < t THEN None
                     ELSE IF Bit1(buf[i]) THEN p.DefaultValue
                     ELSE OwnValue(FlagBytes(n) + Offset(c, i))
    BY <2>4, <2>5, <2>6, <2>7, <2>8, <2>9 DEF ValueOf
  <2>12. LastSlot = n - 1
    BY <2>2, <2>5 DEF LastSlot
  <2>13. CASE i = n - 1
    <3>1. j = n
      BY <2>6, <2>13
    <3>2. ~ a < t
      BY <2>10, <3>1
    <3>3. QED BY <2>2, <2>11, <2>12, <2>13, <3>2
  <2>14. CASE i # n - 1
    <3>1. j < n
      BY <2>6, <2>14
    <3>2. a < t
      BY <2>10, <3>1
    <3>3. PICK v : v = properties(c, buf)[i]
      OBVIOUS
    <3>4. v = IF Bit0(buf[i]) THEN Returns(None)
              ELSE IF Bit1(buf[i]) THEN default_value(c, N, i)
              ELSE Returns(OwnValue(FlagBytes(n) + Offset(c, i)))
      <4>1. i \in PropsUpTo(c, N)
        BY <2>1, <2>2
      <4>2. QED BY <2>4, <2>5, <3>3, <4>1 DEF properties
    <3>5. ASSUME ~ v.raises PROVE Values[j] = v.value
      <4>1. CASE Bit0(buf[i])
        BY <2>11, <3>4, <4>1 DEF Returns
      <4>2. CASE ~ Bit0(buf[i]) /\ Bit1(buf[i])
        <5>1. v = default_value(c, N, i) /\ Values[j] = p.DefaultValue
          BY <2>11, <3>2, <3>4, <4>2
        <5>2. has_default_value(c, N, i)
          <6>1. ~ has_default_value(c, N, i) => v = Raises
            BY <2>4, <5>1, DefaultRaises
          <6>2. QED BY <3>5, <6>1 DEF Raises
        <5>3. i \in PropsUpTo(c, N)
          BY <2>1, <2>2
        <5>4. PICK d : d = p.DefaultValue
          OBVIOUS
        <5>5. DefaultRight(c, N, i, d)
          BY <2>7, <5>4
        <5>6. default_value(c, N, i) = Returns(d)
          BY <2>4, <5>2, <5>3, <5>5, DefaultValueFacts
        <5>7. QED BY <5>1, <5>4, <5>6 DEF Returns
      <4>3. CASE ~ Bit0(buf[i]) /\ ~ Bit1(buf[i])
        BY <2>11, <3>2, <3>4, <4>3 DEF Returns
      <4>4. QED BY <4>1, <4>2, <4>3
    <3>6. QED BY <2>2, <2>12, <2>14, <3>3, <3>5 DEF Agrees
  <2>15. QED BY <2>13, <2>14
<1>2. QED BY <1>1, PropsInvariant, PTL
=============================================================================
