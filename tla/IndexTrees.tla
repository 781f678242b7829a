----------------------------- MODULE IndexTrees -----------------------------
(***************************************************************************)
(* The B-trees the index is model-checked with: every tree of one, two or  *)
(* three full levels, with one or two keys per page and one at the bottom  *)
(* of the highest.  A page is named by the path of slots that leads to it. *)
(***************************************************************************)
EXTENDS Integers, Sequences, FiniteSets, FiniteSetsExt

LeafPointer == <<9>>

(* The keys leave room for those below them: a root's are 12 apart, its    *)
(* children's 4, and a grandchild's single key is in the middle.           *)
Spread(depth) == CASE depth = 0 -> 12 [] depth = 1 -> 4 [] depth = 2 -> 2

LowerBound(p) == IF p = <<>> THEN 0
                 ELSE (p[1] - 1) * 12 + (IF Len(p) = 1 THEN 0 ELSE (p[2] - 1) * 4)

(* sizes gives each page its number of keys.                               *)
TreeOf(sizes) ==
  LET pages == DOMAIN sizes
      key(p, i) == LowerBound(p) + i * Spread(Len(p))
      up(p) == SubSeq(p, 1, Len(p) - 1)
      last(p) == p[Len(p)]
  IN  [pages |-> pages,
       root  |-> <<>>,
       all   |-> UNION {{key(p, i) : i \in 1 .. sizes[p]} : p \in pages},
       keys  |-> [p \in pages |-> [i \in 1 .. sizes[p] |-> key(p, i)]],
       child |-> [p \in pages |-> [s \in 1 .. sizes[p] + 1 |->
                    IF Append(p, s) \in pages THEN Append(p, s) ELSE LeafPointer]],
       lo    |-> [p \in pages |-> LowerBound(p)],
       hi    |-> [p \in pages |->
                    IF p = <<>> THEN 100
                    ELSE IF last(p) <= sizes[up(p)] THEN key(up(p), last(p))
                    ELSE IF Len(p) = 2 /\ p[1] <= sizes[<<>>] THEN key(<<>>, p[1])
                    ELSE 100]]

Height(t) == Max({Len(p) : p \in t.pages}) + 1

OneLevel   == {[p \in {<<>>} |-> n] : n \in 1 .. 2}
TwoLevels  ==
  UNION {{[p \in {<<>>} \union {<<s>> : s \in 1 .. n + 1} |->
             IF p = <<>> THEN n ELSE f[p[1]]] : f \in [1 .. n + 1 -> 1 .. 2]} : n \in 1 .. 2}
ThreeLevels ==
  {[p \in DOMAIN two \union {<<s, r>> \in (1 .. 3) \X (1 .. 3) :
                               <<s>> \in DOMAIN two /\ r <= two[<<s>>] + 1} |->
      IF p \in DOMAIN two THEN two[p] ELSE 1] : two \in TwoLevels}

MCTrees == {TreeOf(sizes) : sizes \in OneLevel \union TwoLevels \union ThreeLevels}

(* Prefixes that no key has, one key has, or a run of keys has.            *)
MCQueries ==
  {q \in [lo : {2, 4, 6, 8, 12, 14, 24}, hi : {2 * n : n \in 1 .. 17}] : q.lo <= q.hi}
    \union {[lo |-> n, hi |-> n] : n \in {7, 12, 24, 30, 34, 35}}
=============================================================================
