----------------------------- MODULE IndexTree -----------------------------
(***************************************************************************)
(* The B-tree of index.btr that both readers search.  A page holds keys in *)
(* ascending order and one child more than keys; child s holds the keys    *)
(* between keys s - 1 and s of its parent.  A key is a string; the         *)
(* searches only ever compare it with a prefix, and the keys with a given  *)
(* prefix are consecutive in the order of strings, so that a key is an     *)
(* integer here and a prefix is the interval of the keys that have it.     *)
(***************************************************************************)
EXTENDS Integers, Sequences

CONSTANTS
  NoPage,     \* the child pointer of a leaf: 0 or 0xFFFFFFFF
  Trees,      \* the trees searched
  Queries     \* the prefixes searched for: [lo, hi]

(* A tree: its pages, root and keys; the keys and children of each page;   *)
(* and the bounds (exclusive) between which the keys under a page lie.     *)
Left(t, p, s)  == IF s = 1 THEN t.lo[p] ELSE t.keys[p][s - 1]
Right(t, p, s) == IF s = Len(t.keys[p]) + 1 THEN t.hi[p] ELSE t.keys[p][s]

Slots(t, p)    == 1 .. Len(t.keys[p]) + 1
KeysOf(t, p)   == {t.keys[p][i] : i \in DOMAIN t.keys[p]}
Under(t, p)    == {k \in t.all : t.lo[p] < k /\ k < t.hi[p]}

IsTree(t) ==
  /\ NoPage \notin t.pages
  /\ t.root \in t.pages
  /\ t.keys \in [t.pages -> Seq(Int)]
  /\ t.lo \in [t.pages -> Int] /\ t.hi \in [t.pages -> Int]
  /\ t.child \in [t.pages -> Seq(t.pages \union {NoPage})]

Ordered(t) ==
  \A p \in t.pages :
    /\ t.keys[p] # <<>>
    /\ \A i, j \in DOMAIN t.keys[p] : i < j => t.keys[p][i] < t.keys[p][j]
    /\ \A k \in KeysOf(t, p) : t.lo[p] < k /\ k < t.hi[p]

(* Every key is in one page, and the way to it goes from page to page.     *)
Searchable(t) ==
  /\ t.all = UNION {KeysOf(t, p) : p \in t.pages}
  /\ Under(t, t.root) = t.all
  /\ \A p, q \in t.pages : p # q => KeysOf(t, p) \intersect KeysOf(t, q) = {}
  /\ \A p \in t.pages :
       /\ DOMAIN t.child[p] = Slots(t, p)
       /\ \A s \in Slots(t, p) :
            LET c == t.child[p][s]
            IN  /\ c # NoPage => t.lo[c] = Left(t, p, s) /\ t.hi[c] = Right(t, p, s)
                /\ c = NoPage => \A k \in t.all :
                                   ~ (Left(t, p, s) < k /\ k < Right(t, p, s))

ASSUME TreesAssumption   == \A t \in Trees : IsTree(t) /\ Ordered(t) /\ Searchable(t)
ASSUME QueriesAssumption == \A q \in Queries : q.lo \in Int /\ q.hi \in Int /\ q.lo <= q.hi

(* compare(0, search.length(), search) against 0, and its Python form.     *)
Below(k, q)   == k < q.lo
Above(k, q)   == k > q.hi
Matches(k, q) == ~ Below(k, q) /\ ~ Above(k, q)

Wanted(t, q) == {k \in t.all : Matches(k, q)}
=============================================================================
