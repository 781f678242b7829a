---------------------------- MODULE MCPyResolver ----------------------------
(***************************************************************************)
(* Bounds for ObjectResolver and the PyLookup under it, two calls in a row *)
(* over one resolver.  Bare lookups: every tree of IndexTrees, whole or    *)
(* with one page missing.  The other calls: one tree of three levels,      *)
(* whole or with one of two pages missing, that holds, in the order of its *)
(* keys, for the namespaces a, b and s (the system's)                      *)
(*   a: own 2, twice 4 and 6 (definitions), instances of own 8 10, sys 12 14 *)
(*   b: own 16, instances of sys 18                                        *)
(*   s: sys 20, own 22                                                     *)
(* so that a class is defined in its own namespace, there twice, only in   *)
(* the system namespace, in both, or (none) in neither.                    *)
(***************************************************************************)
EXTENDS ObjectResolver, IndexTrees

Q(lo, hi) == [lo |-> lo, hi |-> hi]

MCPyQueries ==
  {q \in MCQueries : q.lo \in {4, 6, 7, 12, 24} /\ q.hi \in {6, 7, 12, 16, 24, 34}}

MCCD(ns, class) ==
  CASE ns = "a" /\ class = "own"   -> Q(2, 3)
    [] ns = "a" /\ class = "twice" -> Q(4, 7)
    [] ns = "b" /\ class = "own"   -> Q(15, 17)
    [] ns = "s" /\ class = "sys"   -> Q(19, 21)
    [] ns = "s" /\ class = "own"   -> Q(22, 22)
    [] OTHER -> Q(1, 1)

MCCI(ns, class) ==
  CASE ns = "a" /\ class = "own" -> Q(8, 11)
    [] ns = "a" /\ class = "sys" -> Q(12, 14)
    [] ns = "b" /\ class = "sys" -> Q(18, 18)
    [] OTHER -> Q(1, 1)

(* The hash of an instance tells where among those of its class it and     *)
(* those with the same key are.                                            *)
MCIL(ns, class, hash) ==
  LET at == MCCI(ns, class).lo
  IN  IF at + hash.hi <= MCCI(ns, class).hi THEN Q(at + hash.lo, at + hash.hi) ELSE Q(1, 1)

Deep == TreeOf([p \in {<<>>} \union {<<s>> : s \in 1 .. 2}
                              \union {<<s, r>> : s \in 1 .. 2, r \in 1 .. 3} |->
                  IF Len(p) = 1 THEN 2 ELSE 1])

MCAllTrees == MCTrees \union {Deep}

MCFaults == [t \in MCAllTrees |->
  {{}} \union {{p} : p \in IF t = Deep THEN {<<2>>, <<2, 1>>}
                           ELSE t.pages \intersect {<<>>, <<1>>, <<2>>, <<2, 1>>}}]

Ask(op, ns, class, ikey) == [op |-> op, ns |-> ns, class |-> class, ikey |-> ikey]

MCCalls == [t \in MCAllTrees |->
  IF t # Deep THEN {[op |-> "get_keys", query |-> q] : q \in MCPyQueries}
  ELSE {Ask(op, id[1], id[2], "any") :
          op \in {"get_cd", "get_cd_buf"},
          id \in {<<"a", "own">>, <<"a", "twice">>, <<"a", "sys">>, <<"b", "none">>}}
       \union {Ask("get_ci", "a", class, k) : class \in {"own", "sys"}, k \in {"k1", "k2"}}
       \union {Ask("get_ci", "b", "sys", "k1"), Ask("instances", "b", "sys", "any")}
       \union {Ask("instances", "a", class, "any") : class \in {"own", "sys", "twice"}}]

(* Every object as it should be, its instance keys different or (one was   *)
(* left behind) not; or one object that cannot be had, in each way.        *)
Named(t, bad, state, second) ==
  LET ikey  == [k \in t.all |-> IF k \in second THEN "k2" ELSE "k1"]
      of(k) == CASE k \in 8 .. 11 -> 8 .. 11 [] k \in 12 .. 14 -> 12 .. 14 [] OTHER -> {k}
      same(k) == {m \in of(k) \intersect t.all : ikey[m] = ikey[k]}
  IN  [k \in t.all |->
         [state |-> IF k \in bad THEN state ELSE "ok",
          ikey  |-> ikey[k],
          hash  |-> Q(Min(same(k)) - Min(of(k)), Max(same(k)) - Min(of(k)))]]

MCObjects == [t \in MCAllTrees |->
  IF t # Deep THEN {Named(t, {}, "ok", {})}
  ELSE {Named(t, {}, "ok", second) : second \in {{10, 12}, {8, 18}, {}}}
       \union {Named(t, {k}, state, {10, 14}) :
                 k \in {2, 8, 12, 14, 20}, state \in {"ok", "gone", "lost", "garbled"}}]
=============================================================================
