------------------------------ MODULE PyLookup ------------------------------
(***************************************************************************)
(* python-cim: Index.lookup_keys (cim.py) over a CachedLogicalIndexStore.  *)
(* The recursion is a stack of frames, one per active _lookup_keys; the    *)
(* lists it returns are only ever appended in the order they are made, so  *)
(* that one list, matches, holds them.  Lookups follow one another and     *)
(* share the page cache.  A page that cannot be fetched is an exception    *)
(* out of the whole lookup.  ObjectResolver makes the lookups.             *)
(***************************************************************************)
EXTENDS IndexTree, FiniteSets

CONSTANTS
  Faults      \* for each tree, the sets of pages that cannot be fetched

ASSUME FaultsAssumption == \A t \in Trees : \A f \in Faults[t] : f \subseteq t.pages

VARIABLES
  tree, missing,   \* the index, and the pages that raise when fetched
  query,      \* the key looked up
  pc,         \* "idle", "call", "run", "returned" or "raised"
  arg,        \* the page number of the call
  stack,      \* the active calls, the innermost first
  matches,    \* the keys found
  pages       \* CachedLogicalIndexStore._pages: the pages held

lookupVars == <<tree, missing, query, pc, arg, stack, matches, pages>>

NoQuery == [lo |-> 0, hi |-> 0]

LookupInit ==
  /\ tree \in Trees
  /\ missing \in Faults[tree]
  /\ query = NoQuery
  /\ pc = "idle"
  /\ arg = tree.root
  /\ stack = <<>>
  /\ matches = <<>>
  /\ pages = {}

Top  == stack[1]
Keys == tree.keys[Top.page]
Last == Top.i = Len(Keys)
Key  == Keys[Top.i]

(* lookup_keys: a new list, and a call for the root page.                  *)
LookupKeys(key) ==
  /\ pc \in {"idle", "returned", "raised"}
  /\ query' = key
  /\ matches' = <<>>
  /\ arg' = tree.root
  /\ stack' = <<>>
  /\ pc' = "call"
  /\ UNCHANGED <<tree, missing, pages>>

(* get_page misses the cache: the store fetches the page or raises, and    *)
(* then nothing is kept of it.                                             *)
FetchPage ==
  /\ pc = "call"
  /\ arg \notin pages
  /\ IF arg \in missing
       THEN pc' = "raised" /\ UNCHANGED <<pages, stack>>
       ELSE /\ pages' = pages \union {arg}
            /\ stack' = <<[page |-> arg, i |-> 1, at |-> "key"]>> \o stack
            /\ pc' = "run"
  /\ UNCHANGED <<tree, missing, query, arg, matches>>

CachedPage ==
  /\ pc = "call"
  /\ arg \in pages
  /\ stack' = <<[page |-> arg, i |-> 1, at |-> "key"]>> \o stack
  /\ pc' = "run"
  /\ UNCHANGED <<tree, missing, query, arg, matches, pages>>

-----------------------------------------------------------------------------
(* _lookup_keys_child, for the child in slot s; the calling frame goes on  *)
(* as f.                                                                   *)
LookupChild(s, f) ==
  /\ stack' = <<f>> \o Tail(stack)
  /\ IF tree.child[Top.page][s] = NoPage
       THEN UNCHANGED <<pc, arg>>
       ELSE pc' = "call" /\ arg' = tree.child[Top.page][s]
  /\ UNCHANGED <<tree, missing, query, pages>>

AtKey == pc = "run" /\ Top.at = "key"

(* skey in sk: left child, ...                                             *)
MatchLeft ==
  /\ AtKey
  /\ Matches(Key, query)
  /\ LookupChild(Top.i, [Top EXCEPT !.at = "match"])
  /\ UNCHANGED matches

(* Mutant: after a match the right child is left to the next key.          *)
MatchRightNever ==
  /\ pc = "run" /\ Top.at = "match"
  /\ matches' = Append(matches, Key)
  /\ stack' = <<[Top EXCEPT !.at = IF Last THEN "end" ELSE "key",
                            !.i  = IF Last THEN @ ELSE @ + 1]>> \o Tail(stack)
  /\ UNCHANGED <<tree, missing, query, pc, arg, pages>>

(* ... the key itself, right child, and on to the next key.                *)
MatchRight ==
  /\ pc = "run" /\ Top.at = "match"
  /\ matches' = Append(matches, Key)
  /\ LookupChild(Top.i + 1, [page |-> Top.page,
                             i  |-> IF Last THEN Top.i ELSE Top.i + 1,
                             at |-> IF Last THEN "end" ELSE "key"])

(* skey < sk: the left child is the last place to look.                    *)
AboveLeft ==
  /\ AtKey
  /\ Above(Key, query)
  /\ LookupChild(Top.i, [Top EXCEPT !.at = "end"])
  /\ UNCHANGED matches

(* skey > sk: on to the next key, or into the right child of the last one. *)
BelowNext ==
  /\ AtKey
  /\ Below(Key, query)
  /\ ~ Last
  /\ stack' = <<[Top EXCEPT !.i = @ + 1]>> \o Tail(stack)
  /\ UNCHANGED <<tree, missing, query, pc, arg, matches, pages>>

BelowLast ==
  /\ AtKey
  /\ Below(Key, query)
  /\ Last
  /\ LookupChild(Top.i + 1, [Top EXCEPT !.at = "end"])
  /\ UNCHANGED matches

(* return matches                                                          *)
Return ==
  /\ pc = "run" /\ Top.at = "end"
  /\ stack' = Tail(stack)
  /\ pc' = IF Len(stack) = 1 THEN "returned" ELSE "run"
  /\ UNCHANGED <<tree, missing, query, arg, matches, pages>>

GetPage == FetchPage \/ CachedPage
Lookup  == GetPage \/ MatchLeft \/ MatchRight \/ AboveLeft \/ BelowNext \/ BelowLast \/ Return
-----------------------------------------------------------------------------
Found == {matches[i] : i \in DOMAIN matches}

(* How often a key is in the list: the child after a key that matches is   *)
(* looked up again by the key that follows it, which matches too or is     *)
(* greater: so that every page above a key where it is between a match and *)
(* a next key doubles it, and it is in the list once for every set of such *)
(* pages.  A prefix that a single key has gives a list of one.             *)
Doubled(t, q, k) ==
  {p \in t.pages :
     \E i \in 1 .. Len(t.keys[p]) - 1 :
       /\ t.keys[p][i] < k /\ k < t.keys[p][i + 1]
       /\ Matches(t.keys[p][i], q)}

Times(k) == Cardinality({i \in DOMAIN matches : matches[i] = k})

(* A prefix leads to a page if its interval touches the page's bounds.     *)
Leads(t, p, q) == t.lo[p] <= q.hi /\ q.lo <= t.hi[p]

(* A lookup that returns has found every key with the prefix and no other, *)
(* as often as said, and each for the first time after the smaller ones,   *)
(* whatever lookup came before it and however that ended (the page cache   *)
(* is kept); what is missing from the file never shortens the list, but    *)
(* raises, always if the prefix leads there and only then.                 *)
LookupRight ==
  /\ pc = "returned" =>
       /\ Found = Wanted(tree, query)
       /\ \A k \in Found : Times(k) = Cardinality(SUBSET Doubled(tree, query, k))
       /\ \A i \in DOMAIN matches : \A k \in Found :
            k < matches[i] => \E j \in 1 .. i - 1 : matches[j] = k
       /\ \A p \in missing : ~ Leads(tree, p, query)
  /\ pc = "raised" => \E p \in missing : Leads(tree, p, query)
=============================================================================
