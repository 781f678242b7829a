--------------------------- MODULE MCPrefixSearch ---------------------------
(***************************************************************************)
(* Bounds for PrefixSearch: see IndexTrees for the trees.  The file is     *)
(* sound, or one of its pages is in one of the other conditions.           *)
(***************************************************************************)
EXTENDS PrefixSearch, IndexTrees

MCAdmin == <<0>>

(* Every page of a small tree fails in every way; of the larger ones, the  *)
(* root's second child and a leaf.                                               *)
MCFaults ==
  [t \in MCTrees |->
     LET Sound == [p \in t.pages \union {MCAdmin} |->
                     IF p = MCAdmin THEN "retired" ELSE "active"]
         Bad   == IF Height(t) < 3 THEN t.pages ELSE {<<2>>, <<1, 1>>}
     IN  {Sound}
           \union {[Sound EXCEPT ![p] = m] : p \in Bad, m \in Media}
           \union {[Sound EXCEPT ![MCAdmin] = m] : m \in Media \ {"active"}}]
=============================================================================
