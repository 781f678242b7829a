-------------------------- MODULE MCRepositoryWalk --------------------------
(***************************************************************************)
(* Bounds for CommandLoop and RepositoryWalk: four namespaces in three     *)
(* levels and three classes.  Two families of repositories: every state of *)
(* the namespaces and one search that fails, over a few classes; and every *)
(* state, place, superclass and order of the classes, over two namespaces. *)
(***************************************************************************)
EXTENDS CommandLoop, TLC

CONSTANTS root, a, b, c, X, Y, Z

Tree == (root :> <<a, b>>) @@ (a :> <<c>>) @@ (b :> <<>>) @@ (c :> <<>>)

Supers == {f \in [{X, Y, Z} -> {X, Y, NoClass}] : f[X] = NoClass /\ f[Y] # Y}
Chained == (X :> NoClass) @@ (Y :> X) @@ (Z :> Y)

(* The classes of `present`, in one order of the index or the other.       *)
InOrder(present, order) == SelectSeq(order, LAMBDA x : x \in present)

Sound == [x \in {X, Y, Z} |-> "ok"]

(* Namespaces and searches fail; Y derives from X, X is in __SystemClass.  *)
SpaceFamily ==
  {[kids    |-> Tree,
    space   |-> (root :> "ok") @@ states,
    classes |-> [n \in {root, a, b, c, System} |-> IF n = System THEN <<X>> ELSE <<Y, Z>>],
    record  |-> [n \in {root, a, b, c, System} |-> IF n = b THEN [Sound EXCEPT ![Y] = "malformed"] ELSE Sound],
    super   |-> Chained,
    fails   |-> fails] :
     states \in [{a, b, c} -> SpaceStates],
     fails  \in {{}} \union {{<<n, what>>} : n \in {root, a, System},
                                          what \in {"spaces", "classes", "instances"}}}

(* Each class is in the root, in __SystemClass, in both or in neither.     *)
ClassFamily ==
  {[kids    |-> (root :> <<a>>) @@ (a :> <<>>),
    space   |-> [n \in {root, a} |-> "ok"],
    classes |-> [n \in {root, a, System} |->
                   InOrder(CASE n = root -> inRoot [] n = a -> {Z} [] n = System -> inSystem, order)],
    record  |-> [n \in {root, a, System} |-> IF n = root THEN states ELSE Sound],
    super   |-> super,
    fails   |-> {}] :
     inRoot \in {{X, Z}, {Y, Z}, {X, Y, Z}}, inSystem \in {{}, {X}, {X, Y}},
     states \in [{X, Y, Z} -> ClassStates], super \in Supers,
     order \in {<<X, Y, Z>>, <<Z, Y, X>>, <<Y, Z, X>>}}

MCRepositories == SpaceFamily \union ClassFamily

(* One walking command and --quit, in any repository; every three lines    *)
(* that are empty, too long, of other commands or with a word too many, in *)
(* one; and two commands after each other, in those without a failed       *)
(* search.                                                                 *)
Line(said) == [length |-> 1, words |-> said]
QuitLine   == Line(<<"--quit">>)
WalkLines  == {Line(<<"--namespaceinstance">>), Line(<<"--classdef">>)}
                \union {Line(<<w, x>>) : w \in {"--specified_classdef", "--instance"}, x \in {Y, Z}}

OddLines ==
  {[length |-> n, words |-> <<"--quit">>] : n \in {0, 1, CmdSize - 2, CmdSize - 1, CmdSize}}
    \union {Line(<<"--help">>), Line(<<"--quit", "now">>), Line(<<"">>), Line(<<"--instance">>)}

Typed(r) ==
  {<<line, QuitLine>> : line \in WalkLines}
    \union (IF r.space[a] = "lost" /\ r.fails = {}
              THEN {<<one, two>> : one \in WalkLines, two \in WalkLines} ELSE {})
    \union (IF c \in Spaces(r) /\ r.fails = {} /\ \A n \in Spaces(r) : r.space[n] = "ok"
              THEN UNION {[1 .. n -> OddLines] : n \in 0 .. 3} ELSE {})

Init == WalkInit /\ \E typed \in Typed(repo) : LoopInit(typed)

Spec     == Init /\ [][Next]_allVars
FairSpec == Spec /\ WF_allVars(Next)
=============================================================================
