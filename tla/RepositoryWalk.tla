--------------------------- MODULE RepositoryWalk ---------------------------
(***************************************************************************)
(* WMIParser: the commands that walk the whole repository.                 *)
(*   --namespaceinstance     the namespaces (Namespace.cpp)                *)
(*   --classdef              __SystemClass, then every namespace           *)
(*   --specified_classdef c  class c as each namespace sees it             *)
(*   --instance c            the instances of c in every namespace         *)
(* All but the first visit the namespaces the first one finds.  A class    *)
(* definition is parsed with its superclasses, by recursion: each is       *)
(* looked up in the namespace and then in __SystemClass.  Index searches   *)
(* and records are taken by their outcome, which PrefixSearch and          *)
(* RecordRead are about.                                                   *)
(***************************************************************************)
EXTENDS Integers, Sequences, FiniteSets

CONSTANTS
  Root,         \* the namespace the walk starts from
  System,       \* __SystemClass
  ClassNames,
  NoClass,      \* the superclass of a class that has none
  Repositories  \* the repositories walked, see RepositoriesAssumption

(* What parsing a namespace record or a class record comes to.             *)
(* "lost": it is not mapped, not read, not found or refused, or it runs    *)
(* over the end of its page; "outside": allocMap->at throws.               *)
SpaceStates == {"ok", "lost", "outside"}
(* "unread": GetRecordExtents fails; "malformed": Create refuses it after  *)
(* the superclass name.                                                    *)
ClassStates == {"ok", "unread", "malformed"}

Spaces(r) == DOMAIN r.kids
Homes(r)  == Spaces(r) \union {System}

(* The child namespaces of each namespace and the classes each defines, as *)
(* sequences in the order of the index; the state of each record; the      *)
(* superclass named by a class; and the searches that return false,        *)
(* <<namespace, what>>.  A namespace is named by its full path, so that it *)
(* has one parent, and a search finds no key twice (ResultsOnce).          *)
ASSUME RepositoriesAssumption ==
  \A r \in Repositories :
    /\ Root \in Spaces(r) /\ System \notin Spaces(r)
    /\ r.kids \in [Spaces(r) -> Seq(Spaces(r) \ {Root})]
    /\ \A n, m \in Spaces(r) : \A j \in DOMAIN r.kids[n], k \in DOMAIN r.kids[m] :
         r.kids[n][j] = r.kids[m][k] => n = m /\ j = k
    /\ r.space \in [Spaces(r) -> SpaceStates]
    /\ r.classes \in [Homes(r) -> Seq(ClassNames)]
    /\ r.record \in [Homes(r) -> [ClassNames -> ClassStates]]
    /\ r.super \in [ClassNames -> ClassNames \union {NoClass}]
    /\ r.fails \subseteq Homes(r) \X {"spaces", "classes", "instances"}

VARIABLES
  repo, command, class,     \* the repository, the command and its class
  pc,
  NamespaceNames, i,        \* the namespaces found, and which one is looked at
  left,                     \* the records of the search not yet looked at
  space,                    \* Namespace of the parser at work
  chain,                    \* the calls of CreateClassDefinition, innermost first
  BaseClasses,              \* base classes of the object under construction
  output                    \* what was printed

input  == <<repo, command, class>>
walk   == <<NamespaceNames, i>>
object == <<chain, BaseClasses>>
vars   == <<input, pc, walk, left, space, object, output>>

Searched(n, what) == <<n, what>> \notin repo.fails
Defines(n, c)     == \E j \in DOMAIN repo.classes[n] : repo.classes[n][j] = c

(* Before the first command.                                               *)
WalkInit ==
  /\ repo \in Repositories
  /\ command = "none" /\ class = NoClass
  /\ NamespaceNames = <<Root>> /\ i = 1
  /\ left = <<>>
  /\ space = System
  /\ chain = <<>> /\ BaseClasses = <<>>
  /\ output = {}

(* A command starts from nothing: its parsers are its own.                 *)
Begin(typed, c) ==
  /\ command' = typed /\ class' = c
  /\ pc' = IF typed = "classdef" THEN "space" ELSE "walk"
  /\ NamespaceNames' = <<Root>> /\ i' = 1
  /\ left' = <<>>
  /\ space' = System
  /\ chain' = <<>> /\ BaseClasses' = <<>>
  /\ output' = {}
  /\ UNCHANGED repo

-----------------------------------------------------------------------------
(* ParseNamespaceRecords: NamespaceNames is the queue of a breadth-first   *)
(* walk.  A search that fails is passed over.                              *)
SearchKids ==
  /\ pc = "walk"
  /\ i <= Len(NamespaceNames)
  /\ IF Searched(NamespaceNames[i], "spaces")
       THEN pc' = "kids" /\ left' = repo.kids[NamespaceNames[i]] /\ UNCHANGED i
       ELSE i' = i + 1 /\ UNCHANGED <<pc, left>>
  /\ UNCHANGED <<input, NamespaceNames, space, object, output>>

(* Mutant: a record that is refused is listed all the same.                *)
KidAlways ==
  /\ pc = "kids"
  /\ left # <<>>
  /\ NamespaceNames' = Append(NamespaceNames, Head(left))
  /\ left' = Tail(left)
  /\ pc' = IF repo.space[Head(left)] = "outside" THEN "thrown" ELSE "kids"
  /\ UNCHANGED <<input, i, space, object, output>>

(* AddNamespaceRecord and ParseNSRecord of one record.                     *)
Kid ==
  /\ pc = "kids"
  /\ left # <<>>
  /\ NamespaceNames' = IF repo.space[Head(left)] = "ok"
                         THEN Append(NamespaceNames, Head(left)) ELSE NamespaceNames
  /\ left' = Tail(left)
  /\ pc' = IF repo.space[Head(left)] = "outside" THEN "thrown" ELSE "kids"
  /\ UNCHANGED <<input, i, space, object, output>>

KidsEnd ==
  /\ pc = "kids"
  /\ left = <<>>
  /\ i' = i + 1
  /\ pc' = "walk"
  /\ UNCHANGED <<input, NamespaceNames, left, space, object, output>>

(* The walk is over: i starts again, over the namespaces found.            *)
WalkEnd ==
  /\ pc = "walk"
  /\ i > Len(NamespaceNames)
  /\ pc' = IF command = "namespaceinstance" THEN "done" ELSE "next"
  /\ i' = 1
  /\ UNCHANGED <<input, NamespaceNames, left, space, object, output>>

NextSpace ==
  /\ pc = "next"
  /\ IF i <= Len(NamespaceNames)
       THEN space' = NamespaceNames[i] /\ i' = i + 1 /\ pc' = "space"
       ELSE pc' = "done" /\ UNCHANGED <<space, i>>
  /\ UNCHANGED <<input, NamespaceNames, left, object, output>>

-----------------------------------------------------------------------------
(* --classdef, one namespace: ParseAllInNS.  Only for __SystemClass does a *)
(* failure end the command, the namespaces are walked after it.            *)
AfterSpace == IF space = System THEN "walk" ELSE "next"

SearchClasses ==
  /\ pc = "space" /\ command = "classdef"
  /\ IF Searched(space, "classes")
       THEN left' = repo.classes[space] /\ pc' = "classes"
       ELSE pc' = (IF space = System THEN "failed" ELSE "next") /\ UNCHANGED left
  /\ UNCHANGED <<input, walk, space, object, output>>

ClassRecord ==
  /\ pc = "classes"
  /\ left # <<>>
  /\ chain' = <<[name |-> Head(left), home |-> space]>>
  /\ BaseClasses' = <<>>
  /\ left' = Tail(left)
  /\ pc' = "create"
  /\ UNCHANGED <<input, walk, space, output>>

ClassesEnd ==
  /\ pc = "classes"
  /\ left = <<>>
  /\ pc' = AfterSpace
  /\ UNCHANGED <<input, walk, left, space, object, output>>

-----------------------------------------------------------------------------
(* FindDefinitionRecord, in the namespace and then in __SystemClass: the   *)
(* homes where the class is found, at most one.                            *)
Found(n, c) == Searched(n, "classes") /\ Defines(n, c)
Where(n, c) ==
  IF Found(n, c) THEN {n} ELSE IF Found(System, c) THEN {System} ELSE {}

(* The other two commands look one class up in each namespace.  One that   *)
(* is not found counts as parsed, with nothing to show.                    *)
LookUp ==
  /\ pc = "space" /\ command # "classdef"
  /\ chain' = IF Where(space, class) = {} THEN <<>>
              ELSE <<[name |-> class, home |-> CHOOSE n \in Where(space, class) : TRUE]>>
  /\ BaseClasses' = <<>>
  /\ pc' = IF chain' = <<>> THEN "next" ELSE "create"
  /\ UNCHANGED <<input, walk, left, space, output>>

Top      == Head(chain)
State(e) == repo.record[e.home][e.name]
Super(e) == repo.super[e.name]
NoObject == IF command = "classdef" THEN "classes" ELSE "next"

(* No extents: the call returns true.  The class itself then has no object *)
(* to show; a class derived from it goes on without this ancestor, since   *)
(* bNonFatalError of the inner call is not looked at.                      *)
CreateUnread ==
  /\ pc = "create" /\ State(Top) = "unread"
  /\ chain' = Tail(chain)
  /\ pc' = IF chain' = <<>> THEN NoObject ELSE "finish"
  /\ UNCHANGED <<input, walk, left, space, BaseClasses, output>>

(* Create parses the superclass before anything of its own; one that is    *)
(* not found is passed over.                                               *)
CreateSuper ==
  /\ pc = "create" /\ State(Top) # "unread"
  /\ IF Super(Top) # NoClass /\ Where(space, Super(Top)) # {}
       THEN /\ \E n \in Where(space, Super(Top)) :
                 chain' = <<[name |-> Super(Top), home |-> n]>> \o chain
            /\ UNCHANGED pc
       ELSE pc' = "finish" /\ UNCHANGED chain
  /\ UNCHANGED <<input, walk, left, space, BaseClasses, output>>

(* Mutant: a base class is put in front of those found before.             *)
FinishBaseFront ==
  /\ pc = "finish" /\ State(Top) = "ok" /\ Len(chain) > 1
  /\ BaseClasses' = <<Top.name>> \o BaseClasses
  /\ chain' = Tail(chain)
  /\ UNCHANGED <<input, pc, walk, left, space, output>>

(* The rest of Create for a superclass: AddBaseClass.                      *)
FinishBase ==
  /\ pc = "finish" /\ State(Top) = "ok" /\ Len(chain) > 1
  /\ BaseClasses' = Append(BaseClasses, Top.name)
  /\ chain' = Tail(chain)
  /\ UNCHANGED <<input, pc, walk, left, space, output>>

(* The class itself: its definition is printed, or its instances are.      *)
Shown == [space |-> space, class |-> Top.name, bases |-> BaseClasses]

FinishClass ==
  /\ pc = "finish" /\ State(Top) = "ok" /\ Len(chain) = 1
  /\ IF command = "instance" THEN pc' = "instances" /\ UNCHANGED <<chain, output>>
     ELSE pc' = NoObject /\ output' = output \union {Shown} /\ chain' = <<>>
  /\ UNCHANGED <<input, walk, left, space, BaseClasses>>

(* Mutants: the loop over the classes goes on; the instances of the        *)
(* namespaces after it are looked for.                                     *)
FinishFailsOn ==
  /\ pc = "finish" /\ State(Top) = "malformed"
  /\ chain' = <<>>
  /\ pc' = CASE command = "classdef" -> "classes"
             [] command = "specified_classdef" -> "next"
             [] command = "instance" -> "failed"
  /\ UNCHANGED <<input, walk, left, space, BaseClasses, output>>
FinishFailsNext ==
  /\ pc = "finish" /\ State(Top) = "malformed"
  /\ chain' = <<>>
  /\ left' = <<>>
  /\ pc' = IF command = "classdef" THEN "classes" ELSE "next"
  /\ UNCHANGED <<input, walk, space, BaseClasses, output>>

(* Create refuses a record, and so do all the calls it was made from:      *)
(* ParseAllInNS leaves its loop and still returns true, PrintAllClasses    *)
(* goes on with the next namespace, ParseInAllNS gives up.                 *)
FinishFails ==
  /\ pc = "finish" /\ State(Top) = "malformed"
  /\ chain' = <<>>
  /\ left' = <<>>
  /\ pc' = CASE command = "classdef" -> "classes"
             [] command = "specified_classdef" -> "next"
             [] command = "instance" -> "failed"
  /\ UNCHANGED <<input, walk, space, BaseClasses, output>>

(* Parse(szClassName) after the class: the instances of the namespace that *)
(* can be parsed are printed, the others passed over.                      *)
Instances ==
  /\ pc = "instances"
  /\ chain' = <<>>
  /\ IF Searched(space, "instances")
       THEN pc' = "next" /\ output' = output \union {Shown}
       ELSE pc' = "failed" /\ UNCHANGED output
  /\ UNCHANGED <<input, walk, left, space, BaseClasses>>

Names  == SearchKids \/ Kid \/ KidsEnd \/ WalkEnd \/ NextSpace
Create == CreateUnread \/ CreateSuper \/ FinishBase \/ FinishClass \/ FinishFails
Walk   == Names \/ SearchClasses \/ ClassRecord \/ ClassesEnd \/ LookUp \/ Create \/ Instances
-----------------------------------------------------------------------------
Listed      == {NamespaceNames[k] : k \in DOMAIN NamespaceNames}
KidsOf(n)   == {repo.kids[n][k] : k \in DOMAIN repo.kids[n]}

(* A search of n leads to m, and the namespaces a walk can reach: the      *)
(* least set that contains the root and all that its members lead to.      *)
Leads(n, m) == Searched(n, "spaces") /\ m \in KidsOf(n) /\ repo.space[m] = "ok"
Closed(S)   == Root \in S /\ \A n \in S : \A m \in KidsOf(n) : Leads(n, m) => m \in S
Reachable   == {m \in Spaces(repo) : \A S \in SUBSET Spaces(repo) : Closed(S) => m \in S}

(* The walk lists a namespace once and after its parent; and when it is    *)
(* over, exactly those that can be reached: one record that is lost takes  *)
(* all the namespaces below with it and no other (ParseNamespaceRecords).  *)
NamespacesFound ==
  /\ \A k \in 2 .. Len(NamespaceNames) :
       \E j \in 1 .. k - 1 : NamespaceNames[k] \in KidsOf(NamespaceNames[j])
  /\ \A j, k \in DOMAIN NamespaceNames : NamespaceNames[j] = NamespaceNames[k] => j = k
  /\ pc \in {"next", "done"} => Listed = Reachable

(* The class c as the parser of namespace n resolves it; where it comes to *)
(* the last superclass; and the records it goes through from e, itself     *)
(* among them: the least set that holds e and, with a record, the one of   *)
(* its superclass.                                                         *)
Resolved(n, c) == [name |-> c, home |-> CHOOSE h \in Where(n, c) : TRUE]
Ends(n, e) ==
  \/ State(e) = "unread"
  \/ Super(e) = NoClass
  \/ Where(n, Super(e)) = {}
Records(n)    == [name : ClassNames, home : {n, System}]
Rises(n, S)   == \A e \in S : Ends(n, e) \/ Resolved(n, Super(e)) \in S
Lineage(n, e) ==
  {x \in Records(n) : \A S \in SUBSET Records(n) : e \in S /\ Rises(n, S) => x \in S}

Refused(n, e) == \E x \in Lineage(n, e) : State(x) = "malformed"
Shows(n, e) == State(e) # "unread" /\ ~ Refused(n, e)

(* --classdef shows, of a namespace, the classes before the first it        *)
(* refuses, itself or in a superclass; those after it in the order of the  *)
(* index are left out, and the namespaces after it are not (ParseAllInNS,  *)
(* CreateClassDefinition, Create).                                         *)
ClassesUntilRefused ==
  command = "classdef" /\ pc = "done" =>
    {<<o.space, o.class>> : o \in output} =
      UNION {{<<n, repo.classes[n][k]>> : k \in
                {k \in DOMAIN repo.classes[n] :
                   /\ Shows(n, [name |-> repo.classes[n][k], home |-> n])
                   /\ \A j \in 1 .. k :
                        ~ Refused(n, [name |-> repo.classes[n][j], home |-> n])}} :
               n \in {m \in Listed \union {System} : Searched(m, "classes")}}

(* The k-th record above e, when the base classes above e are bases, in    *)
(* the order of AddBaseClass: the farthest comes first.                    *)
Above(n, e, bases, k) == IF k = 0 THEN e ELSE Resolved(n, bases[Len(bases) + 1 - k])

(* bases are the superclasses of e, from its own up to the last that was   *)
(* read: it has none, or one that cannot be found or read.                 *)
Ascends(n, e, bases) ==
  LET E(k) == Above(n, e, bases, k)
      top  == E(Len(bases))
  IN  /\ \A k \in 1 .. Len(bases) : ~ Ends(n, E(k - 1)) /\ E(k) = Resolved(n, Super(E(k - 1)))
      /\ State(top) # "unread"
      /\ Ends(n, top) \/ State(Resolved(n, Super(top))) = "unread"

(* The base classes of a definition shown are its superclasses from the    *)
(* one farthest up that was reached to its own, each once: one that cannot *)
(* be read or found cuts off those above it and nothing else (AddBaseClass). *)
BasesAreAncestors ==
  \A o \in output :
    IF command = "classdef"
      THEN Ascends(o.space, [name |-> o.class, home |-> o.space], o.bases)
      ELSE Where(o.space, o.class) # {} /\ Ascends(o.space, Resolved(o.space, o.class), o.bases)

(* --instance stops at the first namespace, in the order of the walk, in   *)
(* which the class is refused or the instances cannot be searched, and     *)
(* reports failure; before it every namespace that sees the class was      *)
(* searched.  --specified_classdef never stops (ParseInAllNS,              *)
(* PrintAllClasses).                                                       *)
Sees(n)  == Where(n, class) # {} /\ State(Resolved(n, class)) # "unread"
Halts(n) ==
  /\ Sees(n)
  /\ \/ Refused(n, Resolved(n, class))
     \/ command = "instance" /\ ~ Searched(n, "instances")

SeenUntilHalt ==
  command \in {"specified_classdef", "instance"} /\ pc \in {"done", "failed"} =>
    /\ {o.space : o \in output} =
         {NamespaceNames[k] : k \in
            {k \in DOMAIN NamespaceNames :
               /\ Sees(NamespaceNames[k])
               /\ ~ Halts(NamespaceNames[k])
               /\ command = "instance" =>
                    \A j \in 1 .. k : ~ Halts(NamespaceNames[j])}}
    /\ (pc = "failed") <=> (command = "instance" /\ \E n \in Listed : Halts(n))
=============================================================================
