------------------------ MODULE RepositoryWalkProofs ------------------------
(***************************************************************************)
(* For every repository and every sequence of lines typed:                 *)
(* - the walk lists each namespace once and after its parent, and exactly  *)
(*   those that can be reached.  The loop over NamespaceNames is a queue   *)
(*   of its own making; WalkInv says of every namespace listed that a      *)
(*   search of one already looked at led to it, and of every namespace     *)
(*   already looked at that all its search led to are listed.              *)
(* - what the other commands show.  ClassInv says of the calls of          *)
(*   CreateClassDefinition that each is for the superclass of the one      *)
(*   before, of the base classes that they are what lies above the         *)
(*   innermost call, and of the output that it is what the classes and     *)
(*   namespaces already passed have to show.                               *)
(***************************************************************************)
EXTENDS CommandLoop, SequenceTheorems, TLAPS

(* Whatever is typed: the lines are not restricted.                        *)
LoopSpec == WalkInit /\ pc = "read" /\ [][Next]_allVars

Commands == {"namespaceinstance", "classdef", "specified_classdef", "instance"}

(* Where a command is at work on one namespace.                            *)
AtSpace == pc \in {"space", "classes", "create", "finish", "instances"}

WalkTypeOK ==
  /\ repo \in Repositories
  /\ NamespaceNames \in Seq(Spaces(repo))
  /\ Len(NamespaceNames) > 0 /\ NamespaceNames[1] = Root
  /\ i \in Nat \ {0}
  /\ pc \in {"walk", "kids"} => i <= Len(NamespaceNames) + 1
  /\ pc = "kids" => i <= Len(NamespaceNames)

(* How far the records of the search at work have been looked at.          *)
Kids   == repo.kids[NamespaceNames[i]]
Looked == Len(Kids) - Len(left)

KidsLeft ==
  pc = "kids" =>
    /\ Searched(NamespaceNames[i], "spaces")
    /\ left \in Seq(Spaces(repo)) /\ Len(left) <= Len(Kids)
    /\ \A j \in 1 .. Len(left) : left[j] = Kids[Looked + j]

(* Only what was looked at leads to what is listed ...                     *)
LedTo(j, k) ==
  /\ Leads(NamespaceNames[j], NamespaceNames[k])
  /\ \/ pc \notin {"walk", "kids"}
     \/ j < i
     \/ pc = "kids" /\ j = i /\ \E c \in 1 .. Looked : Kids[c] = NamespaceNames[k]

AllLedTo == \A k \in 2 .. Len(NamespaceNames) : \E j \in 1 .. k - 1 : LedTo(j, k)

(* ... and all that it leads to is listed.                                 *)
Followed(n) == \A m \in KidsOf(n) : Leads(n, m) => m \in Listed

AllFollowed ==
  pc \in {"walk", "kids"} =>
    /\ \A j \in 1 .. i - 1 : Followed(NamespaceNames[j])
    /\ pc = "kids" =>
         \A c \in 1 .. Looked : Leads(NamespaceNames[i], Kids[c]) => Kids[c] \in Listed

ListedOnce ==
  \A j, k \in DOMAIN NamespaceNames : NamespaceNames[j] = NamespaceNames[k] => j = k

(* A command begins with __SystemClass and the walk still to come, or is   *)
(* in a namespace of a walk that is over.                                  *)
Complete == Listed = Reachable

Phases ==
  /\ pc \in {"walk", "kids", "next", "done"} \/ AtSpace => command \in Commands
  /\ pc = "next" \/ AtSpace => command # "namespaceinstance"
  /\ pc = "instances" => command = "instance"
  /\ AtSpace /\ space = System =>
       command = "classdef" /\ NamespaceNames = <<Root>> /\ i = 1
  /\ AtSpace /\ space # System => Complete
  /\ pc \in {"next", "done"} => Complete

WalkInv ==
  /\ WalkTypeOK /\ KidsLeft /\ AllLedTo /\ AllFollowed /\ ListedOnce
  /\ Listed \subseteq Reachable
  /\ Phases
-----------------------------------------------------------------------------
(* Class definitions.  The k-th class of the index of namespace n, and the *)
(* record under construction; left holds the classes after it.             *)
RecordAt(n, k) == [name |-> repo.classes[n][k], home |-> n]
Place(n, rest) == Len(repo.classes[n]) - Len(rest)
Start(n, rest) == IF command = "classdef" THEN RecordAt(n, Place(n, rest)) ELSE Resolved(n, class)

(* The calls of CreateClassDefinition lead from the record e to the        *)
(* innermost one, each for the superclass of the one before.               *)
CallsFrom(n, e, calls) ==
  /\ calls \in Seq(Records(n)) /\ calls # <<>>
  /\ calls[Len(calls)] = e
  /\ \A j \in 1 .. Len(calls) : calls[j] \in Lineage(n, e)
  /\ \A j \in 1 .. Len(calls) - 1 :
       ~ Ends(n, calls[j + 1]) /\ calls[j] = Resolved(n, Super(calls[j + 1]))

(* What was found above the record e, none of it refused.                  *)
Built(n, e, bases) ==
  /\ bases \in Seq(ClassNames)
  /\ Ascends(n, e, bases)
  /\ \A k \in 1 .. Len(bases) : State(Resolved(n, bases[k])) = "ok"

Building == pc \in {"create", "finish", "instances"}

Construction ==
  Building =>
    \A n \in {space}, rest \in {left}, calls \in {chain}, bases \in {BaseClasses} :
      /\ CallsFrom(n, Start(n, rest), calls)
      /\ pc = "create" => bases = <<>>
      /\ pc # "create" => Built(n, calls[1], bases)
      /\ pc = "instances" => Len(calls) = 1 /\ State(calls[1]) = "ok"
      /\ command # "classdef" => Where(n, class) # {}

(* Which namespace is at work, or was when the command gave up.            *)
AtWork ==
  /\ pc = "next" => i <= Len(NamespaceNames) + 1
  /\ pc = "done" /\ command # "namespaceinstance" => i = Len(NamespaceNames) + 1
  /\ (AtSpace /\ space # System) \/ (pc = "failed" /\ command = "instance") =>
       i \in 2 .. Len(NamespaceNames) + 1 /\ space = NamespaceNames[i - 1]
  /\ AtSpace /\ pc # "space" /\ command = "classdef" => Searched(space, "classes")
  /\ pc = "classes" => command = "classdef"

(* The classes shown of namespace n among the first m of its index, and    *)
(* those of __SystemClass and of the first k namespaces.                   *)
Passed(n, m) == \A j \in 1 .. m : ~ Refused(n, RecordAt(n, j))
ShownOf(n, m) ==
  {<<n, repo.classes[n][k]>> :
     k \in {j \in 1 .. m : Shows(n, RecordAt(n, j)) /\ Passed(n, j)}}
ShownOfAll(names, k) ==
  UNION {ShownOf(n, Len(repo.classes[n])) :
           n \in {m \in {System} \union {names[j] : j \in 1 .. k} : Searched(m, "classes")}}
Earlier(n, names, k) == IF n = System THEN {} ELSE ShownOfAll(names, k - 2)

(* The classes of n not yet looked at.                                     *)
Remain(n, rest) ==
  /\ rest \in Seq(ClassNames)
  /\ Place(n, rest) \in 0 .. Len(repo.classes[n])
  /\ \A j \in 1 .. Len(rest) : rest[j] = repo.classes[n][Place(n, rest) + j]

ShownPairs == {<<o.space, o.class>> : o \in output}

ClassesShown ==
  command = "classdef" =>
    \A n \in {space}, rest \in {left}, names \in {NamespaceNames}, k \in {i} :
      /\ pc \in {"walk", "kids"} => ShownPairs = ShownOfAll(<<>>, 0)
      /\ pc \in {"next", "done"} => ShownPairs = ShownOfAll(names, k - 1)
      /\ pc = "space" => ShownPairs = Earlier(n, names, k)
      /\ pc = "classes" =>
           /\ Remain(n, rest)
           /\ rest # <<>> => Passed(n, Place(n, rest))
           /\ ShownPairs = Earlier(n, names, k) \union ShownOf(n, Place(n, rest))
      /\ Building =>
           /\ Remain(n, rest) /\ Place(n, rest) > 0
           /\ Passed(n, Place(n, rest) - 1)
           /\ ShownPairs = Earlier(n, names, k) \union ShownOf(n, Place(n, rest) - 1)

(* Of the first m namespaces, those whose class was shown; none made the   *)
(* command stop.                                                           *)
NoneHalts(names, m) == command = "instance" => \A j \in 1 .. m : ~ Halts(names[j])
SeenOf(names, m) ==
  {names[k] : k \in {j \in 1 .. m : /\ Sees(names[j]) /\ ~ Halts(names[j])
                                     /\ NoneHalts(names, j)}}

ShownSpaces == {o.space : o \in output}

SpacesSeen ==
  command \in {"specified_classdef", "instance"} =>
    \A names \in {NamespaceNames}, k \in {i} :
      /\ pc \in {"walk", "kids"} => output = {}
      /\ pc \in {"next", "done"} => ShownSpaces = SeenOf(names, k - 1) /\ NoneHalts(names, k - 1)
      /\ AtSpace => ShownSpaces = SeenOf(names, k - 2) /\ NoneHalts(names, k - 2)
      /\ pc = "failed" =>
           /\ command = "instance" /\ ShownSpaces = SeenOf(names, k - 2)
           /\ NoneHalts(names, k - 2) /\ Halts(names[k - 1])

ClassInv ==
  /\ Construction /\ AtWork /\ ClassesShown /\ SpacesSeen
  /\ BasesAreAncestors
-----------------------------------------------------------------------------
LEMMA RepoFacts ==
  ASSUME repo \in Repositories
  PROVE  /\ Root \in Spaces(repo) /\ System \notin Spaces(repo)
         /\ \A n \in Spaces(repo) :
              /\ repo.kids[n] \in Seq(Spaces(repo))
              /\ KidsOf(n) \subseteq Spaces(repo) /\ Root \notin KidsOf(n)
              /\ \A j, k \in DOMAIN repo.kids[n] : repo.kids[n][j] = repo.kids[n][k] => j = k
         /\ \A n, m \in Spaces(repo) : \A x \in KidsOf(n) : x \in KidsOf(m) => n = m
<1>1. /\ Root \in Spaces(repo) /\ System \notin Spaces(repo)
      /\ repo.kids \in [Spaces(repo) -> Seq(Spaces(repo) \ {Root})]
      /\ \A n, m \in Spaces(repo) : \A j \in DOMAIN repo.kids[n], k \in DOMAIN repo.kids[m] :
           repo.kids[n][j] = repo.kids[m][k] => n = m /\ j = k
  BY RepositoriesAssumption
<1>2. ASSUME NEW n \in Spaces(repo)
      PROVE  /\ repo.kids[n] \in Seq(Spaces(repo))
             /\ KidsOf(n) \subseteq Spaces(repo) /\ Root \notin KidsOf(n)
  <2>1. repo.kids[n] \in Seq(Spaces(repo) \ {Root})
    BY <1>1
  <2>2. \A j \in DOMAIN repo.kids[n] : repo.kids[n][j] \in Spaces(repo) \ {Root}
    BY <2>1
  <2>3. repo.kids[n] \in Seq(Spaces(repo))
    BY <2>1
  <2>4. QED BY <2>2, <2>3 DEF KidsOf
<1>3. \A n, m \in Spaces(repo) : \A x \in KidsOf(n) : x \in KidsOf(m) => n = m
  BY <1>1 DEF KidsOf
<1>4. QED BY <1>1, <1>2, <1>3

(* The root can be reached, and what a search of a namespace that can be   *)
(* reached leads to; and nothing else can: a set that is closed holds all. *)
LEMMA ReachFacts ==
  ASSUME repo \in Repositories
  PROVE  /\ Root \in Reachable
         /\ \A n \in Reachable : \A m \in KidsOf(n) : Leads(n, m) => m \in Reachable
         /\ \A S \in SUBSET Spaces(repo) : Closed(S) => Reachable \subseteq S
<1>1. Root \in Reachable
  BY RepoFacts DEF Reachable, Closed
<1>2. ASSUME NEW n \in Reachable, NEW m \in KidsOf(n), Leads(n, m)
      PROVE  m \in Reachable
  <2>1. n \in Spaces(repo) /\ m \in Spaces(repo)
    BY <1>2, RepoFacts DEF Reachable
  <2>2. \A S \in SUBSET Spaces(repo) : Closed(S) => m \in S
    BY <1>2 DEF Reachable, Closed
  <2>3. QED BY <2>1, <2>2 DEF Reachable
<1>3. \A S \in SUBSET Spaces(repo) : Closed(S) => Reachable \subseteq S
  BY DEF Reachable
<1>4. QED BY <1>1, <1>2, <1>3

LEMMA RepoOnly ==
  ASSUME repo' = repo
  PROVE  /\ Reachable' = Reachable
         /\ \A n, m : Leads(n, m)' <=> Leads(n, m)
         /\ \A n : KidsOf(n)' = KidsOf(n)
<1>1. \A n : KidsOf(n)' = KidsOf(n)
  BY DEF KidsOf
<1>2. \A n, m : Leads(n, m)' <=> Leads(n, m)
  BY <1>1 DEF Leads, Searched
<1>3. Reachable' = Reachable
  BY DEF Reachable, Closed, Leads, Searched, KidsOf
<1>4. QED BY <1>1, <1>2, <1>3

-----------------------------------------------------------------------------
(* A step that is not of the walk leaves what was listed.                  *)
LEMMA Elsewhere ==
  ASSUME WalkInv, repo' = repo, NamespaceNames' = NamespaceNames, i' \in Nat \ {0},
         pc' \notin {"walk", "kids"}, Phases'
  PROVE  WalkInv'
<1>1. Listed' = Listed /\ Reachable' = Reachable
  BY RepoOnly DEF Listed
<1>2. WalkTypeOK'
  BY DEF WalkInv, WalkTypeOK
<1>3. KidsLeft' /\ AllFollowed'
  BY DEF KidsLeft, AllFollowed
<1>4. AllLedTo'
  <2>1. ASSUME NEW k \in 2 .. Len(NamespaceNames)
        PROVE  \E j \in 1 .. k - 1 : LedTo(j, k)'
    <3>1. PICK j \in 1 .. k - 1 : LedTo(j, k)
      BY DEF WalkInv, AllLedTo
    <3>2. Leads(NamespaceNames[j], NamespaceNames[k])
      BY <3>1 DEF LedTo
    <3>3. LedTo(j, k)'
      BY <3>2 DEF LedTo, Leads, Searched, KidsOf
    <3>4. QED BY <3>3
  <2>2. QED BY <2>1 DEF AllLedTo
<1>5. ListedOnce'
  BY DEF WalkInv, ListedOnce
<1>6. QED BY <1>1, <1>2, <1>3, <1>4, <1>5 DEF WalkInv

(* In one namespace nothing of the walk changes, until the next.           *)
LEMMA SpaceStep ==
  ASSUME WalkInv, AtSpace, UNCHANGED <<repo, walk, space, command>>,
         AtSpace' \/ pc' = "failed" \/ (pc' = "next" /\ space # System),
         pc' = "instances" => command = "instance"
  PROVE  WalkInv'
<1>1. /\ repo' = repo /\ NamespaceNames' = NamespaceNames /\ i' = i
      /\ space' = space /\ command' = command
  BY DEF walk
<1>2. \/ pc' \notin {"walk", "kids", "done"} /\ (pc' = "next" \/ AtSpace')
      \/ pc' = "failed"
  BY DEF AtSpace
<1>3. i' \in Nat \ {0}
  BY <1>1 DEF WalkInv, WalkTypeOK
<1>4. Complete' <=> Complete
  BY <1>1, RepoOnly DEF Complete, Listed
<1>5. Phases
  BY DEF WalkInv
<1>6. Phases'
  <2>1. CASE pc' = "failed"
    BY <2>1 DEF Phases, AtSpace
  <2>2. CASE pc' = "next"
    <3>1. ~ AtSpace'
      BY <2>2 DEF AtSpace
    <3>2. space # System
      BY <2>2, <3>1
    <3>3. QED BY <1>1, <1>4, <1>5, <2>2, <3>1, <3>2 DEF Phases
  <2>3. CASE AtSpace'
    <3>1. pc' \notin {"walk", "kids", "next", "done"}
      BY <2>3 DEF AtSpace
    <3>2. QED BY <1>1, <1>4, <1>5, <2>3, <3>1 DEF Phases
  <2>4. QED BY <2>1, <2>2, <2>3
<1>7. pc' \notin {"walk", "kids"}
  BY <1>2
<1>8. QED BY <1>1, <1>3, <1>6, <1>7, Elsewhere
-----------------------------------------------------------------------------
LEMMA WalkFacts ==
  ASSUME WalkInv
  PROVE  /\ repo \in Repositories
         /\ Len(NamespaceNames) \in Nat \ {0} /\ DOMAIN NamespaceNames = 1 .. Len(NamespaceNames)
         /\ \A k \in 1 .. Len(NamespaceNames) : NamespaceNames[k] \in Spaces(repo)
         /\ NamespaceNames[1] = Root /\ i \in Nat \ {0}
  BY DEF WalkInv, WalkTypeOK

LEMMA SearchKidsKeeps ==
  ASSUME WalkInv, SearchKids
  PROVE  WalkInv'
<1> DEFINE N == NamespaceNames
<1>1. /\ pc = "walk" /\ i <= Len(N) /\ repo' = repo /\ command' = command
      /\ NamespaceNames' = NamespaceNames
  BY DEF SearchKids, input
<1>2. WalkTypeOK /\ AllLedTo /\ AllFollowed /\ ListedOnce /\ Listed \subseteq Reachable /\ Phases
      /\ N \in Seq(Spaces(repo))
  BY DEF WalkInv, WalkTypeOK
<1>3. /\ repo \in Repositories /\ Len(N) \in Nat \ {0} /\ i \in Nat \ {0} /\ i \in 1 .. Len(N)
      /\ N[i] \in Spaces(repo)
  BY <1>1, WalkFacts
<1>4. Listed' = Listed /\ Reachable' = Reachable
  BY <1>1, RepoOnly DEF Listed
<1>5. ListedOnce'
  BY <1>1, <1>2 DEF ListedOnce
<1>6. \A n : Followed(n)' <=> Followed(n)
  BY <1>1, <1>4 DEF Followed, Leads, Searched, KidsOf
<1>7. CASE Searched(N[i], "spaces")
  <2>1. pc' = "kids" /\ left' = Kids /\ i' = i
    BY <1>1, <1>7 DEF SearchKids, Kids
  <2>2. Kids' = Kids /\ Kids \in Seq(Spaces(repo)) /\ Len(Kids) \in Nat
    BY <1>1, <1>3, <2>1, RepoFacts DEF Kids
  <2>3. Looked' = 0
    BY <2>1, <2>2 DEF Looked
  <2>4. WalkTypeOK'
    BY <1>1, <1>2, <2>1 DEF WalkTypeOK
  <2>5. KidsLeft'
    <3>1. \A j \in 1 .. Len(Kids) : 0 + j = j
      OBVIOUS
    <3>2. Searched(N[i], "spaces")'
      BY <1>1, <1>7, <2>1 DEF Searched
    <3>3. QED BY <1>1, <2>1, <2>2, <2>3, <3>1, <3>2 DEF KidsLeft
  <2>6. AllLedTo'
    <3>1. ASSUME NEW k \in 2 .. Len(N)
          PROVE  \E j \in 1 .. k - 1 : LedTo(j, k)'
      <4>1. PICK j \in 1 .. k - 1 : LedTo(j, k)
        BY <1>2 DEF AllLedTo
      <4>2. Leads(N[j], N[k]) /\ j < i
        BY <1>1, <4>1 DEF LedTo
      <4>3. LedTo(j, k)'
        BY <1>1, <2>1, <4>2 DEF LedTo, Leads, Searched, KidsOf
      <4>4. QED BY <4>3
    <3>2. QED BY <1>1, <3>1 DEF AllLedTo
  <2>7. AllFollowed'
    <3>1. \A j \in 1 .. i - 1 : Followed(N[j])
      BY <1>1, <1>2 DEF AllFollowed
    <3>2. \A c \in 1 .. Looked' : FALSE
      BY <2>3
    <3>3. \A j \in 1 .. i' - 1 : Followed(NamespaceNames[j])'
      BY <1>1, <1>4, <2>1, <3>1 DEF Followed, Leads, Searched, KidsOf
    <3>4. QED BY <3>2, <3>3 DEF AllFollowed
  <2>8. Phases'
    BY <1>1, <1>2, <2>1 DEF Phases, AtSpace
  <2>9. QED BY <1>2, <1>4, <1>5, <2>4, <2>5, <2>6, <2>7, <2>8 DEF WalkInv
<1>8. CASE ~ Searched(N[i], "spaces")
  <2>1. pc' = "walk" /\ i' = i + 1
    BY <1>1, <1>8 DEF SearchKids
  <2>2. WalkTypeOK'
    BY <1>1, <1>2, <1>3, <2>1 DEF WalkTypeOK
  <2>3. KidsLeft'
    BY <2>1 DEF KidsLeft
  <2>4. AllLedTo'
    <3>1. ASSUME NEW k \in 2 .. Len(N)
          PROVE  \E j \in 1 .. k - 1 : LedTo(j, k)'
      <4>1. PICK j \in 1 .. k - 1 : LedTo(j, k)
        BY <1>2 DEF AllLedTo
      <4>2. Leads(N[j], N[k]) /\ j < i + 1
        BY <1>1, <1>3, <4>1 DEF LedTo
      <4>3. LedTo(j, k)'
        BY <1>1, <2>1, <4>2 DEF LedTo, Leads, Searched, KidsOf
      <4>4. QED BY <4>3
    <3>2. QED BY <1>1, <3>1 DEF AllLedTo
  <2>5. AllFollowed'
    <3>1. \A j \in 1 .. i - 1 : Followed(N[j])
      BY <1>1, <1>2 DEF AllFollowed
    <3>2. Followed(N[i])
      BY <1>8 DEF Followed, Leads
    <3>3. \A j \in 1 .. (i + 1) - 1 : j = i \/ j \in 1 .. i - 1
      BY <1>3
    <3>4. \A j \in 1 .. (i + 1) - 1 : Followed(N[j])
      BY <3>1, <3>2, <3>3
    <3>5. \A j \in 1 .. i' - 1 : Followed(NamespaceNames[j])'
      BY <1>1, <1>4, <2>1, <3>4 DEF Followed, Leads, Searched, KidsOf
    <3>6. QED BY <2>1, <3>5 DEF AllFollowed
  <2>6. Phases'
    BY <1>1, <1>2, <2>1 DEF Phases, AtSpace
  <2>7. QED BY <1>2, <1>4, <1>5, <2>2, <2>3, <2>4, <2>5, <2>6 DEF WalkInv
<1>9. QED BY <1>7, <1>8

(* All records of one search were looked at.                               *)
LEMMA KidsEndKeeps ==
  ASSUME WalkInv, KidsEnd
  PROVE  WalkInv'
<1> DEFINE N == NamespaceNames
<1>1. /\ pc = "kids" /\ left = <<>> /\ i' = i + 1 /\ pc' = "walk" /\ repo' = repo
      /\ command' = command /\ NamespaceNames' = NamespaceNames
  BY DEF KidsEnd, input
<1>2. WalkTypeOK /\ KidsLeft /\ AllLedTo /\ AllFollowed /\ ListedOnce /\ Phases
      /\ Listed \subseteq Reachable
  BY DEF WalkInv
<1>3. /\ repo \in Repositories /\ Len(N) \in Nat \ {0} /\ i \in Nat \ {0} /\ i \in 1 .. Len(N)
      /\ N[i] \in Spaces(repo)
  BY <1>1, <1>2, WalkFacts DEF WalkTypeOK
<1>4. Looked = Len(Kids) /\ Kids \in Seq(Spaces(repo))
  <2>1. Kids \in Seq(Spaces(repo))
    BY <1>3, RepoFacts DEF Kids
  <2>2. Len(left) = 0 /\ Len(Kids) \in Nat
    BY <1>1, <2>1
  <2>3. QED BY <2>1, <2>2 DEF Looked
<1>5. Listed' = Listed /\ Reachable' = Reachable
  BY <1>1, RepoOnly DEF Listed
<1>6. WalkTypeOK'
  BY <1>1, <1>2, <1>3 DEF WalkTypeOK
<1>7. KidsLeft' /\ ListedOnce'
  BY <1>1, <1>2 DEF KidsLeft, ListedOnce
<1>8. AllLedTo'
  <2>1. ASSUME NEW k \in 2 .. Len(N)
        PROVE  \E j \in 1 .. k - 1 : LedTo(j, k)'
    <3>1. PICK j \in 1 .. k - 1 : LedTo(j, k)
      BY <1>2 DEF AllLedTo
    <3>2. Leads(N[j], N[k]) /\ j < i + 1
      BY <1>1, <1>3, <3>1 DEF LedTo
    <3>3. LedTo(j, k)'
      BY <1>1, <3>2 DEF LedTo, Leads, Searched, KidsOf
    <3>4. QED BY <3>3
  <2>2. QED BY <1>1, <2>1 DEF AllLedTo
<1>9. Followed(N[i])
  <2>1. \A c \in 1 .. Len(Kids) : Leads(N[i], Kids[c]) => Kids[c] \in Listed
    BY <1>1, <1>2, <1>4 DEF AllFollowed
  <2>2. KidsOf(N[i]) = {Kids[c] : c \in 1 .. Len(Kids)}
    BY <1>4 DEF KidsOf, Kids
  <2>3. QED BY <2>1, <2>2 DEF Followed
<1>10. AllFollowed'
  <2>1. \A j \in 1 .. i - 1 : Followed(N[j])
    BY <1>1, <1>2 DEF AllFollowed
  <2>2. \A j \in 1 .. (i + 1) - 1 : j = i \/ j \in 1 .. i - 1
    BY <1>3
  <2>3. \A j \in 1 .. (i + 1) - 1 : Followed(N[j])
    BY <2>1, <2>2, <1>9
  <2>4. \A j \in 1 .. i' - 1 : Followed(NamespaceNames[j])'
    BY <1>1, <1>5, <2>3 DEF Followed, Leads, Searched, KidsOf
  <2>5. QED BY <1>1, <2>4 DEF AllFollowed
<1>11. Phases'
  BY <1>1, <1>2 DEF Phases, AtSpace
<1>12. QED BY <1>2, <1>5, <1>6, <1>7, <1>8, <1>10, <1>11 DEF WalkInv
(* The next record was led to by the search at work alone, so that it was  *)
(* not listed before.                                                      *)
LEMMA NextKidIsNew ==
  ASSUME WalkInv, pc = "kids", left # <<>>
  PROVE  /\ Looked \in Nat /\ Looked + 1 \in 1 .. Len(Kids) /\ Head(left) = Kids[Looked + 1]
         /\ Kids \in Seq(Spaces(repo)) /\ Head(left) \in KidsOf(NamespaceNames[i])
         /\ Head(left) \in Spaces(repo) /\ Head(left) \notin Listed
         /\ i \in 1 .. Len(NamespaceNames) /\ Searched(NamespaceNames[i], "spaces")
         /\ left \in Seq(Spaces(repo))
<1> DEFINE N == NamespaceNames
           m == Head(left)
<1>1. WalkTypeOK /\ KidsLeft /\ AllLedTo /\ ListedOnce
  BY DEF WalkInv
<1>2. /\ repo \in Repositories /\ Len(N) \in Nat \ {0} /\ i \in 1 .. Len(N)
      /\ \A k \in 1 .. Len(N) : N[k] \in Spaces(repo)
      /\ N[1] = Root /\ DOMAIN N = 1 .. Len(N)
  BY <1>1, WalkFacts DEF WalkTypeOK
<1>3. /\ Searched(N[i], "spaces") /\ left \in Seq(Spaces(repo)) /\ Len(left) <= Len(Kids)
      /\ \A j \in 1 .. Len(left) : left[j] = Kids[Looked + j]
  BY <1>1 DEF KidsLeft
<1>4. Kids \in Seq(Spaces(repo)) /\ Len(Kids) \in Nat /\ DOMAIN Kids = 1 .. Len(Kids)
  BY <1>2, RepoFacts DEF Kids
<1>5. Len(left) \in Nat \ {0} /\ m = left[1]
  BY <1>3
<1>6. Looked \in Nat /\ Looked + 1 \in 1 .. Len(Kids)
  BY <1>3, <1>4, <1>5 DEF Looked
<1>7. m = Kids[Looked + 1]
  <2>1. 1 \in 1 .. Len(left)
    BY <1>5
  <2>2. QED BY <1>3, <1>5, <2>1
<1>8. m \in KidsOf(N[i]) /\ m \in Spaces(repo) /\ m # Root
  <2>1. m \in KidsOf(N[i])
    BY <1>4, <1>6, <1>7 DEF KidsOf, Kids
  <2>2. QED BY <2>1, <1>2, RepoFacts
<1>9. ASSUME NEW k \in DOMAIN N, N[k] = m
      PROVE  FALSE
  <2>1. k \in 2 .. Len(N)
    BY <1>2, <1>8, <1>9
  <2>2. PICK j \in 1 .. k - 1 : LedTo(j, k)
    BY <1>1, <2>1 DEF AllLedTo
  <2>3. j \in 1 .. Len(N)
    BY <1>2, <2>1
  <2>4. m \in KidsOf(N[j])
    BY <1>9, <2>2 DEF LedTo, Leads
  <2>5. N[j] = N[i]
    BY <1>2, <1>8, <2>3, <2>4, RepoFacts
  <2>6. j = i
    BY <1>1, <1>2, <2>3, <2>5 DEF ListedOnce
  <2>7. ~ (j < i)
    BY <1>2, <2>6
  <2>8. PICK c \in 1 .. Looked : Kids[c] = m
    BY <1>9, <2>2, <2>7 DEF LedTo
  <2>9. c \in DOMAIN Kids /\ Looked + 1 \in DOMAIN Kids /\ c # Looked + 1
    BY <1>4, <1>6
  <2>10. c = Looked + 1
    BY <1>2, <1>7, <2>8, <2>9, RepoFacts DEF Kids
  <2>11. QED BY <2>9, <2>10
<1>10. m \notin Listed
  BY <1>9 DEF Listed
<1>11. QED BY <1>2, <1>3, <1>4, <1>6, <1>7, <1>8, <1>10

(* It is listed if it is a namespace, and passed over if it is lost.       *)
LEMMA KidKeeps ==
  ASSUME WalkInv, Kid, repo.space[Head(left)] # "outside"
  PROVE  WalkInv'
<1> DEFINE N == NamespaceNames
<1>1. PICK m : m = Head(left)
  OBVIOUS
<1>2. /\ pc = "kids" /\ left # <<>> /\ left' = Tail(left) /\ pc' = "kids" /\ repo' = repo
      /\ command' = command /\ i' = i
      /\ NamespaceNames' = IF repo.space[m] = "ok" THEN Append(N, m) ELSE N
  BY <1>1 DEF Kid, input
<1>3. /\ Looked \in Nat /\ Looked + 1 \in 1 .. Len(Kids) /\ m = Kids[Looked + 1]
      /\ Kids \in Seq(Spaces(repo)) /\ m \in KidsOf(N[i]) /\ m \in Spaces(repo)
      /\ m \notin Listed /\ i \in 1 .. Len(N) /\ Searched(N[i], "spaces")
      /\ left \in Seq(Spaces(repo))
  BY <1>1, <1>2, NextKidIsNew
<1>4. WalkTypeOK /\ KidsLeft /\ AllLedTo /\ AllFollowed /\ ListedOnce /\ Phases
      /\ Listed \subseteq Reachable
  BY DEF WalkInv
<1>5. /\ repo \in Repositories /\ Len(N) \in Nat \ {0} /\ N \in Seq(Spaces(repo))
      /\ N[1] = Root /\ DOMAIN N = 1 .. Len(N) /\ i \in Nat \ {0}
  BY <1>4, WalkFacts DEF WalkTypeOK
<1>6. Reachable' = Reachable
  BY <1>2, RepoOnly
<1>7. /\ NamespaceNames' \in Seq(Spaces(repo)) /\ Len(N) <= Len(NamespaceNames')
      /\ Len(NamespaceNames') \in Nat
      /\ \A k \in 1 .. Len(N) : NamespaceNames'[k] = N[k]
      /\ repo.space[m] # "ok" => NamespaceNames' = N
      /\ repo.space[m] = "ok" =>
           Len(NamespaceNames') = Len(N) + 1 /\ NamespaceNames'[Len(N) + 1] = m
  <2>1. CASE repo.space[m] = "ok"
    <3>1. NamespaceNames' = Append(N, m)
      BY <1>2, <2>1
    <3>2. /\ Append(N, m) \in Seq(Spaces(repo)) /\ Len(Append(N, m)) = Len(N) + 1
          /\ \A k \in 1 .. Len(N) : Append(N, m)[k] = N[k]
          /\ Append(N, m)[Len(N) + 1] = m
      BY <1>3, <1>5
    <3>3. QED BY <1>5, <2>1, <3>1, <3>2
  <2>2. CASE repo.space[m] # "ok"
    <3>1. NamespaceNames' = N
      BY <1>2, <2>2
    <3>2. Len(N) <= Len(N) /\ Len(N) \in Nat /\ N \in Seq(Spaces(repo))
      BY <1>5
    <3>3. QED BY <2>2, <3>1, <3>2, Zenon
  <2>3. QED BY <2>1, <2>2
<1>8. Listed' = IF repo.space[m] = "ok" THEN Listed \union {m} ELSE Listed
  <2>1. CASE repo.space[m] = "ok"
    <3>1. DOMAIN NamespaceNames' = 1 .. Len(N) + 1
      BY <1>7, <2>1
    <3>2. \A k : k \in 1 .. Len(N) + 1 <=> k \in 1 .. Len(N) \/ k = Len(N) + 1
      BY <1>5
    <3>3. QED BY <1>5, <1>7, <2>1, <3>1, <3>2 DEF Listed
  <2>2. CASE repo.space[m] # "ok"
    BY <1>7, <2>2 DEF Listed
  <2>3. QED BY <2>1, <2>2
<1>9. Kids' = Kids
  BY <1>2, <1>3, <1>7 DEF Kids
<1>10. /\ Len(left) \in Nat \ {0} /\ Len(left') = Len(left) - 1 /\ left' \in Seq(Spaces(repo))
       /\ \A j \in 1 .. Len(left) - 1 : left'[j] = left[j + 1]
  BY <1>2, <1>3
<1>11. Looked' = Looked + 1 /\ Len(Kids) \in Nat
  BY <1>3, <1>9, <1>10 DEF Looked
<1>12. WalkTypeOK'
  <2>1. NamespaceNames'[1] = Root
    BY <1>5, <1>7
  <2>2. i <= Len(NamespaceNames') /\ Len(NamespaceNames') > 0
        /\ i <= Len(NamespaceNames') + 1
    BY <1>3, <1>5, <1>7
  <2>3. QED BY <1>2, <1>5, <1>7, <2>1, <2>2 DEF WalkTypeOK
<1>13. KidsLeft'
  <2>1. Searched(NamespaceNames[i], "spaces")'
    BY <1>2, <1>3, <1>7 DEF Searched
  <2>2. Len(left') <= Len(Kids)
    BY <1>4, <1>2, <1>10, <1>11 DEF KidsLeft
  <2>3. ASSUME NEW j \in 1 .. Len(left')
        PROVE  left'[j] = Kids[(Looked + 1) + j]
    <3>1. left'[j] = left[j + 1] /\ j + 1 \in 1 .. Len(left)
      BY <1>10, <2>3
    <3>2. left[j + 1] = Kids[Looked + (j + 1)]
      BY <1>2, <1>4, <3>1 DEF KidsLeft
    <3>3. Looked + (j + 1) = (Looked + 1) + j
      BY <1>3, <2>3
    <3>4. QED BY <3>1, <3>2, <3>3
  <2>4. QED BY <1>2, <1>9, <1>10, <1>11, <2>1, <2>2, <2>3 DEF KidsLeft
<1>14. AllLedTo'
  <2>1. ASSUME NEW k \in 2 .. Len(N)
        PROVE  \E j \in 1 .. k - 1 : LedTo(j, k)'
    <3>1. PICK j \in 1 .. k - 1 : LedTo(j, k)
      BY <1>4 DEF AllLedTo
    <3>2. NamespaceNames'[j] = N[j] /\ NamespaceNames'[k] = N[k]
      BY <1>5, <1>7, <3>1
    <3>3. Leads(N[j], N[k])
          /\ (j < i \/ (j = i /\ \E c \in 1 .. Looked + 1 : Kids[c] = N[k]))
      <4>1. \A c \in 1 .. Looked : c \in 1 .. Looked + 1
        BY <1>3
      <4>2. QED BY <1>2, <3>1, <4>1 DEF LedTo
    <3>4. LedTo(j, k)'
      BY <1>2, <1>9, <1>11, <3>2, <3>3 DEF LedTo, Leads, Searched, KidsOf
    <3>5. QED BY <3>4
  <2>2. ASSUME repo.space[m] = "ok"
        PROVE  \A k : k = Len(N) + 1 => \E j \in 1 .. k - 1 : LedTo(j, k)'
    <3>1. SUFFICES ASSUME NEW k, k = Len(N) + 1
                   PROVE  \E j \in 1 .. k - 1 : LedTo(j, k)'
      OBVIOUS
    <3>2. PICK j : j = i
      OBVIOUS
    <3>3. j \in 1 .. k - 1 /\ NamespaceNames'[j] = N[i] /\ NamespaceNames'[k] = m
      BY <1>3, <1>5, <1>7, <2>2, <3>1, <3>2
    <3>4. Leads(N[i], m)
      BY <1>3, <2>2 DEF Leads
    <3>5. Leads(NamespaceNames[j], NamespaceNames[k])'
      BY <1>2, <3>3, <3>4 DEF Leads, Searched, KidsOf
    <3>6. \E c \in 1 .. Looked' : Kids'[c] = NamespaceNames'[k]
      <4>1. Looked + 1 \in 1 .. Looked'
        BY <1>3, <1>11
      <4>2. QED BY <1>3, <1>9, <3>3, <4>1
    <3>7. LedTo(j, k)'
      BY <1>2, <3>2, <3>5, <3>6 DEF LedTo
    <3>8. QED BY <3>3, <3>7
  <2>3. SUFFICES ASSUME NEW k \in 2 .. Len(NamespaceNames')
                 PROVE  \E j \in 1 .. k - 1 : LedTo(j, k)'
    BY DEF AllLedTo
  <2>4. CASE k \in 2 .. Len(N)
    BY <2>1, <2>4
  <2>5. CASE k \notin 2 .. Len(N)
    <3>1. repo.space[m] = "ok" /\ k = Len(N) + 1
      BY <1>5, <1>7, <2>5
    <3>2. QED BY <2>2, <3>1
  <2>6. QED BY <2>4, <2>5
<1>15. AllFollowed'
  <2>1. \A j \in 1 .. i - 1 : Followed(NamespaceNames[j])'
    <3>1. ASSUME NEW j \in 1 .. i - 1
          PROVE  Followed(NamespaceNames[j])'
      <4>1. Followed(N[j])
        BY <1>2, <1>4 DEF AllFollowed
      <4>2. j \in 1 .. Len(N)
        BY <1>3, <1>5
      <4>3. NamespaceNames'[j] = N[j]
        BY <1>7, <4>2
      <4>4. Listed \subseteq Listed'
        BY <1>8
      <4>5. \A x \in KidsOf(N[j]) : Leads(N[j], x) => x \in Listed'
        BY <4>1, <4>4 DEF Followed
      <4>6. QED BY <1>2, <4>3, <4>5 DEF Followed, Leads, Searched, KidsOf
    <3>2. QED BY <3>1
  <2>2. ASSUME NEW c \in 1 .. Looked + 1, Leads(N[i], Kids[c])
        PROVE  Kids[c] \in Listed'
    <3>1. CASE c = Looked + 1
      BY <1>3, <1>8, <2>2, <3>1 DEF Leads
    <3>2. CASE c # Looked + 1
      <4>1. c \in 1 .. Looked
        BY <1>3, <3>2
      <4>2. QED BY <1>2, <1>4, <1>8, <2>2, <4>1 DEF AllFollowed
    <3>3. QED BY <3>1, <3>2
  <2>3. \A c \in 1 .. Looked' : Leads(NamespaceNames[i], Kids[c])' => Kids'[c] \in Listed'
    BY <1>2, <1>3, <1>7, <1>9, <1>11, <2>2 DEF Leads, Searched, KidsOf
  <2>4. QED BY <1>2, <2>1, <2>3 DEF AllFollowed
<1>16. ListedOnce'
  <2>1. \A k \in 1 .. Len(N) : N[k] # m
    BY <1>3, <1>5 DEF Listed
  <2>2. SUFFICES ASSUME NEW j \in DOMAIN NamespaceNames', NEW k \in DOMAIN NamespaceNames',
                        NamespaceNames'[j] = NamespaceNames'[k]
                 PROVE  j = k
    BY DEF ListedOnce
  <2>3. DOMAIN NamespaceNames' = 1 .. Len(NamespaceNames')
    BY <1>7
  <2>4. \A x \in 1 .. Len(NamespaceNames') :
          x \in 1 .. Len(N) \/ (x = Len(N) + 1 /\ NamespaceNames'[x] = m)
    BY <1>5, <1>7
  <2>5. CASE j \in 1 .. Len(N) /\ k \in 1 .. Len(N)
    <3>1. N[j] = N[k]
      BY <1>7, <2>2, <2>5
    <3>2. QED BY <1>4, <1>5, <2>5, <3>1 DEF ListedOnce
  <2>6. CASE j \in 1 .. Len(N) /\ k \notin 1 .. Len(N)
    BY <1>7, <2>1, <2>2, <2>3, <2>4, <2>6
  <2>7. CASE j \notin 1 .. Len(N) /\ k \in 1 .. Len(N)
    BY <1>7, <2>1, <2>2, <2>3, <2>4, <2>7
  <2>8. CASE j \notin 1 .. Len(N) /\ k \notin 1 .. Len(N)
    BY <2>3, <2>4, <2>8
  <2>9. QED BY <2>5, <2>6, <2>7, <2>8
<1>17. Listed' \subseteq Reachable'
  <2>1. N[i] \in Reachable
    BY <1>3, <1>4, <1>5 DEF Listed
  <2>2. repo.space[m] = "ok" => m \in Reachable
    BY <1>3, <1>5, <2>1, ReachFacts DEF Leads
  <2>3. QED BY <1>4, <1>6, <1>8, <2>2
<1>18. Phases'
  BY <1>2, <1>4 DEF Phases, AtSpace
<1>19. QED BY <1>12, <1>13, <1>14, <1>15, <1>16, <1>17, <1>18 DEF WalkInv
(* The exception ends the walk with what was listed before.                *)
LEMMA KidThrowsKeeps ==
  ASSUME WalkInv, Kid, repo.space[Head(left)] = "outside"
  PROVE  WalkInv'
<1>1. /\ repo' = repo /\ NamespaceNames' = NamespaceNames /\ i' = i /\ pc' = "thrown"
  BY DEF Kid, input
<1>2. Phases'
  BY <1>1 DEF Phases, AtSpace
<1>3. i' \in Nat \ {0}
  BY <1>1 DEF WalkInv, WalkTypeOK
<1>4. QED BY <1>1, <1>2, <1>3, Elsewhere

(* When the queue is used up what is listed is closed, and so holds all    *)
(* that can be reached.                                                    *)
LEMMA WalkEndKeeps ==
  ASSUME WalkInv, WalkEnd
  PROVE  WalkInv'
<1> DEFINE N == NamespaceNames
<1>1. /\ pc = "walk" /\ i > Len(N) /\ repo' = repo /\ NamespaceNames' = N /\ i' = 1
      /\ command' = command /\ space' = space
      /\ pc' = IF command = "namespaceinstance" THEN "done" ELSE "next"
  BY DEF WalkEnd, input
<1>2. AllFollowed /\ Phases /\ Listed \subseteq Reachable
  BY DEF WalkInv
<1>3. /\ repo \in Repositories /\ Len(N) \in Nat \ {0} /\ i \in Nat \ {0}
      /\ DOMAIN N = 1 .. Len(N) /\ N[1] = Root
      /\ \A k \in 1 .. Len(N) : N[k] \in Spaces(repo)
  BY WalkFacts
<1>4. Closed(Listed)
  <2>1. Root \in Listed
    BY <1>3 DEF Listed
  <2>2. \A n \in Listed : Followed(n)
    <3>1. \A j \in 1 .. Len(N) : j \in 1 .. i - 1
      BY <1>1, <1>3
    <3>2. \A j \in 1 .. Len(N) : Followed(N[j])
      BY <1>1, <1>2, <3>1 DEF AllFollowed
    <3>3. QED BY <1>3, <3>2 DEF Listed
  <2>3. QED BY <2>1, <2>2 DEF Closed, Followed
<1>5. Listed \in SUBSET Spaces(repo)
  BY <1>3 DEF Listed
<1>6. Listed = Reachable
  BY <1>2, <1>3, <1>4, <1>5, ReachFacts
<1>7. Listed' = Reachable'
  BY <1>1, <1>6, RepoOnly DEF Listed
<1>8. Phases'
  BY <1>1, <1>2, <1>7 DEF Phases, AtSpace, Complete
<1>9. QED BY <1>1, <1>8, Elsewhere

LEMMA NextSpaceKeeps ==
  ASSUME WalkInv, NextSpace
  PROVE  WalkInv'
<1> DEFINE N == NamespaceNames
<1>1. /\ pc = "next" /\ repo' = repo /\ NamespaceNames' = N /\ command' = command
      /\ \/ i <= Len(N) /\ space' = N[i] /\ i' = i + 1 /\ pc' = "space"
         \/ pc' = "done" /\ space' = space /\ i' = i
  BY DEF NextSpace, input
<1>2. /\ repo \in Repositories /\ Len(N) \in Nat \ {0} /\ i \in Nat \ {0}
      /\ \A k \in 1 .. Len(N) : N[k] \in Spaces(repo)
  BY WalkFacts
<1>3. Complete' /\ Phases
  BY <1>1, RepoOnly DEF WalkInv, Phases, Complete, Listed
<1>4. pc' = "space" => space' # System
  <2>1. i <= Len(N) => N[i] \in Spaces(repo)
    BY <1>2
  <2>2. QED BY <1>1, <1>2, <2>1, RepoFacts
<1>5. Phases'
  BY <1>1, <1>3, <1>4 DEF Phases, AtSpace
<1>6. i' \in Nat \ {0} /\ pc' \notin {"walk", "kids"}
  BY <1>1, <1>2
<1>7. QED BY <1>1, <1>5, <1>6, Elsewhere

-----------------------------------------------------------------------------
LEMMA StartFacts ==
  ASSUME repo' \in Repositories, NamespaceNames' = <<Root>>, i' = 1, pc' # "kids", Phases'
  PROVE  WalkInv'
<1>1. /\ Len(NamespaceNames') = 1 /\ DOMAIN NamespaceNames' = {1}
      /\ NamespaceNames'[1] = Root
  BY DEF WalkInv
<1>2. Root \in Spaces(repo')
  BY RepositoriesAssumption
<1>3. WalkTypeOK'
  BY <1>1, <1>2 DEF WalkTypeOK
<1>4. KidsLeft' /\ ListedOnce'
  BY <1>1 DEF KidsLeft, ListedOnce
<1>5. AllLedTo'
  <2>1. 2 .. Len(NamespaceNames') = {}
    BY <1>1
  <2>2. QED BY <2>1 DEF AllLedTo
<1>6. AllFollowed'
  <2>1. 1 .. i' - 1 = {}
    OBVIOUS
  <2>2. QED BY <2>1 DEF AllFollowed
<1>7. Listed' \subseteq Reachable'
  <2>1. Listed' = {Root}
    BY <1>1 DEF Listed
  <2>2. Root \in Reachable'
    BY <1>2 DEF Reachable, Closed
  <2>3. QED BY <2>1, <2>2
<1>8. QED BY <1>3, <1>4, <1>5, <1>6, <1>7 DEF WalkInv

(* A command starts from nothing.                                          *)
LEMMA DispatchWalkKeeps ==
  ASSUME WalkInv, DispatchWalk
  PROVE  WalkInv'
<1>1. /\ pc = "dispatch" /\ Walking /\ repo' = repo /\ NamespaceNames' = <<Root>> /\ i' = 1
      /\ space' = System /\ command' = Command
      /\ pc' = IF Command = "classdef" THEN "space" ELSE "walk"
  BY DEF DispatchWalk, Begin
<1>2. Command \in Commands
  <2>1. inner_argv[1] \in {"--namespaceinstance", "--classdef", "--specified_classdef",
                           "--instance"}
    BY <1>1 DEF Walking
  <2>2. QED BY <2>1 DEF Command, Commands
<1>3. Phases'
  BY <1>1, <1>2 DEF Phases, AtSpace
<1>4. repo' \in Repositories
  BY <1>1, WalkFacts
<1>5. QED BY <1>1, <1>3, <1>4, StartFacts

(* After __SystemClass the walk begins.                                    *)
LEMMA ClassesEndKeeps ==
  ASSUME WalkInv, ClassesEnd
  PROVE  WalkInv'
<1>1. /\ pc = "classes" /\ repo' = repo /\ NamespaceNames' = NamespaceNames /\ i' = i
      /\ space' = space /\ command' = command
      /\ pc' = IF space = System THEN "walk" ELSE "next"
  BY DEF ClassesEnd, AfterSpace, input, walk
<1>2. Phases
  BY DEF WalkInv
<1>3. CASE space = System
  <2>1. NamespaceNames = <<Root>> /\ i = 1 /\ command \in Commands
    BY <1>1, <1>2, <1>3 DEF Phases, AtSpace
  <2>2. Phases'
    BY <1>1, <1>3, <2>1 DEF Phases, AtSpace
  <2>3. repo' \in Repositories
    BY <1>1, WalkFacts
  <2>4. QED BY <1>1, <1>3, <2>1, <2>2, <2>3, StartFacts
<1>4. CASE space # System
  BY <1>1, <1>4, SpaceStep DEF AtSpace, walk
<1>5. QED BY <1>3, <1>4
(* Only --classdef looks into __SystemClass itself.                        *)
LEMMA NotInSystem ==
  ASSUME WalkInv, AtSpace
  PROVE  /\ command \in Commands /\ command # "namespaceinstance"
         /\ command # "classdef" => space # System
         /\ NoObject \in {"classes", "next"}
         /\ NoObject = "next" => space # System
<1>1. Phases
  BY DEF WalkInv
<1>2. command \in Commands /\ command # "namespaceinstance"
      /\ (command # "classdef" => space # System)
  BY <1>1 DEF Phases
<1>3. QED BY <1>2 DEF NoObject

LEMMA InSpaceKeeps ==
  ASSUME WalkInv, SearchClasses \/ ClassRecord \/ LookUp \/ Create \/ Instances
  PROVE  WalkInv'
<1>1. AtSpace /\ UNCHANGED <<repo, walk, space, command>>
  BY DEF SearchClasses, ClassRecord, LookUp, Create, CreateUnread, CreateSuper, FinishBase,
         FinishClass, FinishFails, Instances, AtSpace, input, walk
<1>2. /\ command \in Commands /\ command # "namespaceinstance"
      /\ command # "classdef" => space # System
      /\ NoObject \in {"classes", "next"}
      /\ NoObject = "next" => space # System
  BY <1>1, NotInSystem
<1> DEFINE Goes == \/ pc' \in {"space", "classes", "create", "finish", "failed"}
                   \/ pc' = "instances" /\ command = "instance"
                   \/ pc' = "next" /\ space # System
<1>3. CASE SearchClasses
  <2>1. Goes
    BY <1>3 DEF SearchClasses
  <2>2. QED BY <1>1, <2>1, SpaceStep DEF AtSpace
<1>4. CASE ClassRecord
  <2>1. Goes
    BY <1>4 DEF ClassRecord
  <2>2. QED BY <1>1, <2>1, SpaceStep DEF AtSpace
<1>5. CASE LookUp
  <2>1. Goes
    BY <1>2, <1>5 DEF LookUp
  <2>2. QED BY <1>1, <2>1, SpaceStep DEF AtSpace
<1>6. CASE CreateUnread
  <2>1. Goes
    BY <1>2, <1>6 DEF CreateUnread
  <2>2. QED BY <1>1, <2>1, SpaceStep DEF AtSpace
<1>7. CASE CreateSuper
  <2>1. Goes
    BY <1>7 DEF CreateSuper
  <2>2. QED BY <1>1, <2>1, SpaceStep DEF AtSpace
<1>8. CASE FinishBase
  <2>1. Goes
    BY <1>8 DEF FinishBase
  <2>2. QED BY <1>1, <2>1, SpaceStep DEF AtSpace
<1>9. CASE FinishClass
  <2>1. Goes
    BY <1>2, <1>9 DEF FinishClass
  <2>2. QED BY <1>1, <2>1, SpaceStep DEF AtSpace
<1>10. CASE FinishFails
  <2>1. \/ command = "classdef" /\ pc' = "classes"
        \/ command = "specified_classdef" /\ pc' = "next"
        \/ command = "instance" /\ pc' = "failed"
    BY <1>2, <1>10 DEF FinishFails, Commands
  <2>2. Goes
    BY <1>2, <2>1
  <2>3. QED BY <1>1, <2>2, SpaceStep DEF AtSpace
<1>11. CASE Instances
  <2>1. command = "instance"
    BY <1>11 DEF Instances, WalkInv, Phases
  <2>2. Goes
    BY <1>2, <1>11, <2>1 DEF Instances
  <2>3. QED BY <1>1, <2>2, SpaceStep DEF AtSpace
<1>12. QED BY <1>3, <1>4, <1>5, <1>6, <1>7, <1>8, <1>9, <1>10, <1>11 DEF Create
(* Between commands, whatever the last one left.                           *)
LEMMA BetweenKeeps ==
  ASSUME WalkInv, ReadChar \/ ReadLine \/ FillBuffer \/ DispatchOther \/ CommandEnds
  PROVE  WalkInv'
<1>1. /\ repo' = repo /\ NamespaceNames' = NamespaceNames /\ i' = i
      /\ pc' \in {"read", "dispatch", "stuck", "quit"}
  BY DEF ReadChar, ReadLine, FillBuffer, DispatchOther, CommandEnds, vars, input, walk
<1>2. Phases'
  BY <1>1 DEF Phases, AtSpace
<1>3. i' \in Nat \ {0} /\ pc' \notin {"walk", "kids"}
  BY <1>1 DEF WalkInv, WalkTypeOK
<1>4. QED BY <1>1, <1>2, <1>3, Elsewhere

LEMMA WalkInitOK == WalkInit /\ pc = "read" => WalkInv
<1>1. SUFFICES ASSUME WalkInit, pc = "read" PROVE WalkInv
  OBVIOUS
<1>2. /\ repo \in Repositories /\ NamespaceNames = <<Root>> /\ i = 1
  BY <1>1 DEF WalkInit
<1>3. /\ Len(NamespaceNames) = 1 /\ DOMAIN NamespaceNames = {1}
      /\ NamespaceNames[1] = Root
  BY <1>2
<1>4. WalkTypeOK
  <2>1. Root \in Spaces(repo)
    BY <1>2, RepoFacts
  <2>2. QED BY <1>1, <1>2, <1>3, <2>1 DEF WalkTypeOK
<1>5. KidsLeft /\ AllFollowed /\ ListedOnce /\ Phases
  BY <1>1, <1>3 DEF KidsLeft, AllFollowed, ListedOnce, Phases, AtSpace
<1>6. AllLedTo
  <2>1. 2 .. Len(NamespaceNames) = {}
    BY <1>3
  <2>2. QED BY <2>1 DEF AllLedTo
<1>7. Listed \subseteq Reachable
  <2>1. Listed = {Root}
    BY <1>3 DEF Listed
  <2>2. QED BY <1>2, <2>1, ReachFacts
<1>8. QED BY <1>4, <1>5, <1>6, <1>7 DEF WalkInv

LEMMA WalkNextOK == WalkInv /\ [Next]_allVars => WalkInv'
<1>1. SUFFICES ASSUME WalkInv, [Next]_allVars PROVE WalkInv'
  OBVIOUS
<1>2. CASE SearchKids
  BY <1>1, <1>2, SearchKidsKeeps
<1>3. CASE Kid
  BY <1>1, <1>3, KidKeeps, KidThrowsKeeps
<1>4. CASE KidsEnd
  BY <1>1, <1>4, KidsEndKeeps
<1>5. CASE WalkEnd
  BY <1>1, <1>5, WalkEndKeeps
<1>6. CASE NextSpace
  BY <1>1, <1>6, NextSpaceKeeps
<1>7. CASE ClassesEnd
  BY <1>1, <1>7, ClassesEndKeeps
<1>8. CASE SearchClasses \/ ClassRecord \/ LookUp \/ Create \/ Instances
  BY <1>1, <1>8, InSpaceKeeps
<1>9. CASE DispatchWalk
  BY <1>1, <1>9, DispatchWalkKeeps
<1>10. CASE ReadChar \/ ReadLine \/ FillBuffer \/ DispatchOther \/ CommandEnds
  BY <1>1, <1>10, BetweenKeeps
<1>11. CASE UNCHANGED allVars
  <2>1. /\ repo' = repo /\ command' = command /\ pc' = pc /\ i' = i /\ left' = left
        /\ NamespaceNames' = NamespaceNames /\ space' = space
    BY <1>11 DEF allVars, vars, input, walk
  <2>2. Listed' = Listed /\ Reachable' = Reachable /\ Looked' = Looked /\ Kids' = Kids
    BY <2>1, RepoOnly DEF Listed, Looked, Kids
  <2>3. WalkTypeOK' /\ KidsLeft'
    BY <1>1, <2>1, <2>2 DEF WalkInv, WalkTypeOK, KidsLeft, Searched
  <2>4. \A j, k : LedTo(j, k)' <=> LedTo(j, k)
    BY <2>1, <2>2 DEF LedTo, Leads, Searched, KidsOf
  <2>5. AllLedTo'
    BY <1>1, <2>1, <2>4 DEF WalkInv, AllLedTo
  <2>6. AllFollowed'
    BY <1>1, <2>1, <2>2 DEF WalkInv, AllFollowed, Followed, Leads, Searched, KidsOf
  <2>7. ListedOnce' /\ Phases'
    BY <1>1, <2>1, <2>2 DEF WalkInv, ListedOnce, Phases, AtSpace, Complete
  <2>8. QED BY <1>1, <2>2, <2>3, <2>5, <2>6, <2>7 DEF WalkInv
<1>12. QED
  BY <1>1, <1>2, <1>3, <1>4, <1>5, <1>6, <1>7, <1>8, <1>9, <1>10, <1>11
     DEF Next, Walk, Names

-----------------------------------------------------------------------------
(* The walk lists each namespace once and after its parent; when it is     *)
(* over it has listed the namespaces that can be reached, all of them and  *)
(* no other (WMINamespaceClass::ParseNamespaceRecords).                    *)
THEOREM WalkFindsNamespaces == LoopSpec => []NamespacesFound
<1>1. WalkInv => NamespacesFound
  BY DEF WalkInv, AllLedTo, LedTo, Leads, ListedOnce, Phases, Complete, NamespacesFound
<1>2. QED BY <1>1, WalkInitOK, WalkNextOK, PTL DEF LoopSpec
-----------------------------------------------------------------------------
(* Where a class is found, and the record found.                           *)
LEMMA ClassFacts ==
  ASSUME repo \in Repositories
  PROVE  /\ System \in Homes(repo)
         /\ \A n \in Homes(repo) : repo.classes[n] \in Seq(ClassNames)
         /\ \A n \in Homes(repo) : \A c : Where(n, c) # {} =>
              /\ c \in ClassNames /\ Resolved(n, c) \in Records(n)
              /\ \A h \in Where(n, c) : Resolved(n, c) = [name |-> c, home |-> h]
<1>1. System \in Homes(repo)
  BY DEF Homes
<1>2. \A n \in Homes(repo) : repo.classes[n] \in Seq(ClassNames)
  BY RepositoriesAssumption
<1>3. ASSUME NEW n \in Homes(repo), NEW c, Where(n, c) # {}
      PROVE  /\ c \in ClassNames /\ Resolved(n, c) \in Records(n)
             /\ \A h \in Where(n, c) : Resolved(n, c) = [name |-> c, home |-> h]
  <2>1. PICK w : Where(n, c) = {w} /\ w \in {n, System} /\ Found(w, c)
    BY <1>3 DEF Where
  <2>2. c \in ClassNames
    BY <1>1, <1>2, <2>1 DEF Found, Defines
  <2>3. (CHOOSE h \in {w} : TRUE) = w
    OBVIOUS
  <2>4. Resolved(n, c) = [name |-> c, home |-> w]
    BY <2>1, <2>3 DEF Resolved
  <2>5. QED BY <2>1, <2>2, <2>4 DEF Records
<1>4. QED BY <1>1, <1>2, <1>3

(* The records e goes through are within every set that holds e and, with  *)
(* a record, the one of its superclass; and they are such a set.           *)
LEMMA LineageFacts ==
  ASSUME repo \in Repositories, NEW n \in Homes(repo), NEW e \in Records(n)
  PROVE  /\ Lineage(n, e) \subseteq Records(n) /\ e \in Lineage(n, e)
         /\ \A x \in Lineage(n, e) : ~ Ends(n, x) => Resolved(n, Super(x)) \in Lineage(n, e)
         /\ \A S \in SUBSET Records(n) : e \in S /\ Rises(n, S) => Lineage(n, e) \subseteq S
<1>1. ASSUME NEW x \in Lineage(n, e), ~ Ends(n, x)
      PROVE  Resolved(n, Super(x)) \in Lineage(n, e)
  <2>1. Resolved(n, Super(x)) \in Records(n)
    BY <1>1, ClassFacts DEF Ends
  <2>2. \A S \in SUBSET Records(n) : e \in S /\ Rises(n, S) => x \in S
    BY <1>1 DEF Lineage
  <2>3. QED BY <1>1, <2>1, <2>2 DEF Lineage, Rises
<1>2. QED BY <1>1 DEF Lineage

(* A record that cannot be read has nothing above it.                      *)
LEMMA UnreadPasses ==
  ASSUME repo \in Repositories, NEW n \in Homes(repo), NEW e \in Records(n),
         State(e) = "unread"
  PROVE  ~ Refused(n, e)
<1>1. Rises(n, {e})
  BY DEF Rises, Ends
<1>2. Lineage(n, e) \subseteq {e}
  BY <1>1, LineageFacts
<1>3. QED BY <1>2 DEF Refused

(* A record that is refused was reached from e.                            *)
LEMMA BuiltPasses ==
  ASSUME repo \in Repositories, NEW n \in Homes(repo), NEW e \in Records(n),
         State(e) = "ok", NEW bases, Built(n, e, bases)
  PROVE  ~ Refused(n, e)
<1>1. PICK m \in Nat : m = Len(bases)
  BY DEF Built
<1> DEFINE E(k) == Above(n, e, bases, k)
           above == Resolved(n, Super(E(m)))
           S == {E(k) : k \in 0 .. m} \union {x \in {above} : ~ Ends(n, E(m))}
<1>2. /\ \A k \in 1 .. m : ~ Ends(n, E(k - 1)) /\ E(k) = Resolved(n, Super(E(k - 1)))
      /\ Ends(n, E(m)) \/ State(above) = "unread"
  BY <1>1 DEF Built, Ascends
<1>3. E(0) = e /\ \A k \in 1 .. m : m + 1 - k \in 1 .. m /\ E(k) = Resolved(n, bases[m + 1 - k])
  BY <1>1 DEF Above
<1>4. \A k \in 0 .. m : State(E(k)) = "ok"
  BY <1>1, <1>3 DEF Built
<1>5. \A x \in Records(n) : ~ Ends(n, x) => Resolved(n, Super(x)) \in Records(n)
  BY ClassFacts DEF Ends
<1> HIDE DEF E
<1>6. \A k \in 0 .. m : E(k) \in Records(n)
  <2>1. ASSUME NEW k \in 1 .. m PROVE E(k) \in Records(n)
    <3>1. ~ Ends(n, E(k - 1)) /\ E(k) = Resolved(n, Super(E(k - 1)))
      BY <1>2
    <3>2. QED BY <3>1, ClassFacts DEF Ends
  <2>2. QED BY <1>3, <2>1
<1>7. S \in SUBSET Records(n)
  BY <1>5, <1>6
<1>8. Rises(n, S)
  <2>1. ASSUME NEW k \in 0 .. m - 1 PROVE Resolved(n, Super(E(k))) = E(k + 1) /\ k + 1 \in 0 .. m
    <3>1. k + 1 \in 1 .. m /\ (k + 1) - 1 = k
      BY <1>1
    <3>2. QED BY <1>2, <3>1
  <2>2. \A k \in 0 .. m : k = m \/ k \in 0 .. m - 1
    BY <1>1
  <2>3. \A k \in 0 .. m : Ends(n, E(k)) \/ Resolved(n, Super(E(k))) \in S
    BY <2>1, <2>2
  <2>4. ~ Ends(n, E(m)) => Ends(n, above)
    BY <1>2 DEF Ends
  <2>5. QED BY <2>3, <2>4 DEF Rises
<1>9. \A x \in S : State(x) # "malformed"
  BY <1>2, <1>4
<1>10. e \in S
  BY <1>1, <1>3
<1>11. Lineage(n, e) \subseteq S
  BY <1>7, <1>8, <1>10, LineageFacts
<1>12. QED BY <1>9, <1>11 DEF Refused
(* What is said of the classes of a repository is said of it alone.        *)
LEMMA ClassOnly ==
  ASSUME repo' = repo
  PROVE  /\ Homes(repo)' = Homes(repo)
         /\ \A n, what : Searched(n, what)' <=> Searched(n, what)
         /\ \A n, c : Where(n, c)' = Where(n, c) /\ Resolved(n, c)' = Resolved(n, c)
         /\ \A e : State(e)' = State(e) /\ Super(e)' = Super(e)
         /\ \A n, e : Ends(n, e)' <=> Ends(n, e)
         /\ \A n, e : Lineage(n, e)' = Lineage(n, e)
         /\ \A n, e : Refused(n, e)' <=> Refused(n, e)
         /\ \A n, e : Shows(n, e)' <=> Shows(n, e)
<1>1. \A n, what : Searched(n, what)' <=> Searched(n, what)
  BY DEF Searched
<1>2. \A n, c : Found(n, c)' <=> Found(n, c)
  BY <1>1 DEF Found, Defines
<1>3. \A n, c : Where(n, c)' = Where(n, c)
  BY <1>2 DEF Where
<1>4. \A n, c : Resolved(n, c)' = Resolved(n, c)
  BY <1>3 DEF Resolved
<1>5. \A e : State(e)' = State(e) /\ Super(e)' = Super(e)
  BY DEF State, Super
<1>6. \A n, e : Ends(n, e)' <=> Ends(n, e)
  <2>1. \A n, e : Where(n, Super(e))' = Where(n, Super(e))
    BY <1>2, <1>5 DEF Where
  <2>2. QED BY <1>5, <2>1 DEF Ends
<1>7. \A n, S : Rises(n, S)' <=> Rises(n, S)
  <2>1. \A n, e : Resolved(n, Super(e))' = Resolved(n, Super(e))
    <3>1. \A n, e : Where(n, Super(e))' = Where(n, Super(e))
      BY <1>2, <1>5 DEF Where
    <3>2. QED BY <1>5, <3>1 DEF Resolved
  <2>2. QED BY <1>6, <2>1 DEF Rises
<1>8. \A n, e : Lineage(n, e)' = Lineage(n, e)
  BY <1>7 DEF Lineage
<1>9. \A n, e : Refused(n, e)' <=> Refused(n, e)
  BY <1>5, <1>8 DEF Refused
<1>10. \A n, e : Shows(n, e)' <=> Shows(n, e)
  BY <1>5, <1>9 DEF Shows
<1>11. Homes(repo)' = Homes(repo)
  OBVIOUS
<1>12. QED BY <1>1, <1>3, <1>4, <1>5, <1>6, <1>8, <1>9, <1>10, <1>11

LEMMA AboveOnly ==
  ASSUME repo' = repo
  PROVE  /\ \A n, e, bases : Ascends(n, e, bases)' <=> Ascends(n, e, bases)
         /\ \A n, e, bases : Built(n, e, bases)' <=> Built(n, e, bases)
         /\ \A n, e, calls : CallsFrom(n, e, calls)' <=> CallsFrom(n, e, calls)
<1>1. \A n, e, bases, k : Above(n, e, bases, k)' = Above(n, e, bases, k)
  BY ClassOnly DEF Above
<1>2. \A n, e : Resolved(n, Super(e))' = Resolved(n, Super(e))
  BY ClassOnly
<1>3. \A n, e, bases : Ascends(n, e, bases)' <=> Ascends(n, e, bases)
  BY <1>1, <1>2, ClassOnly DEF Ascends
<1>4. \A n, e, bases : Built(n, e, bases)' <=> Built(n, e, bases)
  BY <1>3, ClassOnly DEF Built
<1>5. \A n, e, calls : CallsFrom(n, e, calls)' <=> CallsFrom(n, e, calls)
  BY <1>2, ClassOnly DEF CallsFrom
<1>6. QED BY <1>3, <1>4, <1>5

LEMMA ListOnly ==
  ASSUME repo' = repo
  PROVE  /\ \A n, k : RecordAt(n, k)' = RecordAt(n, k)
         /\ \A n, rest : Place(n, rest)' = Place(n, rest)
         /\ \A n, m : Passed(n, m)' <=> Passed(n, m)
         /\ \A n, m : ShownOf(n, m)' = ShownOf(n, m)
         /\ \A names, k : ShownOfAll(names, k)' = ShownOfAll(names, k)
         /\ \A n, names, k : Earlier(n, names, k)' = Earlier(n, names, k)
         /\ \A n, rest : Remain(n, rest)' <=> Remain(n, rest)
<1>1. \A n, k : RecordAt(n, k)' = RecordAt(n, k)
  BY DEF RecordAt
<1>2. \A n, rest : Place(n, rest)' = Place(n, rest)
  BY DEF Place
<1>3. \A n, m : Passed(n, m)' <=> Passed(n, m)
  BY ClassOnly DEF Passed, RecordAt
<1>4. \A n, m : ShownOf(n, m)' = ShownOf(n, m)
  BY <1>3, ClassOnly DEF ShownOf, RecordAt
<1>5. \A names, k : ShownOfAll(names, k)' = ShownOfAll(names, k)
  BY <1>4, ClassOnly DEF ShownOfAll
<1>6. \A n, names, k : Earlier(n, names, k)' = Earlier(n, names, k)
  BY <1>5 DEF Earlier
<1>7. \A n, rest : Remain(n, rest)' <=> Remain(n, rest)
  BY <1>2 DEF Remain
<1>8. QED BY <1>1, <1>2, <1>3, <1>4, <1>5, <1>6, <1>7

LEMMA SightOnly ==
  ASSUME repo' = repo, command' = command, class' = class
  PROVE  /\ \A n, rest : Start(n, rest)' = Start(n, rest)
         /\ \A n : Where(n, class)' = Where(n, class)
         /\ \A n : Sees(n)' <=> Sees(n)
         /\ \A n : Halts(n)' <=> Halts(n)
         /\ \A names, m : NoneHalts(names, m)' <=> NoneHalts(names, m)
         /\ \A names, m : SeenOf(names, m)' = SeenOf(names, m)
<1>1. \A n : Where(n, class)' = Where(n, class)
  BY ClassOnly
<1>2. \A n : Resolved(n, class)' = Resolved(n, class)
  BY ClassOnly
<1>3. \A n, rest : Start(n, rest)' = Start(n, rest)
  BY <1>2, ListOnly DEF Start
<1>4. \A n : Sees(n)' <=> Sees(n)
  BY <1>1, <1>2, ClassOnly DEF Sees
<1>5. \A n : Halts(n)' <=> Halts(n)
  BY <1>2, <1>4, ClassOnly DEF Halts
<1>6. \A names, m : NoneHalts(names, m)' <=> NoneHalts(names, m)
  BY <1>5 DEF NoneHalts
<1>7. \A names, m : SeenOf(names, m)' = SeenOf(names, m)
  BY <1>4, <1>5, <1>6 DEF SeenOf
<1>8. QED BY <1>1, <1>3, <1>4, <1>5, <1>6, <1>7

(* One class more of an index.                                             *)
LEMMA ShownStep ==
  ASSUME repo \in Repositories, NEW n \in Homes(repo), NEW m \in Nat \ {0},
         Passed(n, m - 1)
  PROVE  /\ ~ Refused(n, RecordAt(n, m)) => Passed(n, m)
         /\ Shows(n, RecordAt(n, m)) =>
              ShownOf(n, m) = ShownOf(n, m - 1) \union {<<n, repo.classes[n][m]>>}
         /\ State(RecordAt(n, m)) = "unread" => ShownOf(n, m) = ShownOf(n, m - 1)
         /\ Refused(n, RecordAt(n, m)) =>
              \A l \in Nat : l >= m => ShownOf(n, l) = ShownOf(n, m - 1)
<1>1. \A j \in 1 .. m : j = m \/ j \in 1 .. m - 1
  OBVIOUS
<1>2. ~ Refused(n, RecordAt(n, m)) => Passed(n, m)
  BY <1>1 DEF Passed
<1>3. \A j \in 1 .. m - 1 : j \in 1 .. m
  OBVIOUS
<1>4. ASSUME Shows(n, RecordAt(n, m))
      PROVE  ShownOf(n, m) = ShownOf(n, m - 1) \union {<<n, repo.classes[n][m]>>}
  <2>1. Passed(n, m)
    BY <1>2, <1>4 DEF Shows
  <2>2. QED BY <1>1, <1>3, <1>4, <2>1 DEF ShownOf
<1>5. ASSUME State(RecordAt(n, m)) = "unread"
      PROVE  ShownOf(n, m) = ShownOf(n, m - 1)
  BY <1>1, <1>3, <1>5 DEF ShownOf, Shows
<1>6. ASSUME Refused(n, RecordAt(n, m)), NEW l \in Nat, l >= m
      PROVE  ShownOf(n, l) = ShownOf(n, m - 1)
  <2>1. ASSUME NEW j \in 1 .. l, Passed(n, j) PROVE j \in 1 .. m - 1
    <3>1. j >= m => m \in 1 .. j
      OBVIOUS
    <3>2. ~ j >= m
      BY <1>6, <2>1, <3>1 DEF Passed
    <3>3. QED BY <3>2
  <2>2. \A j \in 1 .. m - 1 : j \in 1 .. l
    BY <1>6
  <2>3. QED BY <2>1, <2>2 DEF ShownOf
<1>7. QED BY <1>2, <1>4, <1>5, <1>6

(* One namespace more.                                                     *)
LEMMA SpaceShown ==
  ASSUME NEW names, NEW k \in Nat \ {0}
  PROVE  ShownOfAll(names, k) =
           ShownOfAll(names, k - 1) \union
             (IF Searched(names[k], "classes")
                THEN ShownOf(names[k], Len(repo.classes[names[k]])) ELSE {})
<1>1. {names[j] : j \in 1 .. k} = {names[j] : j \in 1 .. k - 1} \union {names[k]}
  <2>1. \A j \in 1 .. k : j = k \/ j \in 1 .. k - 1
    OBVIOUS
  <2>2. k \in 1 .. k /\ \A j \in 1 .. k - 1 : j \in 1 .. k
    OBVIOUS
  <2>3. QED BY <2>1, <2>2
<1>2. PICK A, B, x : /\ A = {System} \union {names[j] : j \in 1 .. k - 1}
                     /\ B = {System} \union {names[j] : j \in 1 .. k} /\ x = names[k]
  OBVIOUS
<1>3. B = A \union {x}
  BY <1>1, <1>2
<1> DEFINE Of(n) == ShownOf(n, Len(repo.classes[n]))
<1>4. /\ ShownOfAll(names, k - 1) = UNION {Of(n) : n \in {m \in A : Searched(m, "classes")}}
      /\ ShownOfAll(names, k) = UNION {Of(n) : n \in {m \in B : Searched(m, "classes")}}
  BY <1>2 DEF ShownOfAll
<1> HIDE DEF Of
<1>5. UNION {Of(n) : n \in {m \in B : Searched(m, "classes")}} =
        (UNION {Of(n) : n \in {m \in A : Searched(m, "classes")}}) \union
          (IF Searched(x, "classes") THEN Of(x) ELSE {})
  BY <1>3
<1>6. QED BY <1>2, <1>4, <1>5 DEF Of

LEMMA SystemShown ==
  ASSUME NEW names
  PROVE  /\ ShownOfAll(names, 0) = ShownOfAll(<<>>, 0)
         /\ ShownOfAll(<<>>, 0) =
              IF Searched(System, "classes") THEN ShownOf(System, Len(repo.classes[System])) ELSE {}
<1>1. 1 .. 0 = {}
  OBVIOUS
<1>2. QED BY <1>1 DEF ShownOfAll

LEMMA SeenStep ==
  ASSUME NEW names, NEW m \in Nat \ {0}
  PROVE  /\ NoneHalts(names, m) <=>
              NoneHalts(names, m - 1) /\ (command = "instance" => ~ Halts(names[m]))
         /\ Sees(names[m]) /\ ~ Halts(names[m]) /\ NoneHalts(names, m - 1) =>
              SeenOf(names, m) = SeenOf(names, m - 1) \union {names[m]}
         /\ ~ Sees(names[m]) \/ Halts(names[m]) => SeenOf(names, m) = SeenOf(names, m - 1)
<1>1. /\ m \in 1 .. m
      /\ \A j \in 1 .. m : j = m \/ j \in 1 .. m - 1
      /\ \A j \in 1 .. m - 1 : j \in 1 .. m
  OBVIOUS
<1>2. NoneHalts(names, m) <=>
        NoneHalts(names, m - 1) /\ (command = "instance" => ~ Halts(names[m]))
  BY <1>1 DEF NoneHalts
<1>3. QED BY <1>1, <1>2 DEF SeenOf
-----------------------------------------------------------------------------
(* What was shown before stays, and so do its base classes.                *)
LEMMA BasesKeep ==
  ASSUME BasesAreAncestors, repo' = repo, command' = command,
         \A o \in output' : o \in output \/
           IF command = "classdef"
             THEN Ascends(o.space, [name |-> o.class, home |-> o.space], o.bases)
             ELSE Where(o.space, o.class) # {} /\ Ascends(o.space, Resolved(o.space, o.class), o.bases)
  PROVE  BasesAreAncestors'
<1>1. SUFFICES ASSUME NEW o \in output'
               PROVE  IF command = "classdef"
                        THEN Ascends(o.space, [name |-> o.class, home |-> o.space], o.bases)'
                        ELSE /\ Where(o.space, o.class)' # {}
                             /\ Ascends(o.space, Resolved(o.space, o.class), o.bases)'
  BY DEF BasesAreAncestors
<1>2. IF command = "classdef"
        THEN Ascends(o.space, [name |-> o.class, home |-> o.space], o.bases)
        ELSE Where(o.space, o.class) # {} /\ Ascends(o.space, Resolved(o.space, o.class), o.bases)
  BY DEF BasesAreAncestors
<1>3. PICK n, c, r : n = o.space /\ c = o.class /\ r = Resolved(n, c)
  OBVIOUS
<1>4. Where(n, c)' = Where(n, c) /\ Resolved(n, c)' = r
  BY <1>3, ClassOnly
<1>5. /\ Ascends(n, [name |-> c, home |-> n], o.bases)' <=> Ascends(n, [name |-> c, home |-> n], o.bases)
      /\ Ascends(n, r, o.bases)' <=> Ascends(n, r, o.bases)
  BY AboveOnly
<1>6. CASE command = "classdef"
  BY <1>2, <1>3, <1>5, <1>6
<1>7. CASE command # "classdef"
  <2>1. Where(n, c) # {} /\ Ascends(n, r, o.bases)
    BY <1>2, <1>3, <1>7
  <2>2. Ascends(n, Resolved(n, c), o.bases)' <=> Ascends(n, r, o.bases)'
    BY <1>4, ClassOnly DEF Ascends, Above
  <2>3. QED BY <1>3, <1>4, <1>5, <1>7, <2>1, <2>2
<1>8. QED BY <1>6, <1>7

(* The namespace at work.                                                  *)
LEMMA AtHome ==
  ASSUME WalkInv, AtWork, AtSpace
  PROVE  /\ repo \in Repositories /\ space \in Homes(repo)
         /\ command \in Commands \ {"namespaceinstance"}
         /\ command # "classdef" => space # System
         /\ space # System => /\ i \in 2 .. Len(NamespaceNames) + 1
                              /\ space = NamespaceNames[i - 1]
                              /\ Len(NamespaceNames) \in Nat
<1>1. space # System => i \in 2 .. Len(NamespaceNames) + 1 /\ space = NamespaceNames[i - 1]
  BY DEF AtWork
<1>2. /\ repo \in Repositories /\ Len(NamespaceNames) \in Nat
      /\ \A k \in 1 .. Len(NamespaceNames) : NamespaceNames[k] \in Spaces(repo)
  BY WalkFacts
<1>3. space # System => space \in Spaces(repo)
  <2>1. i \in 2 .. Len(NamespaceNames) + 1 => i - 1 \in 1 .. Len(NamespaceNames)
    BY <1>2
  <2>2. QED BY <1>1, <1>2, <2>1
<1>4. space \in Homes(repo)
  BY <1>3 DEF Homes
<1>5. Phases
  BY DEF WalkInv
<1>6. command \in Commands \ {"namespaceinstance"} /\ (command # "classdef" => space # System)
  BY <1>5 DEF Phases
<1>7. QED BY <1>1, <1>2, <1>4, <1>6

(* A call returns to the one it was made from.                             *)
LEMMA CallReturns ==
  ASSUME NEW n, NEW e, NEW calls, CallsFrom(n, e, calls), Len(calls) > 1
  PROVE  /\ CallsFrom(n, e, Tail(calls)) /\ Tail(calls)[1] = calls[2]
         /\ ~ Ends(n, calls[2]) /\ calls[1] = Resolved(n, Super(calls[2]))
<1>2. calls \in Seq(Records(n)) /\ calls # <<>>
  BY DEF CallsFrom
<1>0. PICK m \in Nat : m = Len(calls)
  BY <1>2
<1>1. PICK t : t = Tail(calls) /\ m = Len(calls) /\ m > 1
  BY <1>0
<1>3. /\ t \in Seq(Records(n)) /\ Len(t) = m - 1
      /\ \A j \in 1 .. m - 1 : t[j] = calls[j + 1]
  BY <1>1, <1>2
<1>4. t # <<>> /\ t[m - 1] = calls[m]
  <2>1. m - 1 \in 1 .. m - 1 /\ (m - 1) + 1 = m
    BY <1>1
  <2>2. Len(t) # 0
    BY <1>1, <1>3
  <2>3. QED BY <1>3, <2>1, <2>2
<1>5. /\ \A j \in 1 .. m : calls[j] \in Lineage(n, e)
      /\ \A j \in 1 .. m - 1 : ~ Ends(n, calls[j + 1]) /\ calls[j] = Resolved(n, Super(calls[j + 1]))
      /\ calls[m] = e
  BY <1>1 DEF CallsFrom
<1>6. \A j \in 1 .. m - 1 : t[j] \in Lineage(n, e)
  <2>1. \A j \in 1 .. m - 1 : j + 1 \in 1 .. m
    BY <1>1
  <2>2. QED BY <1>3, <1>5, <2>1
<1>7. ASSUME NEW j \in 1 .. (m - 1) - 1
      PROVE  ~ Ends(n, t[j + 1]) /\ t[j] = Resolved(n, Super(t[j + 1]))
  <2>1. j \in 1 .. m - 1 /\ j + 1 \in 1 .. m - 1
    BY <1>1
  <2>2. t[j] = calls[j + 1] /\ t[j + 1] = calls[(j + 1) + 1]
    BY <1>3, <2>1
  <2>3. QED BY <1>5, <2>1, <2>2
<1>8. CallsFrom(n, e, t)
  BY <1>3, <1>4, <1>5, <1>6, <1>7 DEF CallsFrom
<1>9. 1 \in 1 .. m - 1 /\ 1 + 1 = 2
  BY <1>1
<1>10. QED BY <1>1, <1>3, <1>5, <1>8, <1>9

(* A class is still under construction.                                    *)
LEMMA StillBuilding ==
  ASSUME WalkInv, ClassInv, Building, Building',
         UNCHANGED <<repo, command, class, left, NamespaceNames, i, space, output>>,
         \A n \in {space}, e \in {Start(space, left)}, calls \in {chain'}, bases \in {BaseClasses'} :
           /\ CallsFrom(n, e, calls)
           /\ pc' = "create" => bases = <<>>
           /\ pc' # "create" => Built(n, calls[1], bases)
           /\ pc' = "instances" => Len(calls) = 1 /\ State(calls[1]) = "ok"
  PROVE  ClassInv'
<1>1. PICK n, e, rest, calls, bases, x, names, k :
        /\ n = space /\ rest = left /\ e = Start(n, rest) /\ names = NamespaceNames /\ k = i
        /\ calls = chain' /\ bases = BaseClasses' /\ x = calls[1]
  OBVIOUS
<1>2. /\ CallsFrom(n, e, calls)
      /\ pc' = "create" => bases = <<>>
      /\ pc' # "create" => Built(n, x, bases)
      /\ pc' = "instances" => Len(calls) = 1 /\ State(x) = "ok"
  BY <1>1
<1>3. Start(n, rest)' = e /\ (Where(n, class)' = Where(n, class)) /\ State(x)' = State(x)
  BY <1>1, SightOnly, ClassOnly
<1>4. CallsFrom(n, e, calls)' /\ (pc' # "create" => Built(n, x, bases)')
  BY <1>2, AboveOnly
<1>5. command # "classdef" => Where(n, class) # {}
  BY <1>1 DEF ClassInv, Construction
<1>6. CallsFrom(n, Start(n, rest), calls)'
  BY <1>3, <1>4, ClassOnly DEF CallsFrom
<1>7. pc' # "create" => Built(n, calls[1], bases)'
  BY <1>1, <1>4
<1>8. pc' = "instances" => Len(calls) = 1 /\ State(calls[1])' = "ok"
  BY <1>1, <1>2, <1>3
<1>9. Construction'
  BY <1>1, <1>2, <1>3, <1>5, <1>6, <1>7, <1>8 DEF Construction
<1>10. AtSpace /\ AtSpace' /\ pc \notin {"space", "classes"}
       /\ pc' \notin {"walk", "kids", "space", "classes", "next", "done", "failed"}
  BY DEF Building, AtSpace
<1>11. AtWork'
  BY <1>10, ClassOnly DEF ClassInv, AtWork, Searched
<1>12. ClassesShown'
  <2>1. ASSUME command = "classdef"
        PROVE  /\ Remain(n, rest)' /\ Place(n, rest)' > 0
               /\ Passed(n, Place(n, rest) - 1)'
               /\ ShownPairs' = (Earlier(n, names, k) \union ShownOf(n, Place(n, rest) - 1))'
    <3>1. /\ Remain(n, rest) /\ Place(n, rest) > 0
          /\ Passed(n, Place(n, rest) - 1)
          /\ ShownPairs = Earlier(n, names, k) \union ShownOf(n, Place(n, rest) - 1)
      BY <1>1, <2>1 DEF ClassInv, ClassesShown
    <3>2. PICK m : m = Place(n, rest)
      OBVIOUS
    <3>3. Place(n, rest)' = m
      BY <3>2, ListOnly
    <3>4. Passed(n, m - 1)' /\ (Remain(n, rest))' /\ ShownOf(n, m - 1)' = ShownOf(n, m - 1)
          /\ Earlier(n, names, k)' = Earlier(n, names, k)
      BY <3>1, <3>2, ListOnly
    <3>5. ShownPairs' = ShownPairs
      BY DEF ShownPairs
    <3>6. Passed(n, Place(n, rest) - 1)' /\ ShownOf(n, Place(n, rest) - 1)' = ShownOf(n, m - 1)'
      BY <3>3, <3>4, ListOnly DEF Passed, ShownOf, RecordAt, Shows, Refused, State
    <3>7. QED BY <3>1, <3>2, <3>3, <3>4, <3>5, <3>6
  <2>2. QED BY <1>1, <1>10, <2>1 DEF ClassesShown
<1>13. SpacesSeen'
  <2>1. ASSUME command \in {"specified_classdef", "instance"}
        PROVE  ShownSpaces' = SeenOf(names, k - 2)' /\ NoneHalts(names, k - 2)'
    <3>1. ShownSpaces = SeenOf(names, k - 2) /\ NoneHalts(names, k - 2)
      BY <1>1, <1>10, <2>1 DEF ClassInv, SpacesSeen
    <3>2. ShownSpaces' = ShownSpaces
      BY DEF ShownSpaces
    <3>3. QED BY <3>1, <3>2, SightOnly
  <2>2. QED BY <1>1, <1>10, <2>1 DEF SpacesSeen
<1>14. BasesAreAncestors'
  BY BasesKeep DEF ClassInv
<1>15. QED BY <1>9, <1>11, <1>12, <1>13, <1>14 DEF ClassInv
(* What is known while a class is under construction.                      *)
LEMMA BuildingFacts ==
  ASSUME WalkInv, ClassInv, Building
  PROVE  \A n \in {space}, rest \in {left}, names \in {NamespaceNames}, k \in {i},
            calls \in {chain}, bases \in {BaseClasses}, e \in {Start(space, left)} :
           /\ repo \in Repositories /\ n \in Homes(repo)
           /\ command \in Commands \ {"namespaceinstance"}
           /\ CallsFrom(n, e, calls) /\ calls \in Seq(Records(n)) /\ Len(calls) \in Nat \ {0}
           /\ e \in Records(n) /\ calls[Len(calls)] = e
           /\ calls[1] \in Records(n) /\ calls[1] \in Lineage(n, e)
           /\ pc = "create" => bases = <<>>
           /\ pc # "create" => Built(n, calls[1], bases)
           /\ pc = "instances" => Len(calls) = 1 /\ State(calls[1]) = "ok"
           /\ command = "classdef" =>
                /\ e = RecordAt(n, Place(n, rest)) /\ Searched(n, "classes")
                /\ Remain(n, rest) /\ Place(n, rest) \in Nat \ {0} /\ Passed(n, Place(n, rest) - 1)
                /\ ShownPairs = Earlier(n, names, k) \union ShownOf(n, Place(n, rest) - 1)
           /\ command # "classdef" =>
                /\ e = Resolved(n, class) /\ Where(n, class) # {} /\ n # System
                /\ Len(names) \in Nat /\ k \in 2 .. Len(names) + 1 /\ n = names[k - 1]
                /\ ShownSpaces = SeenOf(names, k - 2) /\ NoneHalts(names, k - 2)
<1>1. AtSpace /\ pc \notin {"space", "classes"}
  BY DEF Building, AtSpace
<1>2. SUFFICES ASSUME NEW n, NEW rest, NEW names, NEW k, NEW calls, NEW bases, NEW e,
                      n = space, rest = left, names = NamespaceNames, k = i, calls = chain,
                      bases = BaseClasses, e = Start(n, rest)
               PROVE  /\ repo \in Repositories /\ n \in Homes(repo)
                      /\ command \in Commands \ {"namespaceinstance"}
                      /\ CallsFrom(n, e, calls) /\ calls \in Seq(Records(n)) /\ Len(calls) \in Nat \ {0}
                      /\ e \in Records(n) /\ calls[Len(calls)] = e
                      /\ calls[1] \in Records(n) /\ calls[1] \in Lineage(n, e)
                      /\ pc = "create" => bases = <<>>
                      /\ pc # "create" => Built(n, calls[1], bases)
                      /\ pc = "instances" => Len(calls) = 1 /\ State(calls[1]) = "ok"
                      /\ command = "classdef" =>
                           /\ e = RecordAt(n, Place(n, rest)) /\ Searched(n, "classes")
                           /\ Remain(n, rest) /\ Place(n, rest) \in Nat \ {0}
                           /\ Passed(n, Place(n, rest) - 1)
                           /\ ShownPairs = Earlier(n, names, k) \union ShownOf(n, Place(n, rest) - 1)
                      /\ command # "classdef" =>
                           /\ e = Resolved(n, class) /\ Where(n, class) # {} /\ n # System
                           /\ Len(names) \in Nat /\ k \in 2 .. Len(names) + 1 /\ n = names[k - 1]
                           /\ ShownSpaces = SeenOf(names, k - 2) /\ NoneHalts(names, k - 2)
  OBVIOUS
<1>3. /\ repo \in Repositories /\ n \in Homes(repo)
      /\ command \in Commands \ {"namespaceinstance"}
      /\ command # "classdef" => /\ n # System /\ Len(names) \in Nat
                                 /\ k \in 2 .. Len(names) + 1 /\ n = names[k - 1]
  BY <1>1, <1>2, AtHome DEF ClassInv
<1>4. /\ CallsFrom(n, e, calls)
      /\ pc = "create" => bases = <<>>
      /\ pc # "create" => Built(n, calls[1], bases)
      /\ pc = "instances" => Len(calls) = 1 /\ State(calls[1]) = "ok"
      /\ command # "classdef" => Where(n, class) # {}
  BY <1>2 DEF ClassInv, Construction
<1>5. /\ calls \in Seq(Records(n)) /\ calls # <<>> /\ calls[Len(calls)] = e
      /\ \A j \in 1 .. Len(calls) : calls[j] \in Lineage(n, e)
  BY <1>4 DEF CallsFrom
<1>6. Len(calls) \in Nat \ {0} /\ 1 \in 1 .. Len(calls) /\ Len(calls) \in 1 .. Len(calls)
  BY <1>5
<1>7. e \in Records(n) /\ calls[1] \in Records(n) /\ calls[1] \in Lineage(n, e)
  BY <1>5, <1>6
<1>8. ASSUME command = "classdef"
      PROVE  /\ e = RecordAt(n, Place(n, rest)) /\ Searched(n, "classes")
             /\ Remain(n, rest) /\ Place(n, rest) \in Nat \ {0}
             /\ Passed(n, Place(n, rest) - 1)
             /\ ShownPairs = Earlier(n, names, k) \union ShownOf(n, Place(n, rest) - 1)
  <2>1. e = RecordAt(n, Place(n, rest))
    BY <1>2, <1>8 DEF Start
  <2>2. Searched(n, "classes")
    BY <1>1, <1>2, <1>8 DEF ClassInv, AtWork
  <2>3. /\ Remain(n, rest) /\ Place(n, rest) > 0 /\ Passed(n, Place(n, rest) - 1)
        /\ ShownPairs = Earlier(n, names, k) \union ShownOf(n, Place(n, rest) - 1)
    BY <1>2, <1>8 DEF ClassInv, ClassesShown
  <2>4. Place(n, rest) \in Nat \ {0}
    <3>1. repo.classes[n] \in Seq(ClassNames)
      BY <1>3, ClassFacts
    <3>2. QED BY <2>3, <3>1 DEF Remain
  <2>5. QED BY <2>1, <2>2, <2>3, <2>4
<1>9. ASSUME command # "classdef"
      PROVE  /\ e = Resolved(n, class) /\ ShownSpaces = SeenOf(names, k - 2)
             /\ NoneHalts(names, k - 2)
  <2>1. command \in {"specified_classdef", "instance"}
    BY <1>3, <1>9 DEF Commands
  <2>2. QED BY <1>1, <1>2, <1>9, <2>1 DEF ClassInv, SpacesSeen, Start
<1>10. QED BY <1>3, <1>4, <1>5, <1>6, <1>7, <1>8, <1>9

(* --classdef goes on with the next class.                                 *)
LEMMA NextClass ==
  ASSUME WalkInv, ClassInv, AtSpace, command = "classdef", pc' = "classes",
         Searched(space, "classes"), BasesAreAncestors',
         UNCHANGED <<repo, command, class, NamespaceNames, i, space>>,
         \A n \in {space}, rest \in {left'}, names \in {NamespaceNames}, k \in {i} :
           /\ Remain(n, rest)
           /\ rest # <<>> => Passed(n, Place(n, rest))
           /\ ShownPairs' = Earlier(n, names, k) \union ShownOf(n, Place(n, rest))
  PROVE  ClassInv'
<1>1. PICK n, rest, names, k, m :
        n = space /\ rest = left' /\ names = NamespaceNames /\ k = i /\ m = Place(n, rest)
  OBVIOUS
<1>2. /\ Remain(n, rest)
      /\ rest # <<>> => Passed(n, m)
      /\ ShownPairs' = Earlier(n, names, k) \union ShownOf(n, m)
  BY <1>1
<1>3. /\ Place(n, rest)' = m /\ Remain(n, rest)' /\ (rest # <<>> => Passed(n, m)')
      /\ Earlier(n, names, k)' = Earlier(n, names, k) /\ ShownOf(n, m)' = ShownOf(n, m)
  BY <1>1, <1>2, ListOnly
<1>4. (rest # <<>> => Passed(n, Place(n, rest))') /\ ShownOf(n, Place(n, rest))' = ShownOf(n, m)
  BY <1>3, ListOnly DEF Passed, ShownOf, RecordAt, Shows, Refused, State
<1>5. ClassesShown'
  BY <1>1, <1>2, <1>3, <1>4 DEF ClassesShown, Building
<1>6. Construction' /\ SpacesSeen'
  BY DEF Construction, Building, SpacesSeen
<1>7. AtWork'
  <2>1. Searched(space, "classes")'
    BY DEF Searched
  <2>2. AtSpace /\ AtSpace' /\ AtWork
    BY DEF AtSpace, ClassInv
  <2>3. QED BY <2>1, <2>2 DEF AtWork
<1>8. QED BY <1>5, <1>6, <1>7 DEF ClassInv

(* The other two go on with the next namespace.                            *)
LEMMA NextIsSpace ==
  ASSUME WalkInv, ClassInv, AtSpace, command # "classdef", pc' = "next", BasesAreAncestors',
         UNCHANGED <<repo, command, class, NamespaceNames, i, space>>,
         \A names \in {NamespaceNames}, k \in {i} :
           ShownSpaces' = SeenOf(names, k - 1) /\ NoneHalts(names, k - 1)
  PROVE  ClassInv'
<1>1. PICK names, k : names = NamespaceNames /\ k = i
  OBVIOUS
<1>2. ShownSpaces' = SeenOf(names, k - 1)' /\ NoneHalts(names, k - 1)'
  BY <1>1, SightOnly
<1>3. ~ AtSpace' /\ ~ Building'
  BY DEF AtSpace, Building
<1>4. SpacesSeen'
  BY <1>1, <1>2, <1>3 DEF SpacesSeen
<1>5. Construction' /\ ClassesShown'
  BY <1>3 DEF Construction, ClassesShown
<1>6. i <= Len(NamespaceNames) + 1
  <2>1. space # System
    BY AtHome DEF ClassInv
  <2>2. QED BY <2>1 DEF ClassInv, AtWork
<1>7. AtWork'
  BY <1>3, <1>6 DEF AtWork
<1>8. QED BY <1>4, <1>5, <1>7 DEF ClassInv

(* --instance gives up.                                                    *)
LEMMA GivesUp ==
  ASSUME WalkInv, ClassInv, AtSpace, command = "instance", pc' = "failed",
         UNCHANGED <<repo, command, class, NamespaceNames, i, space, output>>,
         \A n \in {space} : Halts(n)
  PROVE  ClassInv'
<1>1. PICK n, names, k : n = space /\ names = NamespaceNames /\ k = i
  OBVIOUS
<1>2. /\ space # System /\ k \in 2 .. Len(names) + 1 /\ n = names[k - 1]
  BY <1>1, AtHome DEF ClassInv
<1>3. ShownSpaces = SeenOf(names, k - 2) /\ NoneHalts(names, k - 2) /\ Halts(n)
  BY <1>1 DEF ClassInv, SpacesSeen
<1>4. ShownSpaces' = SeenOf(names, k - 2)' /\ NoneHalts(names, k - 2)' /\ Halts(n)'
  <2>1. ShownSpaces' = ShownSpaces
    BY DEF ShownSpaces
  <2>2. QED BY <1>3, <2>1, SightOnly
<1>5. Halts(names[k - 1])'
  BY <1>2, <1>4, SightOnly DEF Halts, Sees, Where, Refused, Resolved, State
<1>6. ~ AtSpace' /\ ~ Building'
  BY DEF AtSpace, Building
<1>7. SpacesSeen'
  BY <1>1, <1>4, <1>5, <1>6 DEF SpacesSeen
<1>8. Construction' /\ ClassesShown' /\ BasesAreAncestors'
  BY <1>6, BasesKeep DEF Construction, ClassesShown, ClassInv
<1>9. AtWork'
  BY <1>1, <1>2, <1>6 DEF AtWork
<1>10. QED BY <1>7, <1>8, <1>9 DEF ClassInv
-----------------------------------------------------------------------------
(* A record of a superclass that cannot be read ends the way up; one of    *)
(* the class itself is not shown.                                          *)
LEMMA CreateUnreadKeeps ==
  ASSUME WalkInv, ClassInv, CreateUnread
  PROVE  ClassInv'
<1>1. PICK n, rest, names, k, calls, bases, e, m :
        /\ n = space /\ rest = left /\ names = NamespaceNames /\ k = i /\ calls = chain
        /\ bases = BaseClasses /\ e = Start(space, left) /\ m = Place(n, rest)
  OBVIOUS
<1>2. /\ pc = "create" /\ State(calls[1]) = "unread" /\ chain' = Tail(calls)
      /\ pc' = IF chain' = <<>> THEN NoObject ELSE "finish"
      /\ repo' = repo /\ command' = command /\ class' = class /\ NamespaceNames' = NamespaceNames
      /\ i' = i /\ left' = left /\ space' = space /\ BaseClasses' = BaseClasses /\ output' = output
  BY <1>1 DEF CreateUnread, Top, input, walk
<1>3. Building /\ AtSpace
  BY <1>2 DEF Building, AtSpace
<1>4. /\ repo \in Repositories /\ n \in Homes(repo)
      /\ CallsFrom(n, e, calls) /\ calls \in Seq(Records(n)) /\ Len(calls) \in Nat \ {0}
      /\ e \in Records(n) /\ calls[Len(calls)] = e /\ bases = <<>>
      /\ command = "classdef" =>
           /\ e = RecordAt(n, m) /\ Remain(n, rest) /\ Searched(n, "classes")
           /\ m \in Nat \ {0} /\ Passed(n, m - 1)
           /\ ShownPairs = Earlier(n, names, k) \union ShownOf(n, m - 1)
      /\ command # "classdef" =>
           /\ e = Resolved(n, class) /\ Len(names) \in Nat
           /\ k \in 2 .. Len(names) + 1 /\ n = names[k - 1]
           /\ ShownSpaces = SeenOf(names, k - 2) /\ NoneHalts(names, k - 2)
  BY <1>1, <1>2, <1>3, BuildingFacts
<1>5. BasesAreAncestors'
  BY <1>2, BasesKeep DEF ClassInv
<1>6. CASE Len(calls) = 1
  <2>1. Tail(calls) = <<>> /\ State(e) = "unread"
    BY <1>2, <1>4, <1>6
  <2>2. pc' = IF command = "classdef" THEN "classes" ELSE "next"
    BY <1>2, <2>1 DEF NoObject
  <2>3. ~ Refused(n, e)
    BY <1>4, <2>1, UnreadPasses
  <2>4. CASE command = "classdef"
    <3>1. Passed(n, m) /\ ShownOf(n, m) = ShownOf(n, m - 1)
      BY <1>4, <2>1, <2>3, <2>4, ShownStep
    <3>2. ShownPairs' = ShownPairs
      BY <1>2 DEF ShownPairs
    <3>3. \A r \in {left'} : r = rest
      BY <1>1, <1>2
    <3>4. QED BY <1>1, <1>2, <1>3, <1>4, <1>5, <2>2, <2>4, <3>1, <3>2, <3>3, NextClass
  <2>5. CASE command # "classdef"
    <3>1. PICK l \in Nat \ {0} : l = k - 1 /\ k - 2 = l - 1
      BY <1>4, <2>5
    <3>2. ~ Sees(n) /\ ~ Halts(n)
      BY <1>4, <2>1, <2>5 DEF Sees, Halts
    <3>3. n = names[l]
      BY <1>4, <2>5, <3>1
    <3>4. ~ Sees(names[l]) /\ ~ Halts(names[l])
      BY <3>2, <3>3
    <3>5. SeenOf(names, l) = SeenOf(names, l - 1) /\ NoneHalts(names, l)
      BY <1>4, <2>5, <3>1, <3>4, SeenStep
    <3>6. ShownSpaces' = ShownSpaces
      BY <1>2 DEF ShownSpaces
    <3>7. ShownSpaces' = SeenOf(names, k - 1) /\ NoneHalts(names, k - 1)
      BY <1>4, <2>5, <3>1, <3>5, <3>6
    <3>8. QED BY <1>1, <1>2, <1>3, <1>5, <2>2, <2>5, <3>7, NextIsSpace
  <2>6. QED BY <2>4, <2>5
<1>7. CASE Len(calls) # 1
  <2>1. Len(calls) > 1
    <3>1. PICK l \in Nat \ {0} : l = Len(calls)
      BY <1>4
    <3>2. l > 1
      BY ONLY <1>7, <3>1
    <3>3. QED BY ONLY <3>1, <3>2
  <2>2. PICK t, x : t = Tail(calls) /\ x = calls[2]
    OBVIOUS
  <2>3. /\ CallsFrom(n, e, t) /\ t[1] = x
        /\ ~ Ends(n, x) /\ calls[1] = Resolved(n, Super(x))
    BY <1>4, <2>1, <2>2, CallReturns
  <2>4. t # <<>>
    BY <2>3 DEF CallsFrom
  <2>5. Built(n, x, <<>>)
    <3>1. State(x) # "unread" /\ State(Resolved(n, Super(x))) = "unread"
      BY <1>2, <2>3 DEF Ends
    <3>2. Ascends(n, x, <<>>)
      BY <3>1 DEF Ascends, Above
    <3>3. QED BY <3>2 DEF Built
  <2>6. pc' = "finish" /\ chain' = t /\ BaseClasses' = <<>>
    BY <1>1, <1>2, <1>4, <2>2, <2>4
  <2>7. Building'
    BY <2>6 DEF Building
  <2>8. QED BY <1>1, <1>2, <1>3, <2>3, <2>5, <2>6, <2>7, StillBuilding
<1>8. QED BY <1>6, <1>7

(* The superclass comes next, or there is none.                            *)
LEMMA CreateSuperKeeps ==
  ASSUME WalkInv, ClassInv, CreateSuper
  PROVE  ClassInv'
<1>1. PICK n, rest, names, k, calls, bases, e, x :
        /\ n = space /\ rest = left /\ names = NamespaceNames /\ k = i /\ calls = chain
        /\ bases = BaseClasses /\ e = Start(space, left) /\ x = calls[1]
  OBVIOUS
<1>2. /\ pc = "create" /\ State(x) # "unread" /\ x = Top
      /\ repo' = repo /\ command' = command /\ class' = class /\ NamespaceNames' = NamespaceNames
      /\ i' = i /\ left' = left /\ space' = space /\ BaseClasses' = BaseClasses /\ output' = output
  BY <1>1 DEF CreateSuper, Top, input, walk
<1>3. Building
  BY <1>2 DEF Building
<1>4. /\ repo \in Repositories /\ n \in Homes(repo)
      /\ CallsFrom(n, e, calls) /\ calls \in Seq(Records(n)) /\ Len(calls) \in Nat \ {0}
      /\ e \in Records(n) /\ calls[Len(calls)] = e /\ bases = <<>>
      /\ x \in Records(n) /\ x \in Lineage(n, e)
  BY <1>1, <1>2, <1>3, BuildingFacts
<1>5. CASE ~ Ends(n, x)
  <2>1. Super(x) # NoClass /\ Where(n, Super(x)) # {}
    BY <1>5 DEF Ends
  <2>2. PICK h \in Where(n, Super(x)) :
          chain' = <<[name |-> Super(x), home |-> h]>> \o calls /\ pc' = "create"
    BY <1>1, <1>2, <2>1 DEF CreateSuper
  <2>3. PICK r : r = Resolved(n, Super(x))
    OBVIOUS
  <2>4. r = [name |-> Super(x), home |-> h] /\ r \in Records(n) /\ r \in Lineage(n, e)
    BY <1>4, <1>5, <2>1, <2>3, ClassFacts, LineageFacts
  <2>0. PICK m \in Nat \ {0} : m = Len(calls)
    BY <1>4
  <2>5. PICK c : m = Len(calls) /\ c = <<r>> \o calls
    BY <2>0
  <2>6. chain' = c /\ pc' = "create" /\ BaseClasses' = <<>>
    BY <1>1, <1>2, <1>4, <2>2, <2>4, <2>5
  <2>7. /\ c \in Seq(Records(n)) /\ Len(c) = m + 1 /\ c[1] = r
        /\ \A j \in 1 .. m : c[j + 1] = calls[j]
    <3>1. <<r>> \in Seq(Records(n)) /\ Len(<<r>>) = 1 /\ <<r>>[1] = r
      BY <2>4
    <3>2. /\ <<r>> \o calls \in Seq(Records(n)) /\ Len(<<r>> \o calls) = Len(<<r>>) + Len(calls)
          /\ \A j \in 1 .. Len(<<r>>) + Len(calls) :
               (<<r>> \o calls)[j] = IF j <= Len(<<r>>) THEN <<r>>[j] ELSE calls[j - Len(<<r>>)]
      BY ONLY <1>4, <3>1, ConcatProperties
    <3>3. PICK s : s = <<r>>
      OBVIOUS
    <3>4. /\ c \in Seq(Records(n)) /\ Len(c) = 1 + m
          /\ \A j \in 1 .. 1 + m : c[j] = IF j <= 1 THEN s[j] ELSE calls[j - 1]
      BY ONLY <2>5, <3>1, <3>2, <3>3
    <3>5. c[1] = r
      <4>1. 1 \in 1 .. 1 + m
        BY <2>5
      <4>2. QED BY <3>1, <3>3, <3>4, <4>1
    <3>6. \A j \in 1 .. m : j + 1 \in 1 .. 1 + m /\ ~ (j + 1 <= 1) /\ (j + 1) - 1 = j
      BY <2>5
    <3>7. QED BY <3>4, <3>5, <3>6
  <2>8. CallsFrom(n, e, c)
    <3>1. /\ calls[m] = e
          /\ \A j \in 1 .. m : calls[j] \in Lineage(n, e)
          /\ \A j \in 1 .. m - 1 : ~ Ends(n, calls[j + 1]) /\ calls[j] = Resolved(n, Super(calls[j + 1]))
      BY <1>4, <2>5 DEF CallsFrom
    <3>2. c[m + 1] = e /\ c # <<>>
      <4>1. m \in 1 .. m
        BY <2>5
      <4>2. Len(c) # 0
        BY <2>7
      <4>3. QED BY <2>7, <3>1, <4>1, <4>2
    <3>3. ASSUME NEW j \in 1 .. m + 1 PROVE c[j] \in Lineage(n, e)
      <4>1. CASE j = 1
        BY <2>4, <2>7, <4>1
      <4>2. CASE j # 1
        <5>1. j - 1 \in 1 .. m /\ (j - 1) + 1 = j
          BY <4>2
        <5>2. QED BY <2>7, <3>1, <5>1
      <4>3. QED BY <4>1, <4>2
    <3>4. ASSUME NEW j \in 1 .. (m + 1) - 1
          PROVE  ~ Ends(n, c[j + 1]) /\ c[j] = Resolved(n, Super(c[j + 1]))
      <4>1. j \in 1 .. m /\ c[j + 1] = calls[j]
        BY <2>7
      <4>2. CASE j = 1
        BY <1>1, <1>5, <2>3, <2>7, <4>1, <4>2
      <4>3. CASE j # 1
        <5>1. j - 1 \in 1 .. m /\ (j - 1) + 1 = j /\ j - 1 \in 1 .. m - 1
          BY <4>1, <4>3
        <5>2. QED BY <2>7, <3>1, <4>1, <5>1
      <4>4. QED BY <4>2, <4>3
    <3>5. QED BY <2>7, <3>2, <3>3, <3>4 DEF CallsFrom
  <2>9. Building'
    BY <2>6 DEF Building
  <2>10. QED BY <1>1, <1>2, <1>3, <2>6, <2>8, <2>9, StillBuilding
<1>6. CASE Ends(n, x)
  <2>1. ~ (Super(x) # NoClass /\ Where(n, Super(x)) # {})
    BY <1>2, <1>6 DEF Ends
  <2>2. pc' = "finish" /\ chain' = calls /\ BaseClasses' = <<>>
    BY <1>1, <1>2, <1>4, <2>1 DEF CreateSuper
  <2>3. Ascends(n, x, <<>>)
    BY <1>2, <1>6 DEF Ascends, Above
  <2>4. Built(n, x, <<>>) /\ Building'
    BY <2>2, <2>3 DEF Built, Building
  <2>5. QED BY <1>1, <1>2, <1>3, <1>4, <2>2, <2>4, StillBuilding
<1>7. QED BY <1>5, <1>6
(* A base class is put after those found above it.                         *)
LEMMA BuiltOneMore ==
  ASSUME repo \in Repositories, NEW n \in Homes(repo), NEW x \in Records(n), State(x) = "ok",
         NEW bases, Built(n, x, bases), NEW y, ~ Ends(n, y), x = Resolved(n, Super(y))
  PROVE  Built(n, y, Append(bases, x.name))
<1>0. bases \in Seq(ClassNames) /\ x.name \in ClassNames
  BY DEF Built, Records
<1>1. PICK m \in Nat : m = Len(bases)
  BY <1>0
<1>2. PICK b : b = Append(bases, x.name)
  OBVIOUS
<1>3. /\ b \in Seq(ClassNames) /\ Len(b) = m + 1 /\ b[m + 1] = x.name
      /\ \A k \in 1 .. m : b[k] = bases[k]
  BY <1>0, <1>1, <1>2
<1>4. x.name = Super(y) /\ Resolved(n, x.name) = x
  <2>1. x.name = Super(y)
    BY DEF Resolved
  <2>2. QED BY <2>1
<1> DEFINE E(k) == Above(n, x, bases, k)
           F(k) == Above(n, y, b, k)
<1>5. /\ State(E(m)) # "unread" /\ (Ends(n, E(m)) \/ State(Resolved(n, Super(E(m)))) = "unread")
      /\ \A k \in 1 .. m : ~ Ends(n, E(k - 1)) /\ E(k) = Resolved(n, Super(E(k - 1)))
      /\ \A k \in 1 .. m : State(Resolved(n, bases[k])) = "ok"
  BY <1>1 DEF Built, Ascends
<1>6. F(0) = y /\ E(0) = x
  BY DEF Above
<1>7. \A k \in 0 .. m : F(k + 1) = E(k)
  <2>1. ASSUME NEW k \in 0 .. m PROVE F(k + 1) = E(k)
    <3>1. F(k + 1) = Resolved(n, b[m + 1 - k])
      <4>1. Len(b) + 1 - (k + 1) = m + 1 - k /\ k + 1 # 0
        BY <1>1, <1>3
      <4>2. QED BY <4>1 DEF Above
    <3>2. CASE k = 0
      <4>1. m + 1 - k = m + 1
        BY <1>1, <3>2
      <4>2. QED BY <1>3, <1>4, <1>6, <3>1, <3>2, <4>1
    <3>3. CASE k # 0
      <4>1. m + 1 - k \in 1 .. m
        BY <3>3
      <4>2. E(k) = Resolved(n, bases[m + 1 - k])
        BY <1>1, <3>3 DEF Above
      <4>3. QED BY <1>3, <3>1, <4>1, <4>2
    <3>4. QED BY <3>2, <3>3
  <2>2. QED BY <2>1
<1> HIDE DEF E, F
<1>8. ASSUME NEW k \in 1 .. m + 1
      PROVE  ~ Ends(n, F(k - 1)) /\ F(k) = Resolved(n, Super(F(k - 1)))
  <2>1. CASE k = 1
    <3>1. F(1) = x
      <4>1. 0 \in 0 .. m /\ 0 + 1 = 1
        BY <1>1
      <4>2. QED BY <1>6, <1>7, <4>1
    <3>2. k - 1 = 0
      BY <2>1
    <3>3. QED BY <1>6, <2>1, <3>1, <3>2
  <2>2. CASE k # 1
    <3>1. PICK l \in 1 .. m : k = l + 1 /\ l - 1 \in 0 .. m /\ l \in 0 .. m /\ (l - 1) + 1 = k - 1
      <4>1. k - 1 \in 1 .. m /\ k = (k - 1) + 1 /\ (k - 1) - 1 \in 0 .. m /\ k - 1 \in 0 .. m
            /\ ((k - 1) - 1) + 1 = k - 1
        BY <1>1, <2>2
      <4>2. QED BY <4>1
    <3>2. F(k) = E(l) /\ F(k - 1) = E(l - 1)
      BY <1>7, <3>1
    <3>3. QED BY <1>5, <3>1, <3>2
  <2>3. QED BY <2>1, <2>2
<1>9. F(m + 1) = E(m)
  BY <1>1, <1>7
<1>10. Ascends(n, y, b)
  BY <1>3, <1>5, <1>8, <1>9 DEF Ascends, F
<1>11. \A k \in 1 .. m + 1 : State(Resolved(n, b[k])) = "ok"
  <2>1. \A k \in 1 .. m + 1 : k = m + 1 \/ k \in 1 .. m
    BY <1>1
  <2>2. QED BY <1>3, <1>4, <1>5, <2>1
<1>12. QED BY <1>2, <1>3, <1>10, <1>11 DEF Built

LEMMA FinishBaseKeeps ==
  ASSUME WalkInv, ClassInv, FinishBase
  PROVE  ClassInv'
<1>1. PICK n, rest, names, k, calls, bases, e, x, y, t :
        /\ n = space /\ rest = left /\ names = NamespaceNames /\ k = i /\ calls = chain
        /\ bases = BaseClasses /\ e = Start(space, left) /\ x = calls[1] /\ y = calls[2]
        /\ t = Tail(calls)
  OBVIOUS
<1>2. /\ pc = "finish" /\ pc' = "finish" /\ State(x) = "ok" /\ Len(calls) > 1
      /\ BaseClasses' = Append(bases, x.name) /\ chain' = t
      /\ repo' = repo /\ command' = command /\ class' = class /\ NamespaceNames' = NamespaceNames
      /\ i' = i /\ left' = left /\ space' = space /\ output' = output
  BY <1>1 DEF FinishBase, Top, input, walk
<1>3. Building /\ Building'
  BY <1>2 DEF Building
<1>4. /\ repo \in Repositories /\ n \in Homes(repo) /\ CallsFrom(n, e, calls)
      /\ x \in Records(n) /\ Built(n, x, bases)
  BY <1>1, <1>2, <1>3, BuildingFacts
<1>5. /\ CallsFrom(n, e, t) /\ t[1] = y
      /\ ~ Ends(n, y) /\ x = Resolved(n, Super(y))
  BY <1>1, <1>2, <1>4, CallReturns
<1>6. Built(n, y, Append(bases, x.name))
  BY <1>2, <1>4, <1>5, BuiltOneMore
<1>7. QED BY <1>1, <1>2, <1>3, <1>5, <1>6, StillBuilding

(* The class itself is shown with what was found above it.                 *)
LEMMA ShownKeeps ==
  ASSUME WalkInv, ClassInv, Building, pc # "create", Len(chain) = 1, State(chain[1]) = "ok",
         output' = output \union {Shown}, repo' = repo, command' = command
  PROVE  /\ BasesAreAncestors'
         /\ ShownSpaces' = ShownSpaces \union {space}
         /\ \A n \in {space}, rest \in {left}, e \in {Start(space, left)} :
              /\ ~ Refused(n, e) /\ State(e) = "ok"
              /\ command = "classdef" =>
                   ShownPairs' = ShownPairs \union {<<n, repo.classes[n][Place(n, rest)]>>}
<1>1. PICK n, rest, names, k, calls, bases, e, m :
        /\ n = space /\ rest = left /\ names = NamespaceNames /\ k = i /\ calls = chain
        /\ bases = BaseClasses /\ e = Start(space, left) /\ m = Place(n, rest)
  OBVIOUS
<1>2. /\ repo \in Repositories /\ n \in Homes(repo) /\ Built(n, calls[1], bases)
      /\ e \in Records(n) /\ calls[Len(calls)] = e
      /\ command = "classdef" => e = RecordAt(n, m)
      /\ command # "classdef" => e = Resolved(n, class) /\ Where(n, class) # {}
  BY <1>1, BuildingFacts
<1>3. calls[1] = e /\ State(e) = "ok" /\ Built(n, e, bases)
  BY <1>1, <1>2
<1>4. ~ Refused(n, e)
  BY <1>2, <1>3, BuiltPasses
<1>5. PICK o : o = [space |-> n, class |-> e.name, bases |-> bases]
  OBVIOUS
<1>6. output' = output \union {o}
  BY <1>1, <1>3, <1>5 DEF Shown, Top
<1>7. o.space = n /\ o.class = e.name /\ o.bases = bases
  BY <1>5
<1>8. ShownSpaces' = ShownSpaces \union {space}
  BY <1>1, <1>6, <1>7 DEF ShownSpaces
<1>9. ShownPairs' = ShownPairs \union {<<n, e.name>>}
  BY <1>6, <1>7 DEF ShownPairs
<1>10. command = "classdef" => e.name = repo.classes[n][m] /\ e = [name |-> e.name, home |-> n]
  BY <1>2 DEF RecordAt
<1>11. command # "classdef" => e.name = class /\ Resolved(n, e.name) = e /\ Where(n, e.name) # {}
  <2>1. command # "classdef" => e.name = class
    BY <1>2 DEF Resolved
  <2>2. QED BY <1>2, <2>1
<1>12. Ascends(n, e, bases)
  BY <1>3 DEF Built
<1>13. IF command = "classdef"
         THEN Ascends(o.space, [name |-> o.class, home |-> o.space], o.bases)
         ELSE Where(o.space, o.class) # {} /\ Ascends(o.space, Resolved(o.space, o.class), o.bases)
  <2>1. CASE command = "classdef"
    BY <1>7, <1>10, <1>12, <2>1
  <2>2. CASE command # "classdef"
    <3>1. Where(o.space, o.class) # {} /\ Resolved(o.space, o.class) = e
      BY <1>7, <1>11, <2>2
    <3>2. QED BY <1>7, <1>12, <2>2, <3>1
  <2>3. QED BY <2>1, <2>2
<1>14. BasesAreAncestors'
  <2>1. BasesAreAncestors
    BY DEF ClassInv
  <2>2. QED BY <1>6, <1>13, <2>1, BasesKeep
<1>15. QED BY <1>1, <1>3, <1>4, <1>8, <1>9, <1>10, <1>14

LEMMA FinishClassKeeps ==
  ASSUME WalkInv, ClassInv, FinishClass
  PROVE  ClassInv'
<1>1. PICK n, rest, names, k, calls, bases, e, m :
        /\ n = space /\ rest = left /\ names = NamespaceNames /\ k = i /\ calls = chain
        /\ bases = BaseClasses /\ e = Start(space, left) /\ m = Place(n, rest)
  OBVIOUS
<1>2. /\ pc = "finish" /\ State(calls[1]) = "ok" /\ Len(calls) = 1
      /\ repo' = repo /\ command' = command /\ class' = class /\ NamespaceNames' = NamespaceNames
      /\ i' = i /\ left' = left /\ space' = space /\ BaseClasses' = BaseClasses
  BY <1>1 DEF FinishClass, Top, input, walk
<1>3. Building /\ AtSpace
  BY <1>2 DEF Building, AtSpace
<1>4. /\ repo \in Repositories /\ n \in Homes(repo) /\ command \in Commands \ {"namespaceinstance"}
      /\ CallsFrom(n, e, calls) /\ Built(n, calls[1], bases)
      /\ command = "classdef" =>
           /\ e = RecordAt(n, m) /\ Remain(n, rest) /\ Searched(n, "classes")
           /\ m \in Nat \ {0} /\ Passed(n, m - 1)
           /\ ShownPairs = Earlier(n, names, k) \union ShownOf(n, m - 1)
      /\ command # "classdef" =>
           /\ e = Resolved(n, class) /\ Where(n, class) # {} /\ Len(names) \in Nat
           /\ k \in 2 .. Len(names) + 1 /\ n = names[k - 1]
           /\ ShownSpaces = SeenOf(names, k - 2) /\ NoneHalts(names, k - 2)
  BY <1>1, <1>2, <1>3, BuildingFacts
<1>5. CASE command = "instance"
  <2>1. pc' = "instances" /\ chain' = chain /\ output' = output /\ Building'
    BY <1>5 DEF FinishClass, Building
  <2>2. QED BY <1>1, <1>2, <1>3, <1>4, <2>1, StillBuilding
<1>6. CASE command # "instance"
  <2>1. /\ pc' = NoObject /\ output' = output \union {Shown}
    BY <1>6 DEF FinishClass
  <2>2. /\ BasesAreAncestors'
        /\ ShownSpaces' = ShownSpaces \union {space}
        /\ ~ Refused(n, e) /\ State(e) = "ok"
        /\ command = "classdef" => ShownPairs' = ShownPairs \union {<<n, repo.classes[n][m]>>}
    BY <1>1, <1>2, <1>3, <2>1, ShownKeeps
  <2>3. CASE command = "classdef"
    <3>1. Shows(n, RecordAt(n, m)) /\ ~ Refused(n, RecordAt(n, m))
      BY <1>4, <2>2, <2>3 DEF Shows
    <3>2. /\ Passed(n, m)
          /\ ShownOf(n, m) = ShownOf(n, m - 1) \union {<<n, repo.classes[n][m]>>}
      BY <1>4, <2>3, <3>1, ShownStep
    <3>3. ShownPairs' = Earlier(n, names, k) \union ShownOf(n, m)
      BY <1>4, <2>2, <2>3, <3>2
    <3>4. pc' = "classes"
      BY <2>1, <2>3 DEF NoObject
    <3>5. QED BY <1>1, <1>2, <1>3, <1>4, <2>2, <2>3, <3>2, <3>3, <3>4, NextClass
  <2>4. CASE command = "specified_classdef"
    <3>1. PICK l \in Nat \ {0} : l = k - 1 /\ k - 2 = l - 1
      BY <1>4, <2>4
    <3>2. Sees(n) /\ ~ Halts(n)
      BY <1>4, <2>2, <2>4 DEF Sees, Halts
    <3>3. n = names[l]
      BY <1>4, <2>4, <3>1
    <3>4. Sees(names[l]) /\ ~ Halts(names[l])
      BY <3>2, <3>3
    <3>5. SeenOf(names, l) = SeenOf(names, l - 1) \union {n} /\ NoneHalts(names, l)
      BY <1>4, <2>4, <3>1, <3>3, <3>4, SeenStep
    <3>6. ShownSpaces' = SeenOf(names, k - 1) /\ NoneHalts(names, k - 1)
      BY <1>1, <1>4, <2>2, <2>4, <3>1, <3>5
    <3>7. pc' = "next"
      BY <2>1, <2>4 DEF NoObject
    <3>8. QED BY <1>1, <1>2, <1>3, <2>2, <2>4, <3>6, <3>7, NextIsSpace
  <2>5. QED BY <1>4, <1>6, <2>3, <2>4 DEF Commands
<1>7. QED BY <1>5, <1>6
(* A record refused, the class itself or above it, is one e goes through.  *)
LEMMA FinishFailsKeeps ==
  ASSUME WalkInv, ClassInv, FinishFails
  PROVE  ClassInv'
<1>1. PICK n, rest, names, k, calls, bases, e, m :
        /\ n = space /\ rest = left /\ names = NamespaceNames /\ k = i /\ calls = chain
        /\ bases = BaseClasses /\ e = Start(space, left) /\ m = Place(n, rest)
  OBVIOUS
<1>2. /\ pc = "finish" /\ State(calls[1]) = "malformed" /\ left' = <<>>
      /\ pc' = CASE command = "classdef" -> "classes"
                 [] command = "specified_classdef" -> "next"
                 [] command = "instance" -> "failed"
      /\ repo' = repo /\ command' = command /\ class' = class /\ NamespaceNames' = NamespaceNames
      /\ i' = i /\ space' = space /\ output' = output
  BY <1>1 DEF FinishFails, Top, input, walk
<1>3. Building /\ AtSpace
  BY <1>2 DEF Building, AtSpace
<1>4. /\ repo \in Repositories /\ n \in Homes(repo) /\ command \in Commands \ {"namespaceinstance"}
      /\ CallsFrom(n, e, calls) /\ Len(calls) \in Nat \ {0} /\ calls[Len(calls)] = e
      /\ calls[1] \in Lineage(n, e)
      /\ command = "classdef" =>
           /\ e = RecordAt(n, m) /\ Remain(n, rest) /\ Searched(n, "classes")
           /\ m \in Nat \ {0} /\ Passed(n, m - 1)
           /\ ShownPairs = Earlier(n, names, k) \union ShownOf(n, m - 1)
      /\ command # "classdef" =>
           /\ e = Resolved(n, class) /\ Where(n, class) # {} /\ Len(names) \in Nat
           /\ k \in 2 .. Len(names) + 1 /\ n = names[k - 1]
           /\ ShownSpaces = SeenOf(names, k - 2) /\ NoneHalts(names, k - 2)
  BY <1>1, <1>2, <1>3, BuildingFacts
<1>5. Refused(n, e)
  BY <1>2, <1>4 DEF Refused
<1>6. State(e) # "unread"
  <2>1. PICK l \in Nat \ {0} : l = Len(calls)
    BY <1>4
  <2>2. CASE l = 1
    BY <1>2, <1>4, <2>1, <2>2
  <2>3. CASE l # 1
    <3>1. l - 1 \in 1 .. l - 1 /\ (l - 1) + 1 = l
      BY <2>3
    <3>2. ~ Ends(n, calls[l])
      BY <1>4, <2>1, <3>1 DEF CallsFrom
    <3>3. QED BY <1>4, <2>1, <3>2 DEF Ends
  <2>4. QED BY <2>2, <2>3
<1>7. BasesAreAncestors'
  BY <1>2, BasesKeep DEF ClassInv
<1>8. CASE command = "classdef"
  <2>1. PICK l \in Nat : l = Len(repo.classes[n]) /\ Place(n, <<>>) = l /\ m <= l
    <3>1. repo.classes[n] \in Seq(ClassNames)
      BY <1>4, ClassFacts
    <3>2. Len(repo.classes[n]) \in Nat
      BY <3>1
    <3>3. m \in 0 .. Len(repo.classes[n])
      BY <1>1, <1>4, <1>8 DEF Remain
    <3>4. Place(n, <<>>) = Len(repo.classes[n])
      BY <3>2 DEF Place
    <3>5. QED BY <1>4, <1>8, <3>2, <3>3, <3>4
  <2>2. Remain(n, <<>>)
    BY <2>1 DEF Remain
  <2>3. ShownOf(n, l) = ShownOf(n, m - 1)
    BY <1>4, <1>5, <1>8, <2>1, ShownStep
  <2>4. ShownPairs' = ShownPairs
    BY <1>2 DEF ShownPairs
  <2>5. ShownPairs' = Earlier(n, names, k) \union ShownOf(n, Place(n, <<>>))
    BY <1>4, <1>8, <2>1, <2>3, <2>4
  <2>6. pc' = "classes"
    BY <1>2, <1>8
  <2>7. QED BY <1>1, <1>2, <1>3, <1>4, <1>7, <1>8, <2>2, <2>5, <2>6, NextClass
<1>9. ASSUME command # "classdef" PROVE Sees(n) /\ Halts(n)
  BY <1>4, <1>5, <1>6, <1>9 DEF Sees, Halts
<1>10. CASE command = "specified_classdef"
  <2>1. PICK l \in Nat \ {0} : l = k - 1 /\ k - 2 = l - 1
    BY <1>4, <1>10
  <2>2. n = names[l]
    BY <1>4, <1>10, <2>1
  <2>3. Halts(names[l])
    BY <1>9, <1>10, <2>2
  <2>4. SeenOf(names, l) = SeenOf(names, l - 1) /\ NoneHalts(names, l)
    BY <1>4, <1>10, <2>1, <2>3, SeenStep
  <2>5. ShownSpaces' = ShownSpaces
    BY <1>2 DEF ShownSpaces
  <2>6. ShownSpaces' = SeenOf(names, k - 1) /\ NoneHalts(names, k - 1)
    BY <1>4, <1>10, <2>1, <2>4, <2>5
  <2>7. pc' = "next"
    BY <1>2, <1>10
  <2>8. QED BY <1>1, <1>2, <1>3, <1>7, <1>10, <2>6, <2>7, NextIsSpace
<1>11. CASE command = "instance"
  <2>1. pc' = "failed"
    BY <1>2, <1>11
  <2>2. QED BY <1>1, <1>2, <1>3, <1>9, <1>11, <2>1, GivesUp
<1>12. QED BY <1>4, <1>8, <1>10, <1>11 DEF Commands

LEMMA InstancesKeeps ==
  ASSUME WalkInv, ClassInv, Instances
  PROVE  ClassInv'
<1>1. PICK n, rest, names, k, calls, e :
        /\ n = space /\ rest = left /\ names = NamespaceNames /\ k = i /\ calls = chain
        /\ e = Start(space, left)
  OBVIOUS
<1>2. /\ pc = "instances"
      /\ \/ Searched(n, "instances") /\ pc' = "next" /\ output' = output \union {Shown}
         \/ ~ Searched(n, "instances") /\ pc' = "failed" /\ output' = output
      /\ repo' = repo /\ command' = command /\ class' = class /\ NamespaceNames' = NamespaceNames
      /\ i' = i /\ space' = space
  BY <1>1 DEF Instances, input, walk
<1>3. Building /\ AtSpace
  BY <1>2 DEF Building, AtSpace
<1>4. command = "instance"
  BY <1>2 DEF WalkInv, Phases
<1>5. /\ repo \in Repositories /\ n \in Homes(repo)
      /\ Len(calls) = 1 /\ State(calls[1]) = "ok" /\ calls[Len(calls)] = e
      /\ e = Resolved(n, class) /\ Where(n, class) # {} /\ Len(names) \in Nat
      /\ k \in 2 .. Len(names) + 1 /\ n = names[k - 1]
      /\ ShownSpaces = SeenOf(names, k - 2) /\ NoneHalts(names, k - 2)
  BY <1>1, <1>2, <1>3, <1>4, BuildingFacts
<1>6. State(e) = "ok"
  BY <1>5
<1>7. Sees(n)
  BY <1>5, <1>6 DEF Sees
<1>8. CASE Searched(n, "instances")
  <2>1. pc' = "next" /\ output' = output \union {Shown}
    BY <1>2, <1>8
  <2>2. /\ BasesAreAncestors' /\ ShownSpaces' = ShownSpaces \union {space} /\ ~ Refused(n, e)
    BY <1>1, <1>2, <1>3, <1>5, <2>1, ShownKeeps
  <2>3. ~ Halts(n)
    BY <1>5, <1>8, <2>2 DEF Halts
  <2>4. PICK l \in Nat \ {0} : l = k - 1 /\ k - 2 = l - 1
    BY <1>5
  <2>5. n = names[l]
    BY <1>5, <2>4
  <2>6. Sees(names[l]) /\ ~ Halts(names[l])
    BY <1>7, <2>3, <2>5
  <2>7. SeenOf(names, l) = SeenOf(names, l - 1) \union {n} /\ NoneHalts(names, l)
    BY <1>5, <2>4, <2>5, <2>6, SeenStep
  <2>8. ShownSpaces' = SeenOf(names, k - 1) /\ NoneHalts(names, k - 1)
    BY <1>1, <1>5, <2>2, <2>4, <2>7
  <2>9. QED BY <1>1, <1>2, <1>3, <1>4, <2>1, <2>2, <2>8, NextIsSpace
<1>9. CASE ~ Searched(n, "instances")
  <2>1. Halts(n) /\ pc' = "failed" /\ output' = output
    BY <1>2, <1>4, <1>7, <1>9 DEF Halts
  <2>2. QED BY <1>1, <1>2, <1>3, <1>4, <2>1, GivesUp
<1>10. QED BY <1>8, <1>9

-----------------------------------------------------------------------------
(* The classes of one namespace, in the order of the index.                *)
LEMMA SearchClassesKeeps ==
  ASSUME WalkInv, ClassInv, SearchClasses
  PROVE  ClassInv'
<1>1. PICK n, names, k : n = space /\ names = NamespaceNames /\ k = i
  OBVIOUS
<1>2. /\ pc = "space" /\ command = "classdef" /\ AtSpace
      /\ \/ Searched(n, "classes") /\ left' = repo.classes[n] /\ pc' = "classes"
         \/ ~ Searched(n, "classes") /\ pc' = IF n = System THEN "failed" ELSE "next"
      /\ repo' = repo /\ command' = command /\ class' = class /\ NamespaceNames' = NamespaceNames
      /\ i' = i /\ space' = space /\ output' = output
  BY <1>1 DEF SearchClasses, AtSpace, input, walk
<1>3. /\ repo \in Repositories /\ n \in Homes(repo)
      /\ n # System => k \in 2 .. Len(names) + 1 /\ n = names[k - 1] /\ Len(names) \in Nat
  BY <1>1, <1>2, AtHome DEF ClassInv
<1>4. ShownPairs = Earlier(n, names, k) /\ ShownPairs' = ShownPairs
  BY <1>1, <1>2 DEF ClassInv, ClassesShown, ShownPairs
<1>5. BasesAreAncestors'
  BY <1>2, BasesKeep DEF ClassInv
<1>6. CASE Searched(n, "classes")
  <2>1. PICK all : all = repo.classes[n] /\ all \in Seq(ClassNames)
    BY <1>3, ClassFacts
  <2>2. Len(all) \in Nat /\ Len(all) - Len(all) = 0
    BY <2>1
  <2>3. Place(n, all) = 0
    BY <2>1, <2>2 DEF Place
  <2>4. Remain(n, all)
    <3>1. \A j \in 1 .. Len(all) : 0 + j = j
      OBVIOUS
    <3>2. QED BY <2>1, <2>2, <2>3, <3>1 DEF Remain
  <2>5. Passed(n, 0) /\ ShownOf(n, 0) = {}
    <3>1. 1 .. 0 = {}
      OBVIOUS
    <3>2. QED BY <3>1 DEF Passed, ShownOf
  <2>6. left' = all /\ pc' = "classes"
    BY <1>2, <1>6, <2>1
  <2>7. QED BY <1>1, <1>2, <1>4, <1>5, <1>6, <2>3, <2>4, <2>5, <2>6, NextClass
<1>7. CASE ~ Searched(n, "classes") /\ n = System
  <2>1. pc' = "failed" /\ ~ AtSpace' /\ ~ Building'
    BY <1>2, <1>7 DEF AtSpace, Building
  <2>2. QED BY <1>2, <1>5, <2>1 DEF ClassInv, Construction, AtWork, ClassesShown, SpacesSeen
<1>8. CASE ~ Searched(n, "classes") /\ n # System
  <2>1. pc' = "next" /\ ~ AtSpace' /\ ~ Building'
    BY <1>2, <1>8 DEF AtSpace, Building
  <2>2. PICK l \in Nat \ {0} : l = k - 1 /\ k - 2 = l - 1
    BY <1>3, <1>8
  <2>3. n = names[l]
    BY <1>3, <1>8, <2>2
  <2>4. ~ Searched(names[l], "classes")
    BY <1>8, <2>3
  <2>5. ShownOfAll(names, l) = ShownOfAll(names, l - 1)
    <3>1. ShownOfAll(names, l) =
            ShownOfAll(names, l - 1) \union
              (IF Searched(names[l], "classes")
                 THEN ShownOf(names[l], Len(repo.classes[names[l]])) ELSE {})
      BY SpaceShown
    <3>2. QED BY ONLY <2>4, <3>1
  <2>6. ShownPairs' = ShownOfAll(names, k - 1)'
    <3>1. ShownPairs' = ShownOfAll(names, k - 1)
      BY <1>4, <1>8, <2>2, <2>5 DEF Earlier
    <3>2. QED BY <1>2, <3>1, ListOnly
  <2>7. ClassesShown'
    BY <1>1, <1>2, <2>1, <2>6 DEF ClassesShown
  <2>8. AtWork'
    BY <1>1, <1>2, <1>3, <1>8, <2>1 DEF AtWork
  <2>9. QED BY <1>2, <1>5, <2>1, <2>7, <2>8 DEF ClassInv, Construction, SpacesSeen
<1>9. QED BY <1>6, <1>7, <1>8

LEMMA ClassRecordKeeps ==
  ASSUME WalkInv, ClassInv, ClassRecord
  PROVE  ClassInv'
<1>1. PICK n, rest, names, k, m, t :
        /\ n = space /\ rest = left /\ names = NamespaceNames /\ k = i /\ m = Place(n, rest)
        /\ t = Tail(left)
  OBVIOUS
<1>2. /\ pc = "classes" /\ rest # <<>> /\ AtSpace
      /\ chain' = <<[name |-> Head(rest), home |-> n]>> /\ BaseClasses' = <<>> /\ left' = t
      /\ pc' = "create" /\ repo' = repo /\ command' = command /\ class' = class
      /\ NamespaceNames' = NamespaceNames /\ i' = i /\ space' = space /\ output' = output
  BY <1>1 DEF ClassRecord, AtSpace, input, walk
<1>3. command = "classdef" /\ Searched(n, "classes") /\ repo \in Repositories /\ n \in Homes(repo)
  BY <1>1, <1>2, AtHome DEF ClassInv, AtWork
<1>4. /\ Remain(n, rest) /\ Passed(n, m)
      /\ ShownPairs = Earlier(n, names, k) \union ShownOf(n, m)
  BY <1>1, <1>2, <1>3 DEF ClassInv, ClassesShown
<1>5. PICK l \in Nat, r \in Nat \ {0} :
        /\ l = Len(repo.classes[n]) /\ r = Len(rest) /\ m = l - r /\ m \in 0 .. l
        /\ rest \in Seq(ClassNames)
  <2>1. repo.classes[n] \in Seq(ClassNames) /\ rest \in Seq(ClassNames)
    BY <1>3, <1>4, ClassFacts DEF Remain
  <2>2. Len(repo.classes[n]) \in Nat /\ Len(rest) \in Nat \ {0}
    BY <1>2, <2>1, EmptySeq
  <2>3. m \in 0 .. Len(repo.classes[n]) /\ m = Len(repo.classes[n]) - Len(rest)
    BY <1>1, <1>4 DEF Remain, Place
  <2>4. QED BY <2>1, <2>2, <2>3
<1>6. /\ t \in Seq(ClassNames) /\ Len(t) = r - 1 /\ \A j \in 1 .. r - 1 : t[j] = rest[j + 1]
      /\ Head(rest) = rest[1]
  BY <1>1, <1>2, <1>5
<1>7. Place(n, t) = m + 1
  <2>1. l - (r - 1) = m + 1
    BY ONLY <1>5
  <2>2. QED BY <1>5, <1>6, <2>1 DEF Place
<1>8. \A j \in 1 .. r : rest[j] = repo.classes[n][m + j]
  BY <1>1, <1>4, <1>5 DEF Remain
<1>9. Remain(n, t)
  <2>1. \A j \in 1 .. r - 1 : t[j] = repo.classes[n][(m + 1) + j]
    <3>1. \A j \in 1 .. r - 1 : j + 1 \in 1 .. r /\ m + (j + 1) = (m + 1) + j
      <4>1. m \in Int
        BY <1>5
      <4>2. QED BY ONLY <4>1, r \in Nat \ {0}
    <3>2. QED BY <1>6, <1>8, <3>1
  <2>2. m + 1 \in 0 .. l
    BY ONLY <1>5
  <2>3. QED BY <1>5, <1>6, <1>7, <2>1, <2>2 DEF Remain
<1>10. PICK e : e = RecordAt(n, m + 1)
  OBVIOUS
<1>11. e = [name |-> Head(rest), home |-> n]
  <2>1. 1 \in 1 .. r
    BY <1>5
  <2>2. Head(rest) = repo.classes[n][m + 1]
    BY <1>6, <1>8, <2>1
  <2>3. QED BY <1>10, <2>2 DEF RecordAt
<1>12. e \in Records(n)
  <2>1. Head(rest) \in ClassNames
    BY <1>2, <1>5
  <2>2. QED BY <1>11, <2>1 DEF Records
<1>13. CallsFrom(n, e, <<e>>)
  <2>1. /\ <<e>> \in Seq(Records(n)) /\ <<e>> # <<>> /\ Len(<<e>>) = 1 /\ <<e>>[1] = e
        /\ 1 .. Len(<<e>>) - 1 = {}
    BY <1>12
  <2>2. e \in Lineage(n, e)
    BY <1>3, <1>12, LineageFacts
  <2>3. QED BY <2>1, <2>2 DEF CallsFrom
<1>14. Start(n, t)' = e
  BY <1>2, <1>3, <1>7, <1>10, ListOnly DEF Start, RecordAt
<1>15. Construction'
  <2>1. PICK calls : calls = <<e>> /\ chain' = calls
    BY <1>2, <1>11
  <2>2. CallsFrom(n, e, calls)'
    BY <1>2, <1>13, <2>1, AboveOnly
  <2>3. CallsFrom(n, Start(n, t), calls)'
    BY <1>2, <1>14, <2>2, ClassOnly DEF CallsFrom
  <2>4. QED BY <1>1, <1>2, <1>3, <2>1, <2>3 DEF Construction
<1>16. ClassesShown'
  <2>1. (m + 1) - 1 = m /\ m + 1 > 0
    BY ONLY <1>5
  <2>2. /\ Remain(n, t)' /\ Place(n, t)' = m + 1 /\ Passed(n, m)'
        /\ Earlier(n, names, k)' = Earlier(n, names, k) /\ ShownOf(n, m)' = ShownOf(n, m)
    BY <1>2, <1>4, <1>7, <1>9, ListOnly
  <2>3. PICK q : q = m + 1
    OBVIOUS
  <2>4. Place(n, t)' - 1 = m /\ Place(n, t)' > 0
    BY <2>1, <2>2
  <2>5. Passed(n, Place(n, t) - 1)' /\ ShownOf(n, Place(n, t) - 1)' = ShownOf(n, m)
    BY <2>2, <2>4, ListOnly DEF Passed, ShownOf, RecordAt, Shows, Refused, State
  <2>6. ShownPairs' = ShownPairs
    BY <1>2 DEF ShownPairs
  <2>7. QED BY <1>1, <1>2, <1>4, <2>2, <2>4, <2>5, <2>6 DEF ClassesShown, Building
<1>17. AtWork'
  <2>1. Searched(space, "classes")' /\ AtSpace'
    BY <1>1, <1>2, <1>3 DEF Searched, AtSpace
  <2>2. QED BY <1>2, <2>1 DEF AtWork, ClassInv
<1>18. SpacesSeen' /\ BasesAreAncestors'
  BY <1>2, <1>3, BasesKeep DEF SpacesSeen, ClassInv
<1>19. QED BY <1>15, <1>16, <1>17, <1>18 DEF ClassInv

LEMMA ClassesEndShows ==
  ASSUME WalkInv, ClassInv, ClassesEnd
  PROVE  ClassInv'
<1>1. PICK n, rest, names, k, l :
        /\ n = space /\ rest = left /\ names = NamespaceNames /\ k = i /\ l = Len(repo.classes[n])
  OBVIOUS
<1>2. /\ pc = "classes" /\ rest = <<>> /\ AtSpace
      /\ pc' = IF n = System THEN "walk" ELSE "next"
      /\ repo' = repo /\ command' = command /\ class' = class /\ NamespaceNames' = NamespaceNames
      /\ i' = i /\ left' = left /\ space' = space /\ output' = output
  BY <1>1 DEF ClassesEnd, AfterSpace, AtSpace, input, walk
<1>3. /\ command = "classdef" /\ Searched(n, "classes") /\ repo \in Repositories /\ n \in Homes(repo)
      /\ n # System => k \in 2 .. Len(names) + 1 /\ n = names[k - 1] /\ Len(names) \in Nat
  BY <1>1, <1>2, AtHome DEF ClassInv, AtWork
<1>4. ShownPairs = Earlier(n, names, k) \union ShownOf(n, l)
  <2>1. l \in Nat
    BY <1>1, <1>3, ClassFacts
  <2>2. Place(n, rest) = l
    BY <1>1, <1>2, <2>1 DEF Place
  <2>3. ShownPairs = Earlier(n, names, k) \union ShownOf(n, Place(n, rest))
    BY <1>1, <1>2, <1>3 DEF ClassInv, ClassesShown
  <2>4. QED BY <2>2, <2>3
<1>5. /\ ShownPairs' = ShownPairs /\ ~ AtSpace' /\ ~ Building'
  BY <1>2 DEF ShownPairs, AtSpace, Building
<1>6. BasesAreAncestors'
  BY <1>2, BasesKeep DEF ClassInv
<1>7. Construction' /\ SpacesSeen'
  BY <1>2, <1>3, <1>5 DEF Construction, SpacesSeen
<1>8. CASE n = System
  <2>1. ShownPairs' = ShownOfAll(<<>>, 0)
    BY <1>1, <1>3, <1>4, <1>5, <1>8, SystemShown DEF Earlier
  <2>2. ShownPairs' = ShownOfAll(<<>>, 0)'
    BY <1>2, <2>1, ListOnly
  <2>3. ClassesShown' /\ AtWork'
    BY <1>2, <1>5, <1>8, <2>2 DEF ClassesShown, AtWork
  <2>4. QED BY <1>6, <1>7, <2>3 DEF ClassInv
<1>9. CASE n # System
  <2>1. PICK q \in Nat \ {0} : q = k - 1 /\ k - 2 = q - 1
    BY <1>3, <1>9
  <2>2. n = names[q] /\ Searched(names[q], "classes") /\ ShownOf(names[q], Len(repo.classes[names[q]])) = ShownOf(n, l)
    BY <1>1, <1>3, <1>9, <2>1
  <2>3. ShownOfAll(names, q) = ShownOfAll(names, q - 1) \union ShownOf(n, l)
    <3>1. ShownOfAll(names, q) =
            ShownOfAll(names, q - 1) \union
              (IF Searched(names[q], "classes")
                 THEN ShownOf(names[q], Len(repo.classes[names[q]])) ELSE {})
      BY SpaceShown
    <3>2. QED BY ONLY <2>2, <3>1
  <2>4. ShownPairs' = ShownOfAll(names, k - 1)
    BY <1>4, <1>5, <1>9, <2>1, <2>3 DEF Earlier
  <2>5. ShownPairs' = ShownOfAll(names, k - 1)'
    BY <1>2, <2>4, ListOnly
  <2>6. ClassesShown' /\ AtWork'
    BY <1>1, <1>2, <1>3, <1>5, <1>9, <2>5 DEF ClassesShown, AtWork
  <2>7. QED BY <1>6, <1>7, <2>6 DEF ClassInv
<1>10. QED BY <1>8, <1>9

(* One class, looked up in the namespace.                                  *)
LEMMA LookUpKeeps ==
  ASSUME WalkInv, ClassInv, LookUp
  PROVE  ClassInv'
<1>1. PICK n, rest, names, k, r :
        n = space /\ rest = left /\ names = NamespaceNames /\ k = i /\ r = Resolved(n, class)
  OBVIOUS
<1>2. /\ pc = "space" /\ command # "classdef" /\ AtSpace
      /\ chain' = IF Where(n, class) = {} THEN <<>> ELSE <<r>>
      /\ BaseClasses' = <<>> /\ pc' = IF chain' = <<>> THEN "next" ELSE "create"
      /\ repo' = repo /\ command' = command /\ class' = class /\ NamespaceNames' = NamespaceNames
      /\ i' = i /\ left' = left /\ space' = space /\ output' = output
  BY <1>1 DEF LookUp, Resolved, AtSpace, input, walk
<1>3. /\ repo \in Repositories /\ n \in Homes(repo) /\ n # System
      /\ command \in Commands \ {"namespaceinstance"}
      /\ k \in 2 .. Len(names) + 1 /\ n = names[k - 1] /\ Len(names) \in Nat
  BY <1>1, <1>2, AtHome DEF ClassInv
<1>4. ShownSpaces = SeenOf(names, k - 2) /\ NoneHalts(names, k - 2)
      /\ command \in {"specified_classdef", "instance"}
  BY <1>1, <1>2, <1>3 DEF ClassInv, SpacesSeen, Commands
<1>5. ShownSpaces' = ShownSpaces /\ BasesAreAncestors'
  BY <1>2, BasesKeep DEF ClassInv, ShownSpaces
<1>6. CASE Where(n, class) = {}
  <2>1. pc' = "next"
    BY <1>2, <1>6
  <2>2. ~ Sees(n)
    BY <1>6 DEF Sees
  <2>3. PICK l \in Nat \ {0} : l = k - 1 /\ k - 2 = l - 1
    BY <1>3
  <2>4. n = names[l]
    BY <1>3, <2>3
  <2>5. ~ Sees(names[l]) /\ ~ Halts(names[l])
    BY <2>2, <2>4 DEF Halts
  <2>6. SeenOf(names, l) = SeenOf(names, l - 1) /\ NoneHalts(names, l)
    BY <1>4, <2>3, <2>5, SeenStep
  <2>7. ShownSpaces' = SeenOf(names, k - 1) /\ NoneHalts(names, k - 1)
    BY <1>4, <1>5, <2>3, <2>6
  <2>8. QED BY <1>1, <1>2, <1>5, <2>1, <2>7, NextIsSpace
<1>7. CASE Where(n, class) # {}
  <2>1. PICK calls : calls = <<r>> /\ chain' = calls
    BY <1>2, <1>7
  <2>2. pc' = "create"
    BY <1>2, <1>7
  <2>3. r \in Records(n)
    BY <1>1, <1>3, <1>7, ClassFacts
  <2>4. CallsFrom(n, r, calls)
    <3>1. /\ calls \in Seq(Records(n)) /\ calls # <<>> /\ Len(calls) = 1 /\ calls[1] = r
          /\ 1 .. Len(calls) - 1 = {}
      BY <2>1, <2>3
    <3>2. r \in Lineage(n, r)
      BY <1>3, <2>3, LineageFacts
    <3>3. QED BY <3>1, <3>2 DEF CallsFrom
  <2>5. Start(n, rest) = r
    BY <1>1, <1>2 DEF Start
  <2>6. Start(n, rest)' = r /\ CallsFrom(n, r, calls)' /\ Where(n, class)' # {}
    BY <1>2, <1>7, <2>4, <2>5, SightOnly, AboveOnly
  <2>7. CallsFrom(n, Start(n, rest), calls)'
    BY <1>2, <2>6, ClassOnly DEF CallsFrom
  <2>8. Construction'
    BY <1>1, <1>2, <2>1, <2>2, <2>6, <2>7 DEF Construction
  <2>9. AtSpace'
    BY <2>2 DEF AtSpace
  <2>10. AtWork' /\ ClassesShown'
    BY <1>1, <1>2, <1>3, <2>2, <2>9 DEF AtWork, ClassesShown
  <2>11. ShownSpaces' = SeenOf(names, k - 2)' /\ NoneHalts(names, k - 2)'
    BY <1>2, <1>4, <1>5, SightOnly
  <2>12. SpacesSeen'
    BY <1>1, <1>2, <2>2, <2>9, <2>11 DEF SpacesSeen
  <2>13. QED BY <1>5, <2>8, <2>10, <2>12 DEF ClassInv
<1>8. QED BY <1>6, <1>7

-----------------------------------------------------------------------------
(* The walk over the namespaces comes before all that is shown of them.    *)
LEMMA InWalkShows ==
  ASSUME ClassInv, SearchKids \/ Kid \/ KidsEnd
  PROVE  ClassInv'
<1>1. /\ pc \in {"walk", "kids"} /\ pc' \in {"walk", "kids", "thrown"}
      /\ repo' = repo /\ command' = command /\ class' = class /\ space' = space /\ output' = output
  BY DEF SearchKids, Kid, KidsEnd, input
<1>2. ~ AtSpace' /\ ~ Building'
  BY <1>1 DEF AtSpace, Building
<1>3. ShownPairs' = ShownPairs /\ ShownOfAll(<<>>, 0)' = ShownOfAll(<<>>, 0)
  BY <1>1, ListOnly DEF ShownPairs
<1>4. command = "classdef" => ShownPairs = ShownOfAll(<<>>, 0)
  BY <1>1 DEF ClassInv, ClassesShown
<1>5. ClassesShown'
  BY <1>1, <1>2, <1>3, <1>4 DEF ClassesShown
<1>6. command \in {"specified_classdef", "instance"} => output = {}
  BY <1>1 DEF ClassInv, SpacesSeen
<1>7. Construction' /\ AtWork' /\ SpacesSeen'
  BY <1>1, <1>2, <1>6 DEF Construction, AtWork, SpacesSeen
<1>8. BasesAreAncestors'
  BY <1>1, BasesKeep DEF ClassInv
<1>9. QED BY <1>5, <1>7, <1>8 DEF ClassInv

LEMMA WalkEndShows ==
  ASSUME WalkInv, ClassInv, WalkEnd
  PROVE  ClassInv'
<1>1. PICK names : names = NamespaceNames
  OBVIOUS
<1>2. /\ pc = "walk" /\ pc' = IF command = "namespaceinstance" THEN "done" ELSE "next"
      /\ i' = 1 /\ NamespaceNames' = NamespaceNames
      /\ repo' = repo /\ command' = command /\ class' = class /\ space' = space /\ output' = output
  BY DEF WalkEnd, input
<1>3. ~ AtSpace' /\ ~ Building' /\ 1 - 1 = 0 /\ Len(names) \in Nat
  BY <1>1, <1>2, WalkFacts DEF AtSpace, Building
<1>4. ClassesShown'
  <2>1. command = "classdef" => ShownPairs = ShownOfAll(names, 0)
    BY <1>2, SystemShown DEF ClassInv, ClassesShown
  <2>2. command = "classdef" => ShownPairs' = ShownOfAll(names, 0)'
    BY <1>2, <2>1, ListOnly DEF ShownPairs
  <2>3. QED BY <1>1, <1>2, <1>3, <2>2 DEF ClassesShown
<1>5. SpacesSeen'
  <2>1. command \in {"specified_classdef", "instance"} => output = {}
    BY <1>2 DEF ClassInv, SpacesSeen
  <2>2. 1 .. 0 = {}
    OBVIOUS
  <2>3. SeenOf(names, 0) = {} /\ NoneHalts(names, 0)
    BY <2>2 DEF SeenOf, NoneHalts
  <2>4. SeenOf(names, 0)' = {} /\ NoneHalts(names, 0)'
    BY <1>2, <2>3, SightOnly
  <2>5. command \in {"specified_classdef", "instance"} => ShownSpaces' = {}
    BY <1>2, <2>1 DEF ShownSpaces
  <2>6. QED BY <1>1, <1>2, <1>3, <2>4, <2>5 DEF SpacesSeen
<1>6. Construction' /\ AtWork'
  BY <1>1, <1>2, <1>3 DEF Construction, AtWork
<1>7. BasesAreAncestors'
  BY <1>2, BasesKeep DEF ClassInv
<1>8. QED BY <1>4, <1>5, <1>6, <1>7 DEF ClassInv

LEMMA NextSpaceShows ==
  ASSUME WalkInv, ClassInv, NextSpace
  PROVE  ClassInv'
<1>1. PICK names, k : names = NamespaceNames /\ k = i
  OBVIOUS
<1>2. /\ pc = "next" /\ NamespaceNames' = NamespaceNames
      /\ \/ /\ k <= Len(names) /\ space' = names[k] /\ i' = k + 1 /\ pc' = "space"
         \/ /\ ~ k <= Len(names) /\ space' = space /\ i' = k /\ pc' = "done"
      /\ repo' = repo /\ command' = command /\ class' = class /\ output' = output
  BY <1>1 DEF NextSpace, input
<1>3. Len(names) \in Nat /\ k \in Nat \ {0} /\ k <= Len(names) + 1
  BY <1>1, <1>2, WalkFacts DEF ClassInv, AtWork
<1>4. /\ command = "classdef" => ShownPairs = ShownOfAll(names, k - 1)
      /\ command \in {"specified_classdef", "instance"} =>
           ShownSpaces = SeenOf(names, k - 1) /\ NoneHalts(names, k - 1)
  BY <1>1, <1>2 DEF ClassInv, ClassesShown, SpacesSeen
<1>5. /\ command = "classdef" => ShownPairs' = ShownOfAll(names, k - 1)'
      /\ command \in {"specified_classdef", "instance"} =>
           ShownSpaces' = SeenOf(names, k - 1)' /\ NoneHalts(names, k - 1)'
  BY <1>2, <1>4, ListOnly, SightOnly DEF ShownPairs, ShownSpaces
<1>6. BasesAreAncestors' /\ ~ Building' /\ Construction'
  BY <1>2, BasesKeep DEF ClassInv, Building, Construction
<1>7. CASE k <= Len(names)
  <2>1. /\ space' = names[k] /\ i' = k + 1 /\ pc' = "space" /\ AtSpace'
        /\ (k + 1) - 2 = k - 1 /\ (k + 1) - 1 = k /\ k + 1 \in 2 .. Len(names) + 1
    BY <1>2, <1>3, <1>7 DEF AtSpace
  <2>2. names[k] # System
    <3>1. names[k] \in Spaces(repo) /\ repo \in Repositories
      BY <1>1, <1>3, <1>7, WalkFacts
    <3>2. QED BY <3>1, RepoFacts
  <2>3. AtWork'
    BY <1>1, <1>2, <2>1 DEF AtWork
  <2>4. ClassesShown'
    <3>1. PICK n, q : n = names[k] /\ q = k + 1
      OBVIOUS
    <3>2. command = "classdef" => ShownPairs' = Earlier(n, names, q)'
      BY <1>5, <2>1, <2>2, <3>1, ListOnly DEF Earlier
    <3>3. QED BY <1>1, <1>2, <1>6, <2>1, <3>1, <3>2 DEF ClassesShown
  <2>5. SpacesSeen'
    BY <1>1, <1>2, <1>5, <2>1 DEF SpacesSeen
  <2>6. QED BY <1>6, <2>3, <2>4, <2>5 DEF ClassInv
<1>8. CASE ~ k <= Len(names)
  <2>1. i' = k /\ pc' = "done" /\ ~ AtSpace' /\ k = Len(names) + 1
    BY <1>2, <1>3, <1>8 DEF AtSpace
  <2>2. AtWork' /\ ClassesShown' /\ SpacesSeen'
    BY <1>1, <1>2, <1>5, <1>6, <2>1 DEF AtWork, ClassesShown, SpacesSeen
  <2>3. QED BY <1>6, <2>2 DEF ClassInv
<1>9. QED BY <1>7, <1>8

(* A command begins with nothing shown.                                    *)
LEMMA DispatchWalkShows ==
  ASSUME DispatchWalk
  PROVE  ClassInv'
<1>1. /\ command' = Command /\ space' = System /\ output' = {}
      /\ pc' = IF Command = "classdef" THEN "space" ELSE "walk"
  BY DEF DispatchWalk, Begin
<1>2. ShownPairs' = {} /\ ~ Building'
  BY <1>1 DEF ShownPairs, Building
<1>3. ClassesShown'
  <2>1. ASSUME NEW names, NEW k PROVE Earlier(System, names, k)' = {}
    BY DEF Earlier
  <2>2. QED BY <1>1, <1>2, <2>1 DEF ClassesShown
<1>4. SpacesSeen' /\ Construction' /\ BasesAreAncestors'
  BY <1>1, <1>2 DEF SpacesSeen, Construction, BasesAreAncestors, AtSpace
<1>5. AtWork'
  BY <1>1 DEF AtWork, AtSpace
<1>6. QED BY <1>3, <1>4, <1>5 DEF ClassInv

LEMMA BetweenShows ==
  ASSUME ClassInv, ReadChar \/ ReadLine \/ FillBuffer \/ DispatchOther \/ CommandEnds
  PROVE  ClassInv'
<1>1. /\ repo' = repo /\ command' = command /\ output' = output
      /\ pc' \in {"read", "dispatch", "stuck", "quit"}
  BY DEF ReadChar, ReadLine, FillBuffer, DispatchOther, CommandEnds, vars, input
<1>2. ~ AtSpace' /\ ~ Building'
  BY <1>1 DEF AtSpace, Building
<1>3. Construction' /\ AtWork' /\ ClassesShown' /\ SpacesSeen'
  BY <1>1, <1>2 DEF Construction, AtWork, ClassesShown, SpacesSeen
<1>4. BasesAreAncestors'
  BY <1>1, BasesKeep DEF ClassInv
<1>5. QED BY <1>3, <1>4 DEF ClassInv
LEMMA StutterShows ==
  ASSUME ClassInv, UNCHANGED allVars
  PROVE  ClassInv'
<1>1. PICK n, rest, names, k, calls, bases :
        /\ n = space /\ rest = left /\ names = NamespaceNames /\ k = i
        /\ calls = chain /\ bases = BaseClasses
  OBVIOUS
<1>2. /\ repo' = repo /\ command' = command /\ class' = class /\ pc' = pc
      /\ NamespaceNames' = NamespaceNames /\ i' = i /\ left' = left /\ space' = space
      /\ chain' = chain /\ BaseClasses' = BaseClasses /\ output' = output
  BY DEF allVars, vars, input, walk, object
<1>3. /\ AtSpace' = AtSpace /\ Building' = Building
      /\ ShownPairs' = ShownPairs /\ ShownSpaces' = ShownSpaces
  BY <1>2 DEF AtSpace, Building, ShownPairs, ShownSpaces
<1>4. BasesAreAncestors'
  BY <1>2, BasesKeep DEF ClassInv
<1>5. AtWork'
  BY <1>2, <1>3 DEF ClassInv, AtWork, Searched
<1>6. Construction'
  <2>1. ASSUME Building
        PROVE  /\ CallsFrom(n, Start(n, rest), calls)'
               /\ pc = "create" => bases = <<>>
               /\ pc # "create" => Built(n, calls[1], bases)'
               /\ pc = "instances" => Len(calls) = 1 /\ State(calls[1])' = "ok"
               /\ command # "classdef" => Where(n, class)' # {}
    <3>1. /\ CallsFrom(n, Start(n, rest), calls)
          /\ pc = "create" => bases = <<>>
          /\ pc # "create" => Built(n, calls[1], bases)
          /\ pc = "instances" => Len(calls) = 1 /\ State(calls[1]) = "ok"
          /\ command # "classdef" => Where(n, class) # {}
      BY <1>1, <2>1 DEF ClassInv, Construction
    <3>2. PICK e, x : e = Start(n, rest) /\ x = calls[1]
      OBVIOUS
    <3>3. /\ Start(n, rest)' = e /\ CallsFrom(n, e, calls)'
          /\ pc # "create" => Built(n, x, bases)'
          /\ State(x)' = State(x) /\ Where(n, class)' = Where(n, class)
      BY <1>2, <3>1, <3>2, SightOnly, AboveOnly, ClassOnly
    <3>4. CallsFrom(n, Start(n, rest), calls)'
      BY <1>2, <3>3, ClassOnly DEF CallsFrom
    <3>5. QED BY <3>1, <3>2, <3>3, <3>4
  <2>2. QED BY <1>1, <1>2, <1>3, <2>1 DEF Construction
<1>7. ClassesShown'
  <2>1. PICK m : m = Place(n, rest)
    OBVIOUS
  <2>2. /\ Place(n, rest)' = m /\ Remain(n, rest)' = Remain(n, rest)
        /\ Passed(n, m)' = Passed(n, m) /\ Passed(n, m - 1)' = Passed(n, m - 1)
        /\ ShownOf(n, m)' = ShownOf(n, m) /\ ShownOf(n, m - 1)' = ShownOf(n, m - 1)
        /\ Earlier(n, names, k)' = Earlier(n, names, k)
        /\ ShownOfAll(<<>>, 0)' = ShownOfAll(<<>>, 0)
        /\ ShownOfAll(names, k - 1)' = ShownOfAll(names, k - 1)
    BY <1>2, <2>1, ListOnly DEF Remain, Passed
  <2>3. /\ Passed(n, Place(n, rest))' = Passed(n, m)
        /\ Passed(n, Place(n, rest) - 1)' = Passed(n, m - 1)
        /\ ShownOf(n, Place(n, rest))' = ShownOf(n, m)
        /\ ShownOf(n, Place(n, rest) - 1)' = ShownOf(n, m - 1)
    BY <1>2, <2>2, ListOnly, ClassOnly DEF Passed, ShownOf
  <2>4. QED
    BY <1>1, <1>2, <1>3, <2>1, <2>2, <2>3 DEF ClassInv, ClassesShown
<1>8. SpacesSeen'
  <2>1. /\ SeenOf(names, k - 1)' = SeenOf(names, k - 1) /\ SeenOf(names, k - 2)' = SeenOf(names, k - 2)
        /\ NoneHalts(names, k - 1)' <=> NoneHalts(names, k - 1)
        /\ NoneHalts(names, k - 2)' <=> NoneHalts(names, k - 2)
        /\ Halts(names[k - 1])' <=> Halts(names[k - 1])
    BY <1>2, SightOnly
  <2>2. QED BY <1>1, <1>2, <1>3, <2>1 DEF ClassInv, SpacesSeen
<1>9. QED BY <1>4, <1>5, <1>6, <1>7, <1>8 DEF ClassInv

LEMMA ClassInitOK == WalkInit /\ pc = "read" => ClassInv
<1>1. SUFFICES ASSUME WalkInit, pc = "read" PROVE ClassInv
  OBVIOUS
<1>2. command = "none" /\ output = {} /\ ~ AtSpace /\ ~ Building
  BY <1>1 DEF WalkInit, AtSpace, Building
<1>3. QED
  BY <1>1, <1>2 DEF ClassInv, Construction, AtWork, ClassesShown, SpacesSeen, BasesAreAncestors

LEMMA ClassNextOK == WalkInv /\ ClassInv /\ [Next]_allVars => ClassInv'
<1>1. SUFFICES ASSUME WalkInv, ClassInv, [Next]_allVars PROVE ClassInv'
  OBVIOUS
<1>2. CASE SearchKids \/ Kid \/ KidsEnd
  BY <1>1, <1>2, InWalkShows
<1>3. CASE WalkEnd
  BY <1>1, <1>3, WalkEndShows
<1>4. CASE NextSpace
  BY <1>1, <1>4, NextSpaceShows
<1>5. CASE SearchClasses
  BY <1>1, <1>5, SearchClassesKeeps
<1>6. CASE ClassRecord
  BY <1>1, <1>6, ClassRecordKeeps
<1>7. CASE ClassesEnd
  BY <1>1, <1>7, ClassesEndShows
<1>8. CASE LookUp
  BY <1>1, <1>8, LookUpKeeps
<1>9. CASE Create
  BY <1>1, <1>9, CreateUnreadKeeps, CreateSuperKeeps, FinishBaseKeeps, FinishClassKeeps,
     FinishFailsKeeps DEF Create
<1>10. CASE Instances
  BY <1>1, <1>10, InstancesKeeps
<1>11. CASE DispatchWalk
  BY <1>11, DispatchWalkShows
<1>12. CASE ReadChar \/ ReadLine \/ FillBuffer \/ DispatchOther \/ CommandEnds
  BY <1>1, <1>12, BetweenShows
<1>13. CASE UNCHANGED allVars
  BY <1>1, <1>13, StutterShows
<1>14. QED
  BY <1>1, <1>2, <1>3, <1>4, <1>5, <1>6, <1>7, <1>8, <1>9, <1>10, <1>11, <1>12, <1>13
     DEF Next, Walk, Names

-----------------------------------------------------------------------------
(* A definition is shown with its superclasses in the order they were      *)
(* built, each once, up to the last that could be found and read           *)
(* (ClassDefinition::Create, AddBaseClass).                                *)
THEOREM BasesInOrder == LoopSpec => []BasesAreAncestors
<1>1. ClassInv => BasesAreAncestors
  BY DEF ClassInv
<1>2. QED BY <1>1, WalkInitOK, WalkNextOK, ClassInitOK, ClassNextOK, PTL DEF LoopSpec

LEMMA AllIsShown == WalkInv /\ ClassInv => ClassesUntilRefused
<1>1. SUFFICES ASSUME WalkInv, ClassInv, command = "classdef", pc = "done"
               PROVE  ShownPairs =
                        UNION {{<<n, repo.classes[n][k]>> : k \in
                          {k \in DOMAIN repo.classes[n] :
                             /\ Shows(n, [name |-> repo.classes[n][k], home |-> n])
                             /\ \A j \in 1 .. k :
                                  ~ Refused(n, [name |-> repo.classes[n][j], home |-> n])}} :
                         n \in {m \in Listed \union {System} : Searched(m, "classes")}}
  BY DEF ClassesUntilRefused, ShownPairs
<1>2. PICK names, k : names = NamespaceNames /\ k = i
  OBVIOUS
<1>3. /\ repo \in Repositories /\ Len(names) \in Nat /\ DOMAIN names = 1 .. Len(names)
      /\ k = Len(names) + 1 /\ \A j \in DOMAIN names : names[j] \in Spaces(repo)
  BY <1>1, <1>2, WalkFacts DEF ClassInv, AtWork
<1>4. ShownPairs = ShownOfAll(names, Len(names))
  <2>1. k - 1 = Len(names)
    BY <1>3
  <2>2. ShownPairs = ShownOfAll(names, k - 1)
    BY <1>1, <1>2 DEF ClassInv, ClassesShown
  <2>3. QED BY <2>1, <2>2
<1>5. PICK H : H = {m \in Listed \union {System} : Searched(m, "classes")}
  OBVIOUS
<1>6. H = {m \in {System} \union {names[j] : j \in 1 .. Len(names)} : Searched(m, "classes")}
  BY <1>2, <1>3, <1>5 DEF Listed
<1>7. \A n \in H : n \in Homes(repo)
  BY <1>2, <1>3, <1>5 DEF Listed, Homes
<1>8. ASSUME NEW n \in H
      PROVE  ShownOf(n, Len(repo.classes[n])) =
               {<<n, repo.classes[n][j]>> : j \in
                 {j \in DOMAIN repo.classes[n] :
                    /\ Shows(n, [name |-> repo.classes[n][j], home |-> n])
                    /\ \A l \in 1 .. j :
                         ~ Refused(n, [name |-> repo.classes[n][l], home |-> n])}}
  <2>1. DOMAIN repo.classes[n] = 1 .. Len(repo.classes[n])
    BY <1>3, <1>7, ClassFacts
  <2>2. QED BY <2>1 DEF ShownOf, Passed, RecordAt
<1>9. ShownPairs = UNION {ShownOf(n, Len(repo.classes[n])) : n \in H}
  BY <1>4, <1>6 DEF ShownOfAll
<1>10. DEFINE Of(n) == {<<n, repo.classes[n][j]>> : j \in
                          {j \in DOMAIN repo.classes[n] :
                             /\ Shows(n, [name |-> repo.classes[n][j], home |-> n])
                             /\ \A l \in 1 .. j :
                                  ~ Refused(n, [name |-> repo.classes[n][l], home |-> n])}}
<1>11. \A n \in H : ShownOf(n, Len(repo.classes[n])) = Of(n)
  BY <1>8
<1>12. UNION {ShownOf(n, Len(repo.classes[n])) : n \in H} = UNION {Of(n) : n \in H}
  <2>1. DEFINE F(n) == ShownOf(n, Len(repo.classes[n]))
  <2>2. \A n \in H : F(n) = Of(n)
    BY <1>11
  <2>3. HIDE DEF F, Of
  <2>4. {F(n) : n \in H} = {Of(n) : n \in H}
    BY <2>2
  <2>5. QED BY <2>4 DEF F
<1>13. QED BY <1>5, <1>9, <1>12

(* --classdef shows of each namespace the classes before the first that is *)
(* refused, and goes on with the next namespace (ParseAllInNS,             *)
(* PrintAllClasses).                                                       *)
THEOREM ClassesShownUntilRefused == LoopSpec => []ClassesUntilRefused
  BY WalkInitOK, WalkNextOK, ClassInitOK, ClassNextOK, AllIsShown, PTL DEF LoopSpec

LEMMA AllIsSeen == WalkInv /\ ClassInv => SeenUntilHalt
<1>1. SUFFICES ASSUME WalkInv, ClassInv, command \in {"specified_classdef", "instance"},
                      pc \in {"done", "failed"}
               PROVE  /\ ShownSpaces =
                           {NamespaceNames[k] : k \in
                              {k \in DOMAIN NamespaceNames :
                                 /\ Sees(NamespaceNames[k])
                                 /\ ~ Halts(NamespaceNames[k])
                                 /\ command = "instance" =>
                                      \A j \in 1 .. k : ~ Halts(NamespaceNames[j])}}
                      /\ (pc = "failed") <=> (command = "instance" /\ \E n \in Listed : Halts(n))
  BY DEF SeenUntilHalt, ShownSpaces
<1>2. PICK names, k, l : names = NamespaceNames /\ k = i /\ l = Len(names)
  OBVIOUS
<1>3. l \in Nat /\ DOMAIN names = 1 .. l /\ Listed = {names[j] : j \in 1 .. l}
  BY <1>1, <1>2, WalkFacts DEF Listed
<1>4. SUFFICES /\ ShownSpaces = SeenOf(names, l)
               /\ (pc = "failed") <=> (command = "instance" /\ \E j \in 1 .. l : Halts(names[j]))
  <2>1. SeenOf(names, l) =
          {names[j] : j \in {j \in DOMAIN names :
             /\ Sees(names[j]) /\ ~ Halts(names[j])
             /\ command = "instance" => \A x \in 1 .. j : ~ Halts(names[x])}}
    BY <1>3 DEF SeenOf, NoneHalts
  <2>2. (\E n \in Listed : Halts(n)) <=> (\E j \in 1 .. l : Halts(names[j]))
    BY <1>3
  <2>3. QED BY <1>2, <2>1, <2>2
<1>5. CASE pc = "done"
  <2>1. k - 1 = l
    BY <1>1, <1>2, <1>3, <1>5 DEF ClassInv, AtWork
  <2>2. ShownSpaces = SeenOf(names, k - 1) /\ NoneHalts(names, k - 1)
    BY <1>1, <1>2, <1>5 DEF ClassInv, SpacesSeen
  <2>3. QED BY <1>5, <2>1, <2>2 DEF NoneHalts
<1>6. CASE pc = "failed"
  <2>1. /\ command = "instance" /\ ShownSpaces = SeenOf(names, k - 2)
        /\ NoneHalts(names, k - 2) /\ Halts(names[k - 1])
    BY <1>1, <1>2, <1>6 DEF ClassInv, SpacesSeen
  <2>2. k \in 2 .. l + 1
    BY <1>1, <1>2, <1>6, <2>1 DEF ClassInv, AtWork
  <2>3. k - 2 \in Nat /\ k - 1 \in 1 .. l /\ 1 .. k - 2 \subseteq 1 .. l
    BY ONLY <1>3, <2>2
  <2>4. \A j \in 1 .. l : NoneHalts(names, j) => j \in 1 .. k - 2
    <3>1. \A j \in 1 .. l : j \in 1 .. k - 2 \/ k - 1 \in 1 .. j
      BY ONLY <1>3, <2>2
    <3>2. QED BY <2>1, <3>1 DEF NoneHalts
  <2>5. SeenOf(names, l) = SeenOf(names, k - 2)
    BY <2>3, <2>4 DEF SeenOf
  <2>6. QED BY <1>6, <2>1, <2>3, <2>5
<1>7. QED BY <1>1, <1>5, <1>6

(* --specified_classdef and --instance take the namespaces that see the    *)
(* class in the order of the walk; only --instance gives up, and it does   *)
(* at the first that refuses the class or cannot be searched, and then     *)
(* reports failure (ParseInAllNS, PrintAllClasses).                        *)
THEOREM SpacesSeenUntilHalt == LoopSpec => []SeenUntilHalt
  BY WalkInitOK, WalkNextOK, ClassInitOK, ClassNextOK, AllIsSeen, PTL DEF LoopSpec
=============================================================================
