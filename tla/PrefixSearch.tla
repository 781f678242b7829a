---------------------------- MODULE PrefixSearch ----------------------------
(***************************************************************************)
(* WMIParser: IndexBTR::SearchBTRFile (indexBTR.cpp) with a prefix, the    *)
(* search every parser starts from.  The recursion is kept as a stack of   *)
(* frames, one per active call.  Reading a page can end in several ways    *)
(* before its keys are looked at; the results found are kept whatever the  *)
(* call returns.                                                           *)
(***************************************************************************)
EXTENDS IndexTree

CONSTANTS
  AdminPage,  \* logical page 0 of index.btr
  Faults      \* the ways the pages of the file are tried: see Media

ASSUME AdminAssumption == \A t \in Trees : AdminPage \notin t.pages

(* What a call finds at a logical page: an active page of that id; a page  *)
(* not mapped; one the file does not hold; one with another signature or   *)
(* id; an admin or deleted page; or the number is outside the mapping, and *)
(* alocMap->at throws.                                                     *)
Media == {"active", "unmapped", "short", "foreign", "retired", "outside"}

ASSUME FaultsAssumption ==
  \A t \in Trees : \A f \in Faults[t] :
    f \in [t.pages \union {AdminPage} -> Media] /\ f[AdminPage] # "active"

VARIABLES
  tree, query, medium,
  bXP,        \* Windows XP: the root's number is in the admin page
  pc,         \* "root", "call", "run", "done" or "thrown"
  logpage,    \* the argument of the call
  stack,      \* the active calls, the innermost first
  m_aResult,  \* the keys found, in the order found
  ret         \* what the outermost call returned

input == <<tree, query, medium, bXP>>
vars  == <<input, pc, logpage, stack, m_aResult, ret>>

(* The locals of a call; `at` tells its first loop from its second.        *)
Frame(p) == [page |-> p, at |-> "scan", index |-> 1, nextpages |-> <<>>,
             pageit |-> 1, ret |-> TRUE]

Init ==
  /\ tree \in Trees
  /\ query \in Queries
  /\ medium \in Faults[tree]
  /\ bXP \in BOOLEAN
  /\ pc = "root"
  /\ logpage = AdminPage
  /\ stack = <<>>
  /\ m_aResult = <<>>
  /\ ret = FALSE

Top     == stack[1]
Keys    == tree.keys[Top.page]
Running == pc = "run" /\ Top.at = "scan"

-----------------------------------------------------------------------------
(* GetRootPage.  On XP a page 0 that cannot be read or is no admin page    *)
(* gives root 0, which is page 0 itself.                                   *)
RootPage ==
  /\ pc = "root"
  /\ IF bXP /\ medium[AdminPage] = "outside"
       THEN pc' = "thrown" /\ UNCHANGED logpage
       ELSE /\ pc' = "call"
            /\ logpage' = IF bXP /\ medium[AdminPage] # "retired"
                            THEN AdminPage ELSE tree.root
  /\ UNCHANGED <<input, stack, m_aResult, ret>>

(* Mutant: the caller keeps the last value instead of combining them.      *)
ReturnLast(callers, v) ==
  IF callers = <<>>
    THEN pc' = "done" /\ ret' = v /\ stack' = <<>>
    ELSE /\ pc' = "run"
         /\ stack' = <<[callers[1] EXCEPT !.ret = v]>> \o Tail(callers)
         /\ UNCHANGED ret

(* A call returns v: its caller goes on with ret &= v.                     *)
Return(callers, v) ==
  IF callers = <<>>
    THEN pc' = "done" /\ ret' = v /\ stack' = <<>>
    ELSE /\ pc' = "run"
         /\ stack' = <<[callers[1] EXCEPT !.ret = @ /\ v]>> \o Tail(callers)
         /\ UNCHANGED ret

(* An unmapped, deleted or admin page is no failure: it counts as empty.   *)
CallSkips ==
  /\ pc = "call"
  /\ medium[logpage] \in {"unmapped", "retired"}
  /\ Return(stack, TRUE)
  /\ UNCHANGED <<input, logpage, m_aResult>>

CallFails ==
  /\ pc = "call"
  /\ medium[logpage] \in {"short", "foreign"}
  /\ Return(stack, FALSE)
  /\ UNCHANGED <<input, logpage, m_aResult>>

(* Nothing in the search catches the exception: the program ends.          *)
CallThrows ==
  /\ pc = "call"
  /\ medium[logpage] = "outside"
  /\ pc' = "thrown"
  /\ UNCHANGED <<input, logpage, stack, m_aResult, ret>>

CallPage ==
  /\ pc = "call"
  /\ medium[logpage] = "active"
  /\ stack' = <<Frame(logpage)>> \o stack
  /\ pc' = "run"
  /\ UNCHANGED <<input, logpage, m_aResult, ret>>

-----------------------------------------------------------------------------
(* while (toc < endtoc): one key after the other.                          *)
SetTop(f) == stack' = <<f>> \o Tail(stack) /\ UNCHANGED <<input, pc, logpage, ret>>

(* Mutant: the child on the other side of the match is searched as well.   *)
ScanMatchBothSides ==
  /\ Running
  /\ Top.index <= Len(Keys)
  /\ Matches(Keys[Top.index], query)
  /\ m_aResult' = Append(m_aResult, Keys[Top.index])
  /\ SetTop([Top EXCEPT !.nextpages = @ \o <<Top.index, Top.index + 1>>, !.index = @ + 1])

ScanMatch ==
  /\ Running
  /\ Top.index <= Len(Keys)
  /\ Matches(Keys[Top.index], query)
  /\ m_aResult' = Append(m_aResult, Keys[Top.index])
  /\ SetTop([Top EXCEPT !.nextpages = Append(@, Top.index), !.index = @ + 1])

(* Mutant: the loop does not go on to the next key.                        *)
ScanBelowStays ==
  /\ Running
  /\ Top.index <= Len(Keys)
  /\ Below(Keys[Top.index], query)
  /\ SetTop(Top)
  /\ UNCHANGED m_aResult

ScanBelow ==
  /\ Running
  /\ Top.index <= Len(Keys)
  /\ Below(Keys[Top.index], query)
  /\ SetTop([Top EXCEPT !.index = @ + 1])
  /\ UNCHANGED m_aResult

ScanAbove ==
  /\ Running
  /\ Top.index <= Len(Keys)
  /\ Above(Keys[Top.index], query)
  /\ SetTop([Top EXCEPT !.nextpages = Append(@, Top.index), !.at = "descend"])
  /\ UNCHANGED m_aResult

(* No key is greater.  The last child is searched only if no key matched.  *)
ScanEnd ==
  /\ Running
  /\ Top.index > Len(Keys)
  /\ SetTop([Top EXCEPT !.nextpages = IF @ = <<>> THEN <<Top.index>> ELSE @,
                        !.at = "descend"])
  /\ UNCHANGED m_aResult

-----------------------------------------------------------------------------
Descending == pc = "run" /\ Top.at = "descend"

Child == tree.child[Top.page][Top.nextpages[Top.pageit]]

ChildNone ==
  /\ Descending
  /\ Top.pageit <= Len(Top.nextpages)
  /\ Child = NoPage
  /\ SetTop([Top EXCEPT !.pageit = @ + 1])
  /\ UNCHANGED m_aResult

ChildCall ==
  /\ Descending
  /\ Top.pageit <= Len(Top.nextpages)
  /\ Child # NoPage
  /\ logpage' = Child
  /\ stack' = <<[Top EXCEPT !.pageit = @ + 1]>> \o Tail(stack)
  /\ pc' = "call"
  /\ UNCHANGED <<input, m_aResult, ret>>

(* return ret: to the caller, whose own ret is combined with it.           *)
PageReturn ==
  /\ Descending
  /\ Top.pageit > Len(Top.nextpages)
  /\ Return(Tail(stack), Top.ret)
  /\ UNCHANGED <<input, logpage, m_aResult>>

Call == CallSkips \/ CallFails \/ CallThrows \/ CallPage
Scan == ScanMatch \/ ScanBelow \/ ScanAbove \/ ScanEnd
Next == RootPage \/ Call \/ Scan \/ ChildNone \/ ChildCall \/ PageReturn

Spec     == Init /\ [][Next]_vars
FairSpec == Spec /\ WF_vars(Next)
-----------------------------------------------------------------------------
(* The callers treat each result as another record: no key is found twice, *)
(* and none that does not have the prefix.                                 *)
ResultsOnce ==
  /\ \A i \in DOMAIN m_aResult : Matches(m_aResult[i], query)
  /\ \A i, j \in DOMAIN m_aResult : m_aResult[i] = m_aResult[j] => i = j

Found       == {m_aResult[i] : i \in DOMAIN m_aResult}
AllActive   == \A p \in tree.pages : medium[p] = "active"
RootKnown   == bXP => medium[AdminPage] = "retired"

(* What a search of a sound index misses is known: keys to the right of    *)
(* the last key of a page that matched to its last key, before the page's  *)
(* upper bound.  Everything else that has the prefix is found.             *)
RightOfLast(k) ==
  \E p \in tree.pages :
    LET last == tree.keys[p][Len(tree.keys[p])]
    IN  Matches(last, query) /\ last < k /\ k < tree.hi[p]

(* A failure deep in the tree reaches the outermost caller: TRUE means     *)
(* that the search met no unreadable and no foreign page, and it is always *)
(* the answer for a sound index.  Keys with the prefix can then be missing *)
(* only where pages are unmapped or retired, or right of a last key; in a  *)
(* sound index the first key with the prefix is never missed.              *)
Lost(k) == \E p \in tree.pages : medium[p] \in {"unmapped", "retired"} /\ k \in Under(tree, p)

TrueMeansSearched ==
  pc = "done" /\ RootKnown =>
    /\ AllActive => ret
    /\ ret => \A k \in Wanted(tree, query) \ Found : RightOfLast(k) \/ Lost(k)

(* Every search of an index that is a tree ends.                           *)
Terminates == <>(pc \in {"done", "thrown"})

(* What the tool's help says of the searches behind --namespaceinstance    *)
(* and --bindinginstance: they get all there is.                           *)
FindsAll ==
  pc = "done" /\ AllActive /\ RootKnown => Wanted(tree, query) \subseteq Found
=============================================================================
