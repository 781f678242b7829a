---------------------------- MODULE MCConsumers ----------------------------
(***************************************************************************)
(* Bounds for AlertsSeen and all it is made of.  The program starts with   *)
(* one of four kinds of repository:                                        *)
(*   layouts     one entry, whose record is of any class and shape         *)
(*   tables      up to four entries of two classes, and searches that fail *)
(*   references  one consumer with up to three references                  *)
(*   alerts      nothing, and two calls of Register-Alert                  *)
(***************************************************************************)
EXTENDS AlertsSeen

Request(what, type, id) == [what |-> what, type |-> type, id |-> id]
All          == Request("all", "", 0)
OfType(c)    == Request("type", c, 0)
Named1(c, n) == Request("instance", c, n)
RunOf(ix, rq) == [start |-> "search", index |-> ix, request |-> rq]

-----------------------------------------------------------------------------
(* Records: the pieces present, their order, the wide one, the damage,     *)
(* which includes lengths that wrap and a last string with no end.         *)
Natural(s) ==
  LET rank(p) == 10 * p[1] + p[2]
  IN  [k \in 1 .. Cardinality(s) |->
         CHOOSE p \in s : Cardinality({q \in s : rank(q) < rank(p)}) = k - 1]
Rotations(s) == {[j \in DOMAIN s |-> s[1 + ((j + r) % Len(s))]] : r \in 0 .. Len(s) - 1}
NoDamage   == <<"none", 0, 0>>

W(class, number, present, order, wide, damage) ==
  [class |-> class, number |-> number, present |-> present, order |-> order,
   wide |-> wide, damage |-> damage, next |-> Beyond]

Whole(class, number) ==
  LET present == HeapColumns(class)
  IN  W(class, number, present, Natural(Pieces(class, present)), {}, NoDamage)

Shapes(class) ==
  LET columns == HeapColumns(class)
      order   == Natural(Pieces(class, columns))
      type(i) == Layout[class].columns[i]
      strings == {p \in Pieces(class, columns) : Kind(class, p) = "string"}
      sids    == {i \in columns : type(i) = "sid"}
      arrays  == {i \in columns : type(i) = "array"}
      lengths == {<<"length", i, n>> : i \in sids, n \in {Beyond} \union (Word - 5 .. Word - 1)}
      counts  == {<<"length", i, n>> : i \in arrays, n \in {Beyond, Word \div 4 - 1, Word \div 4}}
      damages == {<<h, 0, 0>> : h \in HeaderDamage} \union {<<"entry", i, 0>> : i \in columns}
                   \union {<<"element", i, 0>> : i \in arrays}
      unended == {<<o, <<"unended", 0, n>>>> :
                    o \in {o \in Rotations(order) : Kind(class, o[Len(o)]) = "string"},
                    n \in {0, 1, 2, Beyond}}
  IN  {W(class, 1, s, Natural(Pieces(class, s)), {}, NoDamage) :
           s \in {{}} \union {{i} : i \in columns} \union {columns \ {i} : i \in columns}}
        \union {W(class, n, columns, order, {}, NoDamage) : n \in 0 .. 1}
        \union {W(class, 1, columns, o, {}, NoDamage) : o \in {Reverse(order)} \union Rotations(order)}
        \union {W(class, 1, columns, order, {p}, NoDamage) : p \in strings}
        \union {W(class, 1, columns, o, {}, d) : o \in {order, Reverse(order)}, d \in damages}
        \union {W(class, 1, columns, o, {}, d) : o \in Rotations(order), d \in lengths \union counts}
        \union {[W(class, 1, columns, o, {}, d) EXCEPT !.next = 0] : o \in Rotations(order), d \in counts}
        \union {W(class, 1, columns, u[1], {}, u[2]) : u \in unended}

Empty == [class \in DOMAIN Layout \union {"Custom"} |-> <<>>]
E(id, class, state, record) == [InstanceID |-> id, Type |-> class, state |-> state, record |-> record]

LayoutIndexes ==
  UNION {{[classes   |-> <<class>>,
           instances |-> [Empty EXCEPT ![class] = <<E(1, class, "ok", "r")>>],
           written   |-> [r \in {"r"} |-> w], refs |-> [r \in {"r"} |-> <<>>],
           hits |-> <<>>, fails |-> {}] : w \in Shapes(class)} : class \in DOMAIN Layout}

LayoutRuns ==
  {RunOf(ix, OfType(ix.classes[1])) : ix \in LayoutIndexes}
    \union {RunOf(ix, All) : ix \in {ix \in LayoutIndexes : ix.classes[1] \in ConsumerClasses}}

-----------------------------------------------------------------------------
(* Tables: instances with ids that come up twice, in a class and in two.   *)
TableRecords ==
  [r \in {"LogFile", "Custom", "Filter", "Binding"} |->
     IF r = "Custom" THEN W("LogFile", 1, {}, <<>>, {}, <<"class", 0, 0>>) ELSE Whole(r, 1)]

Some(class) ==
  UNION {[1 .. n -> {E(id, class, "ok", class) : id \in 1 .. 3}
                      \union {E(2, class, state, class) : state \in {"unread", "nokey"}}] : n \in 0 .. 2}

AllTableIndexes ==
  {[classes   |-> <<"LogFile", "Custom">>,
    instances |-> [Empty EXCEPT !["LogFile"] = a \o c, !["Custom"] = b],
    written   |-> TableRecords, refs |-> [r \in DOMAIN TableRecords |-> <<>>],
    hits |-> <<>>, fails |-> f] :
      a \in Some("LogFile"), b \in Some("Custom"),
      c \in {<<>>, <<E(1, "LogFile", "ok", "LogFile"), E(3, "LogFile", "ok", "LogFile")>>},
      f \in {{}, {"classes"}, {"LogFile"}}}

TableIndexes ==
  {ix \in AllTableIndexes : ix.fails = {} \/ Len(ix.instances["LogFile"]) < 2}

OneClassIndexes(class) ==
  {[classes   |-> <<>>,
    instances |-> [Empty EXCEPT ![class] = a],
    written   |-> TableRecords, refs |-> [r \in DOMAIN TableRecords |-> <<>>],
    hits |-> <<>>, fails |-> f] : a \in Some(class), f \in {{}, {class}}}

TableRuns ==
  {RunOf(ix, All) : ix \in TableIndexes}
    \union {RunOf(ix, rq) : ix \in OneClassIndexes("Filter"), rq \in {OfType("Filter"), Named1("Filter", 2)}}
    \union {RunOf(ix, rq) : ix \in OneClassIndexes("LogFile"), rq \in {OfType("LogFile"), Named1("LogFile", 2)}}
    \union {RunOf(ix, OfType("Custom")) : ix \in OneClassIndexes("Custom")}
    \union {RunOf(ix, OfType("Binding")) : ix \in OneClassIndexes("Binding")}

-----------------------------------------------------------------------------
(* References: whole, unreadable, cut in each of their strings, without a  *)
(* path; with a length that is the right one once it is doubled in 32      *)
(* bits; and paths that find none, one, two or an entry without location.  *)
Ref(path) == [state |-> "ok", lengths |-> <<1, 2, 1, 3>>, size |-> 30, path |-> path]
Refs ==
  {Ref("one"), Ref("two"), Ref("single"), Ref("none"), Ref("nokey"), Ref("failing"), Ref("")}
    \union {[Ref("one") EXCEPT !.state = "unread"]}
    \union {[Ref("one") EXCEPT !.lengths[j] = Beyond] : j \in 1 .. 4}
    \union {[Ref("one") EXCEPT !.lengths = <<1, 2, 8, 0>>]}
    \union {[Ref("one") EXCEPT !.lengths[2] = @ + Word \div 2],
            [Ref("") EXCEPT !.lengths[4] = Word \div 2]}

B(id, state) == E(id, "Binding", state, "Binding")
Hits ==
  [p \in {"one", "two", "single", "none", "nokey", "failing"} |->
     CASE p = "one" -> <<B(1, "ok")>> [] p = "single" -> <<B(2, "unread")>>
       [] p = "two" -> <<B(1, "ok"), B(2, "ok")>> [] p = "none" -> <<>>
       [] p = "nokey" -> <<B(3, "nokey")>> [] p = "failing" -> <<B(3, "ok")>>]

RefIndex(state, s, f) ==
  [classes   |-> <<"LogFile">>,
   instances |-> [Empty EXCEPT !["LogFile"] = <<E(1, "LogFile", state, "LogFile")>>],
   written   |-> TableRecords, refs |-> [r \in DOMAIN TableRecords |-> s],
   hits |-> Hits, fails |-> f]

RefRuns ==
  {RunOf(RefIndex("ok", s, {"failing"}), Named1("LogFile", 1)) :
     s \in UNION {[1 .. n -> Refs] : n \in 0 .. 3}}
    \union {RunOf(RefIndex(state, <<r>>, f), Named1("LogFile", 1)) :
               state \in {"ok", "unread"}, r \in Refs, f \in {{"failing"}, {"refs"}}}

-----------------------------------------------------------------------------
(* Alerts: two objects, of which one in two types; a name given that is    *)
(* the other's default name; both kinds of action.                         *)
T(object, type, name) == [object |-> object, type |-> type, name |-> name]
MCTriggers == {T("CmdLine", "Creation", ""), T("CmdLine", "Deletion", ""), T("Startup", "Creation", "CmdLine")}
MCActions  == {[alertType |-> t, name |-> n] : t \in {"EventLog"}, n \in {"", "mine"}}
                \union {[alertType |-> "AlertUri", name |-> "mine"]}

FilterNames   == {"CmdLine", "CmdLineCreation", "CmdLineDeletion"}
ConsumerKeys  == {"ActiveScript", "NTEventLog"} \X {"CmdLine", "Startup", "mine"}
Listed(s)     == FoldSet(LAMBDA n, names : Append(names, n), <<>>, s)
HashOf(s)     == LET names == Listed(s) IN [n \in s |-> SelectInSeq(names, LAMBDA m : m = n)]
MCHash ==
  HashOf(FilterNames \union {c[2] : c \in ConsumerKeys}
           \union {f \o c[1] \o c[2] : f \in FilterNames, c \in ConsumerKeys})

Contents == SetToSeq({Watches(t) : t \in MCTriggers})
MCRecordOf(class, content) ==
  Whole(class, IF class = "Binding" THEN 1 ELSE SelectInSeq(Contents, LAMBDA c : c = content))

AlertRuns ==
  {[start |-> "alerts", index |-> [fails |-> {}], request |-> rq] :
     rq \in {All} \union {Named1(c[1], MCHash[c[2]]) : c \in ConsumerKeys}}

-----------------------------------------------------------------------------
MCInstances ==
  [InstanceID : 1 .. Cardinality(DOMAIN MCHash),
   Type       : DOMAIN Empty,
   state      : {"ok", "unread", "nokey"},
   record     : {"r"} \union DOMAIN TableRecords
                  \union {class \o n : class \in DOMAIN Layout, n \in DOMAIN MCHash}]

Init ==
  /\ \E run \in LayoutRuns \union TableRuns \union RefRuns \union AlertRuns :
       InitFor(run.index, run.request) /\ pc = run.start
  /\ AlertInit

Spec == Init /\ [][SeenNext]_seenVars
=============================================================================
