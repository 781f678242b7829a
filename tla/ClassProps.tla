----------------------------- MODULE ClassProps -----------------------------
(***************************************************************************)
(* WMIParser: the properties of a class and the values of an instance.     *)
(* Create parses the superclass first, and every class of the chain then   *)
(* puts its properties into one vector (ClassDef.cpp, ParseProps) and the  *)
(* default values into them (SetDefaultValues).  The vector says how the   *)
(* record of an instance is read (InstanceDec.cpp, Create).  ClassLayout,  *)
(* what python-cim computes of the same chain, is what it is compared with. *)
(***************************************************************************)
EXTENDS ClassLayout

VARIABLES
  chain,     \* the classes, the farthest ancestor first
  missing,   \* how many ancestors the parser does not reach
  flagsBuf,  \* the flags of the instance
  pc,
  level,     \* the class being parsed
  propMeta,  \* the next of its properties
  iprops,    \* the vector
  Values     \* the values of the instance

input == <<chain, missing, flagsBuf>>
vars  == <<input, pc, level, propMeta, iprops, Values>>

Class == chain.classes[level]
Last  == Len(chain.classes)

Init ==
  /\ chain \in Chains
  /\ missing \in 0 .. Last - 1
  /\ \E shift \in Flags :
       flagsBuf = [i \in PropsUpTo(chain, Last) |-> (i + shift) % 4]
  /\ pc = "props"
  /\ level = missing + 1
  /\ propMeta = 1
  /\ iprops = <<>>
  /\ Values = <<>>

-----------------------------------------------------------------------------
(* ParseProps, one property.                                               *)
PropIndex == Class.own[propMeta]
FindProp(index, props) == \E j \in DOMAIN props : props[j].Index = index

ParsingProp ==
  /\ pc = "props"
  /\ propMeta <= Len(Class.own)
  /\ propMeta' = propMeta + 1
  /\ UNCHANGED <<input, level, Values>>

(* Mutant: it ends the loop.                                               *)
RefusedPropEnds ==
  /\ pc = "props"
  /\ propMeta <= Len(Class.own)
  /\ PropIndex \in Class.bad
  /\ propMeta' = Len(Class.own) + 1
  /\ UNCHANGED <<input, pc, level, iprops, Values>>

(* One whose qualifiers are refused is left out.                           *)
RefusedProp ==
  /\ ParsingProp
  /\ PropIndex \in Class.bad
  /\ UNCHANGED <<pc, iprops>>

NewEntry == [Index |-> PropIndex, by |-> level, DefaultValue |-> None]

NewProp ==
  /\ ParsingProp
  /\ PropIndex \notin Class.bad
  /\ ~ FindProp(PropIndex, iprops)
  /\ iprops' = Append(iprops, NewEntry)
  /\ UNCHANGED pc

(* Mutants: the definition of the superclass stays; its default does not.  *)
KnownPropStays ==
  /\ ParsingProp
  /\ PropIndex \notin Class.bad
  /\ FindProp(PropIndex, iprops)
  /\ UNCHANGED <<pc, iprops>>
KnownPropForgets ==
  /\ ParsingProp
  /\ PropIndex \notin Class.bad
  /\ FindProp(PropIndex, iprops)
  /\ IF PropIndex < Len(iprops)
       THEN /\ iprops' = [iprops EXCEPT ![PropIndex + 1] = NewEntry]
            /\ UNCHANGED pc
       ELSE pc' = "undefined" /\ UNCHANGED iprops

(* One that the vector has is replaced, at the place its index names and   *)
(* with the default values found there.  The place may be another          *)
(* property's or, which is undefined, none.                                *)
KnownProp ==
  /\ ParsingProp
  /\ PropIndex \notin Class.bad
  /\ FindProp(PropIndex, iprops)
  /\ IF PropIndex < Len(iprops)
       THEN /\ iprops' = [iprops EXCEPT ![PropIndex + 1].Index = PropIndex,
                                        ![PropIndex + 1].by = level]
            /\ UNCHANGED pc
       ELSE pc' = "undefined" /\ UNCHANGED iprops

(* The orders std::sort may leave the vector in.                           *)
Sorted(props) ==
  LET Places == DOMAIN props
  IN  {[j \in Places |-> props[order[j]]] :
         order \in {f \in [Places -> Places] :
                      /\ \A j, l \in Places : f[j] = f[l] => j = l
                      /\ \A j, l \in Places : j < l => props[f[j]].Index <= props[f[l]].Index}}

(* SetDefaultValues: the default of the class itself, else what is there.  *)
TableSize  == Offset(chain, Cardinality(PropsUpTo(chain, level)))
DefValSize == FlagBytes(Cardinality(PropsUpTo(chain, level))) + TableSize

Fits(end, p) == Offset(chain, p.Index) + chain.widths[p.Index + 1] <= end

WithDefaults(props) ==
  LET metaBytesCnt == FlagBytes(Len(props))
  IN  [j \in DOMAIN props |->
         IF Class.flags[j - 1] # 0 THEN props[j]
         ELSE [props[j] EXCEPT !.DefaultValue =
                 IF Fits(DefValSize - metaBytesCnt, props[j])
                   THEN DefaultOf(level, metaBytesCnt + Offset(chain, props[j].Index))
                   ELSE None]]

NextClass ==
  /\ level' = IF level < Last THEN level + 1 ELSE level
  /\ propMeta' = 1
  /\ UNCHANGED <<input, Values>>
PcAfterClass == IF level < Last THEN "props" ELSE "instance"

(* All properties of the class are parsed.                                 *)
EndProps ==
  /\ pc = "props"
  /\ propMeta = Len(Class.own) + 1
  /\ Class.own # <<>> /\ iprops # <<>>
  /\ iprops' \in {WithDefaults(s) : s \in Sorted(iprops)}
  /\ pc' = PcAfterClass
  /\ NextClass

(* SetDefaultValues with no property at all fails, and Create with it.     *)
EndPropsFails ==
  /\ pc = "props"
  /\ propMeta = Len(Class.own) + 1
  /\ Class.own # <<>> /\ iprops = <<>>
  /\ pc' = "refused"
  /\ UNCHANGED <<input, level, propMeta, iprops, Values>>

(* A class that lists none is not asked for them.                          *)
NoProps ==
  /\ pc = "props"
  /\ Class.own = <<>>
  /\ UNCHANGED iprops
  /\ pc' = PcAfterClass
  /\ NextClass

-----------------------------------------------------------------------------
(* The record of an instance is laid out for all the properties.  Read by  *)
(* a vector of another extent, anything may come of it.                    *)
Width(p)      == chain.widths[p.Index + 1]
SizeOfProps   ==
  LET f[j \in 0 .. Len(iprops)] == IF j = 0 THEN 0 ELSE f[j - 1] + Width(iprops[j])
  IN  f[Len(iprops)]
ReadAsWritten ==
  /\ FlagBytes(Len(iprops)) = FlagBytes(Cardinality(PropsUpTo(chain, Last)))
  /\ SizeOfProps = TableSize

Misread ==
  /\ pc = "instance"
  /\ ~ ReadAsWritten
  /\ pc' = "misread"
  /\ UNCHANGED <<input, level, propMeta, iprops, Values>>

(* One property.  A slot that ends where the table ends is not read, nor   *)
(* is its default.                                                         *)
SlotRead(p) == Offset(chain, p.Index) + Width(p) < SizeOfProps

Value(j) ==
  LET p == iprops[j]
  IN  IF Bit0(flagsBuf[j - 1]) \/ ~ SlotRead(p) THEN None
      ELSE IF Bit1(flagsBuf[j - 1]) THEN p.DefaultValue
      ELSE OwnValue(FlagBytes(Len(iprops)) + Offset(chain, p.Index))

(* Mutant: what is not initialised gets its default.                       *)
InstValueDefault ==
  /\ pc = "instance"
  /\ ReadAsWritten
  /\ Len(Values) < Len(iprops)
  /\ Values' = Append(Values, IF Bit1(flagsBuf[Len(Values)]) THEN iprops[Len(Values) + 1].DefaultValue
                              ELSE Value(Len(Values) + 1))
  /\ UNCHANGED <<input, pc, level, propMeta, iprops>>

InstValue ==
  /\ pc = "instance"
  /\ ReadAsWritten
  /\ Len(Values) < Len(iprops)
  /\ Values' = Append(Values, Value(Len(Values) + 1))
  /\ UNCHANGED <<input, pc, level, propMeta, iprops>>

InstDone ==
  /\ pc = "instance"
  /\ ReadAsWritten
  /\ Len(Values) = Len(iprops)
  /\ pc' = "done"
  /\ UNCHANGED <<input, level, propMeta, iprops, Values>>

ParseProps == RefusedProp \/ NewProp \/ KnownProp \/ EndProps \/ EndPropsFails \/ NoProps
Next       == ParseProps \/ Misread \/ InstValue \/ InstDone
Spec       == Init /\ [][Next]_vars
-----------------------------------------------------------------------------
Complete == missing = 0 /\ \A k \in DOMAIN chain.classes : chain.classes[k].bad = {}
Parsed   == pc \in {"instance", "done"}

(* For a class whose ancestors are all read, and whose properties are all  *)
(* accepted, the vector is the layout that python-cim computes: at         *)
(* each place the property of that index, as the last class that lists it  *)
(* defines it (ParseProps against ClassLayout.properties).                 *)
PropsMatchLayout ==
  Complete =>
    /\ pc \notin {"refused", "undefined", "misread"}
    /\ Parsed => [j \in DOMAIN iprops |-> <<iprops[j].Index, iprops[j].by>>]
                   = [j \in 1 .. Cardinality(PropsUpTo(chain, Last)) |->
                        <<j - 1, Definer(chain, Last, j - 1)>>]

(* The default of a property is that of the nearest class which gives one, *)
(* and python-cim's wherever python-cim has one.  They differ in a         *)
(* property that is declared again without a default: python-cim has none, *)
(* WMIParser that of the superclass (SetDefaultValues, default_value).     *)
Givers(i) == {k \in 1 .. Last : i \in PropsUpTo(chain, k) /\ chain.classes[k].flags[i] = 0}

DefaultsOfNearest ==
  Complete /\ Parsed =>
    \A i \in PropsUpTo(chain, Last) :
      LET default == iprops[i + 1].DefaultValue
      IN  /\ Givers(i) = {} => default = None
          /\ Givers(i) # {} => \E k \in Givers(i) : /\ \A l \in Givers(i) : l <= k
                                                    /\ default = TocValue(chain, k, i)
          /\ has_default_value(chain, Last, i) => Returns(default) = default_value(chain, Last, i)

(* An ancestor that cannot be read or a property that is refused takes its *)
(* own properties away.  It takes another one, or leads outside the        *)
(* vector, only when a class declares a property again whose index is      *)
(* above that of one taken away (KnownProp goes by the index).             *)
Accepted(k) == UNION {OwnProps(chain.classes[l]) \ chain.classes[l].bad : l \in missing + 1 .. k}

AboveGap ==
  \E k \in missing + 2 .. Last :
    \E n \in (OwnProps(chain.classes[k]) \ chain.classes[k].bad) \intersect Accepted(k - 1) :
      ~ (0 .. n - 1) \subseteq Accepted(k - 1)

LossOnlyAboveGap ==
  ~ AboveGap =>
    /\ pc # "undefined"
    /\ pc \in {"instance", "done", "misread"} =>
         /\ {iprops[j].Index : j \in DOMAIN iprops} = Accepted(Last)
         /\ Len(iprops) = Cardinality(Accepted(Last))

(* The values of an instance are those python-cim gives, but for the       *)
(* property in the last slot, which has none (Create of InstanceDec.cpp    *)
(* against ClassInstance.properties).                                      *)
LastSlot == Cardinality(PropsUpTo(chain, Last)) - 1
Agrees(i) ==
  LET v == properties(chain, flagsBuf)[i] IN ~ v.raises => Values[i + 1] = v.value

ValuesAgree ==
  Complete /\ pc = "done" =>
    \A i \in PropsUpTo(chain, Last) :
      IF i = LastSlot THEN Values[i + 1] = None ELSE Agrees(i)

(* "use the default value from Class definition" (InstanceDec.cpp:358):    *)
(* every property of an instance flagged so has that value.                *)
DefaultUsed ==
  Complete /\ pc = "done" =>
    \A i \in PropsUpTo(chain, Last) :
      flagsBuf[i] = 2 => Values[i + 1] = iprops[i + 1].DefaultValue
=============================================================================
