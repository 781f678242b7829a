---------------------------- MODULE ClassLayout ----------------------------
(***************************************************************************)
(* python-cim: class ClassLayout and the properties of ClassInstance, as   *)
(* functions of the chain of classes.  The library has no state of its own *)
(* here, it walks the derivation whenever it is asked.                     *)
(***************************************************************************)
EXTENDS ClassChain

(* What an accessor returns, or that it raises.                            *)
Returns(v) == [raises |-> FALSE, value |-> v]
Raises     == [raises |-> TRUE, value |-> None]

(* ClassLayout.properties: for each index the last class that lists it.    *)
Definer(c, k, i) ==
  CHOOSE l \in 1 .. k :
    /\ i \in OwnProps(c.classes[l])
    /\ \A m \in l + 1 .. k : i \notin OwnProps(c.classes[m])

is_inherited(c, k, i)      == Bit1(c.classes[k].flags[i])
has_default_value(c, k, i) == ~ Bit0(c.classes[k].flags[i])

(* property_default_values.default_values_toc[i] of class k.               *)
TocValue(c, k, i) ==
  DefaultOf(k, FlagBytes(Cardinality(PropsUpTo(c, k))) + Offset(c, i))

(* ClassLayoutProperty.default_value: up the derivation, from the class    *)
(* itself, to the first whose value is not inherited.                      *)
default_value(c, k, i) ==
  LET f[l \in 0 .. k] ==
        IF l = 0 \/ ~ (i \in PropsUpTo(c, l) /\ has_default_value(c, l, i)) THEN Raises
        ELSE IF is_inherited(c, l, i) THEN f[l - 1]
        ELSE Returns(TocValue(c, l, i))
  IN  f[k]

(* ClassInstance.properties: the value of each, of an instance with flags. *)
properties(c, flags) ==
  LET k == Len(c.classes)
  IN  [i \in PropsUpTo(c, k) |->
         IF Bit0(flags[i]) THEN Returns(None)
         ELSE IF Bit1(flags[i]) THEN default_value(c, k, i)
         ELSE Returns(OwnValue(FlagBytes(Cardinality(PropsUpTo(c, k))) + Offset(c, i)))]
=============================================================================
