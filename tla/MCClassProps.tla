---------------------------- MODULE MCClassProps ----------------------------
(***************************************************************************)
(* Bounds for ClassProps.  Two classes: one or two properties, then none   *)
(* or one more and any of those declared again, in either order.  Three    *)
(* classes: each below the first declares at most one again, the last      *)
(* index first.  Every setting of the flags; one property refused, where    *)
(* all have defaults.  Two flags to the byte, so that three properties     *)
(* already take a second one.                                              *)
(***************************************************************************)
EXTENDS ClassProps

Inherits(f) == IF Bit0(f) THEN 3 ELSE 2

Rising(own)  == {s \in [1 .. Cardinality(own) -> own] : \A j, l \in DOMAIN s : j < l => s[j] < s[l]}
Falling(own) == {s \in [1 .. Cardinality(own) -> own] : \A j, l \in DOMAIN s : j < l => s[j] > s[l]}
Either(own)  == Rising(own) \union Falling(own)

FlagChoices(above, own) ==
  {f \in [DOMAIN above \union own -> Flags] :
     \A i \in DOMAIN f :
       f[i] \in (IF i \in own THEN {0, 1} ELSE {})
                  \union (IF i \in DOMAIN above THEN {Inherits(above[i])} ELSE {})}

(* The classes that can follow one whose flags are `above`: they add as    *)
(* many properties as in `added` and declare up to `most` again.           *)
Below(above, added, most, Order(_)) ==
  LET n == Cardinality(DOMAIN above)
  IN  UNION {{[own |-> s, flags |-> f, bad |-> {}] :
                s \in Order(own), f \in FlagChoices(above, own)} :
               own \in {again \union (n .. n + new - 1) :
                          again \in {x \in SUBSET DOMAIN above : Cardinality(x) <= most},
                          new \in added}}

NoFlags  == [i \in {} |-> 0]
One      == {<<a>> : a \in Below(NoFlags, {1, 2}, 0, Either)}
Two      == UNION {{Append(s, b) : b \in Below(s[1].flags, {0, 1}, 2, Either)} : s \in One}
OneDown  == {<<a>> : a \in Below(NoFlags, {1, 2}, 0, Falling)}
TwoDown  == UNION {{Append(s, b) : b \in Below(s[1].flags, {0, 1}, 1, Falling)} : s \in OneDown}
Three    == UNION {{Append(s, b) : b \in Below(s[2].flags, {0, 1}, 1, Falling)} : s \in TwoDown}

Widths == <<4, 1, 2, 4>>

(* One refused property, in a class with few flags set.                    *)
WithBad(s) ==
  UNION {{[s EXCEPT ![k].bad = {i}] : i \in OwnProps(s[k])} : k \in DOMAIN s}
Plain(s) == \A k \in DOMAIN s : \A i \in DOMAIN s[k].flags : ~ Bit0(s[k].flags[i])

MCChains ==
  {[classes |-> s, widths |-> Widths] :
     s \in One \union Two \union Three
             \union UNION {WithBad(t) : t \in {u \in Two \union Three : Plain(u)}}}
=============================================================================
