----------------------------- MODULE ClassChain -----------------------------
(***************************************************************************)
(* The records of a class and its superclasses, as far as properties are   *)
(* concerned; what WMIParser (ClassProps) and python-cim (ClassLayout)     *)
(* both read.  A property has an index, which counts over the whole chain, *)
(* and a slot in a table; a class lists the properties it adds and those   *)
(* it declares again, and has two bits for every property so far, followed *)
(* by its own table of default values.                                     *)
(***************************************************************************)
EXTENDS Integers, Sequences, FiniteSets

CONSTANTS
  FlagsPerByte,  \* pairs of bits in a byte: 4
  Chains         \* the chains considered, see ChainsAssumption

ASSUME FlagsPerByteAssumption == FlagsPerByte \in Nat \ {0}

(* DEFUALT_NO_VALUE = PROP_IS_NOT_INITIALIZED = 1, DEFAULT_INHERITED =     *)
(* PROP_USE_DEFAULT_VALUE = 2.                                             *)
Flags == 0 .. 3
Bit0(f) == f % 2 = 1
Bit1(f) == f >= 2

PropsUpTo(c, k) == DOMAIN c.classes[k].flags
OwnProps(cls)   == {cls.own[j] : j \in DOMAIN cls.own}

(* How many bytes the flags of n properties take.                          *)
FlagBytes(n) == (n + FlagsPerByte - 1) \div FlagsPerByte

(* A slot follows those of the lower indexes.                              *)
Offset(c, i) ==
  LET f[j \in 0 .. i] == IF j = 0 THEN 0 ELSE f[j - 1] + c.widths[j]
  IN  f[i]

(* A class adds the next indexes; a property it does not list has the      *)
(* value, or the lack of one, of the class above.  Properties in `bad` have *)
(* a qualifier of unknown type.                                            *)
ClassOK(c, k) ==
  LET cls   == c.classes[k]
      n     == Cardinality(PropsUpTo(c, k))
      above == IF k = 1 THEN {} ELSE PropsUpTo(c, k - 1)
  IN  /\ n \in Nat /\ cls.flags \in [0 .. n - 1 -> Flags] /\ n <= Len(c.widths)
      /\ above \subseteq 0 .. n - 1
      /\ cls.own \in Seq(Nat) /\ Cardinality(OwnProps(cls)) = Len(cls.own)
      /\ (0 .. n - 1) \ above \subseteq OwnProps(cls) /\ OwnProps(cls) \subseteq 0 .. n - 1
      /\ \A i \in 0 .. n - 1 :
           Bit1(cls.flags[i]) =>
             i \in above /\ Bit0(cls.flags[i]) = Bit0(c.classes[k - 1].flags[i])
      /\ \A i \in (0 .. n - 1) \ OwnProps(cls) : Bit1(cls.flags[i])
      /\ cls.bad \subseteq OwnProps(cls)

(* No slot is empty.                                                       *)
ASSUME ChainsAssumption ==
  \A c \in Chains :
    /\ Len(c.classes) \in Nat /\ DOMAIN c.classes = 1 .. Len(c.classes)
    /\ c.widths \in Seq(Nat \ {0})
    /\ \A k \in DOMAIN c.classes : ClassOK(c, k)

(* A value, by where it is read: in the default values of class number     *)
(* `class`, in the instance, or nowhere.                                   *)
None              == [of |-> "none", class |-> 0, at |-> 0]
DefaultOf(k, pos) == [of |-> "class", class |-> k, at |-> pos]
OwnValue(pos)     == [of |-> "instance", class |-> 0, at |-> pos]
=============================================================================
