--------------------------- MODULE ObjectResolver ---------------------------
(***************************************************************************)
(* python-cim: ObjectResolver (objects.py), the calls that find class      *)
(* definitions and instances by lookups of PyLookup and fetches of the     *)
(* objects they name.  A fetch (get_object_buffer, which ObjectBuffer      *)
(* models) and the parsing of what it gives are an outcome here.  A class  *)
(* layout is its definition: the layouts of superclasses are ClassChain's. *)
(* A generator is run to its end.                                          *)
(***************************************************************************)
EXTENDS PyLookup, Functions

CONSTANTS
  System,     \* SYSTEM_NAMESPACE_NAME
  MaxCalls,   \* bound: calls made to one resolver
  Calls,      \* for each tree, the calls made over it: records op, ns, class, ikey, query
  Objects,    \* for each tree, what its keys may name: records state, ikey, hash
  CD(_, _),   \* CD(ns, class): the prefix NS_<hash>/CD_<hash>
  CI(_, _),   \* CI(ns, class): the prefix NS_<hash>/CI_<hash>/IL_
  IL(_, _, _) \* IL(ns, class, hash): the same with the hash of an instance

ASSUME ResolverAssumption == MaxCalls \in Nat

(* The root's bounds are outside all prefixes.                             *)
PrefixIn(t, q) ==
  /\ q.lo \in Int /\ q.hi \in Int /\ q.lo <= q.hi
  /\ t.lo[t.root] <= q.lo /\ q.hi <= t.hi[t.root]

ASSUME CallsAssumption ==
  \A t \in Trees : \A c \in Calls[t] :
    /\ c.op \in {"get_keys", "get_cd", "get_cd_buf", "get_ci", "instances"}
    /\ IF c.op = "get_keys" THEN PrefixIn(t, c.query)
       ELSE \A q \in {CD(c.ns, c.class), CD(System, c.class), CI(c.ns, c.class)} : PrefixIn(t, q)

(* The hash of an instance is in its index key, after those of its class.  *)
(* Equal instance keys have equal hashes: they are hashes of these keys.   *)
Hashed(t, o, ns, class) ==
  LET all == CI(ns, class)
      one(k) == IL(ns, class, o[k].hash)
      ok == {k \in Wanted(t, all) : o[k].state = "ok"}
  IN  /\ \A k \in t.all : PrefixIn(t, one(k)) /\ Wanted(t, one(k)) \subseteq Wanted(t, all)
      /\ \A k \in Wanted(t, all) :
           /\ all.lo <= one(k).lo /\ one(k).hi <= all.hi
           /\ Wanted(t, one(k)) = {m \in Wanted(t, all) : o[m].hash = o[k].hash}
      /\ \A k, m \in ok : o[k].ikey = o[m].ikey => o[k].hash = o[m].hash

ASSUME ObjectsAssumption ==
  \A t \in Trees : \A o \in Objects[t] :
    /\ DOMAIN o = t.all
    /\ \A k \in t.all : o[k].state \in {"ok", "gone", "lost", "garbled"}
    /\ \A c \in Calls[t] : c.op = "get_ci" => Hashed(t, o, c.ns, c.class)

VARIABLES
  objects,      \* objects[k]: what the index key k names
  made, call,   \* the number of calls made, the present one
  phase,        \* "idle"; the lookup under way: "own", "object" or "keys"; or "each"
  refs,         \* what get_objects has still to yield
  cds,          \* _cdcache and _clcache: the index keys the definitions came from
  ihashcache,   \* _ihashcache, by is the class that left the hash
  listed,       \* the instance keys TreeClassDefinition.instances has yielded
  outcome,      \* "none", "ok" or "raised"
  answer        \* the index key of the object returned

resolverVars == <<objects, made, call, phase, refs, cds, ihashcache, listed, outcome, answer>>

NoAnswer == -1
NoCall   == [op |-> "none"]
Empty    == [x \in {} |-> x]
Put(f, x, v) == [y \in DOMAIN f \union {x} |-> IF y = x THEN v ELSE f[y]]

ResolverInit ==
  /\ LookupInit
  /\ objects \in Objects[tree]
  /\ made = 0
  /\ call = NoCall
  /\ phase = "idle"
  /\ refs = <<>> /\ listed = <<>>
  /\ cds = Empty /\ ihashcache = Empty
  /\ outcome = "none" /\ answer = NoAnswer

Id(c)      == <<c.ns, c.class>>
Readable(k) == objects[k].state \in {"ok", "garbled"}

Finish(how, what) ==
  /\ phase' = "idle"
  /\ outcome' = how
  /\ answer' = what

Running == UNCHANGED <<outcome, answer>>

Query(q, next) == LookupKeys(q) /\ phase' = next

(* The query of get_ci: with the hash left for the key, if there is one.   *)
InstanceQuery(c) ==
  IF c.ikey \in DOMAIN ihashcache THEN IL(c.ns, c.class, ihashcache[c.ikey].hash)
                                  ELSE CI(c.ns, c.class)

Begin ==
  /\ phase = "idle" /\ made < MaxCalls
  /\ made' = made + 1
  /\ listed' = <<>>
  /\ outcome' = "none" /\ answer' = NoAnswer
  /\ UNCHANGED <<objects, refs, cds, ihashcache>>

GetKeys ==
  \E c \in Calls[tree] :
    /\ c.op = "get_keys"
    /\ Begin /\ call' = c
    /\ Query(c.query, "keys")

(* get_cd_buf has no cache; get_cd and get_cl look up a class once.        *)
GetDefinition ==
  \E c \in Calls[tree] :
    /\ c.op = "get_cd_buf" \/ (c.op \in {"get_cd", "get_ci"} /\ Id(c) \notin DOMAIN cds)
    /\ Begin /\ call' = c
    /\ Query(CD(c.ns, c.class), "own")

GetCached ==
  \E c \in Calls[tree] :
    /\ c.op = "get_cd" /\ Id(c) \in DOMAIN cds
    /\ phase = "idle" /\ made < MaxCalls
    /\ made' = made + 1 /\ call' = c /\ listed' = <<>>
    /\ Finish("ok", cds[Id(c)])
    /\ UNCHANGED <<objects, refs, cds, ihashcache, lookupVars>>

GetInstance ==
  \E c \in Calls[tree] :
    /\ c.op = "get_ci" /\ Id(c) \in DOMAIN cds
    /\ Begin /\ call' = c
    /\ Query(InstanceQuery(c), "keys")

(* TreeClassDefinition.instances over get_cd_children_ci.                  *)
Instances ==
  \E c \in Calls[tree] :
    /\ c.op = "instances"
    /\ Begin /\ call' = c
    /\ Query(CI(c.ns, c.class), "keys")

Looking ==
  /\ phase \in {"own", "object", "keys"}
  /\ Lookup
  /\ UNCHANGED resolverVars

-----------------------------------------------------------------------------
(* The definition of the class, for every call but get_keys.               *)

(* An exception is one of the call, but get_cd_children_ci catches it and  *)
(* goes on with the next instance.                                         *)
DefinitionFails ==
  /\ IF call.op = "instances"
       THEN phase' = "each" /\ refs' = Tail(refs) /\ Running
       ELSE Finish("raised", NoAnswer) /\ UNCHANGED refs
  /\ UNCHANGED <<objects, made, call, cds, ihashcache, listed, lookupVars>>

(* Mutant: a class that is not in the namespace is not looked for in the   *)
(* system namespace.                                                       *)
OwnRefsNoFallback ==
  /\ phase = "own" /\ pc = "returned"
  /\ Len(matches) <= 1
  /\ Query(query, "object")
  /\ Running
  /\ UNCHANGED <<objects, made, call, refs, cds, ihashcache, listed>>

(* The key is looked up again by get_object, in the system namespace if    *)
(* there was none; get_cd_buf tests for None, which a lookup never gives.  *)
OwnRefs ==
  /\ phase = "own" /\ pc = "returned"
  /\ Len(matches) <= 1
  /\ Query(IF matches = <<>> /\ call.op # "get_cd_buf" THEN CD(System, call.class) ELSE query,
           "object")
  /\ Running
  /\ UNCHANGED <<objects, made, call, refs, cds, ihashcache, listed>>

OwnRefsMany ==
  /\ phase = "own" /\ pc = "returned"
  /\ Len(matches) > 1
  /\ DefinitionFails

(* get_object: exactly one key, an object that can be fetched, and for all *)
(* but get_cd_buf one that can be parsed.                                  *)
Defined ==
  /\ Len(matches) = 1
  /\ objects[matches[1]].state = "ok" \/ (call.op = "get_cd_buf" /\ Readable(matches[1]))

Remember ==
  cds' = IF call.op = "get_cd_buf" THEN cds ELSE Put(cds, Id(call), matches[1])

DefinitionFound ==
  /\ phase = "object" /\ pc = "returned"
  /\ Defined
  /\ Remember
  /\ CASE call.op \in {"get_cd", "get_cd_buf"} -> Finish("ok", matches[1]) /\ UNCHANGED lookupVars
       [] call.op = "get_ci"    -> Query(InstanceQuery(call), "keys") /\ Running
       [] call.op = "instances" -> phase' = "each" /\ Running /\ UNCHANGED lookupVars
  /\ UNCHANGED <<objects, made, call, refs, ihashcache, listed>>

DefinitionRefused ==
  \/ phase = "object" /\ pc = "returned" /\ ~ Defined /\ DefinitionFails
  \/ phase \in {"own", "object"} /\ pc = "raised" /\ DefinitionFails

-----------------------------------------------------------------------------
(* get_objects: the keys are looked up, then the objects fetched one by    *)
(* one as the caller asks for them.                                        *)
Keyed ==
  /\ phase = "keys" /\ pc = "returned"
  /\ IF call.op = "get_keys"
       THEN Finish("ok", NoAnswer) /\ UNCHANGED refs
       ELSE phase' = "each" /\ refs' = matches /\ Running
  /\ UNCHANGED <<objects, made, call, cds, ihashcache, listed, lookupVars>>

KeysRaise ==
  /\ phase = "keys" /\ pc = "raised"
  /\ Finish("raised", NoAnswer)
  /\ UNCHANGED <<objects, made, call, refs, cds, ihashcache, listed, lookupVars>>

Each(states) ==
  /\ phase = "each" /\ refs # <<>>
  /\ objects[refs[1]].state \in states
  /\ UNCHANGED <<objects, made, call, cds, lookupVars>>

Next1 == refs' = Tail(refs) /\ UNCHANGED phase /\ Running

(* Mutant: an object that is not in the store ends the loop.               *)
EachGoneEnds ==
  /\ Each({"gone"})
  /\ refs' = <<>> /\ UNCHANGED phase /\ Running
  /\ UNCHANGED <<ihashcache, listed>>

(* IndexKeyNotFoundError: the key is passed over.                          *)
EachGone ==
  /\ Each({"gone"})
  /\ Next1
  /\ UNCHANGED <<ihashcache, listed>>

(* Any other exception of the fetch goes through the generator; one of the *)
(* parsing only in get_ci.                                                 *)
EachRaises ==
  /\ Each({"lost"} \union IF call.op = "get_ci" THEN {"garbled"} ELSE {})
  /\ Finish("raised", NoAnswer)
  /\ UNCHANGED <<refs, ihashcache, listed>>

(* Mutant: the first instance that can be parsed is taken.                 *)
InstanceFirst ==
  /\ call.op = "get_ci"
  /\ Each({"ok"})
  /\ Finish("ok", refs[1]) /\ UNCHANGED refs
  /\ UNCHANGED <<ihashcache, listed>>

(* get_ci compares the values of the key properties.                       *)
InstanceCompared ==
  /\ call.op = "get_ci"
  /\ Each({"ok"})
  /\ IF objects[refs[1]].ikey = call.ikey
       THEN Finish("ok", refs[1]) /\ UNCHANGED refs
       ELSE Next1
  /\ UNCHANGED <<ihashcache, listed>>

(* get_cd_children_ci takes the class layout for every instance, ...       *)
InstanceClass ==
  /\ call.op = "instances" /\ Id(call) \notin DOMAIN cds
  /\ phase = "each" /\ refs # <<>> /\ Readable(refs[1])
  /\ Query(CD(call.ns, call.class), "own")
  /\ Running
  /\ UNCHANGED <<objects, made, call, refs, cds, ihashcache, listed>>

(* ... leaves its hash behind and yields its key, the caller of which      *)
(* drops the keys it has seen, ...                                         *)
InstanceListed ==
  /\ call.op = "instances" /\ Id(call) \in DOMAIN cds
  /\ Each({"ok"})
  /\ Next1
  /\ ihashcache' = Put(ihashcache, objects[refs[1]].ikey,
                        [hash |-> objects[refs[1]].hash, by |-> Id(call)])
  /\ listed' = IF objects[refs[1]].ikey \in Range(listed) THEN listed
               ELSE Append(listed, objects[refs[1]].ikey)

(* ... and passes over what it cannot parse.                               *)
InstanceGarbled ==
  /\ call.op = "instances" /\ Id(call) \in DOMAIN cds
  /\ Each({"garbled"})
  /\ Next1
  /\ UNCHANGED <<ihashcache, listed>>

(* No more keys: get_ci raises IndexError.                                 *)
Exhausted ==
  /\ phase = "each" /\ refs = <<>>
  /\ Finish(IF call.op = "get_ci" THEN "raised" ELSE "ok", NoAnswer)
  /\ UNCHANGED <<objects, made, call, refs, cds, ihashcache, listed, lookupVars>>

Call == GetKeys \/ GetDefinition \/ GetCached \/ GetInstance \/ Instances
Each1 == EachGone \/ EachRaises \/ InstanceCompared \/ InstanceClass \/ InstanceListed
         \/ InstanceGarbled \/ Exhausted

ResolverNext ==
  \/ Call \/ Looking
  \/ OwnRefs \/ OwnRefsMany \/ DefinitionFound \/ DefinitionRefused
  \/ Keyed \/ KeysRaise \/ Each1

ResolverSpec == ResolverInit /\ [][ResolverNext]_<<lookupVars, resolverVars>>
-----------------------------------------------------------------------------
KeysFor(q)   == Wanted(tree, q)
Blocked(q)   == \E p \in missing : Leads(tree, p, q)
Ended(op)    == phase = "idle" /\ made > 0 /\ call.op = op

(* Where a class is defined: in its namespace, or else in the system's.    *)
InOwn(id)    == KeysFor(CD(id[1], id[2]))
DefKeys(id)  == IF InOwn(id) # {} THEN InOwn(id) ELSE KeysFor(CD(System, id[2]))

Undefinable(id) ==
  \/ Blocked(CD(id[1], id[2])) \/ (InOwn(id) = {} /\ Blocked(CD(System, id[2])))
  \/ Cardinality(DefKeys(id)) # 1
  \/ \E k \in DefKeys(id) : objects[k].state # "ok"

(* A definition, now or cached by an earlier call, is that of the class    *)
(* asked for: the only one its namespace has of it, else the only one of   *)
(* the system namespace; get_cd fails only if there is none such that can  *)
(* be had.  get_cd_buf finds in the namespace itself what get_cd finds     *)
(* there, and never what is only in the system namespace, although it      *)
(* says it looks there.                                                    *)
DefinitionsRight ==
  /\ \A id \in DOMAIN cds : DefKeys(id) = {cds[id]} /\ objects[cds[id]].state = "ok"
  /\ Ended("get_cd") =>
       IF outcome = "ok" THEN {answer} = DefKeys(Id(call)) ELSE Undefinable(Id(call))
  /\ Ended("get_cd_buf") =>
       IF outcome = "ok" THEN {answer} = InOwn(Id(call))
                         ELSE Undefinable(Id(call)) \/ InOwn(Id(call)) = {}

(* get_ci gives an instance of the class with the key asked for.  It fails *)
(* only if there is none, if one that comes before it in the index cannot  *)
(* be had, if the class cannot, or if the hash remembered for the key was  *)
(* left by an instance of another class or namespace.                      *)
InstanceFoundUnlessForeign ==
  Ended("get_ci") =>
    LET q    == CI(call.ns, call.class)
        mine == {k \in KeysFor(q) : objects[k].state = "ok" /\ objects[k].ikey = call.ikey}
    IN  IF outcome = "ok" THEN answer \in mine
        ELSE \/ Undefinable(Id(call)) \/ Blocked(q)
             \/ mine = {}
             \/ \E k \in KeysFor(q) : /\ objects[k].state \in {"lost", "garbled"}
                                     /\ \A m \in mine : k < m
             \/ call.ikey \in DOMAIN ihashcache /\ ihashcache[call.ikey].by # Id(call)

(* The instances of a class: each key once, and every instance that can be *)
(* parsed.  If the class cannot be had the list is empty and nothing says  *)
(* so; it fails only if the index or the fetch of an object does.          *)
InstancesListed ==
  Ended("instances") =>
    LET q  == CI(call.ns, call.class)
        ok == {k \in KeysFor(q) : objects[k].state = "ok"}
    IN  /\ IsInjective(listed)
        /\ outcome = "raised" =>
             Blocked(q) \/ \E k \in KeysFor(q) : objects[k].state = "lost"
        /\ outcome = "ok" =>
             /\ Range(listed) = IF Id(call) \in DOMAIN cds THEN {objects[k].ikey : k \in ok} ELSE {}
             /\ ok # {} /\ Id(call) \notin DOMAIN cds => Undefinable(Id(call))
=============================================================================
