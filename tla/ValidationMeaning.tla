-------------------------- MODULE ValidationMeaning --------------------------
(***************************************************************************)
(* What an instance means to a schema, said without a stack, a patch or    *)
(* handlers: whether it is valid as draft-7 defines the keywords, and      *)
(* which default values belong to it.                                      *)
(*                                                                         *)
(* Both are recursive functions.  Below, v[<<i, t>>] says whether the      *)
(* value t is valid for schema object i, and d[<<i, p, t>>] are the        *)
(* default values that i has for the value t at p.                         *)
(***************************************************************************)
EXTENDS Validator

\* What is validated: the parts of the instance, and keys (propertyNames).
Parts == {Subtree(instance, p) : p \in DOMAIN instance} \cup {TextValue(k) : k \in Token}

Integral(n) == n.number % 2 = 0

\* A JSON number has no type but the one its value gives.
HasType(s, inst) ==
  CASE Kind(inst) \in Numeric ->
         "number" \in s.types \/ ("integer" \in s.types /\ Integral(inst[<<>>]))
    [] Kind(inst) = "binary" -> "string" \in s.types /\ s.content # NoLimit
    [] OTHER -> Kind(inst) \in s.types

ValidNumber(s, x) ==
  /\ s.maximum # NoLimit => x <= s.maximum.number
  /\ s.exclusiveMaximum # NoLimit => x < s.exclusiveMaximum.number
  /\ s.minimum # NoLimit => x >= s.minimum.number
  /\ s.exclusiveMinimum # NoLimit => x > s.exclusiveMinimum.number
  /\ s.multipleOf # NoLimit => x % s.multipleOf.number = 0

ValidText(s, inst) ==
  LET x == inst[<<>>].text
  IN /\ s.minLength # NoLimit => Length[x] >= s.minLength
     /\ s.maxLength # NoLimit => Length[x] <= s.maxLength
     /\ s.content # NoLimit => x \in s.content
     /\ Kind(inst) = "string" => (s.pattern # NoLimit => x \in s.pattern)
                              /\ (s.format # NoLimit => x \in s.format)

\* The schemas that apply to the property k.
Applying(s, k) ==
  LET named == {s.properties[j] : j \in DOMAIN s.properties \cap {k}}
               \cup {s.patternProperties[i].schema : i \in {j \in DOMAIN s.patternProperties :
                                                          k \in s.patternProperties[j].keys}}
  IN IF named = {} THEN {s.additionalProperties} \ {0} ELSE named

\* The schema that applies to the element number i, counted from 1.
ItemSchema(s, i) ==
  {IF s.items # 0 THEN s.items ELSE IF i <= Len(s.tuple) THEN s.tuple[i] ELSE s.additionalItems}
  \ {0}
Item(inst, i) == At(inst, Keys(inst)[i])
-----------------------------------------------------------------------------
\* The schema object that has the default value of i.  If it is a reference to
\* nothing, draft-7 has no default value; here it makes the object invalid.
Holder[i \in DOMAIN graph] ==
  LET s == graph[i]
  IN IF IsNull(s.default) /\ s.kind = "ref" /\ s.target # 0 THEN Holder[s.target] ELSE i

DefaultOf(i) == graph[Holder[i]].default
Defaulted(i) == ~IsNull(DefaultOf(i)) \/ graph[Holder[i]].kind # "ref"

ValidObject(v, s, inst) ==
  LET M == Members(inst, <<>>)
  IN /\ s.maxProperties # NoLimit => Size(inst) <= s.maxProperties
     /\ s.minProperties # NoLimit => Size(inst) >= s.minProperties
     /\ \A i \in DOMAIN s.required : s.required[i] \in M
     /\ \A k \in DOMAIN s.properties \ M : Defaulted(s.properties[k])
     /\ \A k \in M : \A i \in Applying(s, k) : v[<<i, At(inst, k)>>]
     /\ \A k \in M : s.propertyNames # 0 => v[<<s.propertyNames, TextValue(k)>>]
     /\ \A k \in M \cap DOMAIN s.dependencies :
          /\ \A i \in DOMAIN s.dependencies[k].required : s.dependencies[k].required[i] \in M
          /\ s.dependencies[k].schema # 0 => v[<<s.dependencies[k].schema, inst>>]

ValidArray(v, s, inst) ==
  /\ s.maxItems # NoLimit => Size(inst) <= s.maxItems
  /\ s.minItems # NoLimit => Size(inst) >= s.minItems
  /\ s.uniqueItems =>
       \A i, j \in 1..Size(inst) : Same(Item(inst, i), Item(inst, j)) => i = j
  /\ \A i \in 1..Size(inst) : \A k \in ItemSchema(s, i) : v[<<k, Item(inst, i)>>]
  /\ s.contains # 0 => \E i \in 1..Size(inst) : v[<<s.contains, Item(inst, i)>>]

Passing(v, subs, inst) == {i \in DOMAIN subs : v[<<subs[i], inst>>]}
ValidLogic(v, role, subs, inst) ==
  CASE role = "not" -> Passing(v, subs, inst) = {}
    [] role = "allOf" -> subs # <<>> /\ Passing(v, subs, inst) = DOMAIN subs
    [] role = "anyOf" -> Passing(v, subs, inst) # {}
    [] role = "oneOf" -> Cardinality(Passing(v, subs, inst)) = 1

\* The condition leads to one of two schemas, if that is given.
Branch(v, s, inst) == IF v[<<s.if, inst>>] THEN s.then ELSE s.else
ValidIf(v, s, inst) == Branch(v, s, inst) # 0 => v[<<Branch(v, s, inst), inst>>]

ValidType(v, s, inst) ==
  /\ HasType(s, inst)
  /\ Kind(inst) \in Numeric => ValidNumber(s, inst[<<>>].number)
  /\ Kind(inst) \in {"string", "binary"} => ValidText(s, inst)
  /\ Kind(inst) = "object" => ValidObject(v, s, inst)
  /\ Kind(inst) = "array" => ValidArray(v, s, inst)

ValidSchema(v, s, inst) ==
  CASE s.kind = "boolean" -> s.accepts
    [] s.kind = "ref" -> s.target # 0 /\ v[<<s.target, inst>>]
    [] s.kind = "type" ->
         /\ ValidType(v, s, inst)
         /\ s.enum # NoLimit => \E x \in s.enum : Same(x, inst)
         /\ s.const # NoLimit => Same(s.const, inst)
         /\ \A k \in DOMAIN s.logic : ValidLogic(v, s.logic[k].role, s.logic[k].subs, inst)
         /\ s.if # 0 => ValidIf(v, s, inst)

Valid[x \in (DOMAIN graph) \X Parts] == ValidSchema(Valid, graph[x[1]], x[2])
-----------------------------------------------------------------------------
(***************************************************************************)
(* The default values for an instance at p: those of missing properties,   *)
(* of its schema and of what the schema applies to it and to what it       *)
(* holds.  Of a combination only the cases that hold take part, as far as  *)
(* it is tried; conditions take part whether they hold or not.             *)
(***************************************************************************)
InMembers(d, s, p, inst) ==
  UNION {UNION {d[<<i, Append(p, k), At(inst, k)>>] : i \in Applying(s, k)} : k \in Members(inst, <<>>)}
OfAbsent(s, p, inst) ==
  {[path |-> Append(p, k), value |-> DefaultOf(s.properties[k])] :
     k \in {j \in DOMAIN s.properties \ Members(inst, <<>>) : ~IsNull(DefaultOf(s.properties[j]))}}
InDependencies(d, s, p, inst) ==
  UNION {d[<<i, p, inst>>] :
           i \in {s.dependencies[k].schema : k \in Members(inst, <<>>) \cap DOMAIN s.dependencies} \ {0}}
InObject(d, s, p, inst) ==
  InMembers(d, s, p, inst) \cup OfAbsent(s, p, inst) \cup InDependencies(d, s, p, inst)

InItem(d, k, p, inst, i) == d[<<k, Append(p, Keys(inst)[i]), Item(inst, i)>>]
InItems(d, s, p, inst) ==
  UNION {UNION {InItem(d, k, p, inst, i) : k \in ItemSchema(s, i)} : i \in 1..Size(inst)}
\* "contains" tries the elements up to the first that is valid.
Tried(v, s, inst) ==
  {i \in 1..Size(inst) : \A j \in 1..(i - 1) : ~v[<<s.contains, Item(inst, j)>>]}
InArray(v, d, s, p, inst) ==
  InItems(d, s, p, inst)
  \cup (IF s.contains = 0 THEN {}
        ELSE UNION {InItem(d, s.contains, p, inst, i) : i \in Tried(v, s, inst)})

InLogic(v, d, role, subs, p, inst) ==
  LET ok == Passing(v, subs, inst)
      before(i) == 1..(i - 1)
      used == CASE role = "not" -> DOMAIN subs
                [] role = "allOf" -> {i \in ok : before(i) \subseteq ok}
                [] role = "anyOf" -> {i \in ok : before(i) \cap ok = {}}
                [] role = "oneOf" -> {i \in ok : Cardinality(before(i) \cap ok) <= 1}
  IN UNION {d[<<subs[i], p, inst>>] : i \in used}

InIf(v, d, s, p, inst) ==
  IF s.if = 0 \/ (s.then = 0 /\ s.else = 0) THEN {}
  ELSE UNION {d[<<k, p, inst>>] : k \in {s.if, Branch(v, s, inst)} \ {0}}

InSchema(v, d, s, p, inst) ==
  CASE s.kind = "boolean" -> {}
    [] s.kind = "ref" -> IF s.target = 0 THEN {} ELSE d[<<s.target, p, inst>>]
    [] s.kind = "type" ->
         (IF Kind(inst) = "object" /\ "object" \in s.types THEN InObject(d, s, p, inst) ELSE {})
         \cup (IF Kind(inst) = "array" /\ "array" \in s.types THEN InArray(v, d, s, p, inst) ELSE {})
         \cup (UNION {InLogic(v, d, s.logic[k].role, s.logic[k].subs, p, inst) : k \in DOMAIN s.logic})
         \cup InIf(v, d, s, p, inst)
         \cup (IF p = <<>> /\ IsNull(inst) /\ ~IsNull(s.default)
               THEN {[path |-> p, value |-> s.default]} ELSE {})

DefaultsOf[x \in (DOMAIN graph) \X Seq(Token) \X Parts] ==
  InSchema(Valid, DefaultsOf, graph[x[1]], x[2], x[3])
-----------------------------------------------------------------------------
(***************************************************************************)
(* The validator against the meaning.                                      *)
(***************************************************************************)
Meant == Entry # <<>> /\ Valid[<<Entry[1], instance>>]

\* The user learns of an error, or gets an exception, exactly when the instance
\* does not satisfy its schema, whatever fails and succeeds inside.
VerdictIsMeaning ==
  /\ pc = "returned" => (errors = <<>> <=> Meant)
  /\ pc = "thrown" => ~Meant

\* The patch holds the default values that belong to the instance: all of them,
\* and none of an alternative that failed.
PatchIsMeaning ==
  pc = "returned" =>
    Range(patch) = IF Entry = <<>> THEN {} ELSE DefaultsOf[<<Entry[1], <<>>, instance>>]
-----------------------------------------------------------------------------
(***************************************************************************)
(* When there is a meaning, and where the code is known to have another.   *)
(***************************************************************************)

\* The schemas that s asks about the same value.
Beside(s) ==
  {s.target, s.if, s.then, s.else}
  \cup {s.dependencies[k].schema : k \in DOMAIN s.dependencies}
  \cup UNION {Range(s.logic[k].subs) : k \in DOMAIN s.logic}

\* No schema asks, by way of others, itself about the same value: in every set of
\* schemas there is one that asks none of them.
Grounded(c) ==
  \A S \in SUBSET DOMAIN c.graph : S # {} => \E i \in S : Beside(c.graph[i]) \cap S = {}

\* README.md, Disagreements: the two bounds on one side, integers that wrap around
\* or are written as floats, bounds for integers that are none, the length of
\* binary data.
Agreed(s, n) ==
  /\ s.maximum = NoLimit \/ s.exclusiveMaximum = NoLimit
  /\ s.minimum = NoLimit \/ s.exclusiveMinimum = NoLimit
  /\ s.multipleOf # NoLimit => s.multipleOf.number > 0
  /\ "integer" \in s.types =>
       /\ \A b \in {s.maximum, s.exclusiveMaximum, s.minimum, s.exclusiveMinimum} \ {NoLimit} :
            Converted("integer", b) = b.number
       /\ n.type \in {"integer", "unsigned"} => n.number <= MaxInteger
       /\ n.type = "float" /\ Integral(n) => "number" \in s.types
  /\ n.type = "binary" => {s.minLength, s.maxLength} = {NoLimit}
Undisputed == \A i \in DOMAIN graph : \A p \in DOMAIN instance : Agreed(graph[i], instance[p])
=============================================================================
