---------------------------- MODULE MCValidation ----------------------------
(***************************************************************************)
(* Families of schemas and instances for ValidationMeaning.  Numbers are   *)
(* written in halves.                                                      *)
(***************************************************************************)
EXTENDS ValidationMeaning

TokenOrder == <<"0", "1", "2", "a", "b", "c">>
MCToken == Range(TokenOrder)
MCRank == [t \in MCToken |-> CHOOSE i \in DOMAIN TokenOrder : TokenOrder[i] = t]
MCText == MCToken \cup {"", "ab"}
MCLength == [x \in MCText |-> CASE x = "" -> 0 [] x = "ab" -> 2 [] OTHER -> 1]

(***************************************************************************)
(* Instances.                                                              *)
(***************************************************************************)
Leaf(type, text, number) ==
  [p \in {<<>>} |-> [type |-> type, text |-> text, number |-> number]]
Null == Leaf("null", "", 0)
Str(x) == Leaf("string", x, 0)
Bin(x) == Leaf("binary", x, 0)
Num(n) == Leaf("integer", "", n)
Big(n) == Leaf("unsigned", "", n)
Flo(n) == Leaf("float", "", n)
Bool == Leaf("boolean", "a", 0)
Holding(type, m) ==
  [p \in {<<>>} \cup UNION {{<<k>> \o q : q \in DOMAIN m[k]} : k \in DOMAIN m} |->
     IF p = <<>> THEN [type |-> type, text |-> "", number |-> 0] ELSE m[Head(p)][Tail(p)]]
Obj(m) == Holding("object", m)
Arr(s) == Holding("array", [k \in {TokenOrder[i] : i \in DOMAIN s} |-> s[MCRank[k]]])
Nothing == [k \in {} |-> Null]

(***************************************************************************)
(* Schemas.                                                                *)
(***************************************************************************)
AllTypes == {"null", "object", "array", "string", "boolean", "integer", "number"}
Anything ==
  [kind |-> "type", accepts |-> TRUE, target |-> 0, default |-> Null, types |-> AllTypes,
   enum |-> NoLimit, const |-> NoLimit, logic |-> <<>>, if |-> 0, then |-> 0, else |-> 0,
   maxProperties |-> NoLimit, minProperties |-> NoLimit, required |-> <<>>,
   properties |-> Nothing, patternProperties |-> <<>>, additionalProperties |-> 0,
   dependencies |-> Nothing, propertyNames |-> 0,
   maxItems |-> NoLimit, minItems |-> NoLimit, uniqueItems |-> FALSE, items |-> 0,
   tuple |-> <<>>, additionalItems |-> 0, contains |-> 0,
   minLength |-> NoLimit, maxLength |-> NoLimit, content |-> NoLimit, pattern |-> NoLimit,
   format |-> NoLimit, maximum |-> NoLimit, exclusiveMaximum |-> NoLimit,
   minimum |-> NoLimit, exclusiveMinimum |-> NoLimit, multipleOf |-> NoLimit]
Always == [Anything EXCEPT !.kind = "boolean"]
Never == [Anything EXCEPT !.kind = "boolean", !.accepts = FALSE]
Ref(i) == [Anything EXCEPT !.kind = "ref", !.target = i]
Of(types) == [Anything EXCEPT !.types = types]
Logic(role, subs) == [Anything EXCEPT !.logic = <<[role |-> role, subs |-> subs]>>]
WithDefault(s, v) == [s EXCEPT !.default = v]
Properties(m) == [Anything EXCEPT !.properties = m]

\* A case: the objects of a validator, the first being the root, and instances,
\* with the handler that collects errors, or with both.
Collecting(objects, instances) ==
  [graph |-> objects, rooted |-> TRUE, entries |-> "#" :> 1, initial |-> "#",
   handlers |-> {FALSE}, instances |-> instances]
Given(objects, instances) == [Collecting(objects, instances) EXCEPT !.handlers = BOOLEAN]

Limits == {NoLimit} \cup 0..2
-----------------------------------------------------------------------------
(***************************************************************************)
(* 1. Numbers.  A bound that is no integer is asked of "number" only, and  *)
(* integers that do not fit are compared by "number" only.                 *)
(***************************************************************************)
Bound(n) == IF n % 2 = 0 THEN [type |-> "integer", text |-> "", number |-> n]
            ELSE [type |-> "float", text |-> "", number |-> n]
Bounded(s, k, n) ==
  CASE k = "maximum" -> [s EXCEPT !.maximum = Bound(n)]
    [] k = "minimum" -> [s EXCEPT !.minimum = Bound(n)]
    [] k = "exclusiveMaximum" -> [s EXCEPT !.exclusiveMaximum = Bound(n)]
    [] k = "exclusiveMinimum" -> [s EXCEPT !.exclusiveMinimum = Bound(n)]
    [] k = "multipleOf" -> [s EXCEPT !.multipleOf = Bound(n)]
    [] k = "between" -> [s EXCEPT !.minimum = Bound(n), !.exclusiveMaximum = Bound(n + 2)]
Bounds == {"maximum", "minimum", "exclusiveMaximum", "exclusiveMinimum", "between"}
NumberTypes == {AllTypes, {"integer"}, {"number"}, {"integer", "number"}, {"string"}}
Numbers(types) ==
  {Num(n) : n \in {-4, -2, 0, 2, 4, 6}} \cup {Flo(n) : n \in {-3, -1, 1, 3, 5}}
  \cup (IF "number" \in types THEN {Flo(n) : n \in {-2, 0, 2}} ELSE {})
  \cup (IF "integer" \in types THEN {} ELSE {Big(n) : n \in {8, 10}})
Halves(types) == {n \in -3..4 : "integer" \in types => n % 2 = 0}
NumberCases ==
  UNION {{Collecting(<<Bounded(Of(types), k, n)>>, Numbers(types)) : k \in Bounds, n \in Halves(types)}
         \cup {Collecting(<<Bounded(Of(types), "multipleOf", n)>>, Numbers(types)) : n \in {2, 3, 4}}
           : types \in NumberTypes}

(***************************************************************************)
(* 2. Strings, types, enum and const.                                      *)
(***************************************************************************)
Texts == {Str(x) : x \in {"", "a", "ab"}} \cup {Bin(x) : x \in {"a", "b"}} \cup {Num(2)}
TextCases ==
  {Collecting(<<[Anything EXCEPT !.minLength = m, !.maxLength = n]>>, Texts) : m, n \in Limits}
  \cup {Collecting(<<[Anything EXCEPT !.content = c, !.pattern = x, !.format = f]>>, Texts) :
           c \in {NoLimit, {"a"}}, x \in {NoLimit, {"a", "b"}}, f \in {NoLimit, {"", "a"}}}

Samples == {Null, Bool, Str("a"), Num(2), Flo(2), Flo(3), Arr(<<>>), Obj(Nothing)}
TypeCases ==
  {Collecting(<<Of(types)>>, Samples) :
     types \in {t \in SUBSET AllTypes : Cardinality(t) <= 2 /\ ("integer" \in t => "number" \in t)}}
  \cup {Collecting(<<[Anything EXCEPT !.enum = v]>>, Samples) :
           v \in {{Num(2)}, {Flo(2), Str("a")}, {Obj(Nothing)}, {}}}
  \cup {Collecting(<<[Anything EXCEPT !.const = v]>>, Samples) : v \in {Num(2), Null, Arr(<<>>)}}
-----------------------------------------------------------------------------
(***************************************************************************)
(* 3. Combinations, of objects that add default values and may fail after  *)
(* or before they did, and that are combinations themselves.               *)
(***************************************************************************)
One == WithDefault(Anything, Num(2))
Pool ==
  <<Anything,                                                   \* 1: the root
    Always, Never,                                         \* 2, 3
    Properties("b" :> 9),                                  \* 4: adds b
    [Properties("c" :> 9) EXCEPT !.required = <<"a">>],    \* 5: adds c, may fail
    Logic("anyOf", <<5, 4>>),                              \* 6
    Logic("allOf", <<4, 5>>),                              \* 7
    Logic("oneOf", <<4, 5, 3>>),                           \* 8
    One,                                                   \* 9: a default value
    Logic("not", <<5>>),                                   \* 10
    [Anything EXCEPT !.if = 5, !.then = 4, !.else = 3]>>        \* 11
Root(s) == [Pool EXCEPT ![1] = s]
Objects == {Obj(Nothing), Obj("a" :> Num(2)), Obj("b" :> Null), Str("a")}
Subs == UNION {[1..n -> {2, 3, 4, 5}] : n \in 0..3}
        \cup UNION {[1..n -> {4, 5, 6, 7, 8, 10, 11}] : n \in 1..2}
LogicCases ==
  {Given(Root(Logic(role, subs)), Objects) : role \in {"allOf", "anyOf", "oneOf"}, subs \in Subs}
  \cup {Given(Root(Logic("not", <<i>>)), Objects) : i \in 2..8 \cup {10, 11}}
  \cup {Given(Root([Anything EXCEPT !.logic = <<[role |-> "anyOf", subs |-> <<i, j>>],
                                                [role |-> "allOf", subs |-> <<j, i>>]>>]), Objects) :
           i \in {3, 5}, j \in {4, 5}}
  \cup {Given(Root([Anything EXCEPT !.if = i, !.then = j, !.else = k]), Objects) :
           i \in {0, 2, 3, 4, 5, 8}, j \in {0, 3, 4, 5}, k \in {0, 2, 4, 6}}
-----------------------------------------------------------------------------
(***************************************************************************)
(* 4. Objects.                                                             *)
(***************************************************************************)
Inner == {Null, Num(2), Obj(Nothing)}
Records ==
  {Obj(Nothing)} \cup {Obj(k :> v) : k \in {"a", "b"}, v \in Inner}
  \cup {Obj("a" :> u @@ "c" :> v) : u \in {Null, Obj(Nothing)}, v \in {Num(2), Obj(Nothing)}}
Dependency(required, schema) == [required |-> required, schema |-> schema]
ObjectCases ==
  {Collecting(<<[Anything EXCEPT !.minProperties = m, !.maxProperties = n, !.required = r]>>, Records) :
     m, n \in Limits, r \in {<<>>, <<"a">>, <<"a", "c">>}}
  \cup {Given(Root([Properties("a" :> i) EXCEPT
                      !.patternProperties = <<[keys |-> keys, schema |-> j]>>,
                      !.additionalProperties = k]), Records) :
           i \in {2, 3, 4, 9}, j \in {3, 4, 5}, k \in {0, 3, 4}, keys \in {{}, {"a", "b"}}}
  \cup {Given(<<[Anything EXCEPT !.propertyNames = 2], [Anything EXCEPT !.pattern = x]>>, Records) :
           x \in {{"a"}, {"a", "c"}}}
  \cup {Given(Root([Anything EXCEPT !.dependencies = "a" :> Dependency(r, i)])
                \o <<[Anything EXCEPT !.minProperties = 2]>>, Records) :
           r \in {<<>>, <<"c">>, <<"a", "b">>}, i \in {0, 3, 12}}

(***************************************************************************)
(* 5. Arrays.  The schemas of a tuple, of "contains" and of dependencies   *)
(* have no default values here, see TupleCases.                            *)
(***************************************************************************)
Lists ==
  {Arr(<<>>)} \cup {Arr(<<u>>) : u \in {Num(2), Obj(Nothing)}}
  \cup {Arr(<<u, v>>) : u \in {Num(2), Str("a"), Obj(Nothing)}, v \in {Flo(2), Str("a")}}
  \cup {Arr(<<Num(2), Obj("a" :> Num(2)), Num(2)>>)}
ArrayPool == Pool \o <<Of({"string"}), Of({"number"})>>    \* 12, 13
ArrayRoot(s) == [ArrayPool EXCEPT ![1] = s]
ArrayCases ==
  {Collecting(<<[Anything EXCEPT !.minItems = m, !.maxItems = n, !.uniqueItems = u]>>, Lists) :
     m, n \in Limits, u \in BOOLEAN}
  \cup {Given(ArrayRoot([Anything EXCEPT !.items = i]), Lists) : i \in {2, 3, 4, 5, 8, 13}}
  \cup {Given(ArrayRoot([Anything EXCEPT !.tuple = t, !.additionalItems = i, !.contains = k]), Lists) :
           t \in {<<13>>, <<13, 12>>, <<2, 3>>}, i \in {0, 3, 12}, k \in {0, 12, 13}}
-----------------------------------------------------------------------------
(***************************************************************************)
(* 6. References, the root, and default values in several rounds.          *)
(***************************************************************************)
Deep == Obj("a" :> Obj("b" :> Null))
Chain(d) ==
  <<Properties("a" :> 2 @@ "b" :> 5), WithDefault(Ref(3), d), Ref(4),
    WithDefault(Properties("b" :> 5 @@ "c" :> 5), Obj(Nothing)), One>>
RefCases ==
  {Given(Chain(d), Records \cup {Deep}) : d \in {Null, Num(2), Obj("b" :> Num(4) @@ "c" :> Null)}}
  \cup {Given(<<Properties("a" :> 2 @@ "b" :> 3), Ref(0), WithDefault(Ref(0), Num(2))>>, Records),
        Given(<<Properties("a" :> 1 @@ "b" :> 2), One>>, Records \cup {Deep})}
RootCases ==
  {Given(<<WithDefault(s, d), Anything, WithDefault(Properties("c" :> 4), d), One>>,
         {Null, Obj(Nothing), Obj("a" :> Null), Obj("c" :> Obj(Nothing))}) :
     s \in {Properties("a" :> 4 @@ "b" :> 4), Ref(3), Of({"object"})},
     d \in {Null, Obj(Nothing), Obj("a" :> Null)}}
  \cup {[Given(<<Never, Anything>>, {Null, Num(2)}) EXCEPT
           !.rooted = r, !.entries = "#" :> 1 @@ "#/a" :> 2, !.initial = u] :
           r \in BOOLEAN, u \in {"#", "#/a", "x"}}

MCCorpus ==
  NumberCases \cup TextCases \cup TypeCases \cup LogicCases \cup ObjectCases
  \cup ArrayCases \cup RefCases \cup RootCases
\* None of them can be added to the wrong place.
ASSUME MCWellPlaced == \A c \in MCCorpus : WellPlaced(c)
\* All of them have a meaning, which nobody disputes except for the length of binary
\* data.
ASSUME MCGrounded == \A c \in MCCorpus : Grounded(c)
ASSUME MCUndisputed ==
  \A c \in MCCorpus \ TextCases : \A s \in Range(c.graph) : \A t \in c.instances :
    \A n \in Range(t) : Agreed(s, n)
-----------------------------------------------------------------------------
\* Left out above: the default values of the elements of a tuple.
TupleCases ==
  {Given(<<[Anything EXCEPT !.tuple = <<2, 3>>], Anything, Properties("a" :> 4), One>>,
         {Arr(<<Obj("a" :> Num(4)), Obj(Nothing)>>)})}
=============================================================================
