-------------------------- MODULE ValidationProofs --------------------------
(***************************************************************************)
(* The verdict and the patch of a call are what the schema means: for      *)
(* every graph of schema objects and every instance within the hypotheses  *)
(* Grounded, Undisputed and WellPlaced.                                    *)
(***************************************************************************)
EXTENDS ValidationMeaning, ValidatorProofs

(***************************************************************************)
(* The values that are validated.                                          *)
(***************************************************************************)

\* Members of parts of the instance are parts of it, and so are their keys.
LEMMA PartsClosed ==
  ASSUME IsDocument(instance), NEW t \in Parts
  PROVE  /\ IsDocument(t)
         /\ \A k \in Members(t, <<>>) : k \in Token /\ At(t, k) \in Parts /\ TextValue(k) \in Parts
<1>1. CASE \E k \in Token : t = TextValue(k)
  <2>1. PICK k \in Token : t = TextValue(k)
    BY <1>1
  <2>2. IsDocument(t) /\ Kind(t) = "string"
    BY <2>1, TextDocument
  <2>3. Members(t, <<>>) = {}
    BY <2>2, MembersOfDocument
  <2> QED BY <2>2, <2>3
<1>2. CASE \E p \in DOMAIN instance : t = Subtree(instance, p)
  <2>1. PICK p \in DOMAIN instance : t = Subtree(instance, p)
    BY <1>2
  <2>2. IsDocument(t) /\ IsTree(instance, Token, Node) /\ p \in Seq(Token)
    BY <2>1, SubtreeDocument, DocumentTree
  <2>3. ASSUME NEW k \in Members(t, <<>>) PROVE k \in Token /\ At(t, k) \in Parts
    <3>1. k \in Token /\ Append(p, k) \in DOMAIN instance
      BY <2>1, <2>2, <2>3, MembersOfSubtree
    <3>2. <<k>> \in Seq(Token) /\ p \o <<k>> = Append(p, k)
      BY <2>2, <3>1
    <3>3. At(t, k) = Subtree(instance, Append(p, k))
      BY <2>1, <2>2, <3>2, DocumentPart, ZenonT(30) DEF At
    <3> QED BY <3>1, <3>3 DEF Parts
  <2>4. \A k \in Token : TextValue(k) \in Parts
    BY DEF Parts
  <2> QED BY <2>2, <2>3, <2>4
<1> QED
  BY <1>1, <1>2 DEF Parts

\* The first node of a part is one of the instance, if it is no string.
LEMMA PartNode ==
  ASSUME IsDocument(instance), NEW t \in Parts, Kind(t) # "string"
  PROVE  \E p \in DOMAIN instance : t[<<>>] = instance[p]
<1>1. PICK p \in DOMAIN instance : t = Subtree(instance, p)
  BY TextDocument DEF Parts
<1> QED
  BY <1>1, SubtreeDocument

Extent(t) == Cardinality(DOMAIN t)

\* A member, and its key, are smaller than the value.
LEMMA SmallerParts ==
  ASSUME NEW t, IsDocument(t)
  PROVE  /\ Extent(t) \in Nat
         /\ \A k \in Members(t, <<>>) : Extent(At(t, k)) < Extent(t) /\ Extent(TextValue(k)) < Extent(t)
<1> DEFINE U == DOMAIN t \ {<<>>}
<1>1. IsFiniteSet(U) /\ Cardinality(U) = Extent(t) - 1 /\ Extent(t) \in Nat
  <2>1. IsFiniteSet(DOMAIN t) /\ <<>> \in DOMAIN t
    BY DEF IsDocument
  <2> QED BY <2>1, FS_RemoveElement, FS_CardinalityType DEF Extent
<1> SUFFICES ASSUME NEW k \in Members(t, <<>>)
             PROVE  Extent(At(t, k)) < Extent(t) /\ Extent(TextValue(k)) < Extent(t)
  BY <1>1
<1>2. IsDocument(At(t, k)) /\ k \in Token /\ <<k>> \in U /\ IsTree(t, Token, Node) /\ <<k>> \in Seq(Token)
  BY MemberDocument, MembersOfDocument, DocumentTree
<1>3. Extent(At(t, k)) <= Cardinality(U)
  <2> DEFINE A == DOMAIN At(t, k)
             f == [q \in A |-> <<k>> \o q]
  <2>1. \A q \in A : q \in Seq(Token) /\ <<k>> \o q \in DOMAIN t
    BY <1>2, SubtreeNodes DEF At
  <2>2. \A q \in A : <<k>> \o q # <<>>
    BY <1>2, <2>1
  <2>3. \A q, r \in A : <<k>> \o q = <<k>> \o r => q = r
    <3> SUFFICES ASSUME NEW q \in A, NEW r \in A, <<k>> \o q = <<k>> \o r PROVE q = r
      BY Zenon
    <3>1. q \in Seq(Token) /\ r \in Seq(Token)
      BY <2>1
    <3>2. \A x \in Seq(Token) : Rest(<<k>> \o x, Len(<<k>>)) = x
      <4>1. PICK p \in Seq(Token) : p = <<k>>
        BY <1>2
      <4>2. \A x \in Seq(Token) : Rest(p \o x, Len(p)) = x
        BY PrefixAndRest
      <4> QED BY <4>1, <4>2, Zenon
    <3> QED BY <3>1, <3>2
  <2>4. f \in [A -> U] /\ \A q \in A : f[q] = <<k>> \o q
    BY <2>1, <2>2
  <2> HIDE DEF f, A, U
  <2>5. f \in Injection(A, U)
    BY <2>3, <2>4 DEF Injection, IsInjective
  <2> QED BY <1>1, <2>5, FS_Injection DEF Extent, A
<1>4. Extent(TextValue(k)) = 1
  <2>1. DOMAIN TextValue(k) = {<<>>}
    BY DEF TextValue
  <2> QED BY <2>1, FS_Singleton DEF Extent
<1>5. Cardinality(U) \in Nat /\ Cardinality(U) # 0
  <2> HIDE DEF U
  <2> QED BY <1>1, <1>2, FS_CardinalityType, FS_EmptySet
<1>6. Extent(At(t, k)) \in Nat
  BY <1>2, FS_CardinalityType DEF Extent, IsDocument
<1> QED
  BY <1>1, <1>3, <1>4, <1>5, <1>6
-----------------------------------------------------------------------------
(***************************************************************************)
(* The meaning is well-founded.                                            *)
(***************************************************************************)
Pairs == (DOMAIN graph) \X Parts
Lower == [x \in Pairs |-> {y \in Pairs : \/ Extent(y[2]) < Extent(x[2])
                                         \/ y[2] = x[2] /\ y[1] \in Beside(graph[x[1]])}]

\* A schema and a value, as they are in a run.
Posed(i, t) ==
  /\ validator \in Corpus /\ IsDocument(instance)
  /\ i \in DOMAIN graph /\ t \in Parts

\* Among pairs of a schema and a value there is always a lowest one.
LEMMA PairsGrounded ==
  ASSUME IsDocument(instance), Grounded(validator)
  PROVE  Grounds(Pairs, Lower)
<1> SUFFICES ASSUME NEW T \in SUBSET Pairs, T # {} PROVE \E s \in T : Lower[s] \cap T = {}
  BY DEF Grounds
<1> DEFINE N == {Extent(x[2]) : x \in T}
<1>1. N \in SUBSET Nat /\ N # {}
  <2>1. \A x \in T : Extent(x[2]) \in Nat
    <3> SUFFICES ASSUME NEW x \in T PROVE Extent(x[2]) \in Nat
      OBVIOUS
    <3>1. x[2] \in Parts
      BY DEF Pairs
    <3> QED BY <3>1, PartsClosed, SmallerParts
  <2> QED BY <2>1
<1>2. PICK m \in N : \A n \in N : m <= n
  <2> HIDE DEF N
  <2> QED BY <1>1, Least
<1>3. PICK x \in T : Extent(x[2]) = m
  BY <1>2
<1> DEFINE t == x[2]
           S == {i \in DOMAIN graph : <<i, t>> \in T}
<1>4. x[1] \in S
  BY DEF Pairs
<1>5. PICK i \in S : Beside(graph[i]) \cap S = {}
  <2>1. S \in SUBSET DOMAIN validator.graph
    BY DEF graph
  <2> HIDE DEF S
  <2> QED BY <1>4, <2>1 DEF Grounded, graph
<1>6. <<i, t>> \in T /\ <<i, t>> \in Pairs
  BY <1>5
<1>7. Lower[<<i, t>>] = {y \in Pairs : Extent(y[2]) < Extent(t) \/ (y[2] = t /\ y[1] \in Beside(graph[i]))}
  BY <1>6 DEF Lower
<1>8. ASSUME NEW y \in T PROVE y \notin Lower[<<i, t>>]
  <2>1. y \in Pairs /\ y = <<y[1], y[2]>> /\ y[1] \in DOMAIN graph
    BY DEF Pairs
  <2>2. m <= Extent(y[2]) /\ Extent(y[2]) \in Nat /\ m \in Nat /\ Extent(t) = m
    BY <1>1, <1>2, <1>3
  <2>3. ~(Extent(y[2]) < Extent(t))
    BY <2>2
  <2>4. y[2] = t => y[1] \in S
    BY <2>1
  <2> HIDE DEF S, t, N
  <2> QED BY <1>5, <1>7, <2>3, <2>4
<1> QED
  BY <1>6, <1>8
-----------------------------------------------------------------------------
(***************************************************************************)
(* What a schema asks, it asks schemas of the validator, about what is     *)
(* lower.                                                                  *)
(***************************************************************************)

\* The schemas a schema asks are those of the validator.
LEMMA AskedSchemas ==
  ASSUME NEW i, validator \in Corpus, i \in DOMAIN graph
  PROVE  /\ \A k : Applying(graph[i], k) \subseteq DOMAIN graph
         /\ \A k \in Nat \ {0} : ItemSchema(graph[i], k) \subseteq DOMAIN graph
         /\ {graph[i].target, graph[i].if, graph[i].then, graph[i].else, graph[i].propertyNames,
             graph[i].contains, graph[i].additionalProperties} \subseteq DOMAIN graph \cup {0}
         /\ \A k \in DOMAIN graph[i].dependencies :
              graph[i].dependencies[k].schema \in DOMAIN graph \cup {0}
         /\ \A k \in DOMAIN graph[i].logic :
              /\ graph[i].logic[k].subs \in Seq(DOMAIN graph)
              /\ graph[i].logic[k].role \in {"not", "allOf", "anyOf", "oneOf"}
         /\ 0 \notin DOMAIN graph
<1> DEFINE s == graph[i]
<1>1. IsSchema(s, DOMAIN graph) /\ 0 \notin DOMAIN graph
  BY SchemaObjects
<1> HIDE DEF s
<1>2. /\ \A k \in DOMAIN s.properties : s.properties[k] \in DOMAIN graph
      /\ \A k \in DOMAIN s.patternProperties : s.patternProperties[k].schema \in DOMAIN graph
  BY PropertyCallees DEF s
<1>3. {s.target, s.if, s.then, s.else, s.additionalProperties, s.propertyNames,
       s.items, s.additionalItems, s.contains} \subseteq DOMAIN graph \cup {0}
  BY <1>1 DEF IsSchema
<1>4. \A k : Applying(s, k) \subseteq DOMAIN graph
  BY <1>2, <1>3 DEF Applying
<1>5. s.tuple \in Seq(DOMAIN graph)
  BY <1>1 DEF IsSchema
<1>6. ASSUME NEW k \in Nat \ {0} PROVE ItemSchema(s, k) \subseteq DOMAIN graph
  <2>1. k <= Len(s.tuple) => s.tuple[k] \in DOMAIN graph
    BY <1>5
  <2> QED BY <1>3, <2>1 DEF ItemSchema
<1>7. \A k \in DOMAIN s.dependencies : s.dependencies[k].schema \in DOMAIN graph \cup {0}
  <2> SUFFICES ASSUME NEW k \in DOMAIN s.dependencies PROVE s.dependencies[k].schema \in DOMAIN graph \cup {0}
    OBVIOUS
  <2>1. s.dependencies[k] \in [required : Seq(Token), schema : DOMAIN graph \cup {0}]
    BY <1>1 DEF IsSchema
  <2> QED BY <2>1
<1>8. \A k \in DOMAIN s.logic :
              /\ s.logic[k].subs \in Seq(DOMAIN graph)
              /\ s.logic[k].role \in {"not", "allOf", "anyOf", "oneOf"}
  <2> DEFINE E == [role : {"not", "allOf", "anyOf", "oneOf"}, subs : Seq(DOMAIN graph)]
  <2>1. s.logic \in Seq(E)
    BY <1>1 DEF IsSchema
  <2> SUFFICES ASSUME NEW k \in DOMAIN s.logic
               PROVE  /\ s.logic[k].subs \in Seq(DOMAIN graph)
                      /\ s.logic[k].role \in {"not", "allOf", "anyOf", "oneOf"}
    OBVIOUS
  <2>2. s.logic[k] \in E
    <3> HIDE DEF E
    <3> QED BY <2>1, ElementOfSeq
  <2> QED BY <2>2
<1> QED
  BY <1>1, <1>3, <1>4, <1>6, <1>7, <1>8 DEF s

\* g and h agree on what is lower than schema i and the value t.
SameBelow(g, h, i, t) ==
  \A j \in DOMAIN graph, u \in Parts :
    Extent(u) < Extent(t) \/ (u = t /\ j \in Beside(graph[i])) => g[<<j, u>>] = h[<<j, u>>]

SameOfMembers(g, h, t) ==
  \A k \in Members(t, <<>>), j \in DOMAIN graph :
    g[<<j, At(t, k)>>] = h[<<j, At(t, k)>>] /\ g[<<j, TextValue(k)>>] = h[<<j, TextValue(k)>>]
SameBeside(g, h, s, t) == \A j \in Beside(s) : j # 0 => g[<<j, t>>] = h[<<j, t>>]

\* What is asked about members is lower, and so is what is asked beside.
LEMMA LowerValues ==
  ASSUME NEW i, NEW t, Posed(i, t), NEW g, NEW h, SameBelow(g, h, i, t)
  PROVE  SameOfMembers(g, h, t) /\ SameBeside(g, h, graph[i], t)
<1>1. IsDocument(t) /\ t \in Parts
      /\ \A k \in Members(t, <<>>) : At(t, k) \in Parts /\ TextValue(k) \in Parts
  BY PartsClosed DEF Posed
<1>2. \A k \in Members(t, <<>>) : Extent(At(t, k)) < Extent(t) /\ Extent(TextValue(k)) < Extent(t)
  BY <1>1, SmallerParts
<1>3. \A j \in Beside(graph[i]) : j # 0 => j \in DOMAIN graph
  <2>1. \A k \in DOMAIN graph[i].logic : Range(graph[i].logic[k].subs) \subseteq DOMAIN graph
    <3> SUFFICES ASSUME NEW k \in DOMAIN graph[i].logic
                 PROVE  Range(graph[i].logic[k].subs) \subseteq DOMAIN graph
      OBVIOUS
    <3>1. graph[i].logic[k].subs \in Seq(DOMAIN graph)
      BY AskedSchemas DEF Posed
    <3> QED BY <3>1 DEF Range
  <2> QED BY <2>1, AskedSchemas DEF Posed, Beside
<1> QED
  BY <1>1, <1>2, <1>3 DEF SameBelow, SameOfMembers, SameBeside

\* The elements of an array.
LEMMA ArrayItems ==
  ASSUME NEW t, IsDocument(t)
  PROVE  /\ Size(t) \in Nat /\ DOMAIN Keys(t) = 1..Size(t)
         /\ \A n \in 1..Size(t) : Keys(t)[n] \in Members(t, <<>>) /\ Item(t, n) = At(t, Keys(t)[n])
<1>1. Sequence(Keys(t)) /\ Range(Keys(t)) = Members(t, <<>>)
  BY KeysOfDocument
<1>2. DOMAIN Keys(t) = 1..Size(t)
  BY DEF Keys, Sorted, Size
<1>3. Size(t) \in Nat
  BY MembersOfDocument, FS_CardinalityType DEF Size
<1> QED
  BY <1>1, <1>2, <1>3 DEF Range, Item

\* Whether an object is valid depends on what is lower.
LEMMA ObjectLocal ==
  ASSUME NEW i, NEW t, Posed(i, t), NEW g, NEW h, SameBelow(g, h, i, t)
  PROVE  ValidObject(g, graph[i], t) <=> ValidObject(h, graph[i], t)
<1> DEFINE s == graph[i]
           M == Members(t, <<>>)
<1>0. /\ \A k \in M, j \in DOMAIN graph :
              g[<<j, At(t, k)>>] = h[<<j, At(t, k)>>] /\ g[<<j, TextValue(k)>>] = h[<<j, TextValue(k)>>]
      /\ \A k : Applying(s, k) \subseteq DOMAIN graph
      /\ s.propertyNames \in DOMAIN graph \cup {0}
  BY LowerValues, AskedSchemas DEF Posed, SameOfMembers
<1>1. \A k \in M : \A j \in Applying(s, k) : g[<<j, At(t, k)>>] = h[<<j, At(t, k)>>]
  BY <1>0
<1>2. \A k \in M : s.propertyNames # 0 =>
        g[<<s.propertyNames, TextValue(k)>>] = h[<<s.propertyNames, TextValue(k)>>]
  <2> HIDE DEF M, s
  <2> QED BY <1>0
<1>3. \A k \in M \cap DOMAIN s.dependencies :
        s.dependencies[k].schema # 0 =>
          g[<<s.dependencies[k].schema, t>>] = h[<<s.dependencies[k].schema, t>>]
  <2>1. \A k \in DOMAIN s.dependencies : s.dependencies[k].schema \in Beside(s)
    BY DEF Beside
  <2> QED BY <2>1, LowerValues DEF SameBeside
<1> HIDE DEF s
<1> QED
  BY <1>1, <1>2, <1>3 DEF ValidObject, s

\* Whether an array is valid depends on what is lower.
LEMMA ArrayLocal ==
  ASSUME NEW i, NEW t, Posed(i, t), NEW g, NEW h, SameBelow(g, h, i, t)
  PROVE  ValidArray(g, graph[i], t) <=> ValidArray(h, graph[i], t)
<1> DEFINE s == graph[i]
<1>1. Size(t) \in Nat /\ \A n \in 1..Size(t) : Keys(t)[n] \in Members(t, <<>>) /\ Item(t, n) = At(t, Keys(t)[n])
  BY ArrayItems, PartsClosed DEF Posed
<1>2. \A n \in 1..Size(t) : \A j \in DOMAIN graph : g[<<j, Item(t, n)>>] = h[<<j, Item(t, n)>>]
  <2>1. SameOfMembers(g, h, t)
    BY LowerValues
  <2> QED BY <1>1, <2>1 DEF SameOfMembers
<1>3. \A n \in 1..Size(t) : ItemSchema(s, n) \subseteq DOMAIN graph
  BY <1>1, AskedSchemas DEF Posed
<1>4. s.contains # 0 => s.contains \in DOMAIN graph
  BY AskedSchemas DEF Posed
<1> HIDE DEF s
<1> QED
  BY <1>1, <1>2, <1>3, <1>4 DEF ValidArray, s

\* What combinations and conditions say depends on what is asked beside.
SameLogic(g, h, s, t) ==
  /\ \A k \in DOMAIN s.logic : Passing(g, s.logic[k].subs, t) = Passing(h, s.logic[k].subs, t)
  /\ s.if # 0 => /\ Branch(g, s, t) = Branch(h, s, t)
                 /\ ValidIf(g, s, t) <=> ValidIf(h, s, t)
  /\ s.target # 0 => g[<<s.target, t>>] = h[<<s.target, t>>]

\* Schemas asked beside a schema are lower: combinations and "if" do not tell g from h.
LEMMA LogicLocal ==
  ASSUME NEW i, NEW t, Posed(i, t), NEW g, NEW h, SameBelow(g, h, i, t)
  PROVE  SameLogic(g, h, graph[i], t)
<1> DEFINE s == graph[i]
<1>1. \A j \in Beside(s) : j # 0 => g[<<j, t>>] = h[<<j, t>>]
  BY LowerValues DEF SameBeside
<1>2. ASSUME NEW k \in DOMAIN s.logic
      PROVE  Passing(g, s.logic[k].subs, t) = Passing(h, s.logic[k].subs, t)
  <2>1. Range(s.logic[k].subs) \subseteq Beside(s)
    BY DEF Beside
  <2>2. \A n \in DOMAIN s.logic[k].subs : s.logic[k].subs[n] \in DOMAIN graph /\ s.logic[k].subs[n] \in Beside(s)
    <3>1. s.logic[k].subs \in Seq(DOMAIN graph)
      BY AskedSchemas DEF Posed
    <3> QED BY <2>1, <3>1 DEF Range
  <2>3. 0 \notin DOMAIN graph
    BY AskedSchemas DEF Posed
  <2> HIDE DEF s
  <2> QED BY <1>1, <2>2, <2>3 DEF Passing
<1>3. {s.target, s.if, s.then, s.else} \subseteq Beside(s)
  BY DEF Beside
<1>4. s.target # 0 => g[<<s.target, t>>] = h[<<s.target, t>>]
  BY <1>1, <1>3
<1>5. s.if # 0 => /\ Branch(g, s, t) = Branch(h, s, t)
                  /\ ValidIf(g, s, t) <=> ValidIf(h, s, t)
  <2> SUFFICES ASSUME s.if # 0 PROVE /\ Branch(g, s, t) = Branch(h, s, t)
                                     /\ ValidIf(g, s, t) <=> ValidIf(h, s, t)
    OBVIOUS
  <2>1. Branch(g, s, t) = Branch(h, s, t) /\ Branch(h, s, t) \in {s.then, s.else}
    BY <1>1, <1>3 DEF Branch
  <2> QED BY <1>1, <1>3, <2>1 DEF ValidIf
<1> QED
  BY <1>2, <1>4, <1>5 DEF SameLogic

\* Whether a value is valid for a schema depends on what is lower.
LEMMA ValidLocal ==
  ASSUME NEW i, NEW t, Posed(i, t), NEW g, NEW h, SameBelow(g, h, i, t)
  PROVE  ValidSchema(g, graph[i], t) <=> ValidSchema(h, graph[i], t)
<1> DEFINE s == graph[i]
<1>0. SameLogic(g, h, s, t)
  BY LogicLocal
<1>1. ValidType(g, s, t) <=> ValidType(h, s, t)
  BY ObjectLocal, ArrayLocal DEF ValidType
<1>2. ASSUME NEW k \in DOMAIN s.logic
      PROVE  ValidLogic(g, s.logic[k].role, s.logic[k].subs, t) <=> ValidLogic(h, s.logic[k].role, s.logic[k].subs, t)
  <2>1. Passing(g, s.logic[k].subs, t) = Passing(h, s.logic[k].subs, t)
    BY <1>0 DEF SameLogic
  <2> QED BY <2>1, Zenon DEF ValidLogic
<1>3. s.if # 0 => (ValidIf(g, s, t) <=> ValidIf(h, s, t))
  BY <1>0 DEF SameLogic
<1>4. s.target # 0 => g[<<s.target, t>>] = h[<<s.target, t>>]
  BY <1>0 DEF SameLogic
<1>5. s.kind \in {"type", "boolean", "ref"}
  BY SchemaObjects DEF Posed, IsSchema
<1> HIDE DEF s
<1> QED
  BY <1>1, <1>2, <1>3, <1>4, <1>5 DEF ValidSchema, s

\* What is lower than a pair, said of schema and value.
LEMMA LowerSame ==
  ASSUME NEW x \in Pairs, NEW g, NEW h, \A y \in Lower[x] : g[y] = h[y]
  PROVE  SameBelow(g, h, x[1], x[2])
<1> SUFFICES ASSUME NEW j \in DOMAIN graph, NEW u \in Parts,
                    Extent(u) < Extent(x[2]) \/ (u = x[2] /\ j \in Beside(graph[x[1]]))
             PROVE  g[<<j, u>>] = h[<<j, u>>]
  BY DEF SameBelow
<1> DEFINE y == <<j, u>>
<1>1. y \in Pairs /\ y[1] = j /\ y[2] = u
  BY DEF Pairs
<1> HIDE DEF y
<1>2. y \in Lower[x]
  BY <1>1 DEF Lower
<1> QED
  BY <1>2 DEF y

\* A value is valid for a schema or not.
LEMMA VerdictBoolean ==
  ASSUME validator \in Corpus, NEW g, NEW x \in Pairs
  PROVE  ValidSchema(g, graph[x[1]], x[2]) \in BOOLEAN
<1> DEFINE s == graph[x[1]]
<1>1. x[1] \in DOMAIN graph
  BY DEF Pairs
<1>2. s.accepts \in BOOLEAN /\ s.kind \in {"type", "boolean", "ref"}
  BY <1>1, SchemaObjects DEF IsSchema, HasLimits
<1> HIDE DEF s
<1>3. ValidSchema(g, s, x[2]) \in BOOLEAN
  BY <1>2 DEF ValidSchema
<1> QED
  BY <1>3 DEF s

\* The recursive function Valid, as the equation it satisfies.
LEMMA ValidRule ==
  ASSUME validator \in Corpus, IsDocument(instance), Grounded(validator)
  PROVE  /\ Valid \in [Pairs -> BOOLEAN]
         /\ \A i \in DOMAIN graph, t \in Parts : Valid[<<i, t>>] <=> ValidSchema(Valid, graph[i], t)
<1> DEFINE F == [Pairs -> BOOLEAN]
           step == [g \in F |-> [x \in Pairs |-> ValidSchema(g, graph[x[1]], x[2])]]
<1>1. \A g \in F : \A x \in Pairs : ValidSchema(g, graph[x[1]], x[2]) \in BOOLEAN
  BY VerdictBoolean
<1>2. step \in [F -> F]
  BY <1>1
<1>3. Lower \in [Pairs -> SUBSET Pairs]
  BY DEF Lower
<1>4. DependsOn(step, Pairs, BOOLEAN, Lower)
  <2> SUFFICES ASSUME NEW g \in F, NEW h \in F, NEW x \in Pairs, \A y \in Lower[x] : g[y] = h[y]
               PROVE  step[g][x] = step[h][x]
    BY Zenon DEF DependsOn
  <2>1. SameBelow(g, h, x[1], x[2])
    BY LowerSame
  <2>2. Posed(x[1], x[2])
    BY DEF Posed, Pairs
  <2>3. ValidSchema(g, graph[x[1]], x[2]) <=> ValidSchema(h, graph[x[1]], x[2])
    BY <2>1, <2>2, ValidLocal
  <2>4. ValidSchema(g, graph[x[1]], x[2]) \in BOOLEAN /\ ValidSchema(h, graph[x[1]], x[2]) \in BOOLEAN
    BY <1>1
  <2>5. step[g][x] = ValidSchema(g, graph[x[1]], x[2]) /\ step[h][x] = ValidSchema(h, graph[x[1]], x[2])
    OBVIOUS
  <2> HIDE DEF step
  <2> QED BY <2>3, <2>4, <2>5
<1>5. Grounds(Pairs, Lower)
  BY PairsGrounded
<1> HIDE DEF step
<1>6. PICK f \in F : Solves(f, step)
  <2>1. \E b : b \in BOOLEAN
    OBVIOUS
  <2> QED BY <1>2, <1>3, <1>4, <1>5, <2>1, GroundedRecursion
<1>7. f = [x \in Pairs |-> ValidSchema(f, graph[x[1]], x[2])]
  BY <1>6 DEF Solves, step
<1>8. Valid = [x \in Pairs |-> ValidSchema(Valid, graph[x[1]], x[2])]
  BY <1>7, Zenon DEF Valid, Pairs
<1>9. ASSUME NEW i \in DOMAIN graph, NEW t \in Parts
      PROVE  Valid[<<i, t>>] = ValidSchema(Valid, graph[i], t)
  <2> DEFINE x == <<i, t>>
  <2>1. x \in Pairs /\ x[1] = i /\ x[2] = t
    BY DEF Pairs
  <2> HIDE DEF x
  <2>2. Valid[x] = ValidSchema(Valid, graph[x[1]], x[2])
    BY <1>8, <2>1, Zenon
  <2> QED BY <2>1, <2>2 DEF x
<1>10. Valid \in [Pairs -> BOOLEAN]
  <2>1. \A x \in Pairs : ValidSchema(Valid, graph[x[1]], x[2]) \in BOOLEAN
    BY VerdictBoolean
  <2> DEFINE V == Valid
  <2>2. V = [x \in Pairs |-> ValidSchema(V, graph[x[1]], x[2])]
    BY <1>8
  <2> HIDE DEF V
  <2> QED BY <2>1, <2>2 DEF V
<1> QED
  BY <1>9, <1>10
-----------------------------------------------------------------------------
(***************************************************************************)
(* The default value of a schema object.                                   *)
(***************************************************************************)

\* The recursive function Holder, as the equation it satisfies.
LEMMA HolderRule ==
  ASSUME validator \in Corpus, Grounded(validator)
  PROVE  /\ Holder \in [DOMAIN graph -> DOMAIN graph]
         /\ \A i \in DOMAIN graph : Holder[i] = IF Onward(i) = i THEN i ELSE Holder[Onward(i)]
         /\ \A i \in DOMAIN graph : Onward(i) # i => Onward(i) \in Beside(graph[i])
<1> DEFINE G == DOMAIN graph
           F == [G -> G]
           asks(i) == IsNull(graph[i].default) /\ graph[i].kind = "ref" /\ graph[i].target # 0
           below == [i \in G |-> {graph[i].target} \cap G]
           step == [g \in F |-> [i \in G |-> IF asks(i) THEN g[graph[i].target] ELSE i]]
<1>1. \A i \in G : asks(i) => graph[i].target \in G
  BY SchemaObjects DEF IsSchema
<1>2. Grounds(G, below)
  <2> SUFFICES ASSUME NEW T \in SUBSET G, T # {} PROVE \E s \in T : below[s] \cap T = {}
    BY Zenon DEF Grounds
  <2>1. PICK s \in T : Beside(graph[s]) \cap T = {}
    BY DEF Grounded, graph
  <2> QED BY <2>1 DEF Beside
<1> HIDE DEF asks
<1>3. step \in [F -> F]
  BY <1>1
<1>4. DependsOn(step, G, G, below)
  <2> SUFFICES ASSUME NEW g \in F, NEW h \in F, NEW i \in G, \A y \in below[i] : g[y] = h[y]
               PROVE  step[g][i] = step[h][i]
    BY Zenon DEF DependsOn
  <2> QED BY <1>1
<1>5. below \in [G -> SUBSET G]
  OBVIOUS
<1> HIDE DEF step, below
<1>6. CASE G = {}
  <2> DEFINE H == [i \in G |-> IF asks(i) THEN Holder[graph[i].target] ELSE i]
  <2>1. \E f : f = [i \in G |-> IF asks(i) THEN f[graph[i].target] ELSE i]
    <3> DEFINE e == [i \in {} |-> i]
    <3>1. e = [i \in G |-> IF asks(i) THEN e[graph[i].target] ELSE i]
      BY <1>6
    <3> QED BY <3>1
  <2>2. Holder = [i \in G |-> IF asks(i) THEN Holder[graph[i].target] ELSE i]
    BY <2>1 DEF Holder, asks
  <2>3. DOMAIN Holder = G /\ Holder = [i \in G |-> Holder[i]]
    BY <2>2
  <2> QED BY <1>6, <2>3
<1>7. CASE G # {}
  <2>1. PICK f \in F : Solves(f, step)
    <3>1. \E b : b \in G
      BY <1>7
    <3> HIDE DEF G
    <3> QED BY <1>2, <1>3, <1>4, <1>5, <3>1, GroundedRecursion
  <2>2. f = [i \in G |-> IF asks(i) THEN f[graph[i].target] ELSE i]
    BY <2>1 DEF Solves, step
  <2>3. Holder = [i \in G |-> IF asks(i) THEN Holder[graph[i].target] ELSE i]
    BY <2>2 DEF Holder, asks
  <2>4. Holder \in F
    <3> DEFINE T == {i \in G : Holder[i] \notin G}
    <3>1. CASE T = {}
      <4>1. Holder = [i \in G |-> Holder[i]]
        BY <2>3
      <4> QED BY <3>1, <4>1
    <3>2. CASE T # {}
      <4>1. PICK i \in T : below[i] \cap T = {}
        BY <1>2, <3>2 DEF Grounds
      <4>2. asks(i) => graph[i].target \in below[i] /\ graph[i].target \in G
        BY <1>1 DEF below
      <4>3. asks(i) => Holder[graph[i].target] \in G
        BY <4>1, <4>2
      <4> QED BY <2>3, <4>1, <4>3
    <3> QED BY <3>1, <3>2
  <2>5. \A i \in G : Holder[i] = IF Onward(i) = i THEN i ELSE Holder[Onward(i)]
    <3> SUFFICES ASSUME NEW i \in G PROVE Holder[i] = IF Onward(i) = i THEN i ELSE Holder[Onward(i)]
      OBVIOUS
    <3>1. Holder[i] = IF asks(i) THEN Holder[graph[i].target] ELSE i
      BY <2>3, Zenon
    <3>2. Onward(i) = IF asks(i) THEN graph[i].target ELSE i
      BY DEF asks, Onward
    <3>3. asks(i) => graph[i].target # i
      <4>1. PICK j \in {i} : below[j] \cap {i} = {}
        BY <1>2 DEF Grounds
      <4> QED BY <4>1, <1>1 DEF below
    <3> QED BY <3>1, <3>2, <3>3
  <2> QED BY <2>4, <2>5 DEF Onward, Beside
<1> QED
  BY <1>6, <1>7

\* default_value() finds the object that has the default value.
LEMMA DefaultingHolder ==
  ASSUME validator \in Corpus, Grounded(validator), NEW i \in DOMAIN graph
  PROVE  Defaulting(i) = graph[Holder[i]]
<1> DEFINE N == Cardinality(DOMAIN graph)
<1>1. PICK g : Follows(g, i, N)
  BY DefaultingFollows
<1>2. IsFiniteSet(DOMAIN graph) /\ N \in Nat
  BY SchemaObjects, FS_CardinalityType
<1>3. N = Cardinality(DOMAIN graph)
  OBVIOUS
<1> HIDE DEF N
<1>4. /\ g \in [0..N -> DOMAIN graph] /\ g[0] = i /\ Defaulting(i) = graph[g[N]]
      /\ \A n \in 0..(N - 1) : g[n + 1] = Onward(g[n])
  <2>1. \A n \in 0..(N - 1) : n + 1 \in 0..N /\ n + 1 # 0 /\ (n + 1) - 1 = n
    BY <1>2
  <2> QED BY <1>1, <1>2, <2>1 DEF Follows
<1>5. Holder[g[N]] = Holder[i]
  <2> DEFINE S == {n \in 0..N : Holder[g[n]] = Holder[i]}
  <2>1. 0 \in S
    BY <1>2, <1>4
  <2>2. ASSUME NEW n \in 0..(N - 1), n \in S PROVE n + 1 \in S
    <3>1. n \in 0..N /\ n + 1 \in 0..N /\ g[n + 1] = Onward(g[n]) /\ g[n] \in DOMAIN graph
      BY <1>2, <1>4
    <3>2. Holder[g[n]] = IF Onward(g[n]) = g[n] THEN g[n] ELSE Holder[Onward(g[n])]
      BY <3>1, HolderRule
    <3> QED BY <2>2, <3>1, <3>2
  <2> HIDE DEF S
  <2>3. 0..N \subseteq S
    BY <1>2, <2>1, <2>2, UpTo
  <2> QED BY <1>2, <2>3 DEF S
<1>6. Onward(g[N]) = g[N]
  <2> SUFFICES ASSUME Onward(g[N]) # g[N] PROVE FALSE
    OBVIOUS
  <2>1. ASSUME NEW m \in 0..N PROVE Onward(g[m]) # g[m]
    <3> SUFFICES ASSUME Onward(g[m]) = g[m] PROVE FALSE
      OBVIOUS
    <3> DEFINE S == {n \in 0..N : g[n] = g[m]}
    <3>1. m \in S
      OBVIOUS
    <3>2. ASSUME NEW n \in m..(N - 1), n \in S PROVE n + 1 \in S
      BY <1>2, <1>4, <2>1, <3>2
    <3> HIDE DEF S
    <3>3. m..N \subseteq S
      <4>1. m \in Nat
        BY <1>2
      <4> QED BY <1>2, <3>1, <3>2, <4>1, UpTo
    <3> QED BY <1>2, <3>3, <2>1 DEF S
  <2>2. PICK x \in 0..N, y \in 0..N : x < y /\ g[x] = g[y]
    <3>1. IsFiniteSet(0..N) /\ Cardinality(0..N) = N + 1
      BY <1>2, FS_Interval
    <3>2. \E x, y \in 0..N : x # y /\ g[x] = g[y]
      BY <1>2, <1>3, <1>4, <3>1, FS_PigeonHole
    <3> QED BY <1>2, <3>2
  <2> DEFINE S == {g[m] : m \in x..(y - 1)}
  <2>3. S \in SUBSET DOMAIN graph /\ g[x] \in S
    BY <1>2, <1>4, <2>2
  <2>4. ASSUME NEW j \in S PROVE Beside(graph[j]) \cap S # {}
    <3>1. PICK m \in x..(y - 1) : j = g[m]
      BY <2>4
    <3>2. m \in 0..N /\ m \in 0..(N - 1)
      BY <1>2, <2>2
    <3>3. g[m + 1] = Onward(j) /\ Onward(j) # j
      BY <1>4, <2>1, <3>1, <3>2
    <3>4. Onward(j) \in Beside(graph[j])
      BY <2>3, <3>3, HolderRule
    <3>5. g[m + 1] \in S
      <4>1. CASE m + 1 = y
        BY <2>2, <2>3, <4>1
      <4>2. CASE m + 1 # y
        <5>1. m + 1 \in x..(y - 1)
          BY <1>2, <2>2, <4>2
        <5> QED BY <5>1
      <4> QED BY <4>1, <4>2
    <3> QED BY <3>3, <3>4, <3>5
  <2> HIDE DEF S
  <2> QED BY <2>3, <2>4 DEF Grounded, graph
<1>7. g[N] \in DOMAIN graph
  BY <1>2, <1>4
<1> QED
  BY <1>4, <1>5, <1>6, <1>7, HolderRule
-----------------------------------------------------------------------------
(***************************************************************************)
(* The default values of a schema and a value.                             *)
(***************************************************************************)
Triples == (DOMAIN graph) \X Seq(Token) \X Parts
LowerTriples ==
  [x \in Triples |-> {y \in Triples : <<y[1], y[3]>> \in Lower[<<x[1], x[3]>>]}]
Additions == [path : Seq(Token), value : {graph[j].default : j \in DOMAIN graph}]

\* g and h agree on what is lower than schema i and the value t, at every path.
SameDefaults(g, h, i, t) ==
  \A j \in DOMAIN graph, q \in Seq(Token), u \in Parts :
    Extent(u) < Extent(t) \/ (u = t /\ j \in Beside(graph[i])) => g[<<j, q, u>>] = h[<<j, q, u>>]
SameDefaultsOfMembers(g, h, t) ==
  \A k \in Members(t, <<>>), j \in DOMAIN graph, q \in Seq(Token) :
    g[<<j, q, At(t, k)>>] = h[<<j, q, At(t, k)>>] /\ g[<<j, q, TextValue(k)>>] = h[<<j, q, TextValue(k)>>]
SameDefaultsBeside(g, h, s, t) ==
  \A j \in Beside(s), q \in Seq(Token) : j # 0 => g[<<j, q, t>>] = h[<<j, q, t>>]

\* What is asked beside a schema is in the validator.
LEMMA BesideSchemas ==
  ASSUME validator \in Corpus, NEW i \in DOMAIN graph
  PROVE  Beside(graph[i]) \subseteq DOMAIN graph \cup {0} /\ Beside(graph[i]) \subseteq Callees(graph[i])
<1>1. \A k \in DOMAIN graph[i].logic : Range(graph[i].logic[k].subs) \subseteq DOMAIN graph
  <2> SUFFICES ASSUME NEW k \in DOMAIN graph[i].logic
               PROVE  Range(graph[i].logic[k].subs) \subseteq DOMAIN graph
    OBVIOUS
  <2>1. graph[i].logic[k].subs \in Seq(DOMAIN graph)
    BY AskedSchemas
  <2> QED BY <2>1 DEF Range
<1>2. \A k \in DOMAIN graph[i].dependencies : graph[i].dependencies[k].schema \in DOMAIN graph \cup {0}
  BY AskedSchemas
<1>3. {graph[i].target, graph[i].if, graph[i].then, graph[i].else} \subseteq DOMAIN graph \cup {0}
  BY AskedSchemas
<1>4. Beside(graph[i]) \subseteq Callees(graph[i])
  BY DEF Beside, Callees
<1> QED
  BY <1>1, <1>2, <1>3, <1>4 DEF Beside

\* What is asked about members is lower, and so is what is asked beside.
LEMMA LowerDefaults ==
  ASSUME NEW i, NEW t, Posed(i, t), NEW g, NEW h, SameDefaults(g, h, i, t)
  PROVE  SameDefaultsOfMembers(g, h, t) /\ SameDefaultsBeside(g, h, graph[i], t)
<1>1. IsDocument(t) /\ t \in Parts
      /\ \A k \in Members(t, <<>>) : At(t, k) \in Parts /\ TextValue(k) \in Parts
  BY PartsClosed DEF Posed
<1>2. \A k \in Members(t, <<>>) : Extent(At(t, k)) < Extent(t) /\ Extent(TextValue(k)) < Extent(t)
  BY <1>1, SmallerParts
<1>3. \A j \in Beside(graph[i]) : j # 0 => j \in DOMAIN graph
  BY BesideSchemas DEF Posed
<1> QED
  BY <1>1, <1>2, <1>3 DEF SameDefaults, SameDefaultsOfMembers, SameDefaultsBeside

\* The default values in an object depend on what is lower.
LEMMA InObjectLocal ==
  ASSUME NEW i, NEW t, Posed(i, t), NEW g, NEW h, SameDefaults(g, h, i, t), NEW p \in Seq(Token)
  PROVE  InObject(g, graph[i], p, t) = InObject(h, graph[i], p, t)
<1> DEFINE s == graph[i]
           M == Members(t, <<>>)
<1>0. SameDefaultsOfMembers(g, h, t) /\ SameDefaultsBeside(g, h, s, t)
  BY LowerDefaults
<1>1. (\A k : Applying(s, k) \subseteq DOMAIN graph) /\ \A k \in M : k \in Token
  BY AskedSchemas, PartsClosed DEF Posed
<1>2. \A k \in M : \A j \in Applying(s, k) :
        g[<<j, Append(p, k), At(t, k)>>] = h[<<j, Append(p, k), At(t, k)>>]
  <2>1. \A k \in M : Append(p, k) \in Seq(Token)
    BY <1>1
  <2> QED BY <1>0, <1>1, <2>1 DEF SameDefaultsOfMembers
<1>3. InMembers(g, s, p, t) = InMembers(h, s, p, t)
  <2> HIDE DEF s
  <2> DEFINE of(d, k) == UNION {d[<<j, Append(p, k), At(t, k)>>] : j \in Applying(s, k)}
  <2>1. \A k \in M : of(g, k) = of(h, k)
    BY <1>2
  <2>2. \A d : InMembers(d, s, p, t) = UNION {of(d, k) : k \in M}
    BY DEF InMembers
  <2> HIDE DEF of, M
  <2>3. {of(g, k) : k \in M} = {of(h, k) : k \in M}
    BY <2>1
  <2> QED BY <2>2, <2>3
<1>4. InDependencies(g, s, p, t) = InDependencies(h, s, p, t)
  <2> DEFINE J == {s.dependencies[k].schema : k \in M \cap DOMAIN s.dependencies} \ {0}
  <2>1. J \subseteq Beside(s)
    BY DEF Beside
  <2>2. \A j \in J : g[<<j, p, t>>] = h[<<j, p, t>>]
    BY <1>0, <2>1 DEF SameDefaultsBeside
  <2>3. \A d : InDependencies(d, s, p, t) = UNION {d[<<j, p, t>>] : j \in J}
    BY DEF InDependencies
  <2> HIDE DEF J, s
  <2>4. {g[<<j, p, t>>] : j \in J} = {h[<<j, p, t>>] : j \in J}
    BY <2>2
  <2> QED BY <2>3, <2>4
<1> QED
  BY <1>3, <1>4 DEF InObject

\* The default values in an array depend on what is lower.
LEMMA InArrayLocal ==
  ASSUME NEW i, NEW t, Posed(i, t), NEW g, NEW h, SameDefaults(g, h, i, t), NEW p \in Seq(Token), NEW v
  PROVE  InArray(v, g, graph[i], p, t) = InArray(v, h, graph[i], p, t)
<1> DEFINE s == graph[i]
<1>0. SameDefaultsOfMembers(g, h, t)
  BY LowerDefaults
<1>1. IsDocument(t) /\ (\A k \in Members(t, <<>>) : k \in Token)
      /\ (s.contains # 0 => s.contains \in DOMAIN graph)
  BY AskedSchemas, PartsClosed DEF Posed
<1>2. Size(t) \in Nat /\ \A n \in 1..Size(t) : Keys(t)[n] \in Members(t, <<>>) /\ Item(t, n) = At(t, Keys(t)[n])
  BY <1>1, ArrayItems
<1>3. \A n \in 1..Size(t) : \A j \in DOMAIN graph : InItem(g, j, p, t, n) = InItem(h, j, p, t, n)
  <2> SUFFICES ASSUME NEW n \in 1..Size(t), NEW j \in DOMAIN graph
               PROVE  InItem(g, j, p, t, n) = InItem(h, j, p, t, n)
    OBVIOUS
  <2> DEFINE k == Keys(t)[n]
  <2>1. k \in Members(t, <<>>) /\ Append(p, k) \in Seq(Token) /\ Item(t, n) = At(t, k)
    BY <1>1, <1>2
  <2> HIDE DEF k
  <2>2. g[<<j, Append(p, k), At(t, k)>>] = h[<<j, Append(p, k), At(t, k)>>]
    BY <1>0, <2>1 DEF SameDefaultsOfMembers
  <2> QED BY <2>1, <2>2 DEF InItem, k
<1>4. \A n \in 1..Size(t) : ItemSchema(s, n) \subseteq DOMAIN graph
  BY <1>2, AskedSchemas DEF Posed
<1> HIDE DEF s
<1>5. InItems(g, s, p, t) = InItems(h, s, p, t)
  <2>1. \A n \in 1..Size(t) : \A j \in ItemSchema(s, n) : InItem(g, j, p, t, n) = InItem(h, j, p, t, n)
    BY <1>3, <1>4
  <2> QED BY <2>1 DEF InItems
<1>6. s.contains # 0 => \A n \in Tried(v, s, t) : InItem(g, s.contains, p, t, n) = InItem(h, s.contains, p, t, n)
  BY <1>1, <1>3 DEF Tried
<1> QED
  BY <1>5, <1>6 DEF InArray, s

SameLogicDefaults(v, g, h, s, p, t) ==
  /\ \A k \in DOMAIN s.logic :
       InLogic(v, g, s.logic[k].role, s.logic[k].subs, p, t)
         = InLogic(v, h, s.logic[k].role, s.logic[k].subs, p, t)
  /\ InIf(v, g, s, p, t) = InIf(v, h, s, p, t)
  /\ s.target # 0 => g[<<s.target, p, t>>] = h[<<s.target, p, t>>]

\* The default values of combinations and conditions depend on what is asked beside.
LEMMA InLogicLocal ==
  ASSUME NEW i, NEW t, Posed(i, t), NEW g, NEW h, SameDefaults(g, h, i, t), NEW p \in Seq(Token), NEW v
  PROVE  SameLogicDefaults(v, g, h, graph[i], p, t)
<1> DEFINE s == graph[i]
<1>0. SameDefaultsBeside(g, h, s, t)
  BY LowerDefaults
<1>1. \A j \in Beside(s) \ {0} : g[<<j, p, t>>] = h[<<j, p, t>>]
  BY <1>0 DEF SameDefaultsBeside
<1>2. ASSUME NEW k \in DOMAIN s.logic
      PROVE  InLogic(v, g, s.logic[k].role, s.logic[k].subs, p, t)
                = InLogic(v, h, s.logic[k].role, s.logic[k].subs, p, t)
  <2> DEFINE subs == s.logic[k].subs
             role == s.logic[k].role
  <2>1. subs \in Seq(DOMAIN graph) /\ Range(subs) \subseteq Beside(s) /\ 0 \notin DOMAIN graph
        /\ role \in {"not", "allOf", "anyOf", "oneOf"}
    BY AskedSchemas DEF Posed, Beside
  <2> HIDE DEF subs, role, s
  <2>2. \A n \in DOMAIN subs : subs[n] \in Beside(s) \ {0}
    BY <2>1 DEF Range
  <2>3. \A n \in DOMAIN subs : g[<<subs[n], p, t>>] = h[<<subs[n], p, t>>]
    BY <1>1, <2>2
  <2>4. \E U \in SUBSET DOMAIN subs : \A d : InLogic(v, d, role, subs, p, t) = UNION {d[<<subs[n], p, t>>] : n \in U}
    <3> DEFINE ok == Passing(v, subs, t)
               U == CASE role = "not" -> DOMAIN subs
                      [] role = "allOf" -> {n \in ok : 1..(n - 1) \subseteq ok}
                      [] role = "anyOf" -> {n \in ok : (1..(n - 1)) \cap ok = {}}
                      [] role = "oneOf" -> {n \in ok : Cardinality((1..(n - 1)) \cap ok) <= 1}
    <3>1. U \in SUBSET DOMAIN subs
      BY <2>1 DEF Passing
    <3>2. \A d : InLogic(v, d, role, subs, p, t) = UNION {d[<<subs[n], p, t>>] : n \in U}
      BY DEF InLogic
    <3> HIDE DEF U
    <3> QED BY <3>1, <3>2
  <2>5. PICK U \in SUBSET DOMAIN subs : \A d : InLogic(v, d, role, subs, p, t) = UNION {d[<<subs[n], p, t>>] : n \in U}
    BY <2>4
  <2>6. InLogic(v, g, role, subs, p, t) = InLogic(v, h, role, subs, p, t)
    <3>1. \A n \in U : g[<<subs[n], p, t>>] = h[<<subs[n], p, t>>]
      BY <2>3
    <3>2. InLogic(v, g, role, subs, p, t) = UNION {g[<<subs[n], p, t>>] : n \in U}
      BY <2>5
    <3>3. InLogic(v, h, role, subs, p, t) = UNION {h[<<subs[n], p, t>>] : n \in U}
      BY <2>5
    <3>4. {g[<<subs[n], p, t>>] : n \in U} = {h[<<subs[n], p, t>>] : n \in U}
      BY <3>1
    <3> QED BY <3>2, <3>3, <3>4
  <2> QED BY <2>6 DEF subs, role
<1>3. {s.target, s.if, s.then, s.else} \subseteq Beside(s)
  BY DEF Beside
<1>4. InIf(v, g, s, p, t) = InIf(v, h, s, p, t)
  <2>1. {s.if, Branch(v, s, t)} \ {0} \subseteq Beside(s) \ {0}
    BY <1>3 DEF Branch
  <2> HIDE DEF s
  <2> QED BY <1>1, <2>1 DEF InIf
<1>5. s.target # 0 => g[<<s.target, p, t>>] = h[<<s.target, p, t>>]
  BY <1>1, <1>3
<1> QED
  BY <1>2, <1>4, <1>5 DEF SameLogicDefaults

\* The default values of a schema and a value depend on what is lower.
LEMMA InSchemaLocal ==
  ASSUME NEW i, NEW t, Posed(i, t), NEW g, NEW h, SameDefaults(g, h, i, t), NEW p \in Seq(Token), NEW v
  PROVE  InSchema(v, g, graph[i], p, t) = InSchema(v, h, graph[i], p, t)
<1> DEFINE s == graph[i]
           of(d) == UNION {InLogic(v, d, s.logic[k].role, s.logic[k].subs, p, t) : k \in DOMAIN s.logic}
<1>1. InObject(g, s, p, t) = InObject(h, s, p, t)
  BY InObjectLocal
<1>2. InArray(v, g, s, p, t) = InArray(v, h, s, p, t)
  BY InArrayLocal
<1>3. SameLogicDefaults(v, g, h, s, p, t)
  BY InLogicLocal
<1>4. of(g) = of(h)
  BY <1>3 DEF SameLogicDefaults
<1>5. s.kind \in {"type", "boolean", "ref"}
  BY SchemaObjects DEF Posed, IsSchema
<1>6. CASE s.kind = "type"
  <2>1. \A d : InSchema(v, d, s, p, t) =
         (IF Kind(t) = "object" /\ "object" \in s.types THEN InObject(d, s, p, t) ELSE {})
         \cup (IF Kind(t) = "array" /\ "array" \in s.types THEN InArray(v, d, s, p, t) ELSE {})
         \cup of(d)
         \cup InIf(v, d, s, p, t)
         \cup (IF p = <<>> /\ IsNull(t) /\ ~IsNull(s.default)
               THEN {[path |-> p, value |-> s.default]} ELSE {})
    BY <1>6, Zenon DEF InSchema
  <2>2. InIf(v, g, s, p, t) = InIf(v, h, s, p, t)
    BY <1>3 DEF SameLogicDefaults
  <2> HIDE DEF of, s
  <2> QED BY <1>1, <1>2, <1>4, <2>1, <2>2 DEF s
<1>7. CASE s.kind # "type"
  BY <1>3, <1>5, <1>7 DEF InSchema, SameLogicDefaults
<1> QED
  BY <1>6, <1>7
-----------------------------------------------------------------------------
(***************************************************************************)
(* The recursive function DefaultsOf, as the equation it satisfies.        *)
(***************************************************************************)

\* Among schemas, places and values there is always something that is lowest.
LEMMA TriplesGrounded ==
  ASSUME IsDocument(instance), Grounded(validator)
  PROVE  Grounds(Triples, LowerTriples)
<1> SUFFICES ASSUME NEW T \in SUBSET Triples, T # {} PROVE \E s \in T : LowerTriples[s] \cap T = {}
  BY DEF Grounds
<1> DEFINE P == {<<x[1], x[3]>> : x \in T}
<1>1. \A x \in T : <<x[1], x[3]>> \in P /\ <<x[1], x[3]>> \in Pairs
  BY DEF Triples, Pairs
<1>2. P \in SUBSET Pairs /\ P # {}
  BY <1>1
<1>3. PICK y \in P : Lower[y] \cap P = {}
  <2> HIDE DEF P
  <2> QED BY <1>2, PairsGrounded DEF Grounds
<1>4. PICK x \in T : y = <<x[1], x[3]>>
  OBVIOUS
<1>5. LowerTriples[x] = {z \in Triples : <<z[1], z[3]>> \in Lower[<<x[1], x[3]>>]}
  BY DEF LowerTriples
<1>6. ASSUME NEW z \in T PROVE z \notin LowerTriples[x]
  <2>1. <<z[1], z[3]>> \in P
    BY <1>1
  <2> HIDE DEF P
  <2> QED BY <1>3, <1>4, <1>5, <2>1
<1> QED
  BY <1>6

\* What is lower than a triple, said of schema and value.
LEMMA LowerTriplesSame ==
  ASSUME NEW x \in Triples, NEW g, NEW h, \A y \in LowerTriples[x] : g[y] = h[y]
  PROVE  SameDefaults(g, h, x[1], x[3])
<1> SUFFICES ASSUME NEW j \in DOMAIN graph, NEW q \in Seq(Token), NEW u \in Parts,
                    Extent(u) < Extent(x[3]) \/ (u = x[3] /\ j \in Beside(graph[x[1]]))
             PROVE  g[<<j, q, u>>] = h[<<j, q, u>>]
  BY DEF SameDefaults
<1> DEFINE y == <<j, q, u>>
           a == <<x[1], x[3]>>
           b == <<j, u>>
<1>1. /\ y \in Triples /\ y[1] = j /\ y[3] = u /\ b \in Pairs /\ b[1] = j /\ b[2] = u
      /\ a \in Pairs /\ a[1] = x[1] /\ a[2] = x[3]
  BY DEF Triples, Pairs
<1>2. LowerTriples[x] = {z \in Triples : <<z[1], z[3]>> \in Lower[a]}
  BY DEF LowerTriples
<1> HIDE DEF a
<1>3. b \in Lower[a]
  <2> HIDE DEF b
  <2> QED BY <1>1 DEF Lower
<1>4. <<y[1], y[3]>> = b
  BY <1>1
<1> HIDE DEF y
<1>5. y \in LowerTriples[x]
  BY <1>1, <1>2, <1>3, <1>4
<1> QED
  BY <1>5 DEF y

Guess(g) == g \in [Triples -> SUBSET Additions]

\* What a guess says, it says with additions.
LEMMA GuessedAdditions ==
  ASSUME NEW g, Guess(g), NEW j \in DOMAIN graph, NEW p \in Seq(Token), NEW t \in Parts
  PROVE  g[<<j, p, t>>] \subseteq Additions
<1>1. <<j, p, t>> \in Triples
  BY DEF Triples
<1> QED
  BY <1>1 DEF Guess

\* The default values in an object are additions.
LEMMA InObjectType ==
  ASSUME NEW i, NEW t, Posed(i, t), Grounded(validator), NEW g, Guess(g), NEW p \in Seq(Token)
  PROVE  InObject(g, graph[i], p, t) \subseteq Additions
<1> DEFINE s == graph[i]
           M == Members(t, <<>>)
<1>1. /\ \A k : Applying(s, k) \subseteq DOMAIN graph
      /\ \A k \in M : k \in Token /\ At(t, k) \in Parts
      /\ t \in Parts /\ IsSchema(s, DOMAIN graph) /\ i \in DOMAIN graph
  BY AskedSchemas, PartsClosed, SchemaObjects DEF Posed
<1>2. InMembers(g, s, p, t) \subseteq Additions
  <2>1. ASSUME NEW k \in M, NEW j \in Applying(s, k) PROVE g[<<j, Append(p, k), At(t, k)>>] \subseteq Additions
    <3>1. Append(p, k) \in Seq(Token) /\ At(t, k) \in Parts /\ j \in DOMAIN graph
      BY <1>1
    <3> QED BY <3>1, GuessedAdditions
  <2>2. \A k \in M : UNION {g[<<j, Append(p, k), At(t, k)>>] : j \in Applying(s, k)} \subseteq Additions
    <3> HIDE DEF M, s
    <3> QED BY <2>1
  <2> HIDE DEF s
  <2> QED BY <2>2 DEF InMembers
<1>3. OfAbsent(s, p, t) \subseteq Additions
  <2> SUFFICES ASSUME NEW k \in DOMAIN s.properties
               PROVE  [path |-> Append(p, k), value |-> DefaultOf(s.properties[k])] \in Additions
    BY DEF OfAbsent
  <2>1. k \in Token /\ s.properties[k] \in DOMAIN graph
    BY <1>1 DEF IsSchema
  <2>2. Holder[s.properties[k]] \in DOMAIN graph
    <3> HIDE DEF s
    <3> QED BY <2>1, HolderRule DEF Posed
  <2>3. Append(p, k) \in Seq(Token) /\ DefaultOf(s.properties[k]) \in {graph[j].default : j \in DOMAIN graph}
    BY <2>1, <2>2 DEF DefaultOf
  <2> QED BY <2>3 DEF Additions
<1>4. InDependencies(g, s, p, t) \subseteq Additions
  <2> DEFINE J == {s.dependencies[k].schema : k \in M \cap DOMAIN s.dependencies} \ {0}
  <2>1. J \subseteq DOMAIN graph
    BY AskedSchemas DEF Posed
  <2>2. \A j \in J : g[<<j, p, t>>] \subseteq Additions
    BY <1>1, <2>1, GuessedAdditions
  <2> HIDE DEF J
  <2>3. InDependencies(g, s, p, t) = UNION {g[<<j, p, t>>] : j \in J}
    BY DEF InDependencies, J
  <2> QED BY <2>2, <2>3
<1> QED
  BY <1>2, <1>3, <1>4 DEF InObject

\* The default values in an array are additions.
LEMMA InArrayType ==
  ASSUME NEW i, NEW t, Posed(i, t), NEW g, Guess(g), NEW p \in Seq(Token), NEW v
  PROVE  InArray(v, g, graph[i], p, t) \subseteq Additions
<1> DEFINE s == graph[i]
<1>1. IsDocument(t) /\ (\A k \in Members(t, <<>>) : k \in Token /\ At(t, k) \in Parts)
      /\ (s.contains # 0 => s.contains \in DOMAIN graph)
  BY AskedSchemas, PartsClosed DEF Posed
<1>2. Size(t) \in Nat /\ \A n \in 1..Size(t) : Keys(t)[n] \in Members(t, <<>>) /\ Item(t, n) = At(t, Keys(t)[n])
  BY <1>1, ArrayItems
<1>3. \A n \in 1..Size(t) : \A j \in DOMAIN graph : InItem(g, j, p, t, n) \subseteq Additions
  <2> SUFFICES ASSUME NEW n \in 1..Size(t), NEW j \in DOMAIN graph
               PROVE  InItem(g, j, p, t, n) \subseteq Additions
    OBVIOUS
  <2> DEFINE k == Keys(t)[n]
  <2>1. k \in Members(t, <<>>) /\ Append(p, k) \in Seq(Token) /\ Item(t, n) = At(t, k) /\ At(t, k) \in Parts
    BY <1>1, <1>2
  <2> HIDE DEF k
  <2> QED BY <2>1, GuessedAdditions DEF InItem, k
<1>4. \A n \in 1..Size(t) : ItemSchema(s, n) \subseteq DOMAIN graph
  BY <1>2, AskedSchemas DEF Posed
<1> HIDE DEF s
<1>5. InItems(g, s, p, t) \subseteq Additions
  <2>1. \A n \in 1..Size(t) : \A j \in ItemSchema(s, n) : InItem(g, j, p, t, n) \subseteq Additions
    BY <1>3, <1>4
  <2> QED BY <2>1 DEF InItems
<1>6. s.contains # 0 => \A n \in Tried(v, s, t) : InItem(g, s.contains, p, t, n) \subseteq Additions
  BY <1>1, <1>3 DEF Tried
<1> QED
  BY <1>5, <1>6 DEF InArray, s

LogicWithin(v, g, s, p, t, A) ==
  /\ \A k \in DOMAIN s.logic : InLogic(v, g, s.logic[k].role, s.logic[k].subs, p, t) \subseteq A
  /\ InIf(v, g, s, p, t) \subseteq A

\* The default values of combinations and conditions are those of schemas asked beside.
LEMMA InLogicFrom ==
  ASSUME NEW i, NEW t, Posed(i, t), NEW g, NEW p \in Seq(Token), NEW v,
         NEW A, \A j \in Beside(graph[i]) : j # 0 => g[<<j, p, t>>] \subseteq A
  PROVE  LogicWithin(v, g, graph[i], p, t, A)
<1> DEFINE s == graph[i]
<1>1. ASSUME NEW k \in DOMAIN s.logic
      PROVE  InLogic(v, g, s.logic[k].role, s.logic[k].subs, p, t) \subseteq A
  <2> DEFINE subs == s.logic[k].subs
             role == s.logic[k].role
             ok == Passing(v, subs, t)
             U == CASE role = "not" -> DOMAIN subs
                    [] role = "allOf" -> {n \in ok : 1..(n - 1) \subseteq ok}
                    [] role = "anyOf" -> {n \in ok : (1..(n - 1)) \cap ok = {}}
                    [] role = "oneOf" -> {n \in ok : Cardinality((1..(n - 1)) \cap ok) <= 1}
  <2>1. subs \in Seq(DOMAIN graph) /\ Range(subs) \subseteq Beside(s) /\ 0 \notin DOMAIN graph
        /\ role \in {"not", "allOf", "anyOf", "oneOf"}
    BY AskedSchemas DEF Posed, Beside
  <2>2. InLogic(v, g, role, subs, p, t) = UNION {g[<<subs[n], p, t>>] : n \in U}
    BY DEF InLogic
  <2> HIDE DEF subs, role, s
  <2>3. U \subseteq DOMAIN subs
    BY <2>1 DEF Passing
  <2>4. \A n \in DOMAIN subs : subs[n] \in Beside(s) /\ subs[n] # 0
    BY <2>1 DEF Range
  <2> HIDE DEF U
  <2>5. \A n \in U : g[<<subs[n], p, t>>] \subseteq A
    BY <2>3, <2>4 DEF s
  <2>6. InLogic(v, g, role, subs, p, t) \subseteq A
    BY <2>2, <2>5
  <2> QED BY <2>6 DEF subs, role
<1>2. {s.target, s.if, s.then, s.else} \subseteq Beside(s)
  BY DEF Beside
<1>3. InIf(v, g, s, p, t) \subseteq A
  <2>1. {s.if, Branch(v, s, t)} \subseteq Beside(s)
    BY <1>2 DEF Branch
  <2>2. \A j \in {s.if, Branch(v, s, t)} \ {0} : g[<<j, p, t>>] \subseteq A
    BY <2>1
  <2> HIDE DEF s
  <2> QED BY <2>2 DEF InIf
<1> QED
  BY <1>1, <1>3 DEF LogicWithin

\* The default values of a schema and a value are additions.
LEMMA InSchemaType ==
  ASSUME NEW i, NEW t, Posed(i, t), Grounded(validator), NEW g, Guess(g), NEW p \in Seq(Token), NEW v
  PROVE  InSchema(v, g, graph[i], p, t) \subseteq Additions
<1> DEFINE s == graph[i]
           of == UNION {InLogic(v, g, s.logic[k].role, s.logic[k].subs, p, t) : k \in DOMAIN s.logic}
           root == IF p = <<>> /\ IsNull(t) /\ ~IsNull(s.default)
                   THEN {[path |-> p, value |-> s.default]} ELSE {}
<1>1. InObject(g, s, p, t) \subseteq Additions
  BY InObjectType
<1>2. InArray(v, g, s, p, t) \subseteq Additions
  BY InArrayType
<1>3. \A j \in Beside(s) : j # 0 => g[<<j, p, t>>] \subseteq Additions
  BY BesideSchemas, GuessedAdditions DEF Posed
<1>4. of \subseteq Additions /\ InIf(v, g, s, p, t) \subseteq Additions
  <2>1. LogicWithin(v, g, s, p, t, Additions)
    BY <1>3, InLogicFrom
  <2> QED BY <2>1 DEF LogicWithin
<1>5. root \subseteq Additions
  BY DEF Additions, Posed
<1>6. s.kind \in {"type", "boolean", "ref"} /\ s.target \in Beside(s)
  BY SchemaObjects DEF Posed, IsSchema, Beside
<1>7. CASE s.kind = "type"
  <2>1. InSchema(v, g, s, p, t) =
         (IF Kind(t) = "object" /\ "object" \in s.types THEN InObject(g, s, p, t) ELSE {})
         \cup (IF Kind(t) = "array" /\ "array" \in s.types THEN InArray(v, g, s, p, t) ELSE {})
         \cup of \cup InIf(v, g, s, p, t) \cup root
    BY <1>7, Zenon DEF InSchema
  <2> HIDE DEF of, s, root
  <2> QED BY <1>1, <1>2, <1>4, <1>5, <2>1 DEF s
<1>8. CASE s.kind # "type"
  BY <1>3, <1>6, <1>8 DEF InSchema
<1> QED
  BY <1>7, <1>8

\* The recursive function DefaultsOf, as the equation it satisfies.
LEMMA DefaultsRule ==
  ASSUME validator \in Corpus, IsDocument(instance), Grounded(validator)
  PROVE  /\ Guess(DefaultsOf)
         /\ \A i \in DOMAIN graph, p \in Seq(Token), t \in Parts :
              DefaultsOf[<<i, p, t>>] = InSchema(Valid, DefaultsOf, graph[i], p, t)
<1> DEFINE X == SUBSET Additions
           F == [Triples -> X]
           step == [g \in F |-> [x \in Triples |-> InSchema(Valid, g, graph[x[1]], x[2], x[3])]]
<1>0. \A x \in Triples : x[2] \in Seq(Token) /\ Posed(x[1], x[3])
  BY DEF Triples, Posed
<1>1. \A g \in F : \A x \in Triples : InSchema(Valid, g, graph[x[1]], x[2], x[3]) \in X
  <2> SUFFICES ASSUME NEW g \in F, NEW x \in Triples
               PROVE  InSchema(Valid, g, graph[x[1]], x[2], x[3]) \subseteq Additions
    OBVIOUS
  <2>1. Guess(g)
    BY DEF Guess
  <2> QED BY <1>0, <2>1, InSchemaType
<1>2. step \in [F -> F]
  BY <1>1
<1>3. LowerTriples \in [Triples -> SUBSET Triples]
  BY DEF LowerTriples
<1>4. DependsOn(step, Triples, X, LowerTriples)
  <2> SUFFICES ASSUME NEW g \in F, NEW h \in F, NEW x \in Triples, \A y \in LowerTriples[x] : g[y] = h[y]
               PROVE  step[g][x] = step[h][x]
    BY Zenon DEF DependsOn
  <2>1. SameDefaults(g, h, x[1], x[3])
    BY LowerTriplesSame
  <2>2. InSchema(Valid, g, graph[x[1]], x[2], x[3]) = InSchema(Valid, h, graph[x[1]], x[2], x[3])
    <3> DEFINE i == x[1]
               p == x[2]
               t == x[3]
               v == Valid
    <3>1. p \in Seq(Token) /\ Posed(i, t) /\ SameDefaults(g, h, i, t)
      BY <1>0, <2>1
    <3> HIDE DEF i, p, t, v
    <3>2. InSchema(v, g, graph[i], p, t) = InSchema(v, h, graph[i], p, t)
      BY <3>1, InSchemaLocal
    <3> QED BY <3>2 DEF i, p, t, v
  <2>3. /\ step[g][x] = InSchema(Valid, g, graph[x[1]], x[2], x[3])
        /\ step[h][x] = InSchema(Valid, h, graph[x[1]], x[2], x[3])
    OBVIOUS
  <2> HIDE DEF step
  <2> QED BY <2>2, <2>3
<1>5. Grounds(Triples, LowerTriples)
  BY TriplesGrounded
<1> HIDE DEF step
<1>6. PICK f \in F : Solves(f, step)
  <2>1. \E b : b \in X
    OBVIOUS
  <2> HIDE DEF X
  <2> QED BY <1>2, <1>3, <1>4, <1>5, <2>1, GroundedRecursion
<1>7. f = [x \in Triples |-> InSchema(Valid, f, graph[x[1]], x[2], x[3])]
  BY <1>6 DEF Solves, step
<1>8. DefaultsOf = [x \in Triples |-> InSchema(Valid, DefaultsOf, graph[x[1]], x[2], x[3])]
  BY <1>7, Zenon DEF DefaultsOf, Triples
<1>9. ASSUME NEW i \in DOMAIN graph, NEW p \in Seq(Token), NEW t \in Parts
      PROVE  DefaultsOf[<<i, p, t>>] = InSchema(Valid, DefaultsOf, graph[i], p, t)
  <2> DEFINE x == <<i, p, t>>
  <2>1. x \in Triples /\ x[1] = i /\ x[2] = p /\ x[3] = t
    BY DEF Triples
  <2> HIDE DEF x
  <2>2. DefaultsOf[x] = InSchema(Valid, DefaultsOf, graph[x[1]], x[2], x[3])
    BY <1>8, <2>1, Zenon
  <2> QED BY <2>1, <2>2 DEF x
<1>10. Guess(DefaultsOf)
  <2> DEFINE d == DefaultsOf
             h == [x \in Triples |-> d[x] \cap Additions]
             T == {x \in Triples : ~(d[x] \subseteq Additions)}
             v == Valid
  <2>1. d = [x \in Triples |-> InSchema(v, d, graph[x[1]], x[2], x[3])]
    BY <1>8
  <2> HIDE DEF d, v
  <2>2. ASSUME NEW x \in T, LowerTriples[x] \cap T = {} PROVE FALSE
    <3>1. \A y \in LowerTriples[x] : d[y] = h[y]
      BY <2>2, <1>3
    <3>2. Guess(h)
      BY DEF Guess
    <3>3. d[x] = InSchema(v, d, graph[x[1]], x[2], x[3])
      BY <2>1, Zenon
    <3> DEFINE i == x[1]
               p == x[2]
               t == x[3]
    <3> HIDE DEF h
    <3>4. p \in Seq(Token) /\ Posed(i, t) /\ SameDefaults(d, h, i, t)
      BY <1>0, <3>1, LowerTriplesSame
    <3>5. d[x] = InSchema(v, d, graph[i], p, t)
      BY <3>3
    <3> HIDE DEF i, p, t
    <3>6. InSchema(v, d, graph[i], p, t) = InSchema(v, h, graph[i], p, t)
      BY <3>4, InSchemaLocal
    <3>7. InSchema(v, h, graph[i], p, t) \subseteq Additions
      BY <3>2, <3>4, InSchemaType
    <3> QED BY <2>2, <3>5, <3>6, <3>7
  <2>3. T = {}
    <3>1. T \in SUBSET Triples
      OBVIOUS
    <3> HIDE DEF T
    <3> QED BY <1>5, <2>2, <3>1, Zenon DEF Grounds
  <2>4. d \in [Triples -> SUBSET Additions]
    <3>1. \A x \in Triples : d[x] \in SUBSET Additions
      BY <2>3
    <3>2. d = [x \in Triples |-> d[x]]
      BY <2>1
    <3> QED BY <3>1, <3>2
  <2> QED BY <2>4 DEF Guess, d
<1> QED
  BY <1>9, <1>10
-----------------------------------------------------------------------------
(***************************************************************************)
(* Where there are no default values.                                      *)
(***************************************************************************)

\* A set of triples has none for which there are default values, if the lowest of
\* those would have none.
LEMMA NoneLowest ==
  ASSUME validator \in Corpus, IsDocument(instance), Grounded(validator), NEW T \in SUBSET Triples,
         \A x \in T : (\A y \in LowerTriples[x] : y \in T => DefaultsOf[y] = {}) => DefaultsOf[x] = {}
  PROVE  \A x \in T : DefaultsOf[x] = {}
<1> DEFINE d == DefaultsOf
           U == {x \in T : d[x] # {}}
<1>1. U \in SUBSET Triples
  OBVIOUS
<1>2. Grounds(Triples, LowerTriples)
  BY TriplesGrounded
<1>3. LowerTriples \in [Triples -> SUBSET Triples]
  BY DEF LowerTriples
<1>4. \A x \in T : (\A y \in LowerTriples[x] : y \in T => d[y] = {}) => d[x] = {}
  OBVIOUS
<1> HIDE DEF d
<1>5. ASSUME NEW x \in U, LowerTriples[x] \cap U = {} PROVE FALSE
  BY <1>4, <1>5
<1>6. U = {}
  <2> HIDE DEF U
  <2> QED BY <1>1, <1>2, <1>5, Zenon DEF Grounds
<1> QED
  BY <1>6 DEF d

\* What a schema asks about the value itself, or about members, is lower.
LEMMA AskedLower ==
  ASSUME NEW i, NEW t, Posed(i, t), NEW p \in Seq(Token)
  PROVE  /\ \A j \in Beside(graph[i]) : j # 0 => <<j, p, t>> \in LowerTriples[<<i, p, t>>]
         /\ \A k \in Members(t, <<>>), j \in DOMAIN graph :
              <<j, Append(p, k), At(t, k)>> \in LowerTriples[<<i, p, t>>]
<1> DEFINE x == <<i, p, t>>
           a == <<i, t>>
<1>1. x \in Triples /\ a \in Pairs /\ t \in Parts /\ i \in DOMAIN graph
  BY DEF Triples, Pairs, Posed
<1>2. LowerTriples[x] = {z \in Triples : <<z[1], z[3]>> \in Lower[a]}
  BY <1>1 DEF LowerTriples
<1>3. Lower[a] = {y \in Pairs : Extent(y[2]) < Extent(t) \/ (y[2] = t /\ y[1] \in Beside(graph[i]))}
  BY <1>1 DEF Lower
<1> HIDE DEF x, a
<1>4. ASSUME NEW j \in DOMAIN graph, NEW q \in Seq(Token), NEW u \in Parts,
             Extent(u) < Extent(t) \/ (u = t /\ j \in Beside(graph[i]))
      PROVE  <<j, q, u>> \in LowerTriples[x]
  <2> DEFINE z == <<j, q, u>>
             b == <<j, u>>
  <2>1. z \in Triples /\ z[1] = j /\ z[3] = u /\ b \in Pairs /\ b[1] = j /\ b[2] = u
    BY DEF Triples, Pairs
  <2>2. <<z[1], z[3]>> = b
    BY <2>1
  <2> HIDE DEF z, b
  <2>3. b \in Lower[a]
    BY <1>3, <1>4, <2>1
  <2>4. z \in LowerTriples[x]
    BY <1>2, <2>1, <2>2, <2>3
  <2> QED BY <2>4 DEF z
<1>5. \A j \in Beside(graph[i]) : j # 0 => <<j, p, t>> \in LowerTriples[x]
  BY <1>1, <1>4, BesideSchemas DEF Posed
<1>6. ASSUME NEW k \in Members(t, <<>>), NEW j \in DOMAIN graph
      PROVE  <<j, Append(p, k), At(t, k)>> \in LowerTriples[x]
  <2>1. At(t, k) \in Parts /\ k \in Token /\ IsDocument(t)
    BY PartsClosed DEF Posed
  <2>2. Extent(At(t, k)) < Extent(t) /\ Append(p, k) \in Seq(Token)
    BY <2>1, SmallerParts
  <2> QED BY <1>4, <2>1, <2>2
<1> QED
  BY <1>5, <1>6 DEF x

\* No schema has default values for a string.
LEMMA TextNothing ==
  ASSUME validator \in Corpus, IsDocument(instance), Grounded(validator),
         NEW i \in DOMAIN graph, NEW p \in Seq(Token), NEW t \in Parts, Kind(t) = "string"
  PROVE  DefaultsOf[<<i, p, t>>] = {}
<1> DEFINE T == {x \in Triples : Kind(x[3]) = "string"}
           d == DefaultsOf
<1>1. ASSUME NEW x \in T, \A y \in LowerTriples[x] : y \in T => d[y] = {} PROVE d[x] = {}
  <2> DEFINE j == x[1]
             q == x[2]
             u == x[3]
             s == graph[j]
  <2>1. x = <<j, q, u>> /\ j \in DOMAIN graph /\ q \in Seq(Token) /\ u \in Parts /\ Posed(j, u) /\ Kind(u) = "string"
    BY DEF Triples, Posed
  <2>2. d[<<j, q, u>>] = InSchema(Valid, d, s, q, u)
    BY <2>1, DefaultsRule
  <2>3. \A k \in Beside(s) : k # 0 => d[<<k, q, u>>] = {}
    <3> SUFFICES ASSUME NEW k \in Beside(s), k # 0 PROVE d[<<k, q, u>>] = {}
      OBVIOUS
    <3>1. <<k, q, u>> \in LowerTriples[<<j, q, u>>] /\ k \in DOMAIN graph
      BY <2>1, AskedLower, BesideSchemas
    <3>2. <<k, q, u>> \in T
      BY <2>1, <3>1 DEF Triples
    <3> HIDE DEF T, d, j, q, u
    <3> QED BY <1>1, <2>1, <3>1, <3>2
  <2> DEFINE of == UNION {InLogic(Valid, d, s.logic[k].role, s.logic[k].subs, q, u) : k \in DOMAIN s.logic}
  <2>4. of = {} /\ InIf(Valid, d, s, q, u) = {}
    <3> HIDE DEF d, j, q, u
    <3>1. LogicWithin(Valid, d, s, q, u, {})
      BY <2>1, <2>3, InLogicFrom
    <3> QED BY <3>1 DEF LogicWithin
  <2>5. s.kind \in {"type", "boolean", "ref"} /\ s.target \in Beside(s)
    BY <2>1, SchemaObjects DEF IsSchema, Beside
  <2>6. CASE s.kind = "type"
    <3>1. InSchema(Valid, d, s, q, u) =
           (IF Kind(u) = "object" /\ "object" \in s.types THEN InObject(d, s, q, u) ELSE {})
           \cup (IF Kind(u) = "array" /\ "array" \in s.types THEN InArray(Valid, d, s, q, u) ELSE {})
           \cup of \cup InIf(Valid, d, s, q, u)
           \cup (IF q = <<>> /\ IsNull(u) /\ ~IsNull(s.default)
                 THEN {[path |-> q, value |-> s.default]} ELSE {})
      BY <2>6, Zenon DEF InSchema
    <3>2. ~IsNull(u)
      BY <2>1 DEF IsNull
    <3> HIDE DEF of, d, s, u, q
    <3> QED BY <2>1, <2>2, <2>4, <3>1, <3>2
  <2>7. CASE s.kind # "type"
    <3> HIDE DEF d, j, q, u
    <3> QED BY <2>1, <2>2, <2>3, <2>5, <2>7 DEF InSchema
  <2> QED BY <2>6, <2>7
<1>2. \A x \in T : d[x] = {}
  <2>1. T \in SUBSET Triples
    OBVIOUS
  <2> HIDE DEF T
  <2> QED BY <1>1, <2>1, NoneLowest
<1>3. <<i, p, t>> \in T
  BY DEF Triples
<1> QED
  BY <1>2, <1>3

\* A quiet schema has no default value.
LEMMA QuietDefault ==
  ASSUME validator \in Corpus, Grounded(validator), WellPlaced(validator), NEW i \in Quiet(validator)
  PROVE  IsNull(DefaultOf(i))
<1> DEFINE Q == Quiet(validator)
           T == {j \in Q : ~IsNull(graph[Holder[j]].default)}
<1>1. Q \subseteq DOMAIN graph /\ \A j \in Q : IsNull(graph[j].default) /\ Callees(graph[j]) \subseteq Q \cup {0}
  BY QuietSchemas DEF Silent, graph
<1> SUFFICES ASSUME T # {} PROVE FALSE
  BY DEF DefaultOf
<1>2. T \in SUBSET DOMAIN validator.graph
  BY <1>1 DEF graph
<1> HIDE DEF Q
<1>3. PICK j \in T : Beside(graph[j]) \cap T = {}
  <2> HIDE DEF T
  <2> QED BY <1>2 DEF Grounded, graph
<1>4. j \in DOMAIN graph /\ j \in Q
  BY <1>1
<1>5. Holder[j] = (IF Onward(j) = j THEN j ELSE Holder[Onward(j)])
      /\ (Onward(j) # j => Onward(j) \in Beside(graph[j]))
  BY <1>4, HolderRule
<1>6. Onward(j) # j => Onward(j) \in Q
  <2>1. Beside(graph[j]) \subseteq Callees(graph[j]) /\ Beside(graph[j]) \subseteq DOMAIN graph \cup {0}
    BY <1>4, BesideSchemas
  <2>2. Onward(j) # j => Onward(j) # 0
    BY DEF Onward
  <2> QED BY <1>1, <1>4, <1>5, <2>1, <2>2
<1>7. Onward(j) # j => IsNull(graph[Holder[Onward(j)]].default)
  BY <1>3, <1>5, <1>6
<1> QED
  BY <1>1, <1>3, <1>4, <1>5, <1>7

\* What is applied to members are callees.
LEMMA AppliedCallees ==
  ASSUME validator \in Corpus, NEW i \in DOMAIN graph
  PROVE  /\ \A k : Applying(graph[i], k) \subseteq Callees(graph[i]) \ {0}
         /\ \A k \in Nat \ {0} : ItemSchema(graph[i], k) \subseteq Callees(graph[i]) \ {0}
         /\ graph[i].contains \in Callees(graph[i])
         /\ \A k \in DOMAIN graph[i].properties : graph[i].properties[k] \in Callees(graph[i]) \ {0}
<1> DEFINE s == graph[i]
<1>1. /\ \A k \in DOMAIN s.properties : s.properties[k] \in DOMAIN graph
      /\ \A k \in DOMAIN s.patternProperties : s.patternProperties[k].schema \in DOMAIN graph
      /\ 0 \notin DOMAIN graph /\ s.tuple \in Seq(DOMAIN graph)
  BY PropertyCallees, SchemaObjects DEF IsSchema
<1>2. /\ \A k \in DOMAIN s.properties : s.properties[k] \in Callees(s)
      /\ \A k \in DOMAIN s.patternProperties : s.patternProperties[k].schema \in Callees(s)
      /\ \A k \in DOMAIN s.tuple : s.tuple[k] \in Callees(s)
      /\ {s.additionalProperties, s.items, s.additionalItems, s.contains} \subseteq Callees(s)
  BY DEF Callees, Range
<1> HIDE DEF s
<1>3. \A k : Applying(s, k) \subseteq Callees(s) \ {0}
  BY <1>1, <1>2 DEF Applying
<1>4. ASSUME NEW k \in Nat \ {0} PROVE ItemSchema(s, k) \subseteq Callees(s) \ {0}
  <2>1. k <= Len(s.tuple) => k \in DOMAIN s.tuple
    BY <1>1
  <2> QED BY <1>2, <2>1 DEF ItemSchema
<1>5. \A k \in DOMAIN s.properties : s.properties[k] \in Callees(s) \ {0}
  BY <1>1, <1>2
<1> QED
  BY <1>2, <1>3, <1>4, <1>5 DEF s

\* Quiet schemas have no default values for anything.
LEMMA QuietNothing ==
  ASSUME validator \in Corpus, IsDocument(instance), Grounded(validator), WellPlaced(validator),
         NEW i \in Quiet(validator), NEW p \in Seq(Token), NEW t \in Parts
  PROVE  DefaultsOf[<<i, p, t>>] = {}
<1> DEFINE Q == Quiet(validator)
           T == {x \in Triples : x[1] \in Q}
           d == DefaultsOf
<1>0. Q \subseteq DOMAIN graph /\ \A j \in Q : IsNull(graph[j].default) /\ Callees(graph[j]) \subseteq Q \cup {0}
  BY QuietSchemas DEF Silent, graph
<1>1. ASSUME NEW x \in T, \A y \in LowerTriples[x] : y \in T => d[y] = {} PROVE d[x] = {}
  <2> DEFINE j == x[1]
             q == x[2]
             u == x[3]
             s == graph[j]
             M == Members(u, <<>>)
  <2>1. x = <<j, q, u>> /\ j \in DOMAIN graph /\ q \in Seq(Token) /\ u \in Parts /\ Posed(j, u) /\ j \in Q
    BY DEF Triples, Posed
  <2>2. d[<<j, q, u>>] = InSchema(Valid, d, s, q, u)
    BY <2>1, DefaultsRule
  <2> HIDE DEF j, q, u, Q
  <2>3. \A k \in Beside(s) : k # 0 => d[<<k, q, u>>] = {}
    <3> SUFFICES ASSUME NEW k \in Beside(s), k # 0 PROVE d[<<k, q, u>>] = {}
      OBVIOUS
    <3>1. <<k, q, u>> \in LowerTriples[<<j, q, u>>] /\ k \in DOMAIN graph /\ k \in Callees(s)
      BY <2>1, AskedLower, BesideSchemas
    <3>2. k \in Q
      BY <1>0, <2>1, <3>1
    <3>3. <<k, q, u>> \in T
      BY <2>1, <3>1, <3>2 DEF Triples
    <3> HIDE DEF T, d
    <3> QED BY <1>1, <2>1, <3>1, <3>3
  <2>4. \A k \in M, n \in Callees(s) \ {0} : d[<<n, Append(q, k), At(u, k)>>] = {}
    <3> SUFFICES ASSUME NEW k \in M, NEW n \in Callees(s) \ {0} PROVE d[<<n, Append(q, k), At(u, k)>>] = {}
      OBVIOUS
    <3>1. n \in Q /\ n \in DOMAIN graph
      BY <1>0, <2>1
    <3>2. <<n, Append(q, k), At(u, k)>> \in LowerTriples[<<j, q, u>>]
      BY <2>1, <3>1, AskedLower
    <3>3. k \in Token /\ At(u, k) \in Parts
      BY <2>1, PartsClosed DEF Posed
    <3>4. <<n, Append(q, k), At(u, k)>> \in T
      <4> DEFINE r == Append(q, k)
                 v == At(u, k)
      <4>1. r \in Seq(Token) /\ v \in Parts
        BY <2>1, <3>3
      <4> HIDE DEF r, v
      <4>2. <<n, r, v>> \in T
        BY <3>1, <4>1 DEF Triples
      <4> QED BY <4>2 DEF r, v
    <3> HIDE DEF T, d
    <3> QED BY <1>1, <2>1, <3>2, <3>4
  <2>5. /\ \A k : Applying(s, k) \subseteq Callees(s) \ {0}
        /\ \A k \in Nat \ {0} : ItemSchema(s, k) \subseteq Callees(s) \ {0}
        /\ s.contains \in Callees(s)
        /\ \A k \in DOMAIN s.properties : s.properties[k] \in Callees(s) \ {0}
    BY <2>1, AppliedCallees
  <2> HIDE DEF d
  <2>6. InObject(d, s, q, u) = {}
    <3>1. InMembers(d, s, q, u) = {}
      <4>1. \A k \in M : \A n \in Applying(s, k) : d[<<n, Append(q, k), At(u, k)>>] = {}
        BY <2>4, <2>5
      <4> HIDE DEF s
      <4>2. \A k \in M : UNION {d[<<n, Append(q, k), At(u, k)>>] : n \in Applying(s, k)} = {}
        <5> HIDE DEF M
        <5> QED BY <4>1
      <4> QED BY <4>2 DEF InMembers
    <3>2. OfAbsent(s, q, u) = {}
      <4>1. \A k \in DOMAIN s.properties : s.properties[k] \in Quiet(validator)
        BY <1>0, <2>1, <2>5 DEF Q
      <4>2. \A k \in DOMAIN s.properties : IsNull(DefaultOf(s.properties[k]))
        BY <4>1, QuietDefault
      <4> QED BY <4>2 DEF OfAbsent
    <3>3. InDependencies(d, s, q, u) = {}
      <4> DEFINE J == {s.dependencies[k].schema : k \in M \cap DOMAIN s.dependencies} \ {0}
      <4>1. J \subseteq Beside(s) \ {0}
        BY DEF Beside
      <4>2. InDependencies(d, s, q, u) = UNION {d[<<n, q, u>>] : n \in J}
        BY DEF InDependencies
      <4> HIDE DEF J, s
      <4> QED BY <2>3, <4>1, <4>2
    <3> QED BY <3>1, <3>2, <3>3 DEF InObject
  <2>7. InArray(Valid, d, s, q, u) = {}
    <3>1. Size(u) \in Nat /\ \A n \in 1..Size(u) : Keys(u)[n] \in M /\ Item(u, n) = At(u, Keys(u)[n])
      BY <2>1, PartsClosed, ArrayItems DEF Posed
    <3>2. \A n \in 1..Size(u), k \in Callees(s) \ {0} : InItem(d, k, q, u, n) = {}
      BY <2>4, <3>1 DEF InItem
    <3>3. \A n \in 1..Size(u) : ItemSchema(s, n) \subseteq Callees(s) \ {0}
      BY <2>5, <3>1
    <3> HIDE DEF s
    <3>4. \A n \in 1..Size(u) : UNION {InItem(d, k, q, u, n) : k \in ItemSchema(s, n)} = {}
      BY <3>2, <3>3
    <3>5. InItems(d, s, q, u) = {}
      BY <3>4 DEF InItems
    <3>6. s.contains # 0 => UNION {InItem(d, s.contains, q, u, n) : n \in Tried(Valid, s, u)} = {}
      BY <2>5, <3>2 DEF Tried
    <3> QED BY <3>5, <3>6 DEF InArray
  <2> DEFINE of == UNION {InLogic(Valid, d, s.logic[k].role, s.logic[k].subs, q, u) : k \in DOMAIN s.logic}
  <2>8. of = {} /\ InIf(Valid, d, s, q, u) = {}
    <3>1. LogicWithin(Valid, d, s, q, u, {})
      BY <2>1, <2>3, InLogicFrom
    <3> QED BY <3>1 DEF LogicWithin
  <2>9. s.kind \in {"type", "boolean", "ref"} /\ s.target \in Beside(s) /\ IsNull(s.default)
    BY <1>0, <2>1, SchemaObjects DEF IsSchema, Beside
  <2>10. CASE s.kind = "type"
    <3>1. InSchema(Valid, d, s, q, u) =
           (IF Kind(u) = "object" /\ "object" \in s.types THEN InObject(d, s, q, u) ELSE {})
           \cup (IF Kind(u) = "array" /\ "array" \in s.types THEN InArray(Valid, d, s, q, u) ELSE {})
           \cup of \cup InIf(Valid, d, s, q, u)
           \cup (IF q = <<>> /\ IsNull(u) /\ ~IsNull(s.default)
                 THEN {[path |-> q, value |-> s.default]} ELSE {})
      BY <2>10, Zenon DEF InSchema
    <3> HIDE DEF of, s
    <3> QED BY <2>1, <2>2, <2>6, <2>7, <2>8, <2>9, <3>1
  <2>11. CASE s.kind # "type"
    BY <2>1, <2>2, <2>3, <2>9, <2>11 DEF InSchema
  <2> QED BY <2>10, <2>11
<1>2. \A x \in T : d[x] = {}
  <2>1. T \in SUBSET Triples
    OBVIOUS
  <2> HIDE DEF T
  <2> QED BY <1>1, <2>1, NoneLowest
<1>3. <<i, p, t>> \in T
  BY <1>0 DEF Triples
<1> QED
  BY <1>2, <1>3
-----------------------------------------------------------------------------
(***************************************************************************)
(* What calls mean.  A call is told by its role, the schemas it is about   *)
(* and its value: Holds are the calls that should find no error, Brought   *)
(* are the default values that each should add to the patch.  The schemas  *)
(* that a condition may lead to have roles of their own here.              *)
(***************************************************************************)
AllRoles == Roles \cup {"then", "else"}
Combined == {"allOf", "anyOf", "oneOf"}

RoleHolds(role, subs, inst) ==
  LET s == graph[subs[1]]
  IN CASE role = "root" -> subs # <<>> /\ Valid[<<subs[1], inst>>]
       [] role = "schema" -> Valid[<<subs[1], inst>>]
       [] role = "object" -> ValidObject(Valid, s, inst)
       [] role = "array" -> ValidArray(Valid, s, inst)
       [] role \in {"not"} \cup Combined -> ValidLogic(Valid, role, subs, inst)
       [] role = "then" -> s.then # 0 => Valid[<<s.then, inst>>]
       [] role = "else" -> s.else # 0 => Valid[<<s.else, inst>>]
Holds == {x \in AllRoles \X Seq(DOMAIN graph) \X Parts : RoleHolds(x[1], x[2], x[3])}

RoleBrings(role, subs, ptr, inst) ==
  LET s == graph[subs[1]]
  IN CASE role = "root" -> IF subs = <<>> THEN {} ELSE DefaultsOf[<<subs[1], ptr, inst>>]
       [] role = "schema" -> DefaultsOf[<<subs[1], ptr, inst>>]
       [] role = "object" -> InObject(DefaultsOf, s, ptr, inst)
       [] role = "array" -> InArray(Valid, DefaultsOf, s, ptr, inst)
       [] role \in {"not"} \cup Combined -> InLogic(Valid, DefaultsOf, role, subs, ptr, inst)
       [] role = "then" -> IF s.then = 0 THEN {} ELSE DefaultsOf[<<s.then, ptr, inst>>]
       [] role = "else" -> IF s.else = 0 THEN {} ELSE DefaultsOf[<<s.else, ptr, inst>>]
Brought ==
  [x \in AllRoles \X Seq(DOMAIN graph) \X Seq(Token) \X Parts |-> RoleBrings(x[1], x[2], x[3], x[4])]

(***************************************************************************)
(* What tasks mean, and what an agenda does.  H and D stand for Holds and  *)
(* Brought, f is the call whose tasks these are, x a task or a call.       *)
(***************************************************************************)
CallHolds(H, x) == <<x.role, x.subs, x.inst>> \in H
Branching(H, x) == IF CallHolds(H, x) THEN "then" ELSE "else"
Leads(H, f, x) == <<Branching(H, x), f.subs, x.inst>> \in H
Suits(H, f, x) ==
  /\ x.via \in {"plain", "property"} => CallHolds(H, x)
  /\ x.via = "not" => ~CallHolds(H, x)
  /\ x.via = "if" => Leads(H, f, x)
Okay(H, f, x) == x.do # "errors" /\ (x.do = "call" => Suits(H, f, x))
\* "contains" looks no further.
Found(H, x) == x.via = "contains" /\ CallHolds(H, x)
Stops(H, x) == x.do = "call" /\ Found(H, x)
Clears(H, f, todo) ==
  \A i \in 1..Len(todo) : Okay(H, f, todo[i]) \/ \E j \in 1..(i - 1) : Stops(H, todo[j])

Brings(D, x) == D[<<x.role, x.subs, x.ptr, x.inst>>]
Led(H, D, f, x) == IF x.via = "if" THEN D[<<Branching(H, x), f.subs, x.ptr, x.inst>>] ELSE {}
Gives(H, D, f, x) ==
  (IF x.do = "add" THEN {[path |-> x.path, value |-> x.value]} ELSE {})
  \cup (IF x.do = "call" THEN Brings(D, x) \cup Led(H, D, f, x) ELSE {})
Reached(H, todo) == {i \in 1..Len(todo) : \A j \in 1..(i - 1) : ~Stops(H, todo[j])}
Left(H, D, f, todo) == UNION {Gives(H, D, f, todo[i]) : i \in Reached(H, todo)}

(***************************************************************************)
(* Combinations: count is how many cases have held so far.                 *)
(***************************************************************************)
Fits(H, todo) == {i \in 1..Len(todo) : todo[i].do = "call" /\ CallHolds(H, todo[i])}
Decides(H, role, count, todo) ==
  todo # <<>> =>
    /\ \A i \in 1..Len(todo) : todo[i].do # "errors"
    /\ role = "allOf" => /\ \A i \in 1..Len(todo) : todo[i].do = "call" => i \in Fits(H, todo)
                         /\ count # 0 \/ Len(todo) > 1
    /\ role = "anyOf" => count # 0 \/ Fits(H, todo) # {}
    /\ role = "oneOf" => /\ count <= 1 /\ (Fits(H, todo) = {} <=> count # 0)
                         /\ \A i, j \in Fits(H, todo) : i = j
Earlier(H, todo, i) == (1..(i - 1)) \cap Fits(H, todo)
Used(H, role, count, todo) ==
  {i \in Fits(H, todo) :
     /\ role = "allOf" => Earlier(H, todo, i) = 1..(i - 1)
     /\ role = "anyOf" => Earlier(H, todo, i) = {}
     /\ role = "oneOf" => /\ count = 0 \/ (count = 1 /\ Earlier(H, todo, i) = {})
                          /\ \A j, k \in Earlier(H, todo, i) : j = k}
LeftCases(H, D, role, count, todo) == UNION {Brings(D, todo[i]) : i \in Used(H, role, count, todo)}

Combination(f) == f.role \in Combined
Passes(H, f) ==
  IF Combination(f) THEN Decides(H, f.role, f.count, f.todo) ELSE Clears(H, f, f.todo)
Remains(H, D, f) ==
  IF Combination(f) THEN LeftCases(H, D, f.role, f.count, f.todo) ELSE Left(H, D, f, f.todo)

(***************************************************************************)
(* A call g that was made by f, which waits for it.                        *)
(***************************************************************************)
Continues(H, f, g) ==
  IF g.via = "case"
  THEN IF CallHolds(H, g) THEN Decides(H, f.role, f.count + 1, f.todo)
       ELSE f.role # "allOf" /\ Decides(H, f.role, f.count, f.todo)
  ELSE Found(H, g) \/ (Suits(H, f, g) /\ Passes(H, f))
Yields(H, D, g) == IF g.via = "case" /\ ~CallHolds(H, g) THEN {} ELSE Brings(D, g)
RemainsAfter(H, D, f, g) ==
  IF g.via = "case"
  THEN IF CallHolds(H, g)
       THEN IF f.role = "anyOf" THEN {} ELSE LeftCases(H, D, f.role, f.count + 1, f.todo)
       ELSE IF f.role = "allOf" THEN {} ELSE LeftCases(H, D, f.role, f.count, f.todo)
  ELSE IF Found(H, g) THEN {} ELSE Led(H, D, f, g) \cup Remains(H, D, f)
-----------------------------------------------------------------------------
(***************************************************************************)
(* The invariant.  A head is a call with a handler of its own: it holds if *)
(* and only if nothing was reported to that handler, and nothing will be   *)
(* by the calls below it that report to the same one.                      *)
(***************************************************************************)
Pend(H, calls, k) ==
  IF k < Len(calls) /\ calls[k + 1].via # "plain" THEN Continues(H, calls[k], calls[k + 1])
  ELSE Passes(H, calls[k])
IsHead(calls, h) == h = 1 \/ calls[h].via # "plain"
Told(calls, errs, h) == IF h = 1 THEN errs ELSE calls[h].errs
Under(calls, h, k) == \A j \in (h + 1)..k : calls[j].via = "plain"
Judged(H, calls, errs) ==
  \A h \in 1..Len(calls) : IsHead(calls, h) =>
    (CallHolds(H, calls[h]) <=>
       /\ Told(calls, errs, h) = <<>>
       /\ \A k \in h..Len(calls) : Under(calls, h, k) => Pend(H, calls, k))

\* Every default value that a call brings is in the patch, or still to come.
Gathered(H, D, calls, ops) ==
  \A k \in 1..Len(calls) :
    Range(calls[k].was) \cup Brings(D, calls[k]) =
      IF k = Len(calls) THEN Range(ops) \cup Remains(H, D, calls[k])
      ELSE Range(calls[k + 1].was) \cup Yields(H, D, calls[k + 1])
           \cup RemainsAfter(H, D, calls[k], calls[k + 1])

Orderly(x) ==
  /\ x.do \in {"errors", "add", "call"}
  /\ x.do = "call" => x.via # "case" /\ x.inst \in Parts
Case(x) == x.do = "call" /\ x.via = "case" /\ x.role = "schema" /\ x.inst \in Parts
Counting(f) ==
  /\ f.todo # <<>> /\ f.todo[Len(f.todo)].do = "count"
  /\ \A i \in 1..(Len(f.todo) - 1) : Case(f.todo[i])
  /\ f.role = "anyOf" => f.count = 0
  /\ f.role = "oneOf" => f.count <= 1
Shaped(f) ==
  /\ f.inst \in Parts
  /\ Combination(f) =>
       f.todo = <<>> \/ (Len(f.todo) = 1 /\ f.todo[1].do = "errors") \/ Counting(f)
  /\ ~Combination(f) => \A i \in 1..Len(f.todo) : Orderly(f.todo[i])
Encloses(f, g) ==
  IF g.via = "case" THEN Combination(f) /\ Counting(f) /\ g.role = "schema" ELSE ~Combination(f)
Shapes(calls) ==
  /\ \A k \in 1..Len(calls) : Shaped(calls[k])
  /\ \A k \in 2..Len(calls) : Encloses(calls[k - 1], calls[k])
  /\ calls # <<>> =>
       calls[1].role = "root" /\ calls[1].subs = Entry /\ calls[1].inst = instance
       /\ calls[1].ptr = <<>> /\ calls[1].was = <<>>
-----------------------------------------------------------------------------
\* What is asked about: the validator and the instance have a meaning, and the code
\* is not known to have another.
Meaningful == validator \in Corpus /\ IsDocument(instance) /\ Grounded(validator) /\ Undisputed

\* The calls that hold, and what calls bring, as functions of role, schemas and value.
LEMMA CallMeaning ==
  ASSUME NEW role \in AllRoles, NEW subs \in Seq(DOMAIN graph), NEW ptr \in Seq(Token), NEW inst \in Parts
  PROVE  /\ <<role, subs, inst>> \in Holds <=> RoleHolds(role, subs, inst)
         /\ Brought[<<role, subs, ptr, inst>>] = RoleBrings(role, subs, ptr, inst)
<1> DEFINE x == <<role, subs, inst>>
           y == <<role, subs, ptr, inst>>
<1>1. x[1] = role /\ x[2] = subs /\ x[3] = inst /\ x \in AllRoles \X Seq(DOMAIN graph) \X Parts
  OBVIOUS
<1>2. /\ y[1] = role /\ y[2] = subs /\ y[3] = ptr /\ y[4] = inst
      /\ y \in AllRoles \X Seq(DOMAIN graph) \X Seq(Token) \X Parts
  OBVIOUS
<1> HIDE DEF x, y
<1>3. x \in Holds <=> RoleHolds(role, subs, inst)
  BY <1>1 DEF Holds
<1>4. Brought[y] = RoleBrings(role, subs, ptr, inst)
  BY <1>2 DEF Brought
<1> QED
  BY <1>3, <1>4 DEF x, y

\* When a call holds, role by role.
LEMMA RoleHoldsCases ==
  ASSUME NEW subs, NEW inst
  PROVE  /\ RoleHolds("root", subs, inst) <=>
              subs # <<>> /\ Valid[<<subs[1], inst>>]
         /\ RoleHolds("schema", subs, inst) <=>
              Valid[<<subs[1], inst>>]
         /\ RoleHolds("object", subs, inst) <=>
              ValidObject(Valid, graph[subs[1]], inst)
         /\ RoleHolds("array", subs, inst) <=>
              ValidArray(Valid, graph[subs[1]], inst)
         /\ RoleHolds("then", subs, inst) <=>
              (graph[subs[1]].then # 0 => Valid[<<graph[subs[1]].then, inst>>])
         /\ RoleHolds("else", subs, inst) <=>
              (graph[subs[1]].else # 0 => Valid[<<graph[subs[1]].else, inst>>])
         /\ \A role \in {"not", "allOf", "anyOf", "oneOf"} :
              RoleHolds(role, subs, inst) <=>
              ValidLogic(Valid, role, subs, inst)
<1>c. {"not"} \cup Combined = {"not", "allOf", "anyOf", "oneOf"}
  BY DEF Combined
<1>1. RoleHolds("root", subs, inst) <=>
       subs # <<>> /\ Valid[<<subs[1], inst>>]
  BY <1>c DEF RoleHolds
<1>2. RoleHolds("schema", subs, inst) <=>
       Valid[<<subs[1], inst>>]
  BY <1>c DEF RoleHolds
<1>3. RoleHolds("object", subs, inst) <=>
       ValidObject(Valid, graph[subs[1]], inst)
  BY <1>c DEF RoleHolds
<1>4. RoleHolds("array", subs, inst) <=>
       ValidArray(Valid, graph[subs[1]], inst)
  BY <1>c DEF RoleHolds
<1>5. RoleHolds("then", subs, inst) <=>
       (graph[subs[1]].then # 0 => Valid[<<graph[subs[1]].then, inst>>])
  BY <1>c DEF RoleHolds
<1>6. RoleHolds("else", subs, inst) <=>
       (graph[subs[1]].else # 0 => Valid[<<graph[subs[1]].else, inst>>])
  BY <1>c DEF RoleHolds
<1>7. ASSUME NEW role \in {"not", "allOf", "anyOf", "oneOf"}
      PROVE  RoleHolds(role, subs, inst) <=> ValidLogic(Valid, role, subs, inst)
  <2>1. role \notin {"root", "schema", "object", "array", "then", "else"}
    OBVIOUS
  <2> QED BY <1>c, <2>1 DEF RoleHolds
<1> QED
  BY <1>1, <1>2, <1>3, <1>4, <1>5, <1>6, <1>7

\* What a call brings, role by role.
LEMMA RoleBringsCases ==
  ASSUME NEW subs, NEW ptr, NEW inst
  PROVE  /\ RoleBrings("root", subs, ptr, inst) =
              IF subs = <<>> THEN {} ELSE DefaultsOf[<<subs[1], ptr, inst>>]
         /\ RoleBrings("schema", subs, ptr, inst) =
              DefaultsOf[<<subs[1], ptr, inst>>]
         /\ RoleBrings("object", subs, ptr, inst) =
              InObject(DefaultsOf, graph[subs[1]], ptr, inst)
         /\ RoleBrings("array", subs, ptr, inst) =
              InArray(Valid, DefaultsOf, graph[subs[1]], ptr, inst)
<1>c. {"not"} \cup Combined = {"not", "allOf", "anyOf", "oneOf"}
  BY DEF Combined
<1>1. RoleBrings("root", subs, ptr, inst) =
       IF subs = <<>> THEN {} ELSE DefaultsOf[<<subs[1], ptr, inst>>]
  BY <1>c DEF RoleBrings
<1>2. RoleBrings("schema", subs, ptr, inst) =
       DefaultsOf[<<subs[1], ptr, inst>>]
  BY <1>c DEF RoleBrings
<1>3. RoleBrings("object", subs, ptr, inst) =
       InObject(DefaultsOf, graph[subs[1]], ptr, inst)
  BY <1>c DEF RoleBrings
<1>4. RoleBrings("array", subs, ptr, inst) =
       InArray(Valid, DefaultsOf, graph[subs[1]], ptr, inst)
  BY <1>c DEF RoleBrings
<1> QED
  BY <1>1, <1>2, <1>3, <1>4

\* What the branches of a condition bring.
LEMMA BranchBrings ==
  ASSUME NEW subs, NEW ptr, NEW inst
  PROVE  /\ RoleBrings("then", subs, ptr, inst) =
              IF graph[subs[1]].then = 0 THEN {} ELSE DefaultsOf[<<graph[subs[1]].then, ptr, inst>>]
         /\ RoleBrings("else", subs, ptr, inst) =
              IF graph[subs[1]].else = 0 THEN {} ELSE DefaultsOf[<<graph[subs[1]].else, ptr, inst>>]
<1>1. {"not"} \cup Combined = {"not", "allOf", "anyOf", "oneOf"}
  BY DEF Combined
<1>2. RoleBrings("then", subs, ptr, inst) =
       IF graph[subs[1]].then = 0 THEN {} ELSE DefaultsOf[<<graph[subs[1]].then, ptr, inst>>]
  BY <1>1 DEF RoleBrings
<1>3. RoleBrings("else", subs, ptr, inst) =
       IF graph[subs[1]].else = 0 THEN {} ELSE DefaultsOf[<<graph[subs[1]].else, ptr, inst>>]
  BY <1>1 DEF RoleBrings
<1> QED
  BY <1>2, <1>3

\* What a combination brings.
LEMMA LogicBrings ==
  ASSUME NEW role \in {"not", "allOf", "anyOf", "oneOf"}, NEW subs, NEW ptr, NEW inst
  PROVE  RoleBrings(role, subs, ptr, inst) = InLogic(Valid, DefaultsOf, role, subs, ptr, inst)
<1>1. role \notin {"root", "schema", "object", "array", "then", "else"}
  OBVIOUS
<1>2. {"not"} \cup Combined = {"not", "allOf", "anyOf", "oneOf"}
  BY DEF Combined
<1> QED BY <1>1, <1>2 DEF RoleBrings

\* A call of a schema.
LEMMA SchemaMeans ==
  ASSUME NEW i \in DOMAIN graph, NEW ptr \in Seq(Token), NEW inst \in Parts
  PROVE  /\ <<"schema", <<i>>, inst>> \in Holds <=> Valid[<<i, inst>>]
         /\ Brought[<<"schema", <<i>>, ptr, inst>>] = DefaultsOf[<<i, ptr, inst>>]
<1> DEFINE subs == <<i>>
<1>1. subs \in Seq(DOMAIN graph) /\ subs[1] = i
  OBVIOUS
<1> HIDE DEF subs
<1>r. "schema" \in AllRoles
  BY DEF AllRoles, Roles
<1>2. /\ <<"schema", subs, inst>> \in Holds <=> RoleHolds("schema", subs, inst)
      /\ Brought[<<"schema", subs, ptr, inst>>] = RoleBrings("schema", subs, ptr, inst)
  BY <1>1, <1>r, CallMeaning
<1>3. RoleHolds("schema", subs, inst) <=> Valid[<<subs[1], inst>>]
  BY RoleHoldsCases
<1>4. RoleBrings("schema", subs, ptr, inst) = DefaultsOf[<<subs[1], ptr, inst>>]
  BY RoleBringsCases
<1>5. <<"schema", subs, inst>> \in Holds <=> Valid[<<i, inst>>]
  BY <1>1, <1>2, <1>3
<1>6. Brought[<<"schema", subs, ptr, inst>>] = DefaultsOf[<<i, ptr, inst>>]
  BY <1>1, <1>2, <1>4
<1> QED
  BY <1>5, <1>6 DEF subs
-----------------------------------------------------------------------------
(***************************************************************************)
(* Tasks in a row, of which none makes an end: whether all are okay, and   *)
(* what they give, does not depend on their order.                         *)
(***************************************************************************)
Calm(x) == Orderly(x) /\ (x.do = "call" => x.via # "contains")
Steady(s) == Sequence(s) /\ \A x \in Range(s) : Calm(x)
Good(f, s) == \A x \in Range(s) : Okay(Holds, f, x)
Total(f, s) == UNION {Gives(Holds, Brought, f, x) : x \in Range(s)}

\* These tasks are those of the parts s[k] for k in S, or s[k] themselves.
Gathers(f, tasks, s, S) ==
  /\ Steady(tasks) /\ (Good(f, tasks) <=> \A k \in S : Good(f, s[k]))
  /\ Total(f, tasks) = UNION {Total(f, s[k]) : k \in S}
Lists(f, tasks, S) ==
  /\ Steady(tasks) /\ (Good(f, tasks) <=> \A k \in S : Okay(Holds, f, tasks[k]))
  /\ Total(f, tasks) = UNION {Gives(Holds, Brought, f, tasks[k]) : k \in S}

\* No task, and one.
LEMMA FewMean ==
  ASSUME NEW f
  PROVE  /\ Steady(<<>>) /\ Good(f, <<>>) /\ Total(f, <<>>) = {}
         /\ \A x : /\ Steady(<<x>>) <=> Calm(x)
                   /\ Good(f, <<x>>) <=> Okay(Holds, f, x)
                   /\ Total(f, <<x>>) = Gives(Holds, Brought, f, x)
<1>1. Range(<<>>) = {} /\ \A x : Range(<<x>>) = {x}
  BY DEF Range
<1> QED
  BY <1>1, Short DEF Steady, Good, Total

\* First these tasks, then those.
LEMMA JoinMeans ==
  ASSUME NEW f, NEW a, Steady(a), NEW b, Steady(b)
  PROVE  /\ Steady(a \o b) /\ (Good(f, a \o b) <=> Good(f, a) /\ Good(f, b))
         /\ Total(f, a \o b) = Total(f, a) \cup Total(f, b)
<1>1. Sequence(a \o b) /\ Range(a \o b) = Range(a) \cup Range(b)
  BY Joined DEF Steady
<1> QED
  BY <1>1 DEF Steady, Good, Total

\* One task for each number up to n.
LEMMA ListMeans ==
  ASSUME NEW f, NEW n \in Nat, NEW s, DOMAIN s = 1..n, s = [i \in 1..n |-> s[i]],
         \A i \in 1..n : Calm(s[i])
  PROVE  Lists(f, s, 1..n)
<1>1. Sequence(s)
  BY Listed
<1>2. Range(s) = {s[i] : i \in 1..n}
  BY DEF Range
<1>3. Total(f, s) = UNION {Gives(Holds, Brought, f, s[i]) : i \in 1..n}
  BY <1>2 DEF Total
<1>4. Steady(s) /\ (Good(f, s) <=> \A i \in 1..n : Okay(Holds, f, s[i]))
  BY <1>1, <1>2 DEF Steady, Good
<1> QED
  BY <1>3, <1>4 DEF Lists

\* Some tasks for each number up to n.
LEMMA FlattenMeans ==
  ASSUME NEW f, NEW n \in Nat, NEW s, DOMAIN s = 1..n, s = [i \in 1..n |-> s[i]],
         \A i \in 1..n : Steady(s[i])
  PROVE  Gathers(f, FlattenSeq(s), s, 1..n)
<1>1. Sequence(s) /\ Len(s) = n
  BY Listed
<1>2. \A i \in 1..Len(s) : Sequence(s[i])
  BY <1>1 DEF Steady
<1>3. /\ Sequence(FlattenSeq(s))
      /\ Range(FlattenSeq(s)) = UNION {Range(s[i]) : i \in 1..n}
  BY <1>1, <1>2, Flattened
<1>4. \A x : x \in Range(FlattenSeq(s)) <=> \E i \in 1..n : x \in Range(s[i])
  BY <1>3
<1> DEFINE all == FlattenSeq(s)
<1> HIDE DEF all
<1>5. Total(f, all) = UNION {Total(f, s[i]) : i \in 1..n}
  BY <1>4 DEF Total, all
<1>6. Good(f, all) <=> \A i \in 1..n : Good(f, s[i])
  BY <1>4 DEF Good, all
<1>7. Steady(all)
  BY <1>3, <1>4 DEF Steady, all
<1>8. Gathers(f, all, s, 1..n)
  BY <1>5, <1>6, <1>7 DEF Gathers
<1> QED
  BY <1>8 DEF all

\* An error at a path.
LEMMA RejectMeans ==
  ASSUME NEW f, NEW fails, NEW ptr
  PROVE  /\ Steady(Reject(fails, ptr)) /\ (Good(f, Reject(fails, ptr)) <=> ~fails)
         /\ Total(f, Reject(fails, ptr)) = {}
<1> DEFINE x == Errors(<<ptr>>)
<1>1. x.do = "errors"
  BY DEF Errors
<1> HIDE DEF x
<1>2. Calm(x) /\ ~Okay(Holds, f, x) /\ Gives(Holds, Brought, f, x) = {}
  BY <1>1 DEF Calm, Orderly, Okay, Gives
<1>3. Steady(<<x>>) /\ ~Good(f, <<x>>) /\ Total(f, <<x>>) = {}
  BY <1>2, FewMean
<1>4. Reject(fails, ptr) = IF fails THEN <<x>> ELSE <<>>
  BY DEF Reject, x
<1> QED
  BY <1>3, <1>4, FewMean

\* A call that finds no error if and only if it holds.
LEMMA CallMeans ==
  ASSUME NEW f, NEW via \in {"plain", "property"}, NEW role, NEW subs, NEW ptr, NEW inst \in Parts
  PROVE  LET x == Call(via, role, subs, ptr, inst)
         IN /\ Calm(x) /\ (Okay(Holds, f, x) <=> <<role, subs, inst>> \in Holds)
            /\ Gives(Holds, Brought, f, x) = Brought[<<role, subs, ptr, inst>>]
<1> DEFINE x == Call(via, role, subs, ptr, inst)
<1>1. /\ x.do = "call" /\ x.via = via /\ x.role = role /\ x.subs = subs /\ x.ptr = ptr
      /\ x.inst = inst
  BY DEF Call
<1> HIDE DEF x
<1>2. Calm(x)
  BY <1>1 DEF Calm, Orderly
<1>3. Okay(Holds, f, x) <=> <<role, subs, inst>> \in Holds
  BY <1>1 DEF Okay, Suits, CallHolds
<1>4. Gives(Holds, Brought, f, x) = Brought[<<role, subs, ptr, inst>>]
  BY <1>1 DEF Gives, Brings, Led
<1> QED
  BY <1>2, <1>3, <1>4 DEF x

\* These tasks ask the schemas of S about the value at ptr.
Asks(f, tasks, S, ptr, inst) ==
  /\ Steady(tasks) /\ (Good(f, tasks) <=> \A j \in S : Valid[<<j, inst>>])
  /\ Total(f, tasks) = UNION {DefaultsOf[<<j, ptr, inst>>] : j \in S}

\* A call of a schema, if there is one.
LEMMA IfPresentMeans ==
  ASSUME NEW f, NEW via \in {"plain", "property"}, NEW i \in DOMAIN graph \cup {0}, 0 \notin DOMAIN graph,
         NEW ptr \in Seq(Token), NEW inst \in Parts
  PROVE  Asks(f, IfPresent(i, via, ptr, inst), {i} \ {0}, ptr, inst)
<1>1. CASE i = 0
  <2>1. {i} \ {0} = {} /\ IfPresent(i, via, ptr, inst) = <<>>
    BY <1>1 DEF IfPresent
  <2>2. Asks(f, <<>>, {}, ptr, inst)
    BY FewMean DEF Asks
  <2> QED BY <2>1, <2>2
<1>2. CASE i # 0
  <2> DEFINE x == Call(via, "schema", <<i>>, ptr, inst)
  <2>1. /\ Calm(x) /\ (Okay(Holds, f, x) <=> <<"schema", <<i>>, inst>> \in Holds)
        /\ Gives(Holds, Brought, f, x) = Brought[<<"schema", <<i>>, ptr, inst>>]
    BY CallMeans
  <2>2. IfPresent(i, via, ptr, inst) = <<x>> /\ {i} \ {0} = {i}
    BY <1>2 DEF IfPresent
  <2> HIDE DEF x
  <2>3. /\ Okay(Holds, f, x) <=> Valid[<<i, inst>>]
        /\ Gives(Holds, Brought, f, x) = DefaultsOf[<<i, ptr, inst>>]
    BY <1>2, <2>1, SchemaMeans
  <2>4. /\ Steady(<<x>>) /\ (Good(f, <<x>>) <=> Valid[<<i, inst>>])
        /\ Total(f, <<x>>) = DefaultsOf[<<i, ptr, inst>>]
    BY <2>1, <2>3, FewMean
  <2>5. Asks(f, <<x>>, {i}, ptr, inst)
    BY <2>4 DEF Asks
  <2> QED BY <2>2, <2>5
<1> QED
  BY <1>1, <1>2

\* A call of a schema.
LEMMA PlainMeans ==
  ASSUME NEW f, NEW i \in DOMAIN graph, NEW ptr \in Seq(Token), NEW inst \in Parts
  PROVE  LET x == Plain(i, ptr, inst)
         IN /\ Calm(x) /\ (Okay(Holds, f, x) <=> Valid[<<i, inst>>])
            /\ Gives(Holds, Brought, f, x) = DefaultsOf[<<i, ptr, inst>>]
<1> DEFINE x == Call("plain", "schema", <<i>>, ptr, inst)
<1>1. /\ Calm(x) /\ (Okay(Holds, f, x) <=> <<"schema", <<i>>, inst>> \in Holds)
      /\ Gives(Holds, Brought, f, x) = Brought[<<"schema", <<i>>, ptr, inst>>]
  BY CallMeans, SMTT(20)
<1>2. Plain(i, ptr, inst) = x
  BY DEF Plain
<1>3. /\ <<"schema", <<i>>, inst>> \in Holds <=> Valid[<<i, inst>>]
      /\ Brought[<<"schema", <<i>>, ptr, inst>>] = DefaultsOf[<<i, ptr, inst>>]
  BY SchemaMeans
<1> HIDE DEF x
<1>4. /\ Calm(x) /\ (Okay(Holds, f, x) <=> Valid[<<i, inst>>])
      /\ Gives(Holds, Brought, f, x) = DefaultsOf[<<i, ptr, inst>>]
  BY <1>1, <1>3
<1> QED
  BY <1>2, <1>4

\* Errors for required properties that are not there.
LEMMA MissingMeans ==
  ASSUME NEW f, NEW ptr, NEW keys \in Seq(Token), NEW inst
  PROVE  /\ Steady(Missing(keys, ptr, inst))
         /\ Good(f, Missing(keys, ptr, inst)) <=> \A i \in DOMAIN keys : keys[i] \in Members(inst, <<>>)
         /\ Total(f, Missing(keys, ptr, inst)) = {}
<1> DEFINE n == Len(keys)
           r(i) == Reject(keys[i] \notin Members(inst, <<>>), ptr)
           s == [i \in 1..n |-> r(i)]
<1>1. n \in Nat /\ DOMAIN keys = 1..n
  OBVIOUS
<1>2. Missing(keys, ptr, inst) = FlattenSeq(s)
  BY <1>1 DEF Missing
<1>3. \A i \in 1..n : Steady(r(i)) /\ (Good(f, r(i)) <=> keys[i] \in Members(inst, <<>>)) /\ Total(f, r(i)) = {}
  <2> SUFFICES ASSUME NEW i \in 1..n
               PROVE  Steady(r(i)) /\ (Good(f, r(i)) <=> keys[i] \in Members(inst, <<>>)) /\ Total(f, r(i)) = {}
    OBVIOUS
  <2> DEFINE fails == keys[i] \notin Members(inst, <<>>)
  <2>1. /\ Steady(Reject(fails, ptr)) /\ (Good(f, Reject(fails, ptr)) <=> ~fails)
        /\ Total(f, Reject(fails, ptr)) = {}
    BY RejectMeans
  <2> QED BY <2>1
<1> HIDE DEF r, n
<1>4. DOMAIN s = 1..n /\ s = [i \in 1..n |-> s[i]] /\ \A i \in 1..n : s[i] = r(i)
  OBVIOUS
<1> HIDE DEF s
<1>s. \A i \in 1..n : Steady(s[i])
  BY <1>3, <1>4
<1>f. Gathers(f, FlattenSeq(s), s, 1..n)
  BY <1>1, <1>4, <1>s, FlattenMeans
<1>5. /\ Steady(FlattenSeq(s)) /\ (Good(f, FlattenSeq(s)) <=> \A i \in 1..n : Good(f, s[i]))
      /\ Total(f, FlattenSeq(s)) = UNION {Total(f, s[i]) : i \in 1..n}
  BY <1>f DEF Gathers
<1>6. UNION {Total(f, s[i]) : i \in 1..n} = {}
  BY <1>3, <1>4
<1> QED
  BY <1>1, <1>2, <1>3, <1>4, <1>5, <1>6
-----------------------------------------------------------------------------
\* A schema and a value that have a meaning, and where the value is.
Met(i, ptr, inst) ==
  /\ Meaningful /\ i \in DOMAIN graph /\ ptr \in Seq(Token) /\ inst \in Parts

\* Such a value is a document.
LEMMA MetPosed ==
  ASSUME NEW i, NEW ptr, NEW inst, Met(i, ptr, inst)
  PROVE  Posed(i, inst) /\ IsDocument(inst)
<1>1. Posed(i, inst)
  BY DEF Met, Meaningful, Posed
<1>2. IsDocument(inst)
  BY <1>1, PartsClosed DEF Posed
<1> QED
  BY <1>1, <1>2

\* Some tasks for each member of a set, in an order.
LEMMA OrderedMeans ==
  ASSUME NEW f, NEW A, NEW on, Sequence(on), Range(on) = A,
         NEW r, \A k \in A : Steady(r[k]),
         NEW all, DOMAIN all = 1..Len(on), all = [m \in 1..Len(on) |-> all[m]],
         \A m \in 1..Len(on) : all[m] = r[on[m]]
  PROVE  Gathers(f, FlattenSeq(all), r, A)
<1> DEFINE n == Len(on)
           tasks == FlattenSeq(all)
<1>1. n \in Nat /\ \A k : k \in A <=> \E m \in 1..n : k = on[m]
  BY Elements
<1>3. DOMAIN all = 1..n /\ all = [m \in 1..n |-> all[m]] /\ \A m \in 1..n : all[m] = r[on[m]]
  OBVIOUS
<1> HIDE DEF n
<1>2. \A m \in 1..n : Steady(all[m])
  BY <1>1, <1>3
<1>4. Gathers(f, tasks, all, 1..n)
  BY <1>1, <1>2, <1>3, FlattenMeans
<1> HIDE DEF tasks
<1>5. ASSUME Good(f, tasks), NEW k \in A PROVE Good(f, r[k])
  <2>1. PICK m \in 1..n : k = on[m]
    BY <1>1
  <2>2. Good(f, all[m])
    BY <1>4, <1>5 DEF Gathers
  <2> QED BY <1>3, <2>1, <2>2
<1>6. ASSUME \A k \in A : Good(f, r[k]) PROVE Good(f, tasks)
  <2>1. \A m \in 1..n : Good(f, all[m])
    BY <1>1, <1>3, <1>6
  <2> QED BY <1>4, <2>1 DEF Gathers
<1>7. UNION {Total(f, all[m]) : m \in 1..n} = UNION {Total(f, r[k]) : k \in A}
  <2>1. {Total(f, all[m]) : m \in 1..n} = {Total(f, r[k]) : k \in A}
    BY <1>1, <1>3
  <2> QED BY <2>1
<1>8. Gathers(f, tasks, r, A)
  BY <1>4, <1>5, <1>6, <1>7 DEF Gathers
<1> QED
  BY <1>8 DEF tasks

\* Six parts of an agenda.
Joins(f, tasks, a, b, c, d, e, g) ==
  /\ Steady(tasks)
  /\ Good(f, tasks) <=> Good(f, a) /\ Good(f, b) /\ Good(f, c) /\ Good(f, d) /\ Good(f, e) /\ Good(f, g)
  /\ Total(f, tasks) =
       Total(f, a) \cup Total(f, b) \cup Total(f, c) \cup Total(f, d) \cup Total(f, e) \cup Total(f, g)

\* Six parts one after another are told in order, hold together and give together.
LEMMA SixMean ==
  ASSUME NEW f, NEW a, Steady(a), NEW b, Steady(b), NEW c, Steady(c), NEW d, Steady(d),
         NEW e, Steady(e), NEW g, Steady(g)
  PROVE  Joins(f, a \o b \o c \o d \o e \o g, a, b, c, d, e, g)
<1> DEFINE u == a \o b
           v == u \o c
           w == v \o d
           x == w \o e
           y == x \o g
<1>1. Steady(u) /\ (Good(f, u) <=> Good(f, a) /\ Good(f, b)) /\ Total(f, u) = Total(f, a) \cup Total(f, b)
  BY JoinMeans
<1> HIDE DEF u
<1>2. Steady(v) /\ (Good(f, v) <=> Good(f, u) /\ Good(f, c)) /\ Total(f, v) = Total(f, u) \cup Total(f, c)
  BY <1>1, JoinMeans
<1> HIDE DEF v
<1>3. Steady(w) /\ (Good(f, w) <=> Good(f, v) /\ Good(f, d)) /\ Total(f, w) = Total(f, v) \cup Total(f, d)
  BY <1>2, JoinMeans
<1> HIDE DEF w
<1>4. Steady(x) /\ (Good(f, x) <=> Good(f, w) /\ Good(f, e)) /\ Total(f, x) = Total(f, w) \cup Total(f, e)
  BY <1>3, JoinMeans
<1> HIDE DEF x
<1>5. Steady(y) /\ (Good(f, y) <=> Good(f, x) /\ Good(f, g)) /\ Total(f, y) = Total(f, x) \cup Total(f, g)
  BY <1>4, JoinMeans
<1> HIDE DEF y
<1>6. /\ Good(f, y) <=>
              Good(f, a) /\ Good(f, b) /\ Good(f, c) /\ Good(f, d) /\ Good(f, e) /\ Good(f, g)
      /\ Total(f, y) =
              Total(f, a) \cup Total(f, b) \cup Total(f, c) \cup Total(f, d) \cup Total(f, e) \cup Total(f, g)
  BY <1>1, <1>2, <1>3, <1>4, <1>5
<1>7. Joins(f, y, a, b, c, d, e, g)
  BY <1>5, <1>6 DEF Joins
<1> QED
  BY <1>7 DEF u, v, w, x, y
-----------------------------------------------------------------------------
\* The default value of one property.
LEMMA DefaultTaskMeans ==
  ASSUME NEW f, Meaningful, NEW i \in DOMAIN graph, NEW ptr, NEW k
  PROVE  /\ Steady(DefaultTask(i, ptr, k)) /\ (Good(f, DefaultTask(i, ptr, k)) <=> Defaulted(i))
         /\ Total(f, DefaultTask(i, ptr, k)) =
              IF IsNull(DefaultOf(i)) THEN {} ELSE {[path |-> Append(ptr, k), value |-> DefaultOf(i)]}
<1> DEFINE d == DefaultOf(i)
           path == Append(ptr, k)
           x == Add(path, d)
           ref == graph[Holder[i]].kind = "ref"
<1>1. Defaulting(i) = graph[Holder[i]] /\ d = graph[Holder[i]].default
  BY DefaultingHolder DEF Meaningful, DefaultOf
<1>2. DefaultTask(i, ptr, k) = IF ~IsNull(d) THEN <<x>> ELSE Reject(ref, ptr)
  BY <1>1 DEF DefaultTask
<1>3. Defaulted(i) <=> ~IsNull(d) \/ ~ref
  BY DEF Defaulted
<1>4. x.do = "add" /\ x.path = path /\ x.value = d
  BY DEF Add
<1> HIDE DEF d, path, x, ref
<1>5. Calm(x) /\ Okay(Holds, f, x) /\ Gives(Holds, Brought, f, x) = {[path |-> path, value |-> d]}
  BY <1>4 DEF Calm, Orderly, Okay, Gives
<1>6. Steady(<<x>>) /\ Good(f, <<x>>) /\ Total(f, <<x>>) = {[path |-> path, value |-> d]}
  BY <1>5, FewMean
<1>7. Steady(Reject(ref, ptr)) /\ (Good(f, Reject(ref, ptr)) <=> ~ref) /\ Total(f, Reject(ref, ptr)) = {}
  BY RejectMeans
<1>8. /\ Steady(DefaultTask(i, ptr, k)) /\ (Good(f, DefaultTask(i, ptr, k)) <=> Defaulted(i))
      /\ Total(f, DefaultTask(i, ptr, k)) = IF IsNull(d) THEN {} ELSE {[path |-> path, value |-> d]}
  BY <1>2, <1>3, <1>6, <1>7
<1> QED
  BY <1>8 DEF d, path

\* The default values of the properties that are not there.
LEMMA AbsentMean ==
  ASSUME NEW f, NEW i, NEW ptr, NEW inst, Met(i, ptr, inst)
  PROVE  LET s == graph[i]
             tasks == DefaultTasks(s, ptr, inst)
         IN /\ Steady(tasks)
            /\ Good(f, tasks) <=> \A k \in DOMAIN s.properties \ Members(inst, <<>>) : Defaulted(s.properties[k])
            /\ Total(f, tasks) = OfAbsent(s, ptr, inst)
<1> DEFINE s == graph[i]
           A == DOMAIN s.properties \ Members(inst, <<>>)
           on == Sorted(A)
           n == Len(on)
           r == [k \in A |-> DefaultTask(s.properties[k], ptr, k)]
           all == [m \in 1..n |-> DefaultTask(s.properties[on[m]], ptr, on[m])]
           of(k) == [path |-> Append(ptr, k), value |-> DefaultOf(s.properties[k])]
<1>1. DOMAIN s.properties \in SUBSET Token /\ IsFiniteSet(DOMAIN s.properties)
      /\ \A k \in DOMAIN s.properties : s.properties[k] \in DOMAIN graph
  BY SchemaObjects DEF Met, Meaningful, IsSchema
<1>2. Sequence(on) /\ Range(on) = A
  <2>1. A \in SUBSET DOMAIN s.properties
    OBVIOUS
  <2> HIDE DEF A, s
  <2>2. A \in SUBSET Token /\ IsFiniteSet(A)
    BY <1>1, <2>1, FS_Subset
  <2> QED BY <2>2, SortedMembers
<1>3. n \in Nat /\ DOMAIN on = 1..n /\ \A m \in 1..n : on[m] \in A
  <2> HIDE DEF A, on
  <2> QED BY <1>2, Elements
<1>4. DefaultTasks(s, ptr, inst) = FlattenSeq(all)
  BY <1>3 DEF DefaultTasks
<1>5. \A k \in A : /\ Steady(r[k]) /\ (Good(f, r[k]) <=> Defaulted(s.properties[k]))
                   /\ Total(f, r[k]) = IF IsNull(DefaultOf(s.properties[k])) THEN {} ELSE {of(k)}
  <2> SUFFICES ASSUME NEW k \in A
               PROVE  /\ Steady(r[k]) /\ (Good(f, r[k]) <=> Defaulted(s.properties[k]))
                      /\ Total(f, r[k]) = IF IsNull(DefaultOf(s.properties[k])) THEN {} ELSE {of(k)}
    OBVIOUS
  <2> DEFINE j == s.properties[k]
             y == DefaultTask(j, ptr, k)
  <2>1. j \in DOMAIN graph /\ r[k] = y
    BY <1>1
  <2> HIDE DEF j
  <2>2. /\ Steady(y) /\ (Good(f, y) <=> Defaulted(j))
        /\ Total(f, y) = IF IsNull(DefaultOf(j)) THEN {} ELSE {[path |-> Append(ptr, k), value |-> DefaultOf(j)]}
    BY <2>1, DefaultTaskMeans DEF Met
  <2> HIDE DEF y, r
  <2> QED BY <2>1, <2>2 DEF j
<1>6. \A m \in 1..n : DefaultTask(s.properties[on[m]], ptr, on[m]) = r[on[m]]
  <2> HIDE DEF A, on, n
  <2> QED BY <1>3
<1>7. DOMAIN all = 1..n /\ all = [m \in 1..n |-> all[m]] /\ \A m \in 1..n : all[m] = r[on[m]]
  <2> HIDE DEF A, on, n, r
  <2> QED BY <1>6
<1> HIDE DEF A, on, r, all
<1>g. \A k \in A : Steady(r[k])
  BY <1>5
<1>f. Gathers(f, FlattenSeq(all), r, A)
  BY <1>2, <1>7, <1>g, OrderedMeans
<1>8. /\ Steady(FlattenSeq(all)) /\ (Good(f, FlattenSeq(all)) <=> \A k \in A : Good(f, r[k]))
      /\ Total(f, FlattenSeq(all)) = UNION {Total(f, r[k]) : k \in A}
  BY <1>f DEF Gathers
<1>9. UNION {Total(f, r[k]) : k \in A} = {of(k) : k \in {j \in A : ~IsNull(DefaultOf(s.properties[j]))}}
  <2> HIDE DEF of, s
  <2> QED BY <1>5
<1>10. OfAbsent(s, ptr, inst) = {of(k) : k \in {j \in A : ~IsNull(DefaultOf(s.properties[j]))}}
  BY DEF OfAbsent, A
<1>11. Good(f, FlattenSeq(all)) <=> \A k \in A : Defaulted(s.properties[k])
  <2> HIDE DEF of, s
  <2> QED BY <1>5, <1>8
<1> HIDE DEF of
<1> QED
  BY <1>4, <1>8, <1>9, <1>10, <1>11 DEF A
-----------------------------------------------------------------------------
\* The schemas that are named for a key.
Named(s, k) ==
  {s.properties[j] : j \in DOMAIN s.properties \cap {k}}
  \cup {s.patternProperties[i].schema : i \in {j \in DOMAIN s.patternProperties :
                                             k \in s.patternProperties[j].keys}}

\* The schemas that validate() of class object asks for a key are those the meaning names.
LEMMA NamedMatch ==
  ASSUME NEW i, validator \in Corpus, i \in DOMAIN graph, NEW k
  PROVE  /\ Sequence(Matching(graph[i], k)) /\ Range(Matching(graph[i], k)) = Named(graph[i], k)
         /\ Named(graph[i], k) \subseteq DOMAIN graph
         /\ Applying(graph[i], k) = IF Named(graph[i], k) = {} THEN {graph[i].additionalProperties} \ {0}
                                    ELSE Named(graph[i], k)
<1> DEFINE s == graph[i]
           G == DOMAIN graph
           own == IF k \in DOMAIN s.properties THEN <<s.properties[k]>> ELSE <<>>
           n == Len(s.patternProperties)
           fits(m) == k \in s.patternProperties[m].keys
           of(m) == s.patternProperties[m].schema
           r(m) == IF fits(m) THEN <<of(m)>> ELSE <<>>
           all == [m \in 1..n |-> r(m)]
           M == Matching(s, k)
<1>1. n \in Nat /\ DOMAIN s.patternProperties = 1..n
  BY SchemaObjects DEF IsSchema
<1>2. M = own \o FlattenSeq(all)
  BY <1>1 DEF Matching
<1>3. Range(<<>>) = {} /\ \A x : Range(<<x>>) = {x}
  BY DEF Range
<1>4. Sequence(own) /\ Range(own) = {s.properties[j] : j \in DOMAIN s.properties \cap {k}}
  <2>1. CASE k \in DOMAIN s.properties
    <3> DEFINE x == s.properties[k]
    <3>1. own = <<x>> /\ {s.properties[j] : j \in DOMAIN s.properties \cap {k}} = {x}
      BY <2>1
    <3> HIDE DEF x, own
    <3> QED BY <1>3, <3>1, Short
  <2>2. CASE k \notin DOMAIN s.properties
    BY <1>3, <2>2, Short
  <2> QED BY <2>1, <2>2
<1>5. \A m \in 1..n : Sequence(r(m)) /\ Range(r(m)) = IF fits(m) THEN {of(m)} ELSE {}
  <2> HIDE DEF fits, of
  <2> QED BY <1>3, Short
<1>6. {of(m) : m \in {j \in DOMAIN s.patternProperties : fits(j)}} = UNION {Range(r(m)) : m \in 1..n}
  <2> HIDE DEF fits, of, r, n
  <2> QED BY <1>1, <1>5
<1>7. /\ DOMAIN all = 1..n /\ all = [m \in 1..n |-> all[m]]
      /\ \A m \in 1..n : all[m] = r(m)
  OBVIOUS
<1>8. Named(s, k) = {s.properties[j] : j \in DOMAIN s.properties \cap {k}}
                    \cup {of(m) : m \in {j \in DOMAIN s.patternProperties : fits(j)}}
  BY DEF Named
<1>9. Applying(s, k) = IF Named(s, k) = {} THEN {s.additionalProperties} \ {0} ELSE Named(s, k)
  BY DEF Applying, Named
<1>10. Named(s, k) \subseteq G
  <2>1. \A j \in DOMAIN s.properties : s.properties[j] \in G
    BY PropertyCallees
  <2>2. \A j \in DOMAIN s.patternProperties : of(j) \in G
    BY PropertyCallees
  <2> HIDE DEF s, G, of, fits
  <2> QED BY <1>8, <2>1, <2>2
<1> HIDE DEF r, n, own, all, fits, of
<1>11. Sequence(all) /\ Len(all) = n
  BY <1>1, <1>7, Listed
<1>12. \A m \in 1..Len(all) : Sequence(all[m])
  BY <1>5, <1>7, <1>11
<1>13. /\ Sequence(FlattenSeq(all))
       /\ Range(FlattenSeq(all)) = UNION {Range(all[m]) : m \in 1..Len(all)}
  BY <1>11, <1>12, Flattened
<1>14. UNION {Range(all[m]) : m \in 1..Len(all)} = UNION {Range(r(m)) : m \in 1..n}
  BY <1>7, <1>11
<1>15. Sequence(M) /\ Range(M) = Range(own) \cup Range(FlattenSeq(all))
  BY <1>2, <1>4, <1>13, Joined
<1> HIDE DEF M
<1>16. Range(M) = Named(s, k)
  BY <1>4, <1>6, <1>8, <1>13, <1>14, <1>15
<1> QED
  BY <1>9, <1>10, <1>15, <1>16 DEF M

\* The tasks that call schemas for the same value.
LEMMA PlainsMean ==
  ASSUME NEW f, NEW m, Sequence(m), Range(m) \subseteq DOMAIN graph, NEW ptr \in Seq(Token),
         NEW inst \in Parts
  PROVE  LET tasks == [j \in DOMAIN m |-> Plain(m[j], ptr, inst)]
         IN Asks(f, tasks, Range(m), ptr, inst)
<1> DEFINE n == Len(m)
           call(j) == Plain(m[j], ptr, inst)
           tasks == [j \in DOMAIN m |-> call(j)]
<1>1. n \in Nat /\ DOMAIN m = 1..n /\ \A x : x \in Range(m) <=> \E j \in 1..n : x = m[j]
  BY Elements
<1>2. \A j \in 1..n : /\ Calm(call(j)) /\ (Okay(Holds, f, call(j)) <=> Valid[<<m[j], inst>>])
                      /\ Gives(Holds, Brought, f, call(j)) = DefaultsOf[<<m[j], ptr, inst>>]
  <2> SUFFICES ASSUME NEW j \in 1..n
               PROVE  /\ Calm(call(j)) /\ (Okay(Holds, f, call(j)) <=> Valid[<<m[j], inst>>])
                      /\ Gives(Holds, Brought, f, call(j)) = DefaultsOf[<<m[j], ptr, inst>>]
    OBVIOUS
  <2> DEFINE x == m[j]
  <2>1. x \in DOMAIN graph
    BY <1>1
  <2> HIDE DEF x
  <2> QED BY <2>1, PlainMeans DEF x
<1> HIDE DEF n, call
<1>3. DOMAIN tasks = 1..n /\ tasks = [j \in 1..n |-> tasks[j]] /\ \A j \in 1..n : tasks[j] = call(j)
  BY <1>1
<1> HIDE DEF tasks
<1>4. \A j \in 1..n : Calm(tasks[j])
  BY <1>2, <1>3
<1>5. Lists(f, tasks, 1..n)
  BY <1>1, <1>3, <1>4, ListMeans
<1>6. Good(f, tasks) <=> \A j \in 1..n : Valid[<<m[j], inst>>]
  BY <1>2, <1>3, <1>5 DEF Lists
<1>7. Good(f, tasks) <=> \A j \in Range(m) : Valid[<<j, inst>>]
  BY <1>1, <1>6
<1>8. UNION {Gives(Holds, Brought, f, tasks[k]) : k \in 1..n} = UNION {DefaultsOf[<<j, ptr, inst>>] : j \in Range(m)}
  <2>1. \A k \in 1..n : Gives(Holds, Brought, f, tasks[k]) = DefaultsOf[<<m[k], ptr, inst>>]
    BY <1>2, <1>3
  <2> DEFINE R == Range(m)
             u(k) == Gives(Holds, Brought, f, tasks[k])
             v(j) == DefaultsOf[<<j, ptr, inst>>]
  <2>0. (\A k \in 1..n : u(k) = v(m[k])) /\ \A x : x \in R <=> \E j \in 1..n : x = m[j]
    BY <1>1, <2>1
  <2> HIDE DEF R, u, v
  <2>3. {u(k) : k \in 1..n} = {v(j) : j \in R}
    BY <2>0
  <2>2. {Gives(Holds, Brought, f, tasks[k]) : k \in 1..n} = {DefaultsOf[<<j, ptr, inst>>] : j \in Range(m)}
    BY <2>3 DEF R, u, v
  <2> QED BY <2>2
<1>9. Steady(tasks) /\ Total(f, tasks) = UNION {DefaultsOf[<<j, ptr, inst>>] : j \in Range(m)}
  BY <1>5, <1>8 DEF Lists
<1>10. Asks(f, tasks, Range(m), ptr, inst)
  BY <1>7, <1>9 DEF Asks
<1> QED
  BY <1>10 DEF tasks, call

\* What is done for one property.
PropertyValid(s, inst, k) ==
  /\ \A i \in Applying(s, k) : Valid[<<i, At(inst, k)>>]
  /\ s.propertyNames # 0 => Valid[<<s.propertyNames, TextValue(k)>>]
PropertyBrings(s, ptr, inst, k) ==
  UNION {DefaultsOf[<<j, Append(ptr, k), At(inst, k)>>] : j \in Applying(s, k)}
PropertyDone(f, s, ptr, inst, k) ==
  LET tasks == PropertyTasks(s, ptr, inst, k)
  IN /\ Steady(tasks) /\ (Good(f, tasks) <=> PropertyValid(s, inst, k))
     /\ Total(f, tasks) = PropertyBrings(s, ptr, inst, k)

\* validate() of class object does for one property what the meaning asks of it.
LEMMA PropertyMeans ==
  ASSUME NEW f, NEW i, NEW ptr, NEW inst, Met(i, ptr, inst), NEW k \in Members(inst, <<>>)
  PROVE  PropertyDone(f, graph[i], ptr, inst, k)
<1> DEFINE s == graph[i]
           m == Matching(s, k)
           path == Append(ptr, k)
           value == At(inst, k)
           text == TextValue(k)
           names == s.propertyNames
           more == s.additionalProperties
           a == IfPresent(names, "plain", ptr, text)
           b == [j \in DOMAIN m |-> Plain(m[j], path, value)]
           c == IfPresent(more, "property", path, value)
           d == IF m = <<>> THEN c ELSE <<>>
           tasks == PropertyTasks(s, ptr, inst, k)
           A == Applying(s, k)
<1>1. /\ k \in Token /\ value \in Parts /\ text \in Parts /\ ptr \in Seq(Token)
      /\ validator \in Corpus /\ IsDocument(instance) /\ Grounded(validator) /\ i \in DOMAIN graph
  BY PartsClosed DEF Met, Meaningful
<1>2. names \in DOMAIN graph \cup {0} /\ more \in DOMAIN graph \cup {0} /\ 0 \notin DOMAIN graph
  BY <1>1, AskedSchemas
<1>3. path \in Seq(Token) /\ Kind(text) = "string"
  BY <1>1, TextDocument
<1>4. /\ Sequence(m) /\ Range(m) = Named(s, k) /\ Named(s, k) \subseteq DOMAIN graph
      /\ A = IF Named(s, k) = {} THEN {more} \ {0} ELSE Named(s, k)
  BY <1>1, NamedMatch
<1>5. tasks = a \o b \o d
  BY DEF PropertyTasks
<1> HIDE DEF text, path, value, names, more, m, A, tasks
<1>6. Steady(a) /\ (Good(f, a) <=> (names # 0 => Valid[<<names, text>>])) /\ Total(f, a) = {}
  <2>3. Asks(f, a, {names} \ {0}, ptr, text)
    BY <1>1, <1>2, IfPresentMeans
  <2> HIDE DEF a
  <2>1. /\ Steady(a) /\ (Good(f, a) <=> (names # 0 => Valid[<<names, text>>]))
        /\ Total(f, a) = IF names = 0 THEN {} ELSE DefaultsOf[<<names, ptr, text>>]
    BY <2>3 DEF Asks
  <2>2. names # 0 => DefaultsOf[<<names, ptr, text>>] = {}
    BY <1>1, <1>2, <1>3, TextNothing
  <2> QED BY <2>1, <2>2
<1>7. Asks(f, b, Range(m), path, value)
  BY <1>1, <1>3, <1>4, PlainsMean
<1>8. Asks(f, c, {more} \ {0}, path, value)
  BY <1>1, <1>2, <1>3, IfPresentMeans
<1> HIDE DEF a, b, c
<1>9. Steady(d) /\ Steady(b)
  BY <1>7, <1>8, FewMean DEF Asks
<1>10. /\ Steady(a \o b) /\ (Good(f, a \o b) <=> Good(f, a) /\ Good(f, b))
       /\ Total(f, a \o b) = Total(f, a) \cup Total(f, b)
  BY <1>6, <1>9, JoinMeans
<1> DEFINE ab == a \o b
<1> HIDE DEF ab
<1>11. /\ Steady(ab \o d) /\ (Good(f, ab \o d) <=> Good(f, ab) /\ Good(f, d))
       /\ Total(f, ab \o d) = Total(f, ab) \cup Total(f, d)
  <2>1. Steady(ab)
    BY <1>10 DEF ab
  <2> HIDE DEF d
  <2> QED BY <1>9, <2>1, JoinMeans
<1>12. m = <<>> <=> Named(s, k) = {}
  <2>1. Len(m) \in Nat /\ DOMAIN m = 1..Len(m) /\ \A x : x \in Range(m) <=> \E j \in 1..Len(m) : x = m[j]
    BY <1>4, Elements
  <2>2. m = <<>> <=> Len(m) = 0
    BY <1>4 DEF Sequence
  <2>3. Len(m) = 0 <=> Range(m) = {}
    BY <2>1
  <2> QED BY <1>4, <2>2, <2>3
<1>13. CASE Named(s, k) = {}
  <2>1. d = c /\ Range(m) = {} /\ A = {more} \ {0}
    BY <1>4, <1>12, <1>13
  <2>2. Good(f, d) <=> \A j \in A : Valid[<<j, value>>]
    BY <1>8, <2>1 DEF Asks
  <2>3. Total(f, d) = UNION {DefaultsOf[<<j, path, value>>] : j \in A}
    BY <1>8, <2>1 DEF Asks
  <2>4. Good(f, b) /\ Total(f, b) = {}
    BY <1>7, <2>1 DEF Asks
  <2> HIDE DEF d
  <2>5. Good(f, tasks) <=> /\ \A j \in A : Valid[<<j, value>>]
                           /\ names # 0 => Valid[<<names, text>>]
    BY <1>5, <1>6, <1>10, <1>11, <2>2, <2>4 DEF ab
  <2>6. Steady(tasks) /\ Total(f, tasks) = UNION {DefaultsOf[<<j, path, value>>] : j \in A}
    BY <1>5, <1>6, <1>10, <1>11, <2>3, <2>4 DEF ab
  <2> QED BY <2>5, <2>6 DEF PropertyDone, PropertyValid, PropertyBrings, A, value, names, text, tasks, path
<1>14. CASE Named(s, k) # {}
  <2>1. d = <<>> /\ Range(m) = A
    BY <1>4, <1>12, <1>14
  <2>2. Good(f, d) /\ Total(f, d) = {}
    BY <2>1, FewMean
  <2>3. /\ Good(f, b) <=> \A j \in A : Valid[<<j, value>>]
        /\ Total(f, b) = UNION {DefaultsOf[<<j, path, value>>] : j \in A}
    BY <1>7, <2>1 DEF Asks
  <2> HIDE DEF d
  <2>5. Good(f, tasks) <=> /\ \A j \in A : Valid[<<j, value>>]
                           /\ names # 0 => Valid[<<names, text>>]
    BY <1>5, <1>6, <1>10, <1>11, <2>2, <2>3 DEF ab
  <2>6. Steady(tasks) /\ Total(f, tasks) = UNION {DefaultsOf[<<j, path, value>>] : j \in A}
    BY <1>5, <1>6, <1>10, <1>11, <2>2, <2>3 DEF ab
  <2> QED BY <2>5, <2>6 DEF PropertyDone, PropertyValid, PropertyBrings, A, value, names, text, tasks, path
<1> QED
  BY <1>13, <1>14
-----------------------------------------------------------------------------
\* A schema that is given the wrong path has no default values.
LEMMA AstrayNothing ==
  ASSUME Meaningful, WellPlaced(validator), NEW i \in DOMAIN graph, NEW j \in Astray(graph[i]) \ {0},
         NEW ptr \in Seq(Token), NEW inst \in Parts
  PROVE  DefaultsOf[<<j, ptr, inst>>] = {}
<1>1. j \in Quiet(validator)
  BY QuietSchemas DEF Silent, graph
<1> QED
  BY <1>1, QuietNothing DEF Meaningful

\* The dependencies of the properties that are there.
DependencyValid(s, inst, k) ==
  /\ \A i \in DOMAIN s.dependencies[k].required : s.dependencies[k].required[i] \in Members(inst, <<>>)
  /\ s.dependencies[k].schema # 0 => Valid[<<s.dependencies[k].schema, inst>>]

\* The dependencies that are checked are those of the properties that are there.
LEMMA DependenciesMean ==
  ASSUME NEW f, NEW i, NEW ptr, NEW inst, Met(i, ptr, inst)
  PROVE  LET s == graph[i]
             tasks == DependencyTasks(s, ptr, inst)
         IN /\ Steady(tasks)
            /\ Good(f, tasks) <=>
                 \A k \in Members(inst, <<>>) \cap DOMAIN s.dependencies : DependencyValid(s, inst, k)
            /\ WellPlaced(validator) => Total(f, tasks) = {} /\ InDependencies(DefaultsOf, s, ptr, inst) = {}
<1> DEFINE s == graph[i]
           M == Members(inst, <<>>)
           A == DOMAIN s.dependencies \cap M
           on == Sorted(A)
           n == Len(on)
           task(k) == Missing(s.dependencies[k].required, Append(ptr, k), inst)
                      \o IfPresent(s.dependencies[k].schema, "plain", Append(ptr, k), inst)
           r == [k \in A |-> task(k)]
           all == [m \in 1..n |-> task(on[m])]
           tasks == DependencyTasks(s, ptr, inst)
<1>1. A \in SUBSET Token /\ IsFiniteSet(A)
  <2>1. DOMAIN s.dependencies \in SUBSET Token /\ IsFiniteSet(DOMAIN s.dependencies)
    BY SchemaObjects DEF Met, Meaningful, IsSchema
  <2>2. A \in SUBSET DOMAIN s.dependencies
    OBVIOUS
  <2> HIDE DEF A, s
  <2> QED BY <2>1, <2>2, FS_Subset
<1>2. Sequence(on) /\ Range(on) = A
  <2> HIDE DEF A
  <2> QED BY <1>1, SortedMembers
<1>3. n \in Nat /\ DOMAIN on = 1..n /\ \A m \in 1..n : on[m] \in A
  <2> HIDE DEF A, on
  <2> QED BY <1>2, Elements
<1>4. tasks = FlattenSeq(all)
  BY <1>3 DEF DependencyTasks
<1>5. ASSUME NEW k \in A
      PROVE  /\ Steady(task(k)) /\ (Good(f, task(k)) <=> DependencyValid(s, inst, k))
             /\ WellPlaced(validator) => Total(f, task(k)) = {}
  <2> DEFINE d == s.dependencies[k]
             keys == d.required
             path == Append(ptr, k)
             j == d.schema
             a == Missing(keys, path, inst)
             b == IfPresent(j, "plain", path, inst)
  <2>1. d \in [required : Seq(Token), schema : DOMAIN graph \cup {0}]
    BY SchemaObjects DEF Met, Meaningful, IsSchema
  <2>2. keys \in Seq(Token) /\ j \in DOMAIN graph \cup {0} /\ j \in Astray(s)
    <3>1. j \in Astray(s)
      BY DEF Astray
    <3> HIDE DEF d
    <3> QED BY <2>1, <3>1
  <2>3. path \in Seq(Token) /\ Meaningful /\ i \in DOMAIN graph /\ inst \in Parts /\ 0 \notin DOMAIN graph
    <3>1. k \in Token
      BY <1>1
    <3> QED BY <3>1, SchemaObjects DEF Met, Meaningful
  <2>4. DependencyValid(s, inst, k) <=> /\ \A m \in DOMAIN keys : keys[m] \in M
                                        /\ j # 0 => Valid[<<j, inst>>]
    BY DEF DependencyValid
  <2>5. task(k) = a \o b
    OBVIOUS
  <2> HIDE DEF d, path, A, j, keys, M, task
  <2>6. /\ Steady(a) /\ (Good(f, a) <=> \A m \in DOMAIN keys : keys[m] \in M)
        /\ Total(f, a) = {}
    BY <2>2, MissingMeans DEF M
  <2>7. Asks(f, b, {j} \ {0}, path, inst)
    BY <2>2, <2>3, IfPresentMeans
  <2> HIDE DEF a, b
  <2>8. Steady(b) /\ (Good(f, b) <=> (j # 0 => Valid[<<j, inst>>]))
    BY <2>7 DEF Asks
  <2>9. WellPlaced(validator) => Total(f, b) = {}
    <3> SUFFICES ASSUME WellPlaced(validator) PROVE Total(f, b) = {}
      OBVIOUS
    <3>1. j # 0 => DefaultsOf[<<j, path, inst>>] = {}
      BY <2>2, <2>3, AstrayNothing
    <3> QED BY <2>7, <3>1 DEF Asks
  <2>10. Steady(a \o b) /\ (Good(f, a \o b) <=> Good(f, a) /\ Good(f, b)) /\ Total(f, a \o b) = Total(f, a) \cup Total(f, b)
    BY <2>6, <2>8, JoinMeans
  <2> QED BY <2>4, <2>5, <2>6, <2>8, <2>9, <2>10
<1>6. \A k \in A : r[k] = task(k)
  <2> HIDE DEF task, A
  <2> QED OBVIOUS
<1>7. DOMAIN all = 1..n /\ all = [m \in 1..n |-> all[m]] /\ \A m \in 1..n : all[m] = r[on[m]]
  <2> HIDE DEF A, on, n, r, task
  <2> QED BY <1>3, <1>6
<1>8. WellPlaced(validator) => InDependencies(DefaultsOf, s, ptr, inst) = {}
  <2> SUFFICES ASSUME WellPlaced(validator) PROVE InDependencies(DefaultsOf, s, ptr, inst) = {}
    OBVIOUS
  <2> DEFINE S == {s.dependencies[k].schema : k \in M \cap DOMAIN s.dependencies} \ {0}
  <2>1. ASSUME NEW j \in S
        PROVE  DefaultsOf[<<j, ptr, inst>>] = {}
    <3>1. j \in Astray(s) \ {0}
      BY DEF Astray
    <3> HIDE DEF s, M
    <3> QED BY <3>1, AstrayNothing DEF Met, s
  <2>2. InDependencies(DefaultsOf, s, ptr, inst) = UNION {DefaultsOf[<<j, ptr, inst>>] : j \in S}
    BY DEF InDependencies
  <2> HIDE DEF S
  <2>3. UNION {DefaultsOf[<<j, ptr, inst>>] : j \in S} = {}
    BY <2>1
  <2> QED BY <2>2, <2>3
<1> HIDE DEF A, on, r, all, task, tasks
<1>9. \A k \in A : Steady(r[k])
  BY <1>5, <1>6
<1>10. Gathers(f, tasks, r, A)
  BY <1>2, <1>4, <1>7, <1>9, OrderedMeans
<1>11. Good(f, tasks) <=> \A k \in A : DependencyValid(s, inst, k)
  <2> HIDE DEF s
  <2> QED BY <1>5, <1>6, <1>10 DEF Gathers
<1>12. WellPlaced(validator) => Total(f, tasks) = {}
  BY <1>5, <1>6, <1>10 DEF Gathers
<1>13. A = M \cap DOMAIN s.dependencies /\ Steady(tasks)
  BY <1>10 DEF A, Gathers
<1> QED
  BY <1>8, <1>11, <1>12, <1>13 DEF tasks

\* The properties that are there.
LEMMA PropertiesMean ==
  ASSUME NEW f, NEW i, NEW ptr, NEW inst, Met(i, ptr, inst)
  PROVE  LET s == graph[i]
             keys == Keys(inst)
             tasks == FlattenSeq([m \in DOMAIN keys |-> PropertyTasks(s, ptr, inst, keys[m])])
         IN /\ Steady(tasks)
            /\ Good(f, tasks) <=> \A k \in Members(inst, <<>>) : PropertyValid(s, inst, k)
            /\ Total(f, tasks) = InMembers(DefaultsOf, s, ptr, inst)
<1> DEFINE s == graph[i]
           M == Members(inst, <<>>)
           keys == Keys(inst)
           n == Len(keys)
           r == [k \in M |-> PropertyTasks(s, ptr, inst, k)]
           of(k) == PropertyBrings(s, ptr, inst, k)
           all == [m \in DOMAIN keys |-> PropertyTasks(s, ptr, inst, keys[m])]
           tasks == FlattenSeq(all)
<1>1. Sequence(keys) /\ Range(keys) = M
  BY MetPosed, KeysOfDocument
<1>2. n \in Nat /\ DOMAIN keys = 1..n /\ \A m \in 1..n : keys[m] \in M
  <2> HIDE DEF M, keys
  <2> QED BY <1>1, Elements
<1>3. \A k \in M : /\ Steady(r[k]) /\ (Good(f, r[k]) <=> PropertyValid(s, inst, k))
                   /\ Total(f, r[k]) = of(k)
  <2> SUFFICES ASSUME NEW k \in M
               PROVE  /\ Steady(r[k]) /\ (Good(f, r[k]) <=> PropertyValid(s, inst, k))
                      /\ Total(f, r[k]) = of(k)
    OBVIOUS
  <2> DEFINE y == PropertyTasks(s, ptr, inst, k)
  <2>1. r[k] = y
    OBVIOUS
  <2>3. PropertyDone(f, s, ptr, inst, k)
    BY PropertyMeans
  <2>2. Steady(y) /\ (Good(f, y) <=> PropertyValid(s, inst, k)) /\ Total(f, y) = of(k)
    BY <2>3 DEF PropertyDone
  <2> HIDE DEF y, r, of, s
  <2> QED BY <2>1, <2>2
<1>4. InMembers(DefaultsOf, s, ptr, inst) = UNION {of(k) : k \in M}
  BY DEF InMembers, PropertyBrings
<1>5. DOMAIN all = 1..n /\ all = [m \in 1..n |-> all[m]] /\ \A m \in 1..n : all[m] = r[keys[m]]
  <2> HIDE DEF n, M, keys
  <2> QED BY <1>2
<1> HIDE DEF M, keys, r, of, all
<1>6. \A k \in M : Steady(r[k])
  BY <1>3
<1>7. Gathers(f, tasks, r, M)
  BY <1>1, <1>5, <1>6, OrderedMeans
<1> HIDE DEF tasks
<1>8. Steady(tasks) /\ (Good(f, tasks) <=> \A k \in M : PropertyValid(s, inst, k))
  <2> HIDE DEF s
  <2> QED BY <1>3, <1>7 DEF Gathers
<1>9. Total(f, tasks) = UNION {of(k) : k \in M}
  <2>1. UNION {Total(f, r[k]) : k \in M} = UNION {of(k) : k \in M}
    BY <1>3
  <2> QED BY <1>7, <2>1 DEF Gathers
<1> QED
  BY <1>4, <1>8, <1>9 DEF tasks, all, keys, M

\* The agenda of class object.
LEMMA ObjectMeans ==
  ASSUME NEW f, NEW i, NEW ptr, NEW inst, Met(i, ptr, inst)
  PROVE  LET s == graph[i]
             tasks == ObjectTasks(s, ptr, inst)
         IN /\ Steady(tasks) /\ (Good(f, tasks) <=> ValidObject(Valid, s, inst))
            /\ WellPlaced(validator) => Total(f, tasks) = InObject(DefaultsOf, s, ptr, inst)
<1> DEFINE s == graph[i]
           keys == Keys(inst)
           M == Members(inst, <<>>)
           over == s.maxProperties # NoLimit /\ Size(inst) > s.maxProperties
           under == s.minProperties # NoLimit /\ Size(inst) < s.minProperties
           a == Reject(over, ptr)
           b == Reject(under, ptr)
           c == Missing(s.required, ptr, inst)
           d == FlattenSeq([m \in DOMAIN keys |-> PropertyTasks(s, ptr, inst, keys[m])])
           e == DefaultTasks(s, ptr, inst)
           g == DependencyTasks(s, ptr, inst)
           tasks == ObjectTasks(s, ptr, inst)
<1>1. s.required \in Seq(Token) /\ HasLimits(s)
  BY SchemaObjects DEF Met, Meaningful, IsSchema
<1>2. Size(inst) \in Nat
  BY MetPosed, ArrayItems
<1>3. /\ ~over <=> (s.maxProperties # NoLimit => Size(inst) <= s.maxProperties)
      /\ ~under <=> (s.minProperties # NoLimit => Size(inst) >= s.minProperties)
  <2>1. {s.maxProperties, s.minProperties} \subseteq Nat \cup {NoLimit}
    BY <1>1 DEF HasLimits
  <2> DEFINE x == Size(inst)
             y == s.maxProperties
             z == s.minProperties
  <2> HIDE DEF x, y, z
  <2> QED BY <1>2, <2>1 DEF x, y, z
<1>4. tasks = a \o b \o c \o d \o e \o g
  BY DEF ObjectTasks
<1>5. ValidObject(Valid, s, inst) <=>
        /\ ~over /\ ~under /\ \A m \in DOMAIN s.required : s.required[m] \in M
        /\ \A k \in M : PropertyValid(s, inst, k)
        /\ \A k \in DOMAIN s.properties \ M : Defaulted(s.properties[k])
        /\ \A k \in M \cap DOMAIN s.dependencies : DependencyValid(s, inst, k)
  <2> HIDE DEF over, under, s, M
  <2> QED BY <1>3 DEF ValidObject, PropertyValid, DependencyValid, M
<1> HIDE DEF over, under
<1>6. /\ Steady(a) /\ (Good(f, a) <=> ~over) /\ Total(f, a) = {}
      /\ Steady(b) /\ (Good(f, b) <=> ~under) /\ Total(f, b) = {}
  BY RejectMeans
<1>7. Steady(c) /\ (Good(f, c) <=> \A m \in DOMAIN s.required : s.required[m] \in M) /\ Total(f, c) = {}
  BY <1>1, MissingMeans
<1>8. /\ Steady(d) /\ (Good(f, d) <=> \A k \in M : PropertyValid(s, inst, k))
      /\ Total(f, d) = InMembers(DefaultsOf, s, ptr, inst)
  BY PropertiesMean
<1>9. /\ Steady(e) /\ (Good(f, e) <=> \A k \in DOMAIN s.properties \ M : Defaulted(s.properties[k]))
      /\ Total(f, e) = OfAbsent(s, ptr, inst)
  BY AbsentMean
<1>10. /\ Steady(g)
       /\ Good(f, g) <=> \A k \in M \cap DOMAIN s.dependencies : DependencyValid(s, inst, k)
       /\ WellPlaced(validator) => Total(f, g) = {} /\ InDependencies(DefaultsOf, s, ptr, inst) = {}
  BY DependenciesMean
<1> HIDE DEF a, b, c, d, e, g, tasks, s, M
<1>j. Joins(f, tasks, a, b, c, d, e, g)
  BY <1>4, <1>6, <1>7, <1>8, <1>9, <1>10, SixMean
<1>11. /\ Steady(tasks)
       /\ Good(f, tasks) <=> Good(f, a) /\ Good(f, b) /\ Good(f, c) /\ Good(f, d) /\ Good(f, e) /\ Good(f, g)
       /\ Total(f, tasks) =
            Total(f, a) \cup Total(f, b) \cup Total(f, c) \cup Total(f, d) \cup Total(f, e) \cup Total(f, g)
  BY <1>j DEF Joins
<1>12. Good(f, tasks) <=> ValidObject(Valid, s, inst)
  BY <1>5, <1>6, <1>7, <1>8, <1>9, <1>10, <1>11
<1>13. WellPlaced(validator) => Total(f, tasks) = InObject(DefaultsOf, s, ptr, inst)
  BY <1>6, <1>7, <1>8, <1>9, <1>10, <1>11 DEF InObject
<1> QED
  BY <1>11, <1>12, <1>13 DEF tasks, s
-----------------------------------------------------------------------------
\* The schema for an element, or 0.
ForItem(s, j) ==
  IF s.items # 0 THEN s.items ELSE IF j <= Len(s.tuple) THEN s.tuple[j] ELSE s.additionalItems

\* The path that the code gives to an element.
ItemPath(s, ptr, inst, j) == Append(ptr, Keys(inst)[IF s.items # 0 THEN j ELSE 1])

\* Of "items", the tuple and "additionalItems" the code takes the schema the meaning takes.
LEMMA ItemSchemas ==
  ASSUME Meaningful, NEW i \in DOMAIN graph, NEW j \in Nat \ {0}
  PROVE  LET s == graph[i]
         IN /\ ItemSchema(s, j) = {ForItem(s, j)} \ {0} /\ ForItem(s, j) \in DOMAIN graph \cup {0}
            /\ s.items = 0 => ForItem(s, j) \in Astray(s)
            /\ ForItem(s, j) # 0 <=> s.items # 0 \/ s.additionalItems # 0 \/ j <= Len(s.tuple)
<1> DEFINE s == graph[i]
           l == Len(s.tuple)
<1>1. /\ {s.items, s.additionalItems} \subseteq DOMAIN graph \cup {0} /\ s.tuple \in Seq(DOMAIN graph)
      /\ 0 \notin DOMAIN graph
  BY SchemaObjects DEF Meaningful, IsSchema
<1>2. ItemSchema(s, j) = {ForItem(s, j)} \ {0}
  BY DEF ItemSchema, ForItem
<1>3. CASE s.items # 0
  BY <1>1, <1>2, <1>3 DEF ForItem
<1>4. CASE s.items = 0 /\ j <= l
  <2>1. j \in 1..l
    <3>1. l \in Nat
      BY <1>1
    <3> HIDE DEF l
    <3> QED BY <1>4, <3>1
  <2>2. s.tuple[j] \in DOMAIN graph /\ s.tuple[j] \in Range(s.tuple)
    BY <1>1, <2>1 DEF Range
  <2>3. ForItem(s, j) = s.tuple[j]
    BY <1>4 DEF ForItem
  <2> QED BY <1>1, <1>2, <1>4, <2>2, <2>3 DEF Astray
<1>5. CASE s.items = 0 /\ ~(j <= l)
  <2>1. ForItem(s, j) = s.additionalItems
    BY <1>5 DEF ForItem
  <2> QED BY <1>1, <1>2, <1>5, <2>1 DEF Astray
<1> QED
  BY <1>3, <1>4, <1>5

\* The default values of an element do not depend on the path that the code gives it.
LEMMA ItemDefaults ==
  ASSUME NEW i, NEW ptr, NEW inst, Met(i, ptr, inst), NEW j \in 1..Size(inst)
  PROVE  LET s == graph[i]
             x == ForItem(s, j)
         IN /\ Item(inst, j) \in Parts /\ ItemPath(s, ptr, inst, j) \in Seq(Token)
            /\ x # 0 /\ WellPlaced(validator) =>
                 DefaultsOf[<<x, ItemPath(s, ptr, inst, j), Item(inst, j)>>] = InItem(DefaultsOf, x, ptr, inst, j)
<1> DEFINE s == graph[i]
           x == ForItem(s, j)
           path == ItemPath(s, ptr, inst, j)
           value == Item(inst, j)
           right == Append(ptr, Keys(inst)[j])
<1>1. Size(inst) \in Nat /\ \A n \in 1..Size(inst) : Keys(inst)[n] \in Members(inst, <<>>) /\ Item(inst, n) = At(inst, Keys(inst)[n])
  BY MetPosed, ArrayItems
<1>2. j \in Nat \ {0} /\ 1 \in 1..Size(inst)
  BY <1>1
<1>3. \A k \in Members(inst, <<>>) : k \in Token /\ At(inst, k) \in Parts
  BY PartsClosed DEF Met, Meaningful
<1>4. value \in Parts /\ Keys(inst)[j] \in Token /\ Keys(inst)[1] \in Token
  BY <1>1, <1>2, <1>3
<1>5. right \in Seq(Token) /\ path \in Seq(Token)
  BY <1>4 DEF Met, ItemPath
<1>6. InItem(DefaultsOf, x, ptr, inst, j) = DefaultsOf[<<x, right, value>>]
  BY DEF InItem
<1>7. CASE s.items # 0
  <2>1. path = right
    BY <1>7 DEF ItemPath
  <2> QED BY <1>4, <1>5, <1>6, <2>1
<1>8. CASE s.items = 0
  <2>1. ASSUME x # 0, WellPlaced(validator)
        PROVE  DefaultsOf[<<x, path, value>>] = {} /\ DefaultsOf[<<x, right, value>>] = {}
    <3>1. x \in Astray(s) \ {0}
      BY <1>2, <1>8, <2>1, ItemSchemas DEF Met
    <3> HIDE DEF x, path, value, right, s
    <3> QED BY <1>4, <1>5, <2>1, <3>1, AstrayNothing DEF Met, s
  <2> QED BY <1>4, <1>5, <1>6, <2>1
<1> QED
  BY <1>7, <1>8

\* The elements that are checked.
ItemsDone(f, s, ptr, inst) ==
  LET tasks == ItemTasks(s, ptr, inst)
  IN /\ Steady(tasks)
     /\ Good(f, tasks) <=> \A j \in 1..Size(inst) : \A k \in ItemSchema(s, j) : Valid[<<k, Item(inst, j)>>]
     /\ WellPlaced(validator) => Total(f, tasks) = InItems(DefaultsOf, s, ptr, inst)

\* validate() of class array asks each element's schema, in order, about that element.
LEMMA ItemsMean ==
  ASSUME NEW f, NEW i, NEW ptr, NEW inst, Met(i, ptr, inst)
  PROVE  ItemsDone(f, graph[i], ptr, inst)
<1> DEFINE s == graph[i]
           n == Size(inst)
           x(j) == ForItem(s, j)
           path(j) == ItemPath(s, ptr, inst, j)
           value(j) == Item(inst, j)
           checked == {j \in 1..n : x(j) # 0}
           task(j) == Plain(x(j), path(j), value(j))
           tasks == ItemTasks(s, ptr, inst)
           of(j) == InItem(DefaultsOf, x(j), ptr, inst, j)
<1>1. n \in Nat /\ DOMAIN Keys(inst) = 1..n /\ \A j \in 1..n : value(j) = At(inst, Keys(inst)[j])
  BY MetPosed, ArrayItems
<1>2. \A j \in 1..n : /\ ItemSchema(s, j) = {x(j)} \ {0} /\ x(j) \in DOMAIN graph \cup {0}
                      /\ x(j) # 0 <=> s.items # 0 \/ s.additionalItems # 0 \/ j <= Len(s.tuple)
  <2> SUFFICES ASSUME NEW j \in 1..n
               PROVE  /\ ItemSchema(s, j) = {x(j)} \ {0} /\ x(j) \in DOMAIN graph \cup {0}
                      /\ x(j) # 0 <=> s.items # 0 \/ s.additionalItems # 0 \/ j <= Len(s.tuple)
    OBVIOUS
  <2>1. j \in Nat \ {0}
    <3> HIDE DEF n
    <3> QED BY <1>1
  <2> QED BY <2>1, ItemSchemas DEF Met
<1>3. \A j \in 1..n : /\ value(j) \in Parts /\ path(j) \in Seq(Token)
                      /\ x(j) # 0 /\ WellPlaced(validator) => DefaultsOf[<<x(j), path(j), value(j)>>] = of(j)
  BY ItemDefaults
<1>4. checked = {j \in DOMAIN Keys(inst) : s.items # 0 \/ s.additionalItems # 0 \/ j <= Len(s.tuple)}
  <2> HIDE DEF n, x, s
  <2> QED BY <1>1, <1>2
<1>5. tasks = [j \in checked |-> task(j)]
  <2> DEFINE keys == Keys(inst)
             item(j) ==
               CASE s.items # 0 -> Plain(s.items, Append(ptr, keys[j]), At(inst, keys[j]))
                 [] s.items = 0 /\ j <= Len(s.tuple) ->
                      Plain(s.tuple[j], Append(ptr, keys[1]), At(inst, keys[j]))
                 [] OTHER -> Plain(s.additionalItems, Append(ptr, keys[1]), At(inst, keys[j]))
  <2>1. tasks = [j \in checked |-> item(j)]
    <3> HIDE DEF checked
    <3> QED BY <1>4 DEF ItemTasks, HasSchema
  <2>2. ASSUME NEW j \in checked PROVE item(j) = task(j)
    <3>1. value(j) = At(inst, keys[j])
      <4> HIDE DEF n, keys, value
      <4> QED BY <1>1 DEF keys
    <3>2. CASE s.items # 0
      BY <3>1, <3>2 DEF ForItem, ItemPath
    <3>3. CASE s.items = 0 /\ j <= Len(s.tuple)
      BY <3>1, <3>3 DEF ForItem, ItemPath
    <3>4. CASE s.items = 0 /\ ~(j <= Len(s.tuple))
      BY <3>1, <3>4 DEF ForItem, ItemPath
    <3> QED BY <3>2, <3>3, <3>4
  <2> HIDE DEF item, task, checked, tasks
  <2> QED BY <2>1, <2>2
<1>6. \E m \in Nat : checked = 1..m
  <2> DEFINE l == Len(s.tuple)
             m == IF s.items # 0 \/ s.additionalItems # 0 THEN n ELSE IF n <= l THEN n ELSE l
  <2>1. l \in Nat
    BY SchemaObjects DEF Met, Meaningful, IsSchema
  <2> HIDE DEF n, l
  <2>2. m \in Nat /\ checked = 1..m
    BY <1>1, <1>4, <2>1 DEF l
  <2> QED BY <2>2
<1>7. PICK m \in Nat : checked = 1..m
  BY <1>6
<1>8. \A j \in checked : /\ Calm(task(j)) /\ (Okay(Holds, f, task(j)) <=> Valid[<<x(j), value(j)>>])
                         /\ Gives(Holds, Brought, f, task(j)) = DefaultsOf[<<x(j), path(j), value(j)>>]
  <2> SUFFICES ASSUME NEW j \in checked
               PROVE  /\ Calm(task(j)) /\ (Okay(Holds, f, task(j)) <=> Valid[<<x(j), value(j)>>])
                      /\ Gives(Holds, Brought, f, task(j)) = DefaultsOf[<<x(j), path(j), value(j)>>]
    OBVIOUS
  <2> DEFINE y == x(j)
             p == path(j)
             v == value(j)
  <2>1. y \in DOMAIN graph /\ p \in Seq(Token) /\ v \in Parts
    <3> HIDE DEF n, x, path, value
    <3> QED BY <1>2, <1>3
  <2> HIDE DEF y, p, v
  <2>2. /\ Calm(Plain(y, p, v)) /\ (Okay(Holds, f, Plain(y, p, v)) <=> Valid[<<y, v>>])
        /\ Gives(Holds, Brought, f, Plain(y, p, v)) = DefaultsOf[<<y, p, v>>]
    BY <2>1, PlainMeans
  <2> QED BY <2>2 DEF y, p, v
<1>9. \A j \in 1..n : j \in checked <=> x(j) # 0
  OBVIOUS
<1>10. checked \subseteq 1..n
  OBVIOUS
<1>11. InItems(DefaultsOf, s, ptr, inst) = UNION {of(j) : j \in checked}
  <2> DEFINE u(j) == UNION {InItem(DefaultsOf, k, ptr, inst, j) : k \in ItemSchema(s, j)}
  <2>1. InItems(DefaultsOf, s, ptr, inst) = UNION {u(j) : j \in 1..n}
    BY DEF InItems
  <2>2. \A j \in checked : u(j) = of(j)
    <3> SUFFICES ASSUME NEW j \in checked PROVE u(j) = of(j)
      OBVIOUS
    <3> DEFINE y == x(j)
    <3>1. ItemSchema(s, j) = {y}
      <4> HIDE DEF n, x
      <4> QED BY <1>2 DEF y
    <3> HIDE DEF y, s
    <3>2. u(j) = InItem(DefaultsOf, y, ptr, inst, j)
      BY <3>1
    <3> QED BY <3>2 DEF y, s
  <2>3. \A j \in (1..n) \ checked : u(j) = {}
    <3> SUFFICES ASSUME NEW j \in (1..n) \ checked PROVE u(j) = {}
      OBVIOUS
    <3>1. ItemSchema(s, j) = {}
      <4> HIDE DEF n, x
      <4> QED BY <1>2
    <3> HIDE DEF n, x, s
    <3> QED BY <3>1
  <2> HIDE DEF u, of, checked, n
  <2> QED BY <1>10, <2>1, <2>2, <2>3
<1>12. (\A j \in checked : Valid[<<x(j), value(j)>>])
         <=> \A j \in 1..n : \A k \in ItemSchema(s, j) : Valid[<<k, value(j)>>]
  <2> HIDE DEF n, x, value, s
  <2> QED BY <1>2
<1>13. \A j \in checked : WellPlaced(validator) => DefaultsOf[<<x(j), path(j), value(j)>>] = of(j)
  <2> HIDE DEF n, x, value, path, of
  <2> QED BY <1>3
<1> HIDE DEF x, path, value, checked, task, tasks, of, n
<1>14. DOMAIN tasks = 1..m /\ tasks = [j \in 1..m |-> tasks[j]] /\ \A j \in 1..m : tasks[j] = task(j)
  BY <1>5, <1>7
<1>15. \A j \in 1..m : Calm(tasks[j])
  BY <1>7, <1>8, <1>14
<1>16. Lists(f, tasks, 1..m)
  BY <1>14, <1>15, ListMeans
<1>17. Good(f, tasks) <=> \A j \in checked : Valid[<<x(j), value(j)>>]
  BY <1>7, <1>8, <1>14, <1>16 DEF Lists
<1>18. WellPlaced(validator) => Total(f, tasks) = UNION {of(j) : j \in checked}
  <2> SUFFICES ASSUME WellPlaced(validator) PROVE Total(f, tasks) = UNION {of(j) : j \in checked}
    OBVIOUS
  <2> DEFINE u(j) == Gives(Holds, Brought, f, tasks[j])
  <2>1. \A j \in checked : u(j) = of(j)
    BY <1>7, <1>8, <1>13, <1>14
  <2>2. Total(f, tasks) = UNION {u(j) : j \in checked}
    BY <1>7, <1>16 DEF Lists
  <2> HIDE DEF u
  <2> QED BY <2>1, <2>2
<1> QED
  BY <1>11, <1>12, <1>16, <1>17, <1>18 DEF ItemsDone, Lists, tasks, n, value

\* Errors for equal elements.
LEMMA DuplicatesMean ==
  ASSUME NEW f, NEW i, NEW ptr, NEW inst, Met(i, ptr, inst)
  PROVE  LET tasks == Duplicates(inst, ptr)
         IN /\ Steady(tasks) /\ Total(f, tasks) = {}
            /\ Good(f, tasks) <=> \A j, k \in 1..Size(inst) : Same(Item(inst, j), Item(inst, k)) => j = k
<1> DEFINE keys == Keys(inst)
           n == Size(inst)
           same(j, k) == Same(Item(inst, j), Item(inst, k))
           again(m) == \E j \in 1..n : m < j /\ Same(At(inst, keys[m]), At(inst, keys[j]))
           r(m) == Reject(again(m), ptr)
           all == [m \in 1..n |-> r(m)]
           tasks == Duplicates(inst, ptr)
<1>1. n \in Nat /\ DOMAIN keys = 1..n
  BY MetPosed, ArrayItems
<1>2. tasks = FlattenSeq(all)
  BY <1>1 DEF Duplicates
<1>3. \A m \in 1..n : again(m) <=> \E j \in 1..n : m < j /\ same(m, j)
  BY DEF Item
<1>4. \A j, k \in 1..n : same(j, k) => same(k, j)
  BY DEF Same
<1>5. (\A m \in 1..n : ~again(m)) <=> \A j, k \in 1..n : same(j, k) => j = k
  <2> HIDE DEF n, same, again
  <2> QED BY <1>1, <1>3, <1>4
<1> HIDE DEF n, again
<1>6. \A m \in 1..n : Steady(r(m)) /\ (Good(f, r(m)) <=> ~again(m)) /\ Total(f, r(m)) = {}
  BY RejectMeans
<1> HIDE DEF r
<1>7. DOMAIN all = 1..n /\ all = [m \in 1..n |-> all[m]] /\ \A m \in 1..n : all[m] = r(m)
  OBVIOUS
<1> HIDE DEF all, tasks
<1>8. \A m \in 1..n : Steady(all[m])
  BY <1>6, <1>7
<1>9. Gathers(f, tasks, all, 1..n)
  BY <1>1, <1>2, <1>7, <1>8, FlattenMeans
<1>10. Steady(tasks) /\ (Good(f, tasks) <=> \A m \in 1..n : ~again(m)) /\ Total(f, tasks) = {}
  BY <1>6, <1>7, <1>9 DEF Gathers
<1> QED
  BY <1>5, <1>10 DEF tasks, n
-----------------------------------------------------------------------------
(***************************************************************************)
(* Agendas.                                                                *)
(***************************************************************************)

\* Tasks of which none makes an end.
LEMMA SteadyMeans ==
  ASSUME NEW f, NEW s, Steady(s)
  PROVE  /\ Clears(Holds, f, s) <=> Good(f, s)
         /\ Left(Holds, Brought, f, s) = Total(f, s)
         /\ \A i \in 1..Len(s) : Orderly(s[i])
<1> DEFINE n == Len(s)
           u(i) == Gives(Holds, Brought, f, s[i])
           v(x) == Gives(Holds, Brought, f, x)
           R == Range(s)
<1>1. n \in Nat /\ \A x : x \in R <=> \E i \in 1..n : x = s[i]
  BY Elements DEF Steady
<1>2. \A x \in R : Calm(x)
  BY DEF Steady
<1>3. \A i \in 1..n : s[i] \in R
  BY <1>1
<1>4. \A i \in 1..n : Orderly(s[i]) /\ ~Stops(Holds, s[i])
  BY <1>2, <1>3 DEF Calm, Stops, Found
<1>5. Clears(Holds, f, s) <=> \A i \in 1..n : Okay(Holds, f, s[i])
  BY <1>1, <1>4 DEF Clears
<1>6. Reached(Holds, s) = 1..n
  BY <1>1, <1>4 DEF Reached
<1>7. {u(i) : i \in 1..n} = {v(x) : x \in R}
  <2>1. \A i \in 1..n : u(i) = v(s[i])
    OBVIOUS
  <2> HIDE DEF u, v, R
  <2> QED BY <1>1, <2>1
<1>8. Good(f, s) <=> \A x \in R : Okay(Holds, f, x)
  BY DEF Good
<1>9. Total(f, s) = UNION {v(x) : x \in R}
  BY DEF Total
<1>10. Left(Holds, Brought, f, s) = UNION {u(i) : i \in 1..n}
  BY <1>6 DEF Left
<1> HIDE DEF R, u, v
<1>11. (\A i \in 1..n : Okay(Holds, f, s[i])) <=> \A x \in R : Okay(Holds, f, x)
  BY <1>1
<1> QED
  BY <1>4, <1>5, <1>7, <1>8, <1>9, <1>10, <1>11

\* First tasks of which none makes an end, then those of "contains".
LEMMA PrefixMeans ==
  ASSUME NEW f, NEW a, Steady(a), NEW b, Sequence(b), \A i \in 1..Len(b) : Orderly(b[i])
  PROVE  /\ \A i \in 1..Len(a \o b) : Orderly((a \o b)[i])
         /\ Clears(Holds, f, a \o b) <=> Good(f, a) /\ Clears(Holds, f, b)
         /\ Left(Holds, Brought, f, a \o b) = Total(f, a) \cup Left(Holds, Brought, f, b)
<1> DEFINE c == a \o b
           m == Len(a)
           n == Len(b)
           T == Range(a) \cup Range(b)
<1>1. /\ m \in Nat /\ n \in Nat
      /\ \A x : x \in Range(a) <=> \E i \in 1..m : x = a[i]
  BY Elements DEF Steady
<1>2. a \in Seq(T) /\ b \in Seq(T)
  <2>1. a \in Seq(Range(a)) /\ b \in Seq(Range(b))
    BY DEF Steady, Sequence
  <2> QED BY <2>1
<1>3. /\ Len(c) = m + n
      /\ \A i \in 1..m : c[i] = a[i]
      /\ \A i \in 1..n : c[m + i] = b[i]
  <2> HIDE DEF T
  <2> QED BY <1>2, ConcatIndices
<1>4. \A i \in 1..m : Calm(a[i])
  BY <1>1 DEF Steady
<1>5. \A i \in 1..m : Orderly(a[i]) /\ ~Stops(Holds, a[i])
  BY <1>4 DEF Calm, Stops, Found
<1>6. /\ Clears(Holds, f, a) <=> Good(f, a)
      /\ Left(Holds, Brought, f, a) = Total(f, a)
  BY SteadyMeans
<1> HIDE DEF c, m, n, T
<1>7. \A i \in 1..Len(c) : i \in 1..m \/ (i - m \in 1..n /\ i = m + (i - m))
  BY <1>1, <1>3
<1>8. \A i \in 1..Len(c) : Orderly(c[i])
  BY <1>3, <1>5, <1>7 DEF n
<1>9. ASSUME Clears(Holds, f, c) PROVE Clears(Holds, f, a) /\ Clears(Holds, f, b)
  <2>1. \A i \in 1..Len(c) : Okay(Holds, f, c[i]) \/ \E j \in 1..(i - 1) : Stops(Holds, c[j])
    BY <1>9 DEF Clears
  <2>2. ASSUME NEW i \in 1..m PROVE Okay(Holds, f, a[i])
    <3>1. i \in 1..Len(c) /\ \A j \in 1..(i - 1) : j \in 1..m
      BY <1>1, <1>3
    <3>2. \A j \in 1..(i - 1) : ~Stops(Holds, c[j])
      BY <1>3, <1>5, <3>1
    <3> QED BY <1>3, <2>1, <3>1, <3>2
  <2>3. ASSUME NEW i \in 1..n PROVE Okay(Holds, f, b[i]) \/ \E j \in 1..(i - 1) : Stops(Holds, b[j])
    <3>1. m + i \in 1..Len(c) /\ c[m + i] = b[i]
      BY <1>1, <1>3
    <3>2. CASE Okay(Holds, f, c[m + i])
      BY <3>1, <3>2
    <3>3. CASE \E j \in 1..((m + i) - 1) : Stops(Holds, c[j])
      <4>1. PICK j \in 1..((m + i) - 1) : Stops(Holds, c[j])
        BY <3>3
      <4>2. j \notin 1..m
        BY <1>3, <1>5, <4>1
      <4>3. j - m \in 1..(i - 1) /\ j - m \in 1..n /\ j = m + (j - m)
        BY <1>1, <4>1, <4>2
      <4>4. Stops(Holds, b[j - m])
        BY <1>3, <4>1, <4>3
      <4> QED BY <4>3, <4>4
    <3> QED BY <2>1, <3>1, <3>2, <3>3
  <2> QED BY <2>2, <2>3 DEF Clears, m, n
<1>10. ASSUME Clears(Holds, f, a), Clears(Holds, f, b) PROVE Clears(Holds, f, c)
  <2> SUFFICES ASSUME NEW i \in 1..Len(c)
               PROVE  Okay(Holds, f, c[i]) \/ \E j \in 1..(i - 1) : Stops(Holds, c[j])
    BY DEF Clears
  <2>1. CASE i \in 1..m
    <3>1. Okay(Holds, f, a[i]) \/ \E j \in 1..(i - 1) : Stops(Holds, a[j])
      BY <1>10, <2>1 DEF Clears, m
    <3>2. \A j \in 1..(i - 1) : j \in 1..m
      BY <1>1, <2>1
    <3> QED BY <1>3, <1>5, <2>1, <3>1, <3>2
  <2>2. CASE i - m \in 1..n /\ i = m + (i - m)
    <3> DEFINE k == i - m
    <3>1. k \in 1..n /\ i = m + k
      BY <2>2
    <3> HIDE DEF k
    <3>2. Okay(Holds, f, b[k]) \/ \E j \in 1..(k - 1) : Stops(Holds, b[j])
      BY <1>10, <3>1 DEF Clears, n
    <3>3. CASE Okay(Holds, f, b[k])
      BY <1>3, <3>1, <3>3
    <3>4. CASE \E j \in 1..(k - 1) : Stops(Holds, b[j])
      <4>1. PICK j \in 1..(k - 1) : Stops(Holds, b[j])
        BY <3>4
      <4>2. j \in 1..n /\ m + j \in 1..(i - 1)
        BY <1>1, <3>1, <4>1
      <4>3. Stops(Holds, c[m + j])
        BY <1>3, <4>1, <4>2
      <4> QED BY <4>2, <4>3
    <3> QED BY <3>2, <3>3, <3>4
  <2> QED BY <1>7, <2>1, <2>2
<1>11. Reached(Holds, c) = (1..m) \cup {m + i : i \in Reached(Holds, b)}
  <2>1. ASSUME NEW i \in 1..m PROVE i \in Reached(Holds, c)
    <3>1. i \in 1..Len(c) /\ \A j \in 1..(i - 1) : j \in 1..m
      BY <1>1, <1>3
    <3>2. \A j \in 1..(i - 1) : ~Stops(Holds, c[j])
      BY <1>3, <1>5, <3>1
    <3> QED BY <3>1, <3>2 DEF Reached
  <2>2. ASSUME NEW i \in 1..n PROVE m + i \in Reached(Holds, c) <=> i \in Reached(Holds, b)
    <3>1. m + i \in 1..Len(c)
      BY <1>1, <1>3
    <3>2. m + i \in Reached(Holds, c) <=> \A j \in 1..((m + i) - 1) : ~Stops(Holds, c[j])
      BY <3>1 DEF Reached
    <3>3. i \in Reached(Holds, b) <=> \A j \in 1..(i - 1) : ~Stops(Holds, b[j])
      BY DEF Reached, n
    <3>4. ASSUME NEW j \in 1..(i - 1) PROVE m + j \in 1..((m + i) - 1) /\ c[m + j] = b[j]
      BY <1>1, <1>3
    <3>5. ASSUME NEW j \in 1..((m + i) - 1) PROVE j \in 1..m \/ (j - m \in 1..(i - 1) /\ c[j] = b[j - m])
      <4>1. j \in 1..m \/ (j - m \in 1..(i - 1) /\ j - m \in 1..n /\ j = m + (j - m))
        BY <1>1
      <4> QED BY <1>3, <4>1
    <3>6. \A j \in 1..m : ~Stops(Holds, c[j])
      BY <1>3, <1>5
    <3> QED BY <3>2, <3>3, <3>4, <3>5, <3>6
  <2>3. Reached(Holds, c) \subseteq 1..Len(c) /\ Reached(Holds, b) \subseteq 1..n
    BY DEF Reached, n
  <2>4. ASSUME NEW i \in Reached(Holds, c)
        PROVE  i \in (1..m) \cup {m + j : j \in Reached(Holds, b)}
    <3>1. i \in 1..m \/ (i - m \in 1..n /\ i = m + (i - m))
      BY <1>7, <2>3
    <3>2. CASE i \in 1..m
      BY <3>2
    <3>3. CASE i - m \in 1..n /\ i = m + (i - m)
      <4>1. i - m \in Reached(Holds, b)
        BY <2>2, <2>4, <3>3
      <4> QED BY <3>3, <4>1
    <3> QED BY <3>1, <3>2, <3>3
  <2> QED BY <2>1, <2>2, <2>3, <2>4
<1>12. Reached(Holds, a) = 1..m
  <2>1. \A i \in 1..m : \A j \in 1..(i - 1) : j \in 1..m
    BY <1>1
  <2> QED BY <1>5, <2>1 DEF Reached, m
<1>13. Left(Holds, Brought, f, c) = Left(Holds, Brought, f, a) \cup Left(Holds, Brought, f, b)
  <2> DEFINE u(i) == Gives(Holds, Brought, f, c[i])
             v(i) == Gives(Holds, Brought, f, a[i])
             w(i) == Gives(Holds, Brought, f, b[i])
             B == Reached(Holds, b)
  <2>1. /\ Left(Holds, Brought, f, c) = UNION {u(i) : i \in Reached(Holds, c)}
        /\ Left(Holds, Brought, f, a) = UNION {v(i) : i \in 1..m}
        /\ Left(Holds, Brought, f, b) = UNION {w(i) : i \in B}
    BY <1>12 DEF Left
  <2>2. B \subseteq 1..n
    BY DEF Reached, n
  <2>3. \A i \in 1..m : u(i) = v(i)
    BY <1>3
  <2>4. \A i \in B : u(m + i) = w(i)
    BY <1>3, <2>2
  <2>5. Reached(Holds, c) = (1..m) \cup {m + i : i \in B}
    BY <1>11
  <2> HIDE DEF u, v, w, B
  <2>6. {u(i) : i \in Reached(Holds, c)} = {v(i) : i \in 1..m} \cup {w(i) : i \in B}
    BY <2>3, <2>4, <2>5
  <2> QED BY <2>1, <2>6
<1> QED
  BY <1>6, <1>8, <1>9, <1>10, <1>13 DEF c
-----------------------------------------------------------------------------
\* The elements that "contains" tries.
ContainsDone(f, s, ptr, inst) ==
  LET tasks == ContainsTasks(s, ptr, inst)
  IN /\ Sequence(tasks) /\ \A j \in 1..Len(tasks) : Orderly(tasks[j])
     /\ Clears(Holds, f, tasks) <=> \E j \in 1..Size(inst) : Valid[<<s.contains, Item(inst, j)>>]
     /\ WellPlaced(validator) =>
          /\ Left(Holds, Brought, f, tasks) = {}
          /\ UNION {InItem(DefaultsOf, s.contains, ptr, inst, j) : j \in Tried(Valid, s, inst)} = {}

\* The loop of "contains" passes iff some element fits, and leaves no default value.
LEMMA ContainsMean ==
  ASSUME NEW f, NEW i, NEW ptr, NEW inst, Met(i, ptr, inst), graph[i].contains # 0
  PROVE  ContainsDone(f, graph[i], ptr, inst)
<1> DEFINE s == graph[i]
           c == s.contains
           n == Size(inst)
           value(j) == Item(inst, j)
           call(j) == Call("contains", "schema", <<c>>, ptr, value(j))
           calls == [j \in 1..n |-> call(j)]
           last == Errors(<<ptr>>)
           tasks == ContainsTasks(s, ptr, inst)
           holds(j) == Valid[<<c, value(j)>>]
<1>1. n \in Nat /\ DOMAIN Keys(inst) = 1..n
      /\ \A j \in 1..n : /\ Keys(inst)[j] \in Members(inst, <<>>)
                         /\ value(j) = At(inst, Keys(inst)[j])
  BY MetPosed, ArrayItems
<1>2. ptr \in Seq(Token) /\ Meaningful /\ i \in DOMAIN graph
      /\ \A k \in Members(inst, <<>>) : k \in Token /\ At(inst, k) \in Parts
  BY PartsClosed DEF Met, Meaningful
<1>3. c \in DOMAIN graph /\ c \in Astray(s) \ {0}
  <2>1. c \in DOMAIN graph \cup {0}
    BY <1>2, AskedSchemas DEF Meaningful
  <2> QED BY <2>1 DEF Astray
<1>4. \A j \in 1..n : value(j) \in Parts /\ Append(ptr, Keys(inst)[j]) \in Seq(Token)
  <2> SUFFICES ASSUME NEW j \in 1..n PROVE value(j) \in Parts /\ Append(ptr, Keys(inst)[j]) \in Seq(Token)
    OBVIOUS
  <2> DEFINE k == Keys(inst)[j]
  <2>1. k \in Members(inst, <<>>) /\ value(j) = At(inst, k)
    <3> HIDE DEF n, value
    <3> QED BY <1>1
  <2> HIDE DEF k
  <2>2. k \in Token /\ At(inst, k) \in Parts
    BY <1>2, <2>1
  <2> QED BY <1>2, <2>1, <2>2 DEF k
<1>5. tasks = calls \o <<last>>
  <2> DEFINE keys == Keys(inst)
             first == [j \in DOMAIN keys |-> Call("contains", "schema", <<c>>, ptr, At(inst, keys[j]))]
  <2>1. tasks = first \o Reject(TRUE, ptr)
    BY DEF ContainsTasks
  <2>2. Reject(TRUE, ptr) = <<last>>
    BY DEF Reject
  <2>3. first = calls
    <3>1. \A j \in 1..n : Call("contains", "schema", <<c>>, ptr, At(inst, keys[j])) = call(j)
      <4> HIDE DEF n, value
      <4> QED BY <1>1
    <3> HIDE DEF call, n
    <3> QED BY <1>1, <3>1
  <2> HIDE DEF first, calls, tasks, last
  <2> QED BY <2>1, <2>2, <2>3
<1>6. \A j \in 1..n :
        /\ call(j).do = "call" /\ call(j).via = "contains" /\ call(j).role = "schema"
        /\ call(j).subs = <<c>> /\ call(j).ptr = ptr /\ call(j).inst = value(j)
  BY DEF Call
<1>7. last.do = "errors"
  BY DEF Errors
<1>8. \A j \in 1..n : /\ CallHolds(Holds, call(j)) <=> holds(j)
                      /\ Brings(Brought, call(j)) = DefaultsOf[<<c, ptr, value(j)>>]
  <2> SUFFICES ASSUME NEW j \in 1..n
               PROVE  /\ CallHolds(Holds, call(j)) <=> holds(j)
                      /\ Brings(Brought, call(j)) = DefaultsOf[<<c, ptr, value(j)>>]
    OBVIOUS
  <2> DEFINE v == value(j)
  <2>1. v \in Parts
    <3> HIDE DEF n, value
    <3> QED BY <1>4
  <2> HIDE DEF v, c
  <2>2. /\ <<"schema", <<c>>, v>> \in Holds <=> Valid[<<c, v>>]
        /\ Brought[<<"schema", <<c>>, ptr, v>>] = DefaultsOf[<<c, ptr, v>>]
    BY <1>2, <1>3, <2>1, SchemaMeans
  <2>3. /\ call(j).role = "schema" /\ call(j).subs = <<c>> /\ call(j).ptr = ptr /\ call(j).inst = v
    <3> HIDE DEF n, value, call
    <3> QED BY <1>6 DEF v
  <2>4. holds(j) <=> Valid[<<c, v>>]
    BY DEF v
  <2> HIDE DEF call, holds
  <2> QED BY <2>2, <2>3, <2>4 DEF CallHolds, Brings, v
<1> HIDE DEF call, last, n, value, holds, c
<1>9. /\ Len(tasks) = n + 1 /\ Sequence(tasks)
      /\ \A j \in 1..n : tasks[j] = call(j)
      /\ tasks[n + 1] = last
  <2>1. Sequence(calls) /\ Len(calls) = n /\ \A j \in 1..n : calls[j] = call(j)
    <3>1. DOMAIN calls = 1..n /\ calls = [j \in 1..n |-> calls[j]] /\ \A j \in 1..n : calls[j] = call(j)
      OBVIOUS
    <3> HIDE DEF calls
    <3> QED BY <1>1, <3>1, Listed
  <2> DEFINE b == <<last>>
             T == Range(calls) \cup Range(b)
  <2>2. Sequence(b) /\ Len(b) = 1 /\ b[1] = last
    BY Short
  <2> HIDE DEF calls, b
  <2>3. calls \in Seq(T) /\ b \in Seq(T)
    <3>1. calls \in Seq(Range(calls)) /\ b \in Seq(Range(b))
      BY <2>1, <2>2 DEF Sequence
    <3> QED BY <3>1
  <2> HIDE DEF T
  <2>4. /\ Len(calls \o b) = Len(calls) + Len(b)
        /\ \A j \in 1..Len(calls) : (calls \o b)[j] = calls[j]
        /\ \A j \in 1..Len(b) : (calls \o b)[Len(calls) + j] = b[j]
    BY <2>3, ConcatIndices
  <2>5. Sequence(calls \o b)
    BY <2>1, <2>2, Joined
  <2>6. tasks = calls \o b
    BY <1>5 DEF b
  <2> HIDE DEF tasks
  <2> QED BY <2>1, <2>2, <2>4, <2>5, <2>6
<1> HIDE DEF tasks, calls
<1>10. \A j \in 1..Len(tasks) : j \in 1..n \/ j = n + 1
  BY <1>1, <1>9
<1>11. \A j \in 1..n : tasks[j].do = "call" /\ tasks[j].via = "contains" /\ tasks[j].inst = value(j)
                       /\ (CallHolds(Holds, tasks[j]) <=> holds(j))
                       /\ Brings(Brought, tasks[j]) = DefaultsOf[<<c, ptr, value(j)>>]
  BY <1>6, <1>8, <1>9
<1>12. \A j \in 1..Len(tasks) : Orderly(tasks[j])
  BY <1>4, <1>7, <1>9, <1>10, <1>11 DEF Orderly
<1>13. \A j \in 1..n : Okay(Holds, f, tasks[j]) /\ (Stops(Holds, tasks[j]) <=> holds(j))
  BY <1>11 DEF Okay, Suits, Stops, Found
<1>14. ~Okay(Holds, f, tasks[n + 1])
  BY <1>7, <1>9 DEF Okay
<1>15. Clears(Holds, f, tasks) <=> \E j \in 1..n : holds(j)
  <2>1. n + 1 \in 1..Len(tasks) /\ (n + 1) - 1 = n
    BY <1>1, <1>9
  <2>2. ASSUME Clears(Holds, f, tasks) PROVE \E j \in 1..n : holds(j)
    BY <1>13, <1>14, <2>1, <2>2 DEF Clears
  <2>3. ASSUME NEW j \in 1..n, holds(j) PROVE Clears(Holds, f, tasks)
    BY <1>10, <1>13, <2>1, <2>3 DEF Clears
  <2> QED BY <2>2, <2>3
<1>16. ASSUME WellPlaced(validator)
       PROVE  /\ Left(Holds, Brought, f, tasks) = {}
              /\ UNION {InItem(DefaultsOf, c, ptr, inst, j) : j \in Tried(Valid, s, inst)} = {}
  <2>1. \A j \in 1..n : Gives(Holds, Brought, f, tasks[j]) = {}
    <3> SUFFICES ASSUME NEW j \in 1..n PROVE Gives(Holds, Brought, f, tasks[j]) = {}
      OBVIOUS
    <3>1. DefaultsOf[<<c, ptr, value(j)>>] = {}
      <4> DEFINE v == value(j)
      <4>1. v \in Parts
        BY <1>4
      <4> HIDE DEF v
      <4> QED BY <1>2, <1>3, <1>16, <4>1, AstrayNothing DEF v
    <3> QED BY <1>11, <3>1 DEF Gives, Led
  <2>2. Gives(Holds, Brought, f, tasks[n + 1]) = {}
    BY <1>7, <1>9 DEF Gives
  <2>3. \A j \in Reached(Holds, tasks) : Gives(Holds, Brought, f, tasks[j]) = {}
    BY <1>10, <2>1, <2>2 DEF Reached
  <2>4. Left(Holds, Brought, f, tasks) = {}
    BY <2>3 DEF Left
  <2>5. \A j \in Tried(Valid, s, inst) : InItem(DefaultsOf, c, ptr, inst, j) = {}
    <3> SUFFICES ASSUME NEW j \in Tried(Valid, s, inst) PROVE InItem(DefaultsOf, c, ptr, inst, j) = {}
      OBVIOUS
    <3>1. j \in 1..n
      BY DEF Tried, n
    <3> DEFINE v == value(j)
               p == Append(ptr, Keys(inst)[j])
    <3>2. v \in Parts /\ p \in Seq(Token)
      BY <1>4, <3>1
    <3>3. InItem(DefaultsOf, c, ptr, inst, j) = DefaultsOf[<<c, p, v>>]
      BY DEF InItem, value
    <3> HIDE DEF v, p
    <3> QED BY <1>2, <1>3, <1>16, <3>2, <3>3, AstrayNothing
  <2> QED BY <2>4, <2>5
<1> QED
  BY <1>9, <1>12, <1>15, <1>16 DEF ContainsDone, tasks, n, holds, value, c

\* The agenda of class array.
ArrayDone(f, s, ptr, inst) ==
  LET tasks == ArrayTasks(s, ptr, inst)
  IN /\ \A j \in 1..Len(tasks) : Orderly(tasks[j])
     /\ Clears(Holds, f, tasks) <=> ValidArray(Valid, s, inst)
     /\ WellPlaced(validator) => Left(Holds, Brought, f, tasks) = InArray(Valid, DefaultsOf, s, ptr, inst)

\* validate() of class array holds iff the array is valid, and gives what its parts give.
LEMMA ArrayMeans ==
  ASSUME NEW f, NEW i, NEW ptr, NEW inst, Met(i, ptr, inst)
  PROVE  ArrayDone(f, graph[i], ptr, inst)
<1> DEFINE s == graph[i]
           n == Size(inst)
           over == s.maxItems # NoLimit /\ n > s.maxItems
           under == s.minItems # NoLimit /\ n < s.minItems
           unique == \A j, k \in 1..n : Same(Item(inst, j), Item(inst, k)) => j = k
           items == \A j \in 1..n : \A k \in ItemSchema(s, j) : Valid[<<k, Item(inst, j)>>]
           found == \E j \in 1..n : Valid[<<s.contains, Item(inst, j)>>]
           a == Reject(over, ptr)
           b == Reject(under, ptr)
           c == IF s.uniqueItems THEN Duplicates(inst, ptr) ELSE <<>>
           d == ItemTasks(s, ptr, inst)
           e == ContainsTasks(s, ptr, inst)
           tasks == ArrayTasks(s, ptr, inst)
           whole == a \o b \o c \o d
           tried == UNION {InItem(DefaultsOf, s.contains, ptr, inst, j) : j \in Tried(Valid, s, inst)}
<1>1. n \in Nat /\ HasLimits(s)
  BY MetPosed, ArrayItems, SchemaObjects DEF Met, Meaningful, IsSchema
<1>2. /\ ~over <=> (s.maxItems # NoLimit => n <= s.maxItems)
      /\ ~under <=> (s.minItems # NoLimit => n >= s.minItems)
      /\ s.uniqueItems \in BOOLEAN
  <2>1. {s.maxItems, s.minItems} \subseteq Nat \cup {NoLimit} /\ s.uniqueItems \in BOOLEAN
    BY <1>1 DEF HasLimits
  <2> DEFINE y == s.maxItems
             z == s.minItems
  <2> HIDE DEF n, y, z
  <2> QED BY <1>1, <2>1 DEF y, z
<1>3. tasks = whole \o e
  BY DEF ArrayTasks
<1>4. ValidArray(Valid, s, inst) <=>
        ~over /\ ~under /\ (s.uniqueItems => unique) /\ items /\ (s.contains # 0 => found)
  <2> HIDE DEF over, under, s
  <2> QED BY <1>2 DEF ValidArray
<1>5. InArray(Valid, DefaultsOf, s, ptr, inst) =
        InItems(DefaultsOf, s, ptr, inst) \cup (IF s.contains = 0 THEN {} ELSE tried)
  BY DEF InArray
<1>6. Steady(<<>>) /\ Good(f, <<>>) /\ Total(f, <<>>) = {}
  BY FewMean
<1> HIDE DEF over, under, tasks
<1>7. /\ Steady(a) /\ (Good(f, a) <=> ~over) /\ Total(f, a) = {}
      /\ Steady(b) /\ (Good(f, b) <=> ~under) /\ Total(f, b) = {}
  BY RejectMeans
<1>8. Steady(c) /\ (Good(f, c) <=> (s.uniqueItems => unique)) /\ Total(f, c) = {}
  <2> DEFINE dup == Duplicates(inst, ptr)
  <2>1. Steady(dup) /\ Total(f, dup) = {} /\ (Good(f, dup) <=> unique)
    BY DuplicatesMean
  <2> HIDE DEF dup, unique, s
  <2>2. CASE s.uniqueItems
    BY <2>1, <2>2 DEF dup
  <2>3. CASE ~s.uniqueItems
    BY <1>6, <2>3
  <2> QED BY <2>2, <2>3
<1>9. Steady(d) /\ (Good(f, d) <=> items) /\ (WellPlaced(validator) => Total(f, d) = InItems(DefaultsOf, s, ptr, inst))
  <2>1. ItemsDone(f, s, ptr, inst)
    BY ItemsMean
  <2> QED BY <2>1 DEF ItemsDone
<1> HIDE DEF a, b, c, d, unique, items
<1>10. /\ Steady(whole) /\ (Good(f, whole) <=> ~over /\ ~under /\ (s.uniqueItems => unique) /\ items)
       /\ WellPlaced(validator) => Total(f, whole) = InItems(DefaultsOf, s, ptr, inst)
  <2> DEFINE ab == a \o b
             abc == ab \o c
             abcd == abc \o d
  <2>1. Steady(ab) /\ (Good(f, ab) <=> Good(f, a) /\ Good(f, b)) /\ Total(f, ab) = Total(f, a) \cup Total(f, b)
    BY <1>7, JoinMeans
  <2> HIDE DEF ab
  <2>2. Steady(abc) /\ (Good(f, abc) <=> Good(f, ab) /\ Good(f, c)) /\ Total(f, abc) = Total(f, ab) \cup Total(f, c)
    BY <1>8, <2>1, JoinMeans
  <2> HIDE DEF abc
  <2>3. Steady(abcd) /\ (Good(f, abcd) <=> Good(f, abc) /\ Good(f, d)) /\ Total(f, abcd) = Total(f, abc) \cup Total(f, d)
    BY <1>9, <2>2, JoinMeans
  <2> HIDE DEF abcd
  <2>4. whole = abcd
    BY DEF ab, abc, abcd
  <2> HIDE DEF whole, s
  <2> QED BY <1>7, <1>8, <1>9, <2>1, <2>2, <2>3, <2>4
<1>11. CASE s.contains = 0
  <2>1. e = <<>>
    BY <1>11 DEF ContainsTasks
  <2>2. Steady(whole \o <<>>) /\ (Good(f, whole \o <<>>) <=> Good(f, whole) /\ Good(f, <<>>))
        /\ Total(f, whole \o <<>>) = Total(f, whole) \cup Total(f, <<>>)
    <3> HIDE DEF whole
    <3> QED BY <1>6, <1>10, JoinMeans
  <2>3. tasks = whole \o <<>>
    BY <1>3, <2>1
  <2> HIDE DEF whole
  <2>4. Steady(tasks) /\ (Good(f, tasks) <=> Good(f, whole)) /\ Total(f, tasks) = Total(f, whole)
    BY <1>6, <2>2, <2>3
  <2>5. /\ Clears(Holds, f, tasks) <=> Good(f, tasks)
        /\ Left(Holds, Brought, f, tasks) = Total(f, tasks)
        /\ \A j \in 1..Len(tasks) : Orderly(tasks[j])
    BY <2>4, SteadyMeans
  <2>6. Clears(Holds, f, tasks) <=> ValidArray(Valid, s, inst)
    <3> HIDE DEF s, found
    <3> QED BY <1>4, <1>10, <1>11, <2>4, <2>5
  <2>7. WellPlaced(validator) => Left(Holds, Brought, f, tasks) = InArray(Valid, DefaultsOf, s, ptr, inst)
    <3> HIDE DEF s, tried
    <3> QED BY <1>5, <1>10, <1>11, <2>4, <2>5
  <2> QED BY <2>5, <2>6, <2>7 DEF ArrayDone, tasks
<1>12. CASE s.contains # 0
  <2>1. ContainsDone(f, s, ptr, inst)
    BY <1>12, ContainsMean
  <2>2. /\ Sequence(e) /\ \A j \in 1..Len(e) : Orderly(e[j])
        /\ Clears(Holds, f, e) <=> found
        /\ WellPlaced(validator) => Left(Holds, Brought, f, e) = {} /\ tried = {}
    BY <2>1 DEF ContainsDone
  <2> HIDE DEF e, whole, found, tried
  <2>3. /\ \A j \in 1..Len(tasks) : Orderly(tasks[j])
        /\ Clears(Holds, f, tasks) <=> Good(f, whole) /\ Clears(Holds, f, e)
        /\ Left(Holds, Brought, f, tasks) = Total(f, whole) \cup Left(Holds, Brought, f, e)
    BY <1>3, <1>10, <2>2, PrefixMeans
  <2>4. Clears(Holds, f, tasks) <=> ValidArray(Valid, s, inst)
    <3> HIDE DEF s
    <3> QED BY <1>4, <1>10, <1>12, <2>2, <2>3
  <2>5. WellPlaced(validator) => Left(Holds, Brought, f, tasks) = InArray(Valid, DefaultsOf, s, ptr, inst)
    <3> HIDE DEF s
    <3> QED BY <1>5, <1>10, <1>12, <2>2, <2>3
  <2> QED BY <2>3, <2>4, <2>5 DEF ArrayDone, tasks
<1> QED
  BY <1>11, <1>12
-----------------------------------------------------------------------------
\* The first node of a value of the instance is no matter of dispute.
LEMMA AgreedNode ==
  ASSUME NEW i, NEW ptr, NEW inst, Met(i, ptr, inst)
  PROVE  inst[<<>>] \in Node /\ (Kind(inst) # "string" => Agreed(graph[i], inst[<<>>]))
<1>1. inst[<<>>] \in Node
  BY MetPosed DEF IsDocument
<1>2. Kind(inst) # "string" => \E p \in DOMAIN instance : inst[<<>>] = instance[p]
  BY PartNode DEF Met, Meaningful
<1> QED
  BY <1>1, <1>2 DEF Met, Meaningful, Undisputed

\* The agenda of class string.
LEMMA TextMeans ==
  ASSUME NEW f, NEW i, NEW ptr, NEW inst, Met(i, ptr, inst), Kind(inst) \in {"string", "binary"},
         "string" \in graph[i].types
  PROVE  LET s == graph[i]
             tasks == StringTasks(s, ptr, inst)
         IN /\ Steady(tasks) /\ Total(f, tasks) = {}
            /\ Good(f, tasks) <=> HasType(s, inst) /\ ValidText(s, inst)
<1> DEFINE s == graph[i]
           K == Kind(inst)
           x == inst[<<>>].text
           short == s.minLength # NoLimit /\ Length[x] < s.minLength
           long == s.maxLength # NoLimit /\ Length[x] > s.maxLength
           coded == IF s.content # NoLimit THEN x \notin s.content ELSE K = "binary"
           odd == K = "string" /\ s.pattern # NoLimit /\ x \notin s.pattern
           bad == K = "string" /\ s.format # NoLimit /\ x \notin s.format
           a == IF K = "binary" /\ {s.minLength, s.maxLength} # {NoLimit} THEN <<[do |-> "raise"]>> ELSE <<>>
           b == Reject(short, ptr)
           c == Reject(long, ptr)
           d == Reject(coded, ptr)
           e == Reject(odd, ptr)
           g == Reject(bad, ptr)
           tasks == StringTasks(s, ptr, inst)
<1>1. a = <<>>
  <2>1. K = "binary" => {s.minLength, s.maxLength} = {NoLimit}
    BY AgreedNode DEF Agreed, Kind
  <2> HIDE DEF s, K
  <2> QED BY <2>1
<1>2. x \in Text /\ Length[x] \in Nat /\ {s.maxLength, s.minLength} \subseteq Nat \cup {NoLimit}
  <2>1. x \in Text
    BY AgreedNode DEF Node
  <2>2. HasLimits(s)
    BY SchemaObjects DEF Met, Meaningful, IsSchema
  <2> QED BY <2>1, <2>2, CorpusAssumption DEF HasLimits
<1>3. /\ ~short <=> (s.minLength # NoLimit => Length[x] >= s.minLength)
      /\ ~long <=> (s.maxLength # NoLimit => Length[x] <= s.maxLength)
  <2> DEFINE l == Length[x]
             y == s.minLength
             z == s.maxLength
  <2> HIDE DEF l, y, z
  <2> QED BY <1>2 DEF l, y, z
<1>4. tasks = a \o b \o c \o d \o e \o g
  BY DEF StringTasks
<1>5. K \notin Numeric /\ (HasType(s, inst) <=> (K = "binary" => s.content # NoLimit))
  BY DEF HasType, Numeric
<1>6. HasType(s, inst) /\ ValidText(s, inst) <=> ~short /\ ~long /\ ~coded /\ ~odd /\ ~bad
  <2> HIDE DEF short, long, s
  <2>1. ValidText(s, inst) <=>
          /\ ~short /\ ~long /\ (s.content # NoLimit => x \in s.content)
          /\ K = "string" => (s.pattern # NoLimit => x \in s.pattern) /\ (s.format # NoLimit => x \in s.format)
    BY <1>3 DEF ValidText
  <2> HIDE DEF K, x
  <2> QED BY <1>5, <2>1
<1> HIDE DEF a, short, long, coded, odd, bad, tasks
<1>7. /\ Steady(b) /\ (Good(f, b) <=> ~short) /\ Total(f, b) = {}
      /\ Steady(c) /\ (Good(f, c) <=> ~long) /\ Total(f, c) = {}
      /\ Steady(d) /\ (Good(f, d) <=> ~coded) /\ Total(f, d) = {}
      /\ Steady(e) /\ (Good(f, e) <=> ~odd) /\ Total(f, e) = {}
      /\ Steady(g) /\ (Good(f, g) <=> ~bad) /\ Total(f, g) = {}
  BY RejectMeans
<1>8. Steady(a) /\ Good(f, a) /\ Total(f, a) = {}
  BY <1>1, FewMean
<1> HIDE DEF b, c, d, e, g
<1>9. Joins(f, tasks, a, b, c, d, e, g)
  BY <1>4, <1>7, <1>8, SixMean
<1> QED
  BY <1>6, <1>7, <1>8, <1>9 DEF Joins, tasks

\* A multiple of a positive number, as the code computes it and as draft-7 defines it.
LEMMA NoMultiple == ASSUME NEW m \in Nat \ {0} PROVE 0 % m = 0
  OBVIOUS

\* A call that finds no error if and only if it holds.
LEMMA CallActs ==
  ASSUME NEW f, NEW x, x.do = "call", x.via \in {"plain", "property"}, x.inst \in Parts
  PROVE  /\ Calm(x) /\ (Okay(Holds, f, x) <=> CallHolds(Holds, x))
         /\ Gives(Holds, Brought, f, x) = Brings(Brought, x)
<1>1. Calm(x)
  BY DEF Calm, Orderly
<1>2. Okay(Holds, f, x) <=> CallHolds(Holds, x)
  BY DEF Okay, Suits
<1>3. Gives(Holds, Brought, f, x) = Brings(Brought, x)
  BY DEF Gives, Led
<1> QED
  BY <1>1, <1>2, <1>3

\* The types a number has.
LEMMA NumberHasType ==
  ASSUME NEW s, NEW inst, Kind(inst) \in Numeric
  PROVE  HasType(s, inst) <=> "number" \in s.types \/ ("integer" \in s.types /\ Integral(inst[<<>>]))
<1> DEFINE K == Kind(inst)
<1>1. K # "binary"
  BY DEF Numeric
<1>2. HasType(s, inst) <=>
        CASE K \in Numeric -> "number" \in s.types \/ ("integer" \in s.types /\ Integral(inst[<<>>]))
          [] K = "binary" -> "string" \in s.types /\ s.content # NoLimit
          [] OTHER -> K \in s.types
  BY DEF HasType
<1>3. K \in Numeric
  OBVIOUS
<1> HIDE DEF K
<1> QED
  BY <1>1, <1>2, <1>3

\* The agenda of class numeric.
LEMMA NumberMeans ==
  ASSUME NEW f, NEW i, NEW ptr, NEW inst, Met(i, ptr, inst), Kind(inst) \in Numeric,
         NEW T \in {"integer", "number"}, T = ForType(graph[i], Kind(inst))
  PROVE  LET s == graph[i]
             tasks == NumericTasks(s, T, ptr, inst)
         IN /\ Steady(tasks) /\ Total(f, tasks) = {}
            /\ Good(f, tasks) <=> HasType(s, inst) /\ ValidNumber(s, inst[<<>>].number)
<1> DEFINE s == graph[i]
           n == inst[<<>>]
           x == n.number
           y == Converted(T, n)
           K == Kind(inst)
           bounds == {s.maximum, s.exclusiveMaximum, s.minimum, s.exclusiveMinimum}
           bad == NotMultiple(s, y) \/ Exceeds(s, T, y) \/ Below(s, T, y)
           tasks == NumericTasks(s, T, ptr, inst)
<1>1. n \in Node /\ K = n.type /\ x \in Int /\ Agreed(s, n)
  <2>1. K # "string"
    BY DEF Numeric
  <2> QED BY <2>1, AgreedNode DEF Node, Kind
<1>2. bounds \subseteq Node \cup {NoLimit} /\ s.multipleOf \in Node \cup {NoLimit}
  <2>1. HasLimits(s)
    BY SchemaObjects DEF Met, Meaningful, IsSchema
  <2> QED BY <2>1 DEF HasLimits
<1>3. HasType(s, inst) /\ (T = "integer" => "integer" \in s.types /\ K \in {"integer", "unsigned"})
  <2>1. HasType(s, inst) <=> "number" \in s.types \/ ("integer" \in s.types /\ Integral(n))
    BY NumberHasType
  <2>2. K \in {"integer", "unsigned", "float"}
    BY DEF Numeric
  <2>3. CASE K \in {"integer", "unsigned"}
    <3>1. Integral(n)
      BY <1>1, <2>3 DEF Node, Integral
    <3>2. T = IF "integer" \in s.types THEN "integer" ELSE IF "number" \in s.types THEN "number" ELSE "none"
      BY <2>3, Zenon DEF ForType
    <3> HIDE DEF s, n, K
    <3> QED BY <2>1, <2>3, <3>1, <3>2
  <2>4. CASE K = "float"
    <3>1. T = IF "number" \in s.types THEN "number" ELSE "none"
      <4>1. K \notin {"integer", "unsigned"}
        BY <2>4
      <4> QED BY <2>4, <4>1 DEF ForType
    <3> HIDE DEF s, n, K
    <3> QED BY <2>1, <2>4, <3>1
  <2> QED BY <2>2, <2>3, <2>4
<1>4. y = x /\ \A b \in bounds \ {NoLimit} : Converted(T, b) = b.number
  <2>1. CASE T = "number"
    BY <2>1 DEF Converted
  <2>2. CASE T = "integer"
    <3>1. n.type # "float" /\ n.number <= MaxInteger
      BY <1>1, <1>3, <2>2 DEF Agreed
    <3>2. y = IF n.number > MaxInteger THEN n.number - 2 * (MaxInteger + 2) ELSE n.number
      BY <2>2, <3>1 DEF Converted
    <3>3. y = x
      <4> HIDE DEF y, n
      <4> QED BY <1>1, <3>1, <3>2, CorpusAssumption
    <3>4. \A b \in bounds \ {NoLimit} : Converted("integer", b) = b.number
      BY <1>1, <1>3, <2>2 DEF Agreed
    <3> QED BY <2>2, <3>3, <3>4
  <2> QED BY <2>1, <2>2
<1>5. /\ s.maximum = NoLimit \/ s.exclusiveMaximum = NoLimit
      /\ s.minimum = NoLimit \/ s.exclusiveMinimum = NoLimit
      /\ s.multipleOf # NoLimit => s.multipleOf.number > 0
  BY <1>1 DEF Agreed
<1>6. \A b \in bounds \ {NoLimit} : b.number \in Int
  BY <1>2 DEF Node
<1>7. s.multipleOf # NoLimit => s.multipleOf.number \in Nat \ {0}
  <2> SUFFICES ASSUME s.multipleOf # NoLimit PROVE s.multipleOf.number \in Nat \ {0}
    OBVIOUS
  <2>1. s.multipleOf.number \in Int
    BY <1>2 DEF Node
  <2> QED BY <1>5, <2>1
<1>8. ~NotMultiple(s, x) <=> (s.multipleOf # NoLimit => x % s.multipleOf.number = 0)
  BY <1>7, NoMultiple DEF NotMultiple
<1>9. ~Exceeds(s, T, x) <=> /\ s.maximum # NoLimit => x <= s.maximum.number
                            /\ s.exclusiveMaximum # NoLimit => x < s.exclusiveMaximum.number
  <2> DEFINE p == s.maximum
             q == s.exclusiveMaximum
  <2>1. /\ p # NoLimit => Converted(T, p) = p.number /\ p.number \in Int
        /\ q # NoLimit => Converted(T, q) = q.number /\ q.number \in Int
    BY <1>4, <1>6
  <2>2. ~Exceeds(s, T, x) <=> IF q # NoLimit THEN ~(x >= Converted(T, q)) ELSE ~(p # NoLimit /\ x > Converted(T, p))
    BY DEF Exceeds
  <2>3. p = NoLimit \/ q = NoLimit
    BY <1>5
  <2> HIDE DEF p, q, x
  <2> QED BY <1>1, <2>1, <2>2, <2>3 DEF p, q
<1>10. ~Below(s, T, x) <=> /\ s.minimum # NoLimit => x >= s.minimum.number
                           /\ s.exclusiveMinimum # NoLimit => x > s.exclusiveMinimum.number
  <2> DEFINE p == s.minimum
             q == s.exclusiveMinimum
  <2>1. /\ p # NoLimit => Converted(T, p) = p.number /\ p.number \in Int
        /\ q # NoLimit => Converted(T, q) = q.number /\ q.number \in Int
    BY <1>4, <1>6
  <2>2. ~Below(s, T, x) <=> IF q # NoLimit THEN ~(x <= Converted(T, q)) ELSE ~(p # NoLimit /\ x < Converted(T, p))
    BY DEF Below
  <2>3. p = NoLimit \/ q = NoLimit
    BY <1>5
  <2> HIDE DEF p, q, x
  <2> QED BY <1>1, <2>1, <2>2, <2>3 DEF p, q
<1>11. ~bad <=> ~NotMultiple(s, x) /\ ~Exceeds(s, T, x) /\ ~Below(s, T, x)
  <2>1. y = x
    BY <1>4
  <2> HIDE DEF y, x
  <2> QED BY <2>1
<1>12. ~bad <=> ValidNumber(s, x)
  <2> HIDE DEF bad, x, s
  <2> QED BY <1>8, <1>9, <1>10, <1>11 DEF ValidNumber
<1>13. tasks = Reject(bad, ptr)
  BY DEF NumericTasks
<1> HIDE DEF bad, tasks
<1>14. Steady(tasks) /\ (Good(f, tasks) <=> ~bad) /\ Total(f, tasks) = {}
  BY <1>13, RejectMeans
<1> QED
  BY <1>3, <1>12, <1>14 DEF tasks

\* The agenda of the validator for the type of the instance.
OfType(s, ptr, inst) ==
  (IF Kind(inst) = "object" /\ "object" \in s.types THEN InObject(DefaultsOf, s, ptr, inst) ELSE {})
  \cup (IF Kind(inst) = "array" /\ "array" \in s.types THEN InArray(Valid, DefaultsOf, s, ptr, inst) ELSE {})

\* type_schema::validate() asks the validator of the instance's own type, or reports.
LEMMA TypeMeans ==
  ASSUME NEW f, NEW i, NEW ptr, NEW inst, Met(i, ptr, inst)
  PROVE  LET s == graph[i]
             tasks == TypeTasks(s, i, ptr, inst)
         IN /\ Steady(tasks) /\ (Good(f, tasks) <=> ValidType(Valid, s, inst))
            /\ Total(f, tasks) = OfType(s, ptr, inst)
<1> DEFINE s == graph[i]
           K == Kind(inst)
           T == ForType(s, K)
           tasks == TypeTasks(s, i, ptr, inst)
<1>1. K \in {"null", "object", "array", "string", "boolean", "binary", "integer", "unsigned", "float"}
  <2>1. inst[<<>>] \in Node
    BY AgreedNode
  <2> QED BY <2>1 DEF Node, Kind
<1>2. tasks =
        CASE T \in {"object", "array"} -> <<Call("plain", T, <<i>>, ptr, inst)>>
          [] T = "string" -> StringTasks(s, ptr, inst)
          [] T \in {"integer", "number"} -> NumericTasks(s, T, ptr, inst)
          [] T \in {"null", "boolean"} -> <<>>
          [] T = "none" -> Reject(TRUE, ptr)
  BY DEF TypeTasks
<1>3. ValidType(Valid, s, inst) <=>
        /\ HasType(s, inst)
        /\ K \in Numeric => ValidNumber(s, inst[<<>>].number)
        /\ K \in {"string", "binary"} => ValidText(s, inst)
        /\ K = "object" => ValidObject(Valid, s, inst)
        /\ K = "array" => ValidArray(Valid, s, inst)
  BY DEF ValidType
<1>4. /\ T \in {"object", "array", "null", "boolean"} => T = K /\ HasType(s, inst) /\ K \in s.types
      /\ T = "string" => K \in {"string", "binary"} /\ "string" \in s.types
      /\ T \in {"integer", "number"} => K \in Numeric
      /\ T \in {"null", "object", "array", "string", "boolean", "integer", "number", "none"}
      /\ T = "none" => ~HasType(s, inst) /\ (K \in {"object", "array"} => K \notin s.types)
  <2>1. CASE K \in {"integer", "unsigned", "float"}
    <3>4. K \in Numeric
      BY <2>1 DEF Numeric
    <3>1. HasType(s, inst) <=> "number" \in s.types \/ ("integer" \in s.types /\ Integral(inst[<<>>]))
      BY <3>4, NumberHasType
    <3>2. T = IF K \in {"integer", "unsigned"}
              THEN IF "integer" \in s.types THEN "integer" ELSE IF "number" \in s.types THEN "number" ELSE "none"
              ELSE IF "number" \in s.types THEN "number" ELSE "none"
      <4>1. CASE K \in {"integer", "unsigned"}
        BY <4>1, Zenon DEF ForType
      <4>2. CASE K = "float"
        <5>1. K \notin {"integer", "unsigned"}
          BY <4>2
        <5> QED BY <4>2, <5>1 DEF ForType
      <4> QED BY <2>1, <4>1, <4>2
    <3>3. K = "float" /\ "integer" \in s.types /\ Integral(inst[<<>>]) => "number" \in s.types
      BY AgreedNode DEF Agreed, Kind
    <3>5. K \notin {"object", "array"}
      BY <2>1
    <3>6. K \in {"integer", "unsigned"} => Integral(inst[<<>>])
      BY AgreedNode DEF Node, Kind, Integral
    <3> HIDE DEF s, K, T
    <3> QED BY <2>1, <3>1, <3>2, <3>3, <3>4, <3>5, <3>6
  <2>2. CASE K = "binary"
    <3>1. K \notin Numeric
      BY <2>2 DEF Numeric
    <3>2. HasType(s, inst) <=> "string" \in s.types /\ s.content # NoLimit
      BY <2>2, <3>1 DEF HasType
    <3>3. K \notin {"integer", "unsigned"} /\ K # "float"
      BY <2>2
    <3>4. T = IF "string" \in s.types THEN "string" ELSE "none"
      BY <2>2, <3>3 DEF ForType
    <3> HIDE DEF s, K, T
    <3> QED BY <2>2, <3>2, <3>4
  <2>3. CASE K \in {"null", "object", "array", "string", "boolean"}
    <3>1. K \notin Numeric /\ K # "binary"
      BY <2>3 DEF Numeric
    <3>2. HasType(s, inst) <=> K \in s.types
      BY <3>1, Zenon DEF HasType
    <3>3. K \notin {"integer", "unsigned"} /\ K # "float"
      BY <2>3
    <3>4. T = IF K \in s.types THEN K ELSE "none"
      BY <3>1, <3>3 DEF ForType
    <3> HIDE DEF s, K, T
    <3> QED BY <2>3, <3>2, <3>4
  <2> QED BY <1>1, <2>1, <2>2, <2>3
<1>s. inst \in Parts /\ ptr \in Seq(Token) /\ i \in DOMAIN graph
  BY DEF Met
<1>u. OfType(s, ptr, inst) =
        (IF K = "object" /\ "object" \in s.types THEN InObject(DefaultsOf, s, ptr, inst) ELSE {})
        \cup (IF K = "array" /\ "array" \in s.types THEN InArray(Valid, DefaultsOf, s, ptr, inst) ELSE {})
  BY DEF OfType
<1>n. K \in Numeric => K \notin {"string", "binary", "object", "array"}
  BY DEF Numeric
<1>m. K \in {"null", "object", "array", "boolean", "string", "binary"} => K \notin Numeric
  BY DEF Numeric
<1>5. CASE T \in {"object", "array"}
  <2> DEFINE subs == <<i>>
             x == Call("plain", T, subs, ptr, inst)
  <2>1. subs \in Seq(DOMAIN graph) /\ subs[1] = i /\ T \in AllRoles
    BY <1>s, <1>5 DEF AllRoles, Roles
  <2>2. tasks = <<x>>
    BY <1>2, <1>5
  <2> HIDE DEF subs, T, s, tasks, K
  <2>3. /\ Calm(x) /\ (Okay(Holds, f, x) <=> <<T, subs, inst>> \in Holds)
        /\ Gives(Holds, Brought, f, x) = Brought[<<T, subs, ptr, inst>>]
    <3>1. /\ x.do = "call" /\ x.via = "plain" /\ x.role = T /\ x.subs = subs /\ x.ptr = ptr
          /\ x.inst = inst
      BY DEF Call
    <3> HIDE DEF x
    <3>2. Calm(x) /\ (Okay(Holds, f, x) <=> CallHolds(Holds, x)) /\ Gives(Holds, Brought, f, x) = Brings(Brought, x)
      BY <1>s, <3>1, CallActs
    <3> QED BY <3>1, <3>2 DEF CallHolds, Brings
  <2>4. /\ <<T, subs, inst>> \in Holds <=> RoleHolds(T, subs, inst)
        /\ Brought[<<T, subs, ptr, inst>>] = RoleBrings(T, subs, ptr, inst)
    BY <1>s, <2>1, CallMeaning
  <2> HIDE DEF x
  <2>5. Steady(tasks) /\ (Good(f, tasks) <=> RoleHolds(T, subs, inst)) /\ Total(f, tasks) = RoleBrings(T, subs, ptr, inst)
    BY <2>2, <2>3, <2>4, FewMean
  <2>6. T = "object" => /\ Steady(tasks) /\ (Good(f, tasks) <=> ValidType(Valid, s, inst))
            /\ Total(f, tasks) = OfType(s, ptr, inst)
    <3> SUFFICES ASSUME T = "object" PROVE /\ Steady(tasks) /\ (Good(f, tasks) <=> ValidType(Valid, s, inst))
            /\ Total(f, tasks) = OfType(s, ptr, inst)
      OBVIOUS
    <3>1. RoleHolds("object", subs, inst) <=> ValidObject(Valid, s, inst)
      BY <2>1, RoleHoldsCases DEF s
    <3>2. RoleBrings("object", subs, ptr, inst) = InObject(DefaultsOf, s, ptr, inst)
      BY <2>1, RoleBringsCases DEF s
    <3>3. K = "object" /\ "object" \in s.types /\ HasType(s, inst)
      BY <1>4
    <3> HIDE DEF K
    <3> QED BY <1>3, <1>m, <1>u, <2>5, <3>1, <3>2, <3>3
  <2>7. T = "array" => /\ Steady(tasks) /\ (Good(f, tasks) <=> ValidType(Valid, s, inst))
            /\ Total(f, tasks) = OfType(s, ptr, inst)
    <3> SUFFICES ASSUME T = "array" PROVE /\ Steady(tasks) /\ (Good(f, tasks) <=> ValidType(Valid, s, inst))
            /\ Total(f, tasks) = OfType(s, ptr, inst)
      OBVIOUS
    <3>1. RoleHolds("array", subs, inst) <=> ValidArray(Valid, s, inst)
      BY <2>1, RoleHoldsCases DEF s
    <3>2. RoleBrings("array", subs, ptr, inst) = InArray(Valid, DefaultsOf, s, ptr, inst)
      BY <2>1, RoleBringsCases DEF s
    <3>3. K = "array" /\ "array" \in s.types /\ HasType(s, inst)
      BY <1>4
    <3> HIDE DEF K
    <3> QED BY <1>3, <1>m, <1>u, <2>5, <3>1, <3>2, <3>3
  <2> QED BY <1>5, <2>6, <2>7 DEF tasks, s
<1>6. CASE T = "string"
  <2>1. K \in {"string", "binary"} /\ "string" \in s.types
    BY <1>4, <1>6
  <2>2. tasks = StringTasks(s, ptr, inst)
    BY <1>2, <1>6
  <2>3. /\ Steady(tasks) /\ Total(f, tasks) = {}
        /\ Good(f, tasks) <=> HasType(s, inst) /\ ValidText(s, inst)
    BY <2>1, <2>2, TextMeans
  <2> HIDE DEF tasks, K, T, s
  <2> QED BY <1>3, <1>m, <1>u, <2>1, <2>3 DEF tasks, s
<1>7. CASE T \in {"integer", "number"}
  <2>1. K \in Numeric
    BY <1>4, <1>7
  <2>2. tasks = NumericTasks(s, T, ptr, inst)
    BY <1>2, <1>7
  <2>3. /\ Steady(tasks) /\ Total(f, tasks) = {}
        /\ Good(f, tasks) <=> HasType(s, inst) /\ ValidNumber(s, inst[<<>>].number)
    BY <1>7, <2>1, <2>2, NumberMeans
  <2> HIDE DEF tasks, K, T, s
  <2> QED BY <1>3, <1>n, <1>u, <2>1, <2>3 DEF tasks, s
<1>8. CASE T \in {"null", "boolean"}
  <2>1. T = K /\ HasType(s, inst)
    BY <1>4, <1>8
  <2>2. tasks = <<>>
    BY <1>2, <1>8
  <2> HIDE DEF tasks, K, T, s
  <2>3. Steady(tasks) /\ Total(f, tasks) = {} /\ Good(f, tasks)
    BY <2>2, FewMean
  <2> QED BY <1>3, <1>8, <1>m, <1>u, <2>1, <2>3 DEF tasks, s
<1>9. CASE T = "none"
  <2>2. tasks = Reject(TRUE, ptr)
    BY <1>2, <1>9
  <2>1. ~HasType(s, inst) /\ (K \in {"object", "array"} => K \notin s.types)
    BY <1>4, <1>9
  <2> HIDE DEF tasks, K, T, s
  <2>3. Steady(tasks) /\ Total(f, tasks) = {} /\ ~Good(f, tasks)
    BY <2>2, RejectMeans
  <2> QED BY <1>3, <1>u, <2>1, <2>3 DEF tasks, s
<1> QED
  BY <1>4, <1>5, <1>6, <1>7, <1>8, <1>9
-----------------------------------------------------------------------------
\* The agenda of the keywords that combine schemas.
LogicDone(f, s, ptr, inst) ==
  LET tasks == [k \in DOMAIN s.logic |-> Call("plain", s.logic[k].role, s.logic[k].subs, ptr, inst)]
  IN /\ Steady(tasks)
     /\ Good(f, tasks) <=>
          \A k \in DOMAIN s.logic : ValidLogic(Valid, s.logic[k].role, s.logic[k].subs, inst)
     /\ Total(f, tasks) =
          UNION {InLogic(Valid, DefaultsOf, s.logic[k].role, s.logic[k].subs, ptr, inst) : k \in DOMAIN s.logic}

\* The calls of these keywords ask what the keywords mean.
LEMMA LogicMeans ==
  ASSUME NEW f, NEW i, NEW ptr, NEW inst, Met(i, ptr, inst)
  PROVE  LogicDone(f, graph[i], ptr, inst)
<1> DEFINE s == graph[i]
           n == Len(s.logic)
           call(k) == Call("plain", s.logic[k].role, s.logic[k].subs, ptr, inst)
           all == [k \in DOMAIN s.logic |-> call(k)]
           ok(k) == ValidLogic(Valid, s.logic[k].role, s.logic[k].subs, inst)
           has(k) == InLogic(Valid, DefaultsOf, s.logic[k].role, s.logic[k].subs, ptr, inst)
           R == [role : {"not", "allOf", "anyOf", "oneOf"}, subs : Seq(DOMAIN graph)]
<1>1. inst \in Parts /\ ptr \in Seq(Token) /\ i \in DOMAIN graph /\ validator \in Corpus
  BY DEF Met, Meaningful
<1>2. s.logic \in Seq(R)
  BY <1>1, SchemaObjects DEF IsSchema
<1>3. n \in Nat /\ DOMAIN s.logic = 1..n /\ \A k \in 1..n : s.logic[k] \in R
  <2> HIDE DEF R
  <2> QED BY <1>2, ElementOfSeq
<1>4. \A k \in 1..n : /\ Calm(call(k)) /\ (Okay(Holds, f, call(k)) <=> ok(k))
                      /\ Gives(Holds, Brought, f, call(k)) = has(k)
  <2> SUFFICES ASSUME NEW k \in 1..n
               PROVE  /\ Calm(call(k)) /\ (Okay(Holds, f, call(k)) <=> ok(k))
                      /\ Gives(Holds, Brought, f, call(k)) = has(k)
    OBVIOUS
  <2> DEFINE role == s.logic[k].role
             subs == s.logic[k].subs
             x == Call("plain", role, subs, ptr, inst)
  <2>1. role \in {"not", "allOf", "anyOf", "oneOf"} /\ subs \in Seq(DOMAIN graph)
    BY <1>3
  <2> HIDE DEF role, subs, s
  <2>2. role \in AllRoles
    BY <2>1 DEF AllRoles, Roles
  <2>3. /\ <<role, subs, inst>> \in Holds <=> RoleHolds(role, subs, inst)
        /\ Brought[<<role, subs, ptr, inst>>] = RoleBrings(role, subs, ptr, inst)
    BY <1>1, <2>1, <2>2, CallMeaning
  <2>4. RoleHolds(role, subs, inst) <=> ValidLogic(Valid, role, subs, inst)
    BY <2>1, RoleHoldsCases
  <2>5. RoleBrings(role, subs, ptr, inst) = InLogic(Valid, DefaultsOf, role, subs, ptr, inst)
    BY <2>1, LogicBrings
  <2>6. /\ x.do = "call" /\ x.via = "plain" /\ x.role = role /\ x.subs = subs /\ x.ptr = ptr
        /\ x.inst = inst
    BY DEF Call
  <2> HIDE DEF x
  <2>7. Calm(x) /\ (Okay(Holds, f, x) <=> CallHolds(Holds, x)) /\ Gives(Holds, Brought, f, x) = Brings(Brought, x)
    BY <1>1, <2>6, CallActs
  <2>8. /\ Calm(x) /\ (Okay(Holds, f, x) <=> ValidLogic(Valid, role, subs, inst))
        /\ Gives(Holds, Brought, f, x) = InLogic(Valid, DefaultsOf, role, subs, ptr, inst)
    BY <2>3, <2>4, <2>5, <2>6, <2>7 DEF CallHolds, Brings
  <2> QED BY <2>8 DEF x, role, subs
<1>5. LogicDone(f, s, ptr, inst) <=>
        /\ Steady(all) /\ (Good(f, all) <=> \A k \in 1..n : ok(k))
        /\ Total(f, all) = UNION {has(k) : k \in 1..n}
  BY <1>3 DEF LogicDone
<1> HIDE DEF n
<1>6. DOMAIN all = 1..n /\ all = [k \in 1..n |-> all[k]] /\ \A k \in 1..n : all[k] = call(k)
  BY <1>3
<1> HIDE DEF all, call, ok, has
<1>7. \A k \in 1..n : Calm(all[k])
  BY <1>4, <1>6
<1>8. Lists(f, all, 1..n)
  BY <1>3, <1>6, <1>7, ListMeans
<1>9. {Gives(Holds, Brought, f, all[k]) : k \in 1..n} = {has(k) : k \in 1..n}
  BY <1>4, <1>6
<1>10. (\A k \in 1..n : Okay(Holds, f, all[k])) <=> \A k \in 1..n : ok(k)
  BY <1>4, <1>6
<1>11. /\ Steady(all) /\ (Good(f, all) <=> \A k \in 1..n : Okay(Holds, f, all[k]))
       /\ Total(f, all) = UNION {Gives(Holds, Brought, f, all[k]) : k \in 1..n}
  BY <1>8 DEF Lists
<1> QED
  BY <1>5, <1>9, <1>10, <1>11

\* The agenda of a condition.
ConditionDone(f, s, ptr, inst) ==
  LET tasks == IF s.then # 0 \/ s.else # 0 THEN IfPresent(s.if, "if", ptr, inst) ELSE <<>>
  IN /\ Steady(tasks) /\ (Good(f, tasks) <=> (s.if # 0 => ValidIf(Valid, s, inst)))
     /\ Total(f, tasks) = InIf(Valid, DefaultsOf, s, ptr, inst)

\* The call of a condition asks for the branch that it leads to as well.
LEMMA ConditionMeans ==
  ASSUME NEW f, NEW i, NEW ptr, NEW inst, Met(i, ptr, inst), f.subs = <<i>>
  PROVE  ConditionDone(f, graph[i], ptr, inst)
<1> DEFINE s == graph[i]
           subs == f.subs
           tasks == IF s.then # 0 \/ s.else # 0 THEN IfPresent(s.if, "if", ptr, inst) ELSE <<>>
           b == Branch(Valid, s, inst)
           j == s.if
           D(k) == DefaultsOf[<<k, ptr, inst>>]
<1>1. inst \in Parts /\ ptr \in Seq(Token) /\ i \in DOMAIN graph /\ validator \in Corpus
  BY DEF Met, Meaningful
<1>2. subs \in Seq(DOMAIN graph) /\ subs[1] = i
  BY <1>1
<1>3. j \in DOMAIN graph \cup {0} /\ 0 \notin DOMAIN graph
  BY <1>1, SchemaObjects DEF IsSchema
<1>4. /\ Valid[<<j, inst>>] => b = s.then
      /\ ~Valid[<<j, inst>>] => b = s.else
      /\ ValidIf(Valid, s, inst) <=> (b # 0 => Valid[<<b, inst>>])
  BY DEF ValidIf, Branch
<1>5. CASE j = 0 \/ (s.then = 0 /\ s.else = 0)
  <2>1. tasks = <<>>
    BY <1>5 DEF IfPresent
  <2>2. InIf(Valid, DefaultsOf, s, ptr, inst) = {}
    BY <1>5 DEF InIf
  <2>3. j # 0 => ValidIf(Valid, s, inst)
    <3> HIDE DEF b, j
    <3> QED BY <1>4, <1>5
  <2> HIDE DEF s, j
  <2>4. Steady(tasks) /\ Good(f, tasks) /\ Total(f, tasks) = {}
    BY <2>1, FewMean
  <2> QED BY <2>2, <2>3, <2>4 DEF ConditionDone, s, j
<1>6. CASE j # 0 /\ ~(s.then = 0 /\ s.else = 0)
  <2> DEFINE x == Call("if", "schema", <<j>>, ptr, inst)
  <2>1. tasks = <<x>>
    BY <1>6 DEF IfPresent
  <2>2. InIf(Valid, DefaultsOf, s, ptr, inst) = UNION {D(k) : k \in {j, b} \ {0}}
    BY <1>6 DEF InIf
  <2>3. /\ x.do = "call" /\ x.via = "if" /\ x.role = "schema" /\ x.subs = <<j>> /\ x.ptr = ptr
        /\ x.inst = inst
    BY DEF Call
  <2>4. /\ <<"schema", <<j>>, inst>> \in Holds <=> Valid[<<j, inst>>]
        /\ Brought[<<"schema", <<j>>, ptr, inst>>] = D(j)
    <3> HIDE DEF j
    <3> QED BY <1>1, <1>3, <1>6, SchemaMeans
  <2> HIDE DEF x, subs
  <2>5. Calm(x)
    BY <1>1, <2>3 DEF Calm, Orderly
  <2>6. CallHolds(Holds, x) <=> Valid[<<j, inst>>]
    BY <2>3, <2>4 DEF CallHolds
  <2>7. "then" \in AllRoles /\ "else" \in AllRoles
    BY DEF AllRoles
  <2>8. /\ <<"then", subs, inst>> \in Holds <=> (s.then # 0 => Valid[<<s.then, inst>>])
        /\ <<"else", subs, inst>> \in Holds <=> (s.else # 0 => Valid[<<s.else, inst>>])
    BY <1>1, <1>2, <2>7, CallMeaning, RoleHoldsCases
  <2>9. /\ Brought[<<"then", subs, ptr, inst>>] = IF s.then = 0 THEN {} ELSE D(s.then)
        /\ Brought[<<"else", subs, ptr, inst>>] = IF s.else = 0 THEN {} ELSE D(s.else)
    <3> DEFINE then == graph[subs[1]].then
               else == graph[subs[1]].else
    <3>3. RoleBrings("then", subs, ptr, inst) = IF then = 0 THEN {} ELSE DefaultsOf[<<then, ptr, inst>>]
      BY BranchBrings
    <3>4. RoleBrings("else", subs, ptr, inst) = IF else = 0 THEN {} ELSE DefaultsOf[<<else, ptr, inst>>]
      BY BranchBrings
    <3>5. then = s.then /\ else = s.else
      BY <1>2
    <3> HIDE DEF then, else
    <3>1. /\ RoleBrings("then", subs, ptr, inst) = IF then = 0 THEN {} ELSE D(then)
          /\ RoleBrings("else", subs, ptr, inst) = IF else = 0 THEN {} ELSE D(else)
      BY <3>3, <3>4
    <3>2. /\ Brought[<<"then", subs, ptr, inst>>] = RoleBrings("then", subs, ptr, inst)
          /\ Brought[<<"else", subs, ptr, inst>>] = RoleBrings("else", subs, ptr, inst)
      BY <1>1, <1>2, <2>7, CallMeaning
    <3> HIDE DEF D
    <3> QED BY <3>1, <3>2, <3>5
  <2> HIDE DEF s, j, b, D
  <2>10. Okay(Holds, f, x) <=> ValidIf(Valid, s, inst)
    <3>1. Okay(Holds, f, x) <=> <<Branching(Holds, x), subs, inst>> \in Holds
      BY <2>3 DEF Okay, Suits, Leads, subs
    <3>2. /\ Valid[<<j, inst>>] => Branching(Holds, x) = "then"
          /\ ~Valid[<<j, inst>>] => Branching(Holds, x) = "else"
      BY <2>6 DEF Branching
    <3> QED BY <1>4, <2>8, <3>1, <3>2
  <2>11. Gives(Holds, Brought, f, x) = UNION {D(k) : k \in {j, b} \ {0}}
    <3>1. Gives(Holds, Brought, f, x) = D(j) \cup Brought[<<Branching(Holds, x), subs, ptr, inst>>]
      BY <2>3, <2>4 DEF Gives, Brings, Led, subs
    <3>2. /\ Valid[<<j, inst>>] => Branching(Holds, x) = "then"
          /\ ~Valid[<<j, inst>>] => Branching(Holds, x) = "else"
      BY <2>6 DEF Branching
    <3>3. Brought[<<Branching(Holds, x), subs, ptr, inst>>] = IF b = 0 THEN {} ELSE D(b)
      BY <1>4, <2>9, <3>2
    <3>4. UNION {D(k) : k \in {j, b} \ {0}} = D(j) \cup IF b = 0 THEN {} ELSE D(b)
      BY <1>6
    <3> QED BY <3>1, <3>3, <3>4
  <2>12. /\ Steady(<<x>>) /\ (Good(f, <<x>>) <=> ValidIf(Valid, s, inst))
         /\ Total(f, <<x>>) = UNION {D(k) : k \in {j, b} \ {0}}
    BY <2>5, <2>10, <2>11, FewMean
  <2> QED BY <1>6, <2>1, <2>2, <2>12 DEF ConditionDone, s, j
<1> QED
  BY <1>5, <1>6

\* The default value for an empty document.
LEMMA RootDefaultMeans ==
  ASSUME NEW f, NEW default, NEW ptr, NEW inst
  PROVE  LET there == ptr = <<>> /\ IsNull(inst) /\ ~IsNull(default)
             tasks == IF there THEN <<Add(ptr, default)>> ELSE <<>>
         IN /\ Steady(tasks) /\ Good(f, tasks)
            /\ Total(f, tasks) = IF there THEN {[path |-> ptr, value |-> default]} ELSE {}
<1> DEFINE x == Add(ptr, default)
           there == ptr = <<>> /\ IsNull(inst) /\ ~IsNull(default)
<1>1. x.do = "add" /\ x.path = ptr /\ x.value = default
  BY DEF Add
<1> HIDE DEF x
<1>2. Calm(x) /\ Okay(Holds, f, x) /\ Gives(Holds, Brought, f, x) = {[path |-> ptr, value |-> default]}
  BY <1>1 DEF Calm, Orderly, Okay, Gives
<1>3. Steady(<<x>>) /\ Good(f, <<x>>) /\ Total(f, <<x>>) = {[path |-> ptr, value |-> default]}
  BY <1>2, FewMean
<1> HIDE DEF there
<1> QED
  BY <1>3, FewMean DEF x, there
-----------------------------------------------------------------------------

\* These tasks ask what schema i means for the value inst at ptr.
SchemaDone(f, i, tasks, ptr, inst) ==
  /\ Steady(tasks) /\ (Good(f, tasks) <=> Valid[<<i, inst>>])
  /\ Total(f, tasks) = DefaultsOf[<<i, ptr, inst>>]

\* What a schema means, by its definition.
LEMMA SchemaRule ==
  ASSUME NEW i, NEW ptr, NEW inst, Met(i, ptr, inst)
  PROVE  /\ graph[i].kind \in {"type", "boolean", "ref"}
         /\ Valid[<<i, inst>>] <=> ValidSchema(Valid, graph[i], inst)
         /\ DefaultsOf[<<i, ptr, inst>>] = InSchema(Valid, DefaultsOf, graph[i], ptr, inst)
<1>1. i \in DOMAIN graph /\ ptr \in Seq(Token) /\ inst \in Parts
  BY DEF Met
<1>2. validator \in Corpus /\ IsDocument(instance) /\ Grounded(validator)
  BY DEF Met, Meaningful
<1>3. graph[i].kind \in {"type", "boolean", "ref"}
  BY <1>1, <1>2, SchemaObjects DEF IsSchema
<1>4. Valid[<<i, inst>>] <=> ValidSchema(Valid, graph[i], inst)
  BY <1>1, <1>2, ValidRule
<1>5. DefaultsOf[<<i, ptr, inst>>] = InSchema(Valid, DefaultsOf, graph[i], ptr, inst)
  BY <1>1, <1>2, DefaultsRule
<1> QED
  BY <1>3, <1>4, <1>5

\* The agenda of class type_schema.
LEMMA KeywordMeans ==
  ASSUME NEW f, NEW i, NEW ptr, NEW inst, Met(i, ptr, inst), f.subs = <<i>>, graph[i].kind = "type"
  PROVE  SchemaDone(f, i, KeywordTasks(graph[i], i, ptr, inst), ptr, inst)
<1> DEFINE s == graph[i]
           K == Kind(inst)
           other == s.enum # NoLimit /\ \A v \in s.enum : ~Same(v, inst)
           differs == s.const # NoLimit /\ ~Same(s.const, inst)
           default == s.default
           there == ptr = <<>> /\ IsNull(inst) /\ ~IsNull(default)
           a == TypeTasks(s, i, ptr, inst)
           b == Reject(other, ptr)
           c == Reject(differs, ptr)
           d == [k \in DOMAIN s.logic |-> Call("plain", s.logic[k].role, s.logic[k].subs, ptr, inst)]
           e == IF s.then # 0 \/ s.else # 0 THEN IfPresent(s.if, "if", ptr, inst) ELSE <<>>
           g == IF there THEN <<Add(ptr, default)>> ELSE <<>>
           tasks == a \o b \o c \o d \o e \o g
           A == OfType(s, ptr, inst)
           D == UNION {InLogic(Valid, DefaultsOf, s.logic[k].role, s.logic[k].subs, ptr, inst) : k \in DOMAIN s.logic}
           E == InIf(Valid, DefaultsOf, s, ptr, inst)
           G == IF there THEN {[path |-> ptr, value |-> default]} ELSE {}
           okD == \A k \in DOMAIN s.logic : ValidLogic(Valid, s.logic[k].role, s.logic[k].subs, inst)
           okE == s.if # 0 => ValidIf(Valid, s, inst)
<1>1. Steady(a) /\ (Good(f, a) <=> ValidType(Valid, s, inst)) /\ Total(f, a) = A
  BY TypeMeans
<1>2. /\ Steady(b) /\ (Good(f, b) <=> ~other) /\ Total(f, b) = {}
      /\ Steady(c) /\ (Good(f, c) <=> ~differs) /\ Total(f, c) = {}
  BY RejectMeans
<1>3. Steady(d) /\ (Good(f, d) <=> okD) /\ Total(f, d) = D
  <2>1. LogicDone(f, s, ptr, inst)
    BY LogicMeans
  <2> HIDE DEF s
  <2> QED BY <2>1 DEF LogicDone
<1>4. Steady(e) /\ (Good(f, e) <=> okE) /\ Total(f, e) = E
  <2>1. ConditionDone(f, s, ptr, inst)
    BY ConditionMeans
  <2> HIDE DEF s
  <2> QED BY <2>1 DEF ConditionDone
<1>5. Steady(g) /\ Good(f, g) /\ Total(f, g) = G
  <2> HIDE DEF default
  <2> QED BY RootDefaultMeans
<1>6. KeywordTasks(s, i, ptr, inst) = tasks
  BY DEF KeywordTasks
<1>7. Valid[<<i, inst>>] <=> ValidType(Valid, s, inst) /\ ~other /\ ~differs /\ okD /\ okE
  <2>1. ValidSchema(Valid, s, inst) <=>
          /\ ValidType(Valid, s, inst)
          /\ s.enum # NoLimit => \E x \in s.enum : Same(x, inst)
          /\ s.const # NoLimit => Same(s.const, inst)
          /\ okD /\ okE
    <3>1. s.kind # "boolean" /\ s.kind # "ref" /\ s.kind = "type"
      OBVIOUS
    <3> HIDE DEF s
    <3> QED BY <3>1, Zenon DEF ValidSchema
  <2> QED BY <2>1, SchemaRule
<1>8. DefaultsOf[<<i, ptr, inst>>] = A \cup D \cup E \cup G
  <2>1. InSchema(Valid, DefaultsOf, s, ptr, inst) =
          (IF K = "object" /\ "object" \in s.types THEN InObject(DefaultsOf, s, ptr, inst) ELSE {})
          \cup (IF K = "array" /\ "array" \in s.types THEN InArray(Valid, DefaultsOf, s, ptr, inst) ELSE {})
          \cup D \cup E \cup G
    BY DEF InSchema
  <2>2. A = (IF K = "object" /\ "object" \in s.types THEN InObject(DefaultsOf, s, ptr, inst) ELSE {})
            \cup (IF K = "array" /\ "array" \in s.types THEN InArray(Valid, DefaultsOf, s, ptr, inst) ELSE {})
    BY DEF OfType
  <2>3. DefaultsOf[<<i, ptr, inst>>] = InSchema(Valid, DefaultsOf, s, ptr, inst)
    BY SchemaRule
  <2> QED BY <2>1, <2>2, <2>3
<1> HIDE DEF a, b, c, d, e, g, A, D, E, G, okD, okE, other, differs, s
<1>9. Joins(f, tasks, a, b, c, d, e, g)
  BY <1>1, <1>2, <1>3, <1>4, <1>5, SixMean
<1> HIDE DEF tasks
<1>10. /\ Steady(tasks)
       /\ Good(f, tasks) <=> Good(f, a) /\ Good(f, b) /\ Good(f, c) /\ Good(f, d) /\ Good(f, e) /\ Good(f, g)
       /\ Total(f, tasks) =
            Total(f, a) \cup Total(f, b) \cup Total(f, c) \cup Total(f, d) \cup Total(f, e) \cup Total(f, g)
  BY <1>9 DEF Joins
<1>11. Good(f, tasks) <=> Valid[<<i, inst>>]
  BY <1>1, <1>2, <1>3, <1>4, <1>5, <1>7, <1>10
<1>12. Total(f, tasks) = DefaultsOf[<<i, ptr, inst>>]
  BY <1>1, <1>2, <1>3, <1>4, <1>5, <1>8, <1>10
<1>13. SchemaDone(f, i, tasks, ptr, inst)
  BY <1>10, <1>11, <1>12 DEF SchemaDone
<1> QED
  BY <1>6, <1>13 DEF s

\* The agenda of a schema.
LEMMA SchemaTasksMean ==
  ASSUME NEW f, NEW i, NEW ptr, NEW inst, Met(i, ptr, inst), f.subs = <<i>>
  PROVE  SchemaDone(f, i, SchemaTasks(i, ptr, inst), ptr, inst)
<1> DEFINE s == graph[i]
           v == Valid[<<i, inst>>]
           D == DefaultsOf[<<i, ptr, inst>>]
<1>1. /\ s.kind \in {"type", "boolean", "ref"}
      /\ v <=> ValidSchema(Valid, s, inst)
      /\ D = InSchema(Valid, DefaultsOf, s, ptr, inst)
  BY SchemaRule
<1>2. CASE s.kind = "type"
  <2>1. SchemaTasks(i, ptr, inst) = KeywordTasks(s, i, ptr, inst)
    BY <1>2 DEF SchemaTasks
  <2>2. SchemaDone(f, i, KeywordTasks(s, i, ptr, inst), ptr, inst)
    BY <1>2, KeywordMeans
  <2> QED BY <2>1, <2>2
<1>3. CASE s.kind = "boolean"
  <2> DEFINE tasks == Reject(~s.accepts, ptr)
  <2>1. SchemaTasks(i, ptr, inst) = tasks
    BY <1>3 DEF SchemaTasks, BooleanTasks
  <2>2. (v <=> s.accepts) /\ D = {}
    BY <1>1, <1>3 DEF ValidSchema, InSchema
  <2>3. Steady(tasks) /\ (Good(f, tasks) <=> s.accepts) /\ Total(f, tasks) = {}
    BY RejectMeans
  <2> HIDE DEF tasks
  <2>4. SchemaDone(f, i, tasks, ptr, inst)
    BY <2>2, <2>3 DEF SchemaDone
  <2> QED BY <2>1, <2>4
<1>4. CASE s.kind = "ref"
  <2> DEFINE j == s.target
             tasks == RefTasks(s, ptr, inst)
  <2>1. SchemaTasks(i, ptr, inst) = tasks
    BY <1>4 DEF SchemaTasks
  <2>2. /\ v <=> j # 0 /\ Valid[<<j, inst>>]
        /\ D = IF j = 0 THEN {} ELSE DefaultsOf[<<j, ptr, inst>>]
    BY <1>1, <1>4 DEF ValidSchema, InSchema
  <2>3. Steady(tasks) /\ (Good(f, tasks) <=> v) /\ Total(f, tasks) = D
    <3>1. CASE j = 0
      <4>1. tasks = Reject(TRUE, ptr)
        BY <3>1 DEF RefTasks
      <4> HIDE DEF tasks, v, D, j, s
      <4>2. Steady(tasks) /\ ~Good(f, tasks) /\ Total(f, tasks) = {}
        BY <4>1, RejectMeans
      <4> QED BY <2>2, <3>1, <4>2
    <3>2. CASE j # 0
      <4> DEFINE x == Plain(j, ptr, inst)
      <4>1. tasks = <<x>>
        BY <3>2 DEF RefTasks
      <4>2. j \in DOMAIN graph /\ ptr \in Seq(Token) /\ inst \in Parts
        BY <3>2, SchemaObjects DEF Met, Meaningful, IsSchema
      <4> HIDE DEF j
      <4>3. /\ Calm(x) /\ (Okay(Holds, f, x) <=> Valid[<<j, inst>>])
            /\ Gives(Holds, Brought, f, x) = DefaultsOf[<<j, ptr, inst>>]
        BY <4>2, PlainMeans
      <4> HIDE DEF x, tasks, v, D, s
      <4>4. /\ Steady(tasks) /\ (Good(f, tasks) <=> Valid[<<j, inst>>])
            /\ Total(f, tasks) = DefaultsOf[<<j, ptr, inst>>]
        BY <4>1, <4>3, FewMean
      <4> QED BY <2>2, <3>2, <4>4
    <3> QED BY <3>1, <3>2
  <2> HIDE DEF tasks
  <2>4. SchemaDone(f, i, tasks, ptr, inst)
    BY <2>3 DEF SchemaDone
  <2> QED BY <2>1, <2>4
<1> QED
  BY <1>1, <1>2, <1>3, <1>4
-----------------------------------------------------------------------------

\* At most one element.
LEMMA AtMostOne ==
  ASSUME NEW S, IsFiniteSet(S)
  PROVE  /\ Cardinality(S) <= 1 <=> \A i, j \in S : i = j
         /\ Cardinality(S) = 1 <=> S # {} /\ \A i, j \in S : i = j
<1>1. Cardinality(S) \in Nat
  BY FS_CardinalityType
<1>2. (Cardinality(S) = 0 <=> S = {}) /\ (Cardinality(S) = 1 <=> \E x : S = {x})
  BY FS_EmptySet, FS_Singleton
<1>3. ASSUME \A i, j \in S : i = j, S # {} PROVE \E x : S = {x}
  <2>1. PICK x : x \in S
    BY <1>3
  <2>2. S = {x}
    BY <1>3, <2>1
  <2> QED BY <2>2
<1>4. Cardinality(S) <= 1 <=> Cardinality(S) = 0 \/ Cardinality(S) = 1
  BY <1>1
<1>5. (\E x : S = {x}) => S # {} /\ \A i, j \in S : i = j
  OBVIOUS
<1> QED
  BY <1>2, <1>3, <1>4, <1>5

\* The agenda of a combination.
CombinationDone(role, subs, ptr, inst) ==
  LET todo == [k \in DOMAIN subs |-> Call("case", "schema", <<subs[k]>>, ptr, inst)] \o <<[do |-> "count"]>>
  IN /\ todo # <<>> /\ todo[Len(todo)].do = "count"
     /\ \A k \in 1..(Len(todo) - 1) : Case(todo[k])
     /\ Decides(Holds, role, 0, todo) <=> ValidLogic(Valid, role, subs, inst)
     /\ LeftCases(Holds, Brought, role, 0, todo) = InLogic(Valid, DefaultsOf, role, subs, ptr, inst)

\* The cases of a combination ask what the keyword means.
LEMMA CombinationMeans ==
  ASSUME NEW role \in Combined, NEW subs \in Seq(DOMAIN graph), NEW ptr \in Seq(Token), NEW inst \in Parts
  PROVE  CombinationDone(role, subs, ptr, inst)
<1> DEFINE n == Len(subs)
           call(k) == Call("case", "schema", <<subs[k]>>, ptr, inst)
           all == [k \in DOMAIN subs |-> call(k)]
           x == [do |-> "count"]
           todo == all \o <<x>>
           ok == Passing(Valid, subs, inst)
           D(k) == DefaultsOf[<<subs[k], ptr, inst>>]
           before(k) == 1..(k - 1)
<1>1. n \in Nat /\ DOMAIN subs = 1..n /\ (n = 0 <=> subs = <<>>) /\ \A k \in 1..n : subs[k] \in DOMAIN graph
  BY ElementOfSeq
<1>2. \A k \in 1..n : /\ Case(call(k)) /\ (CallHolds(Holds, call(k)) <=> k \in ok)
                      /\ Brings(Brought, call(k)) = D(k)
  <2> SUFFICES ASSUME NEW k \in 1..n
               PROVE  /\ Case(call(k)) /\ (CallHolds(Holds, call(k)) <=> k \in ok)
                      /\ Brings(Brought, call(k)) = D(k)
    OBVIOUS
  <2> DEFINE j == subs[k]
             y == Call("case", "schema", <<j>>, ptr, inst)
  <2>1. k \in ok <=> Valid[<<j, inst>>]
    BY <1>1 DEF Passing
  <2>2. j \in DOMAIN graph
    BY <1>1
  <2> HIDE DEF j, ok
  <2>3. /\ <<"schema", <<j>>, inst>> \in Holds <=> Valid[<<j, inst>>]
        /\ Brought[<<"schema", <<j>>, ptr, inst>>] = DefaultsOf[<<j, ptr, inst>>]
    BY <2>2, SchemaMeans
  <2>4. /\ y.do = "call" /\ y.via = "case" /\ y.role = "schema" /\ y.subs = <<j>> /\ y.ptr = ptr
        /\ y.inst = inst
    BY DEF Call
  <2> HIDE DEF y
  <2>5. /\ Case(y) /\ (CallHolds(Holds, y) <=> k \in ok)
        /\ Brings(Brought, y) = DefaultsOf[<<j, ptr, inst>>]
    BY <2>1, <2>3, <2>4 DEF Case, CallHolds, Brings
  <2> QED BY <2>5 DEF y, j
<1> HIDE DEF call
<1>3. DOMAIN all = 1..n /\ all = [k \in 1..n |-> all[k]] /\ \A k \in 1..n : all[k] = call(k)
  BY <1>1
<1>4. Sequence(all) /\ Len(all) = n
  <2> HIDE DEF all, n
  <2> QED BY <1>1, <1>3, Listed
<1> HIDE DEF x
<1>5. /\ Len(todo) = n + 1 /\ todo[n + 1] = x /\ Sequence(todo)
      /\ \A k \in 1..n : todo[k] = call(k)
  <2> DEFINE T == Range(all) \cup {x}
  <2>1. all \in Seq(T) /\ <<x>> \in Seq(T) /\ Len(<<x>>) = 1 /\ <<x>>[1] = x
    <3>1. all \in Seq(Range(all))
      BY <1>4 DEF Sequence
    <3> HIDE DEF all, x
    <3> QED BY <3>1
  <2> HIDE DEF T, all
  <2>2. /\ Len(todo) = n + 1
        /\ \A k \in 1..n : todo[k] = all[k]
        /\ \A k \in 1..1 : todo[n + k] = <<x>>[k]
    BY <1>4, <2>1, ConcatIndices
  <2>3. Sequence(todo)
    <3>1. todo \in Seq(T)
      BY <2>1
    <3> HIDE DEF todo
    <3> QED BY <3>1, IsSequence
  <2>4. 1 \in 1..1
    OBVIOUS
  <2> HIDE DEF todo, n
  <2> QED BY <1>3, <2>1, <2>2, <2>3, <2>4
<1>6. x.do = "count"
  BY DEF x
<1>7. ok \subseteq 1..n
  BY <1>1 DEF Passing
<1>8. InLogic(Valid, DefaultsOf, role, subs, ptr, inst) =
        UNION {D(k) : k \in CASE role = "not" -> DOMAIN subs
                [] role = "allOf" -> {i \in ok : before(i) \subseteq ok}
                [] role = "anyOf" -> {i \in ok : before(i) \cap ok = {}}
                [] role = "oneOf" -> {i \in ok : Cardinality(before(i) \cap ok) <= 1}}
  BY DEF InLogic
<1>9. CombinationDone(role, subs, ptr, inst) <=>
        /\ todo # <<>> /\ todo[Len(todo)].do = "count"
        /\ \A k \in 1..(Len(todo) - 1) : Case(todo[k])
        /\ Decides(Holds, role, 0, todo) <=> ValidLogic(Valid, role, subs, inst)
        /\ LeftCases(Holds, Brought, role, 0, todo) = InLogic(Valid, DefaultsOf, role, subs, ptr, inst)
  BY DEF CombinationDone, x, call
<1>10. /\ ValidLogic(Valid, "allOf", subs, inst) <=> subs # <<>> /\ ok = DOMAIN subs
       /\ ValidLogic(Valid, "anyOf", subs, inst) <=> ok # {}
       /\ ValidLogic(Valid, "oneOf", subs, inst) <=> Cardinality(ok) = 1
  BY DEF ValidLogic
<1>11. IsFiniteSet(ok) /\ \A k \in 1..n : IsFiniteSet(before(k) \cap ok)
  <2>1. IsFiniteSet(1..n)
    BY <1>1, FS_Interval
  <2> HIDE DEF ok
  <2> QED BY <1>7, <2>1, FS_Subset
<1> HIDE DEF todo, ok, n
<1>12. todo # <<>> /\ todo[Len(todo)].do = "count" /\ \A k \in 1..(Len(todo) - 1) : Case(todo[k])
  <2>1. todo # <<>> /\ Len(todo) - 1 = n
    BY <1>1, <1>5
  <2> QED BY <1>2, <1>5, <1>6, <2>1
<1>13. Fits(Holds, todo) = ok
  <2>1. \A k \in 1..n : todo[k].do = "call" /\ (CallHolds(Holds, todo[k]) <=> k \in ok)
    BY <1>2, <1>5 DEF Case
  <2>2. \A k \in 1..Len(todo) : k \in 1..n \/ todo[k].do = "count"
    BY <1>1, <1>5, <1>6
  <2>3. \A k \in 1..n : k \in 1..Len(todo)
    BY <1>1, <1>5
  <2> QED BY <1>7, <2>1, <2>2, <2>3 DEF Fits
<1>14. \A k \in 1..Len(todo) : todo[k].do # "errors" /\ (todo[k].do = "call" <=> k \in 1..n)
  <2>1. \A k \in 1..n : todo[k].do = "call"
    BY <1>2, <1>5 DEF Case
  <2>2. \A k \in 1..Len(todo) : k \in 1..n \/ k = n + 1
    BY <1>1, <1>5
  <2>3. n + 1 \notin 1..n
    BY <1>1
  <2> QED BY <1>5, <1>6, <2>1, <2>2, <2>3
<1>15. Decides(Holds, role, 0, todo) <=> ValidLogic(Valid, role, subs, inst)
  <2>1. Decides(Holds, role, 0, todo) <=>
          /\ role = "allOf" => (\A k \in 1..Len(todo) : todo[k].do = "call" => k \in ok) /\ Len(todo) > 1
          /\ role = "anyOf" => ok # {}
          /\ role = "oneOf" => ok # {} /\ \A i, j \in ok : i = j
    BY <1>12, <1>13, <1>14 DEF Decides
  <2>2. (\A k \in 1..Len(todo) : todo[k].do = "call" => k \in ok) <=> ok = 1..n
    <3>1. \A k \in 1..n : k \in 1..Len(todo)
      BY <1>1, <1>5
    <3> QED BY <1>7, <1>14, <3>1
  <2>3. Len(todo) > 1 <=> subs # <<>>
    BY <1>1, <1>5
  <2>4. Cardinality(ok) = 1 <=> ok # {} /\ \A i, j \in ok : i = j
    BY <1>11, AtMostOne
  <2>5. role \in {"allOf", "anyOf", "oneOf"}
    BY DEF Combined
  <2>6. DOMAIN subs = 1..n
    BY <1>1
  <2>7. CASE role = "allOf"
    BY <1>10, <2>1, <2>2, <2>3, <2>6, <2>7
  <2>8. CASE role = "anyOf"
    BY <1>10, <2>1, <2>8
  <2>9. CASE role = "oneOf"
    BY <1>10, <2>1, <2>4, <2>9
  <2> QED BY <2>5, <2>7, <2>8, <2>9
<1>16. LeftCases(Holds, Brought, role, 0, todo) = InLogic(Valid, DefaultsOf, role, subs, ptr, inst)
  <2> DEFINE U == Used(Holds, role, 0, todo)
             u(k) == Brings(Brought, todo[k])
  <2>1. LeftCases(Holds, Brought, role, 0, todo) = UNION {u(k) : k \in U}
    BY DEF LeftCases
  <2>2. U \subseteq 1..n
    BY <1>7, <1>13 DEF Used
  <2>3. \A k \in 1..n : u(k) = D(k)
    BY <1>2, <1>5
  <2>4. \A k \in ok : /\ role = "allOf" => (k \in U <=> before(k) \subseteq ok)
                      /\ role = "anyOf" => (k \in U <=> before(k) \cap ok = {})
                      /\ role = "oneOf" => (k \in U <=> \A i, j \in before(k) \cap ok : i = j)
    <3> SUFFICES ASSUME NEW k \in ok
                 PROVE  /\ role = "allOf" => (k \in U <=> before(k) \subseteq ok)
                        /\ role = "anyOf" => (k \in U <=> before(k) \cap ok = {})
                        /\ role = "oneOf" => (k \in U <=> \A i, j \in before(k) \cap ok : i = j)
      OBVIOUS
    <3> DEFINE B == before(k)
    <3>1. Earlier(Holds, todo, k) = B \cap ok
      BY <1>13 DEF Earlier
    <3>2. k \in U <=>
            /\ role = "allOf" => B \cap ok = B
            /\ role = "anyOf" => B \cap ok = {}
            /\ role = "oneOf" => \A i, j \in B \cap ok : i = j
      BY <1>13, <3>1 DEF Used
    <3> HIDE DEF U, B
    <3>3. B \cap ok = B <=> B \subseteq ok
      OBVIOUS
    <3> QED BY <3>2, <3>3 DEF B
  <2>5. U \subseteq ok
    BY <1>13 DEF Used
  <2> HIDE DEF U, u, D
  <2>6. UNION {u(k) : k \in U} = UNION {D(k) : k \in U}
    <3>1. \A k \in U : u(k) = D(k)
      BY <2>2, <2>3
    <3> QED BY <3>1
  <2>7. role \in {"allOf", "anyOf", "oneOf"}
    BY DEF Combined
  <2>8. CASE role = "allOf"
    <3>1. U = {i \in ok : before(i) \subseteq ok}
      BY <2>4, <2>5, <2>8
    <3>2. InLogic(Valid, DefaultsOf, role, subs, ptr, inst) = UNION {D(k) : k \in {i \in ok : before(i) \subseteq ok}}
      BY <1>8, <2>8
    <3> QED BY <2>1, <2>6, <3>1, <3>2
  <2>9. CASE role = "anyOf"
    <3>1. U = {i \in ok : before(i) \cap ok = {}}
      BY <2>4, <2>5, <2>9
    <3>2. InLogic(Valid, DefaultsOf, role, subs, ptr, inst) = UNION {D(k) : k \in {i \in ok : before(i) \cap ok = {}}}
      BY <1>8, <2>9
    <3> QED BY <2>1, <2>6, <3>1, <3>2
  <2>10. CASE role = "oneOf"
    <3> HIDE DEF before
    <3>1. \A i \in ok : Cardinality(before(i) \cap ok) <= 1 <=> \A j, k \in before(i) \cap ok : j = k
      BY <1>7, <1>11, AtMostOne
    <3>2. U = {i \in ok : Cardinality(before(i) \cap ok) <= 1}
      BY <2>4, <2>5, <2>10, <3>1
    <3>3. InLogic(Valid, DefaultsOf, role, subs, ptr, inst) =
            UNION {D(k) : k \in {i \in ok : Cardinality(before(i) \cap ok) <= 1}}
      BY <1>8, <2>10
    <3> QED BY <2>1, <2>6, <3>2, <3>3
  <2> QED BY <2>7, <2>8, <2>9, <2>10
<1> QED
  BY <1>9, <1>12, <1>15, <1>16
-----------------------------------------------------------------------------

\* What a call does, when it starts with its whole agenda.
Fresh(f) == f.todo = Agenda(f.role, f.subs, f.ptr, f.inst) /\ f.count = 0
AgendaDone(f) ==
  /\ Shaped(f) /\ (Passes(Holds, f) <=> CallHolds(Holds, f))
  /\ WellPlaced(validator) => Remains(Holds, Brought, f) = Brings(Brought, f)

\* The agenda of a call that is no combination, if it does what the role means.
LEMMA OneByOne ==
  ASSUME NEW f, f.inst \in Parts, f.role \notin Combined, Steady(f.todo),
         Good(f, f.todo) <=> CallHolds(Holds, f),
         WellPlaced(validator) => Total(f, f.todo) = Brings(Brought, f)
  PROVE  AgendaDone(f)
<1>1. /\ Clears(Holds, f, f.todo) <=> Good(f, f.todo)
      /\ Left(Holds, Brought, f, f.todo) = Total(f, f.todo)
      /\ \A i \in 1..Len(f.todo) : Orderly(f.todo[i])
  BY SteadyMeans
<1>2. ~Combination(f)
  BY DEF Combination
<1>3. Shaped(f)
  BY <1>1, <1>2 DEF Shaped
<1>4. (Passes(Holds, f) <=> Clears(Holds, f, f.todo)) /\ Remains(Holds, Brought, f) = Left(Holds, Brought, f, f.todo)
  BY <1>2 DEF Passes, Remains
<1> QED
  BY <1>1, <1>3, <1>4 DEF AgendaDone

\* The agenda of "not".
LEMMA NegationMeans ==
  ASSUME NEW f, NEW i \in DOMAIN graph, NEW ptr \in Seq(Token), NEW inst \in Parts
  PROVE  LET x == Call("not", "schema", <<i>>, ptr, inst)
         IN /\ Steady(<<x>>)
            /\ Good(f, <<x>>) <=> ValidLogic(Valid, "not", <<i>>, inst)
            /\ Total(f, <<x>>) = InLogic(Valid, DefaultsOf, "not", <<i>>, ptr, inst)
<1> DEFINE subs == <<i>>
           x == Call("not", "schema", subs, ptr, inst)
           v == Valid[<<i, inst>>]
           D == DefaultsOf[<<i, ptr, inst>>]
<1>1. DOMAIN subs = {1} /\ subs[1] = i
  OBVIOUS
<1>2. /\ <<"schema", subs, inst>> \in Holds <=> v
      /\ Brought[<<"schema", subs, ptr, inst>>] = D
  BY SchemaMeans
<1>3. /\ x.do = "call" /\ x.via = "not" /\ x.role = "schema" /\ x.subs = subs /\ x.ptr = ptr
      /\ x.inst = inst
  BY DEF Call
<1> HIDE DEF subs, x
<1>4. ValidLogic(Valid, "not", subs, inst) <=> ~v
  BY <1>1 DEF ValidLogic, Passing
<1>5. InLogic(Valid, DefaultsOf, "not", subs, ptr, inst) = D
  <2>1. InLogic(Valid, DefaultsOf, "not", subs, ptr, inst) = UNION {DefaultsOf[<<subs[k], ptr, inst>>] : k \in DOMAIN subs}
    BY DEF InLogic
  <2>2. \A k \in DOMAIN subs : DefaultsOf[<<subs[k], ptr, inst>>] = D
    BY <1>1
  <2> DEFINE d(k) == DefaultsOf[<<subs[k], ptr, inst>>]
  <2>3. \A k \in DOMAIN subs : d(k) = D
    BY <2>2
  <2>4. InLogic(Valid, DefaultsOf, "not", subs, ptr, inst) = UNION {d(k) : k \in DOMAIN subs}
    BY <2>1
  <2> HIDE DEF D, d
  <2>5. {d(k) : k \in DOMAIN subs} = {D}
    BY <1>1, <2>3
  <2> QED BY <2>4, <2>5
<1>6. Calm(x)
  BY <1>3 DEF Calm, Orderly
<1>7. Okay(Holds, f, x) <=> ~v
  BY <1>2, <1>3 DEF Okay, Suits, CallHolds
<1>8. Gives(Holds, Brought, f, x) = D
  BY <1>2, <1>3 DEF Gives, Brings, Led
<1> HIDE DEF v, D
<1>9. Steady(<<x>>) /\ (Good(f, <<x>>) <=> ~v) /\ Total(f, <<x>>) = D
  BY <1>6, <1>7, <1>8, FewMean
<1> QED
  BY <1>4, <1>5, <1>9 DEF x, subs

\* A sequence of length 1.
LEMMA OfLengthOne ==
  ASSUME NEW S, NEW s \in Seq(S), Len(s) = 1
  PROVE  s = <<s[1]>> /\ s[1] \in S
<1> DEFINE x == s[1]
           t == <<x>>
<1>1. x \in S
  BY ElementOfSeq
<1> HIDE DEF x
<1>2. t \in Seq(S) /\ Len(t) = 1 /\ t[1] = x
  BY <1>1
<1> HIDE DEF t
<1>3. \A k \in 1..Len(s) : s[k] = t[k]
  BY <1>2 DEF x
<1>4. s = t
  BY <1>2, <1>3, SeqEqual
<1> QED
  BY <1>1, <1>4 DEF t, x

\* A call that starts does what its role means.
LEMMA AgendaMeans ==
  ASSUME Meaningful, NEW f, CallOK(f, validator, instance), f.inst \in Parts, Fresh(f)
  PROVE  AgendaDone(f)
<1> DEFINE role == f.role
           subs == f.subs
           ptr == f.ptr
           inst == f.inst
           todo == f.todo
           i == subs[1]
<1>1. /\ role \in Roles /\ subs \in Seq(DOMAIN graph) /\ ptr \in Seq(Token) /\ inst \in Parts
      /\ role \in {"schema", "object", "array", "not"} => Len(subs) = 1
  BY DEF CallOK, IsCall, graph
<1>2. todo = Agenda(role, subs, ptr, inst)
  BY DEF Fresh
<1>3. (CallHolds(Holds, f) <=> RoleHolds(role, subs, inst)) /\ Brings(Brought, f) = RoleBrings(role, subs, ptr, inst)
  <2>1. role \in AllRoles
    BY <1>1 DEF AllRoles
  <2>2. (CallHolds(Holds, f) <=> <<role, subs, inst>> \in Holds) /\ Brings(Brought, f) = Brought[<<role, subs, ptr, inst>>]
    BY DEF CallHolds, Brings
  <2> HIDE DEF role, subs, ptr, inst
  <2> QED BY <1>1, <2>1, <2>2, CallMeaning
<1>4. ASSUME Len(subs) = 1 PROVE subs = <<i>> /\ i \in DOMAIN graph /\ Met(i, ptr, inst)
  <2> HIDE DEF subs
  <2>1. subs = <<i>> /\ i \in DOMAIN graph
    BY <1>1, <1>4, OfLengthOne
  <2> QED BY <1>1, <2>1 DEF Met
<1>5. role \in {"root", "schema", "object", "array", "not", "allOf", "anyOf", "oneOf"}
  BY <1>1 DEF Roles
<1>6. CASE role = "schema"
  <2>1. subs = <<i>> /\ Met(i, ptr, inst)
    BY <1>1, <1>4, <1>6
  <2>2. todo = SchemaTasks(i, ptr, inst)
    BY <1>2, <1>6 DEF Agenda
  <2>3. SchemaDone(f, i, SchemaTasks(i, ptr, inst), ptr, inst)
    BY <2>1, SchemaTasksMean
  <2>4. (RoleHolds("schema", subs, inst) <=> Valid[<<i, inst>>]) /\ RoleBrings("schema", subs, ptr, inst) = DefaultsOf[<<i, ptr, inst>>]
    BY RoleHoldsCases, RoleBringsCases
  <2>5. role \notin Combined
    BY <1>6 DEF Combined
  <2>6. Steady(todo) /\ (Good(f, todo) <=> Valid[<<i, inst>>]) /\ Total(f, todo) = DefaultsOf[<<i, ptr, inst>>]
    BY <2>2, <2>3 DEF SchemaDone
  <2> QED BY <1>1, <1>3, <1>6, <2>4, <2>5, <2>6, OneByOne
<1>7. CASE role = "object"
  <2> DEFINE s == graph[i]
             tasks == ObjectTasks(s, ptr, inst)
  <2>1. subs = <<i>> /\ Met(i, ptr, inst)
    BY <1>1, <1>4, <1>7
  <2>2. todo = tasks
    BY <1>2, <1>7 DEF Agenda
  <2>3. /\ Steady(tasks) /\ (Good(f, tasks) <=> ValidObject(Valid, s, inst))
        /\ WellPlaced(validator) => Total(f, tasks) = InObject(DefaultsOf, s, ptr, inst)
    BY <2>1, ObjectMeans
  <2>4. /\ RoleHolds("object", subs, inst) <=> ValidObject(Valid, s, inst)
        /\ RoleBrings("object", subs, ptr, inst) = InObject(DefaultsOf, s, ptr, inst)
    BY RoleHoldsCases, RoleBringsCases
  <2>5. role \notin Combined
    BY <1>7 DEF Combined
  <2> HIDE DEF s, tasks
  <2> QED BY <1>1, <1>3, <1>7, <2>2, <2>3, <2>4, <2>5, OneByOne
<1>8. CASE role = "array"
  <2> DEFINE s == graph[i]
             tasks == ArrayTasks(s, ptr, inst)
  <2>1. subs = <<i>> /\ Met(i, ptr, inst)
    BY <1>1, <1>4, <1>8
  <2>2. todo = tasks
    BY <1>2, <1>8 DEF Agenda
  <2>3. ArrayDone(f, s, ptr, inst)
    BY <2>1, ArrayMeans
  <2>4. /\ RoleHolds("array", subs, inst) <=> ValidArray(Valid, s, inst)
        /\ RoleBrings("array", subs, ptr, inst) = InArray(Valid, DefaultsOf, s, ptr, inst)
    BY RoleHoldsCases, RoleBringsCases
  <2>5. ~Combination(f)
    BY <1>8 DEF Combination, Combined
  <2> HIDE DEF s
  <2>6. /\ \A j \in 1..Len(todo) : Orderly(todo[j])
        /\ Clears(Holds, f, todo) <=> ValidArray(Valid, s, inst)
        /\ WellPlaced(validator) => Left(Holds, Brought, f, todo) = InArray(Valid, DefaultsOf, s, ptr, inst)
    BY <2>2, <2>3 DEF ArrayDone
  <2>7. Shaped(f)
    BY <1>1, <2>5, <2>6 DEF Shaped
  <2>8. (Passes(Holds, f) <=> Clears(Holds, f, todo)) /\ Remains(Holds, Brought, f) = Left(Holds, Brought, f, todo)
    BY <2>5 DEF Passes, Remains
  <2> HIDE DEF role, subs, ptr, inst, todo
  <2> QED BY <1>3, <1>8, <2>4, <2>6, <2>7, <2>8 DEF AgendaDone
<1>9. CASE role = "not"
  <2> DEFINE x == Call("not", "schema", subs, ptr, inst)
  <2>1. subs = <<i>> /\ i \in DOMAIN graph
    BY <1>1, <1>4, <1>9
  <2>2. todo = <<x>>
    BY <1>2, <1>9 DEF Agenda
  <2>3. /\ Steady(todo)
        /\ Good(f, todo) <=> ValidLogic(Valid, "not", subs, inst)
        /\ Total(f, todo) = InLogic(Valid, DefaultsOf, "not", subs, ptr, inst)
    <3> DEFINE j == i
               y == Call("not", "schema", <<j>>, ptr, inst)
    <3>1. subs = <<j>> /\ todo = <<y>> /\ j \in DOMAIN graph
      BY <2>1, <2>2
    <3> HIDE DEF j
    <3>2. /\ Steady(<<y>>)
          /\ Good(f, <<y>>) <=> ValidLogic(Valid, "not", <<j>>, inst)
          /\ Total(f, <<y>>) = InLogic(Valid, DefaultsOf, "not", <<j>>, ptr, inst)
      BY <1>1, <3>1, NegationMeans
    <3> HIDE DEF y, subs, todo
    <3> QED BY <3>1, <3>2
  <2>4. /\ RoleHolds("not", subs, inst) <=> ValidLogic(Valid, "not", subs, inst)
        /\ RoleBrings("not", subs, ptr, inst) = InLogic(Valid, DefaultsOf, "not", subs, ptr, inst)
    BY RoleHoldsCases, LogicBrings
  <2>5. role \notin Combined
    BY <1>9 DEF Combined
  <2> QED BY <1>1, <1>3, <1>9, <2>3, <2>4, <2>5, OneByOne
<1>10. CASE role \in {"allOf", "anyOf", "oneOf"}
  <2> DEFINE tasks == [k \in DOMAIN subs |-> Call("case", "schema", <<subs[k]>>, ptr, inst)] \o <<[do |-> "count"]>>
  <2>1. role \in Combined /\ f.count = 0 /\ role \notin {"root", "schema", "object", "array", "not"}
    BY <1>10 DEF Combined, Fresh
  <2>2. todo = tasks
    <3>1. Agenda(role, subs, ptr, inst) = tasks
      <4> HIDE DEF role, subs, ptr, inst
      <4> QED BY <1>10, <2>1 DEF Agenda
    <3> QED BY <1>2, <3>1
  <2>3. CombinationDone(role, subs, ptr, inst)
    <3> HIDE DEF role, subs, ptr, inst
    <3> QED BY <1>1, <2>1, CombinationMeans
  <2>4. /\ RoleHolds(role, subs, inst) <=> ValidLogic(Valid, role, subs, inst)
        /\ RoleBrings(role, subs, ptr, inst) = InLogic(Valid, DefaultsOf, role, subs, ptr, inst)
    <3> HIDE DEF role, subs, ptr, inst
    <3> QED BY <1>10, RoleHoldsCases, LogicBrings
  <2>5. /\ tasks # <<>> /\ tasks[Len(tasks)].do = "count"
        /\ \A k \in 1..(Len(tasks) - 1) : Case(tasks[k])
        /\ Decides(Holds, role, 0, tasks) <=> ValidLogic(Valid, role, subs, inst)
        /\ LeftCases(Holds, Brought, role, 0, tasks) = InLogic(Valid, DefaultsOf, role, subs, ptr, inst)
    BY <2>3 DEF CombinationDone
  <2> HIDE DEF tasks
  <2>6. Combination(f) /\ f.role = role /\ f.todo = tasks /\ f.inst \in Parts
    BY <2>1, <2>2 DEF Combination
  <2>7. Shaped(f)
    BY <2>1, <2>5, <2>6 DEF Shaped, Counting
  <2>8. (Passes(Holds, f) <=> Decides(Holds, role, 0, tasks)) /\ Remains(Holds, Brought, f) = LeftCases(Holds, Brought, role, 0, tasks)
    BY <2>1, <2>6 DEF Passes, Remains
  <2> HIDE DEF role, subs, ptr, inst, todo
  <2> QED BY <1>3, <2>4, <2>5, <2>7, <2>8 DEF AgendaDone
<1>11. CASE role = "root"
  <2>1. /\ RoleHolds("root", subs, inst) <=> subs # <<>> /\ Valid[<<i, inst>>]
        /\ RoleBrings("root", subs, ptr, inst) = IF subs = <<>> THEN {} ELSE DefaultsOf[<<i, ptr, inst>>]
    BY RoleHoldsCases, RoleBringsCases
  <2>2. todo = IF subs = <<>> THEN Reject(TRUE, ptr) ELSE <<Plain(i, ptr, inst)>>
    BY <1>2, <1>11 DEF Agenda
  <2>3. role \notin Combined
    BY <1>11 DEF Combined
  <2>4. Steady(todo) /\ (Good(f, todo) <=> RoleHolds("root", subs, inst)) /\ Total(f, todo) = RoleBrings("root", subs, ptr, inst)
    <3>1. CASE subs = <<>>
      <4>1. Steady(todo) /\ ~Good(f, todo) /\ Total(f, todo) = {}
        <5> HIDE DEF todo, ptr
        <5> QED BY <2>2, <3>1, RejectMeans
      <4> QED BY <2>1, <3>1, <4>1
    <3>2. CASE subs # <<>>
      <4> DEFINE x == Plain(i, ptr, inst)
      <4>1. i \in DOMAIN graph
        <5> HIDE DEF subs
        <5> QED BY <1>1, <3>2
      <4> HIDE DEF i, ptr, inst
      <4>2. /\ Calm(x) /\ (Okay(Holds, f, x) <=> Valid[<<i, inst>>])
            /\ Gives(Holds, Brought, f, x) = DefaultsOf[<<i, ptr, inst>>]
        BY <1>1, <4>1, PlainMeans
      <4>3. todo = <<x>>
        BY <2>2, <3>2
      <4> HIDE DEF x, todo
      <4>4. /\ Steady(todo) /\ (Good(f, todo) <=> Valid[<<i, inst>>])
            /\ Total(f, todo) = DefaultsOf[<<i, ptr, inst>>]
        BY <4>2, <4>3, FewMean
      <4> QED BY <2>1, <3>2, <4>4
    <3> QED BY <3>1, <3>2
  <2> QED BY <1>1, <1>3, <1>11, <2>3, <2>4, OneByOne
<1> QED
  BY <1>5, <1>6, <1>7, <1>8, <1>9, <1>10, <1>11
-----------------------------------------------------------------------------
(***************************************************************************)
(* The first task of an agenda, and the others.                            *)
(***************************************************************************)

\* The first element of a sequence, and the others.
LEMMA FirstAndRest ==
  ASSUME NEW s, Sequence(s), s # <<>>
  PROVE  /\ Len(s) \in Nat \ {0} /\ Head(s) = s[1]
         /\ Sequence(Tail(s)) /\ Len(Tail(s)) = Len(s) - 1
         /\ \A i \in 1..(Len(s) - 1) : Tail(s)[i] = s[i + 1]
<1> DEFINE S == Range(s)
<1>1. s \in Seq(S)
  BY DEF Sequence
<1> HIDE DEF S
<1>2. /\ Len(s) \in Nat \ {0} /\ Head(s) = s[1] /\ Tail(s) \in Seq(S) /\ Len(Tail(s)) = Len(s) - 1
      /\ \A i \in 1..(Len(s) - 1) : Tail(s)[i] = s[i + 1]
  BY <1>1
<1>3. Sequence(Tail(s))
  BY <1>2, IsSequence
<1> QED
  BY <1>2, <1>3

\* s has x as its first element, and the others are those of t.
Starts(s, x, t) ==
  /\ Len(t) \in Nat /\ Len(s) = Len(t) + 1 /\ s[1] = x
  /\ \A i \in 1..Len(t) : s[i + 1] = t[i]

\* The indices of such a sequence.
LEMMA StartsIndices ==
  ASSUME NEW s, NEW x, NEW t, Starts(s, x, t)
  PROVE  /\ Len(t) \in Nat /\ 1 \in 1..Len(s) /\ s[1] = x
         /\ \A i \in 1..Len(t) : i + 1 \in 1..Len(s) /\ s[i + 1] = t[i] /\ i + 1 # 1
         /\ \A i \in 1..Len(s) : i # 1 => i - 1 \in 1..Len(t) /\ s[i] = t[i - 1] /\ i = (i - 1) + 1
<1> DEFINE n == Len(t)
           m == Len(s)
<1>1. n \in Nat /\ m = n + 1 /\ s[1] = x /\ \A i \in 1..n : s[i + 1] = t[i]
  BY DEF Starts
<1> HIDE DEF n, m
<1>2. 1 \in 1..m /\ \A i \in 1..n : i + 1 \in 1..m /\ i + 1 # 1
  BY <1>1
<1>3. \A i \in 1..m : i # 1 => i - 1 \in 1..n /\ i = (i - 1) + 1
  BY <1>1
<1> QED
  BY <1>1, <1>2, <1>3 DEF n, m

\* An agenda that makes an end at its first task, or goes on.
LEMMA TaskByTask ==
  ASSUME NEW H, NEW D, NEW f, NEW s, NEW x, NEW t, Starts(s, x, t)
  PROVE  /\ Clears(H, f, s) <=> Okay(H, f, x) /\ (Stops(H, x) \/ Clears(H, f, t))
         /\ Left(H, D, f, s) = Gives(H, D, f, x) \cup (IF Stops(H, x) THEN {} ELSE Left(H, D, f, t))
<1> DEFINE n == Len(t)
           m == Len(s)
<1>1. /\ n \in Nat /\ 1 \in 1..m /\ s[1] = x
      /\ \A i \in 1..n : i + 1 \in 1..m /\ s[i + 1] = t[i] /\ i + 1 # 1
      /\ \A i \in 1..m : i # 1 => i - 1 \in 1..n /\ s[i] = t[i - 1] /\ i = (i - 1) + 1
  BY StartsIndices
<1>2. Clears(H, f, s) <=> \A i \in 1..m : Okay(H, f, s[i]) \/ \E j \in 1..(i - 1) : Stops(H, s[j])
  BY DEF Clears
<1>3. Clears(H, f, t) <=> \A i \in 1..n : Okay(H, f, t[i]) \/ \E j \in 1..(i - 1) : Stops(H, t[j])
  BY DEF Clears
<1> HIDE DEF n, m
<1>4. \A i \in 1..n : (\E j \in 1..((i + 1) - 1) : Stops(H, s[j])) <=> Stops(H, x) \/ \E j \in 1..(i - 1) : Stops(H, t[j])
  <2> SUFFICES ASSUME NEW i \in 1..n
               PROVE  (\E j \in 1..((i + 1) - 1) : Stops(H, s[j])) <=> Stops(H, x) \/ \E j \in 1..(i - 1) : Stops(H, t[j])
    OBVIOUS
  <2>1. i \in Nat /\ i >= 1 /\ i <= n
    BY <1>1
  <2>2. ASSUME NEW j \in 1..((i + 1) - 1), Stops(H, s[j])
        PROVE  Stops(H, x) \/ \E k \in 1..(i - 1) : Stops(H, t[k])
    <3>1. CASE j = 1
      BY <1>1, <2>2, <3>1
    <3>2. CASE j # 1
      <4>1. j - 1 \in 1..(i - 1) /\ j - 1 \in 1..n /\ (j - 1) + 1 = j
        BY <1>1, <2>1, <3>2
      <4>2. s[j] = t[j - 1]
        BY <1>1, <4>1
      <4> QED BY <2>2, <4>1, <4>2
    <3> QED BY <3>1, <3>2
  <2>3. ASSUME Stops(H, x) PROVE \E j \in 1..((i + 1) - 1) : Stops(H, s[j])
    <3>1. 1 \in 1..((i + 1) - 1)
      BY <2>1
    <3> QED BY <1>1, <2>3, <3>1
  <2>4. ASSUME NEW k \in 1..(i - 1), Stops(H, t[k]) PROVE \E j \in 1..((i + 1) - 1) : Stops(H, s[j])
    <3>1. k \in 1..n /\ k + 1 \in 1..((i + 1) - 1)
      BY <1>1, <2>1
    <3>2. s[k + 1] = t[k]
      BY <1>1, <3>1
    <3> QED BY <2>4, <3>1, <3>2
  <2> QED BY <2>2, <2>3, <2>4
<1>5. ASSUME Clears(H, f, s) PROVE Okay(H, f, x) /\ (Stops(H, x) \/ Clears(H, f, t))
  <2>1. Okay(H, f, x)
    <3>1. Okay(H, f, s[1]) \/ \E j \in 1..(1 - 1) : Stops(H, s[j])
      BY <1>1, <1>2, <1>5
    <3> QED BY <1>1, <3>1
  <2>2. ASSUME ~Stops(H, x), NEW i \in 1..n
        PROVE  Okay(H, f, t[i]) \/ \E j \in 1..(i - 1) : Stops(H, t[j])
    <3>1. Okay(H, f, s[i + 1]) \/ \E j \in 1..((i + 1) - 1) : Stops(H, s[j])
      BY <1>1, <1>2, <1>5
    <3> QED BY <1>1, <1>4, <2>2, <3>1
  <2> QED BY <1>3, <2>1, <2>2
<1>6. ASSUME Okay(H, f, x), Stops(H, x) \/ Clears(H, f, t) PROVE Clears(H, f, s)
  <2>1. ASSUME NEW i \in 1..m PROVE Okay(H, f, s[i]) \/ \E j \in 1..(i - 1) : Stops(H, s[j])
    <3>1. CASE i = 1
      BY <1>1, <1>6, <3>1
    <3>2. CASE i # 1
      <4> DEFINE k == i - 1
      <4>1. k \in 1..n /\ s[i] = t[k] /\ i = k + 1
        BY <1>1, <3>2
      <4>2. CASE Stops(H, x)
        <5>1. \E j \in 1..((k + 1) - 1) : Stops(H, s[j])
          BY <1>4, <4>1, <4>2
        <5> QED BY <4>1, <5>1
      <4>3. CASE Clears(H, f, t)
        <5>1. Okay(H, f, t[k]) \/ \E j \in 1..(k - 1) : Stops(H, t[j])
          BY <1>3, <4>1, <4>3
        <5>2. Okay(H, f, t[k]) \/ \E j \in 1..((k + 1) - 1) : Stops(H, s[j])
          BY <1>4, <4>1, <5>1
        <5> QED BY <4>1, <5>2
      <4> QED BY <1>6, <4>2, <4>3
    <3> QED BY <3>1, <3>2
  <2> QED BY <1>2, <2>1
<1> DEFINE u(i) == Gives(H, D, f, s[i])
           v(i) == Gives(H, D, f, t[i])
           R == Reached(H, s)
           Q == Reached(H, t)
           g == Gives(H, D, f, x)
<1>7. Left(H, D, f, s) = UNION {u(i) : i \in R} /\ Left(H, D, f, t) = UNION {v(i) : i \in Q}
  BY DEF Left
<1>8. /\ R = {i \in 1..m : ~\E j \in 1..(i - 1) : Stops(H, s[j])}
      /\ Q = {i \in 1..n : ~\E j \in 1..(i - 1) : Stops(H, t[j])}
  BY DEF Reached, n, m
<1>9. u(1) = g /\ \A i \in 1..n : u(i + 1) = v(i)
  BY <1>1
<1>10. 1 \in R /\ R \subseteq 1..m /\ Q \subseteq 1..n
  <2>1. ~\E j \in 1..(1 - 1) : Stops(H, s[j])
    OBVIOUS
  <2> QED BY <1>1, <1>8, <2>1
<1>11. \A i \in 1..n : i + 1 \in R <=> ~Stops(H, x) /\ i \in Q
  <2> SUFFICES ASSUME NEW i \in 1..n PROVE i + 1 \in R <=> ~Stops(H, x) /\ i \in Q
    OBVIOUS
  <2>1. i + 1 \in R <=> ~\E j \in 1..((i + 1) - 1) : Stops(H, s[j])
    BY <1>1, <1>8
  <2>2. i \in Q <=> ~\E j \in 1..(i - 1) : Stops(H, t[j])
    BY <1>8
  <2> QED BY <1>4, <2>1, <2>2
<1> HIDE DEF u, v, R, Q, g
<1>12. UNION {u(i) : i \in R} = g \cup (IF Stops(H, x) THEN {} ELSE UNION {v(i) : i \in Q})
  <2>1. CASE Stops(H, x)
    <3>1. R = {1}
      <4>1. \A i \in R : i = 1
        <5> SUFFICES ASSUME NEW i \in R, i # 1 PROVE FALSE
          OBVIOUS
        <5>1. i - 1 \in 1..n /\ i = (i - 1) + 1
          BY <1>1, <1>10
        <5> QED BY <1>11, <2>1, <5>1
      <4> QED BY <1>10, <4>1
    <3> QED BY <1>9, <2>1, <3>1
  <2>2. CASE ~Stops(H, x)
    <3>1. \A i \in R : i = 1 \/ \E k \in Q : i = k + 1
      <4> SUFFICES ASSUME NEW i \in R, i # 1 PROVE \E k \in Q : i = k + 1
        OBVIOUS
      <4>1. i - 1 \in 1..n /\ i = (i - 1) + 1
        BY <1>1, <1>10
      <4>2. i - 1 \in Q
        BY <1>11, <2>2, <4>1
      <4> QED BY <4>1, <4>2
    <3>2. \A k \in Q : k + 1 \in R /\ u(k + 1) = v(k)
      BY <1>9, <1>10, <1>11, <2>2
    <3>3. {u(i) : i \in R} = {g} \cup {v(k) : k \in Q}
      BY <1>9, <1>10, <3>1, <3>2
    <3>4. UNION ({g} \cup {v(k) : k \in Q}) = g \cup UNION {v(k) : k \in Q}
      OBVIOUS
    <3> QED BY <2>2, <3>3, <3>4
  <2> QED BY <2>1, <2>2
<1> QED
  BY <1>5, <1>6, <1>7, <1>12 DEF g
-----------------------------------------------------------------------------
(***************************************************************************)
(* A combination that makes an end at its first case, or goes on.          *)
(***************************************************************************)

\* S is T with every number one higher, and with 1 if h holds.
Raised(S, T, h) ==
  /\ \A j \in S : (j = 1 /\ h) \/ \E k \in T : j = k + 1
  /\ h => 1 \in S
  /\ \A k \in T : k \in Nat \ {0} /\ k + 1 \in S

\* Whether such a set is empty, or has one element at most.
LEMMA RaisedSets ==
  ASSUME NEW S, NEW T, NEW h \in BOOLEAN, Raised(S, T, h)
  PROVE  /\ S = {} <=> ~h /\ T = {}
         /\ (\A i, j \in S : i = j) <=> IF h THEN T = {} ELSE \A i, j \in T : i = j
<1>1. S = {} <=> ~h /\ T = {}
  BY DEF Raised
<1>2. ASSUME h PROVE (\A i, j \in S : i = j) <=> T = {}
  <2>1. ASSUME \A i, j \in S : i = j, NEW k \in T PROVE FALSE
    <3>1. 1 \in S /\ k + 1 \in S /\ k \in Nat \ {0}
      BY <1>2, <2>1 DEF Raised
    <3>2. k + 1 = 1
      BY <2>1, <3>1
    <3> QED BY <3>1, <3>2
  <2>2. ASSUME T = {} PROVE \A i, j \in S : i = j
    BY <2>2 DEF Raised
  <2> QED BY <2>1, <2>2
<1>3. ASSUME ~h PROVE (\A i, j \in S : i = j) <=> (\A i, j \in T : i = j)
  <2>1. ASSUME \A i, j \in S : i = j, NEW i \in T, NEW j \in T PROVE i = j
    <3>1. i + 1 \in S /\ j + 1 \in S /\ i \in Nat /\ j \in Nat
      BY DEF Raised
    <3>2. i + 1 = j + 1
      BY <2>1, <3>1
    <3> QED BY <3>1, <3>2
  <2>2. ASSUME \A i, j \in T : i = j PROVE \A i, j \in S : i = j
    BY <1>3, <2>2 DEF Raised
  <2> QED BY <2>1, <2>2
<1> QED
  BY <1>1, <1>2, <1>3

\* The cases that fit, of all tasks and of those before one.
LEMMA RaisedFits ==
  ASSUME NEW H, NEW s, NEW x, NEW t, Starts(s, x, t), x.do = "call"
  PROVE  LET h == CallHolds(H, x)
         IN /\ Raised(Fits(H, s), Fits(H, t), h)
            /\ Earlier(H, s, 1) = {}
            /\ \A i \in 1..Len(t) : Raised(Earlier(H, s, i + 1), Earlier(H, t, i), h)
<1> DEFINE h == CallHolds(H, x)
           F == Fits(H, s)
           G == Fits(H, t)
           n == Len(t)
           m == Len(s)
<1>1. /\ n \in Nat /\ 1 \in 1..m /\ s[1] = x
      /\ \A i \in 1..n : i + 1 \in 1..m /\ s[i + 1] = t[i] /\ i + 1 # 1
      /\ \A i \in 1..m : i # 1 => i - 1 \in 1..n /\ s[i] = t[i - 1] /\ i = (i - 1) + 1
  BY StartsIndices
<1>2. /\ F = {i \in 1..m : s[i].do = "call" /\ CallHolds(H, s[i])}
      /\ G = {i \in 1..n : t[i].do = "call" /\ CallHolds(H, t[i])}
  BY DEF Fits
<1> HIDE DEF n, m, F, G
<1>3. /\ 1 \in F <=> h
      /\ \A i \in 1..n : i + 1 \in F <=> i \in G
      /\ F \subseteq 1..m /\ G \subseteq 1..n
  BY <1>1, <1>2
<1> HIDE DEF h
<1>4. \A j \in F : (j = 1 /\ h) \/ (j - 1 \in G /\ j = (j - 1) + 1)
  <2> SUFFICES ASSUME NEW j \in F, j # 1 PROVE j - 1 \in G /\ j = (j - 1) + 1
    BY <1>3
  <2>1. j - 1 \in 1..n /\ j = (j - 1) + 1
    BY <1>1, <1>3
  <2>2. (j - 1) + 1 \in F
    BY <2>1
  <2> QED BY <1>3, <2>1, <2>2
<1>5. Raised(F, G, h)
  <2>1. \A k \in G : k \in Nat \ {0} /\ k + 1 \in F
    BY <1>1, <1>3
  <2> QED BY <1>3, <1>4, <2>1 DEF Raised
<1>6. \A k \in 1..m : Earlier(H, s, k) = (1..(k - 1)) \cap F
  BY DEF Earlier, F
<1>7. \A k \in 1..n : Earlier(H, t, k) = (1..(k - 1)) \cap G
  BY DEF Earlier, G
<1>8. Earlier(H, s, 1) = {}
  BY <1>1, <1>6
<1>9. ASSUME NEW i \in 1..n PROVE Raised(Earlier(H, s, i + 1), Earlier(H, t, i), h)
  <2> DEFINE A == Earlier(H, s, i + 1)
             B == Earlier(H, t, i)
  <2>1. i + 1 \in 1..m /\ i \in Nat \ {0}
    BY <1>1
  <2>2. A = (1..i) \cap F /\ B = (1..(i - 1)) \cap G
    <3>1. A = (1..((i + 1) - 1)) \cap F
      BY <1>6, <2>1
    <3>2. (i + 1) - 1 = i
      BY <2>1
    <3> QED BY <1>7, <3>1, <3>2
  <2> HIDE DEF A, B
  <2>3. \A j \in A : (j = 1 /\ h) \/ \E k \in B : j = k + 1
    <3> SUFFICES ASSUME NEW j \in A, ~(j = 1 /\ h) PROVE \E k \in B : j = k + 1
      OBVIOUS
    <3>1. j - 1 \in G /\ j = (j - 1) + 1 /\ j \in 1..i
      BY <1>4, <2>2
    <3>2. j - 1 \in 1..(i - 1)
      BY <1>1, <1>3, <2>1, <3>1
    <3> QED BY <2>2, <3>1, <3>2
  <2>4. h => 1 \in A
    BY <1>3, <2>1, <2>2
  <2>5. \A k \in B : k \in Nat \ {0} /\ k + 1 \in A
    <3> SUFFICES ASSUME NEW k \in B PROVE k \in Nat \ {0} /\ k + 1 \in A
      OBVIOUS
    <3>1. k \in 1..(i - 1) /\ k \in G /\ k \in 1..n
      BY <1>3, <2>2
    <3>2. k + 1 \in 1..i /\ k \in Nat \ {0}
      BY <2>1, <3>1
    <3> QED BY <1>3, <2>2, <3>1, <3>2
  <2> QED BY <2>3, <2>4, <2>5 DEF Raised, A, B
<1> QED
  BY <1>5, <1>8, <1>9 DEF F, G, h, n
-----------------------------------------------------------------------------

\* What a combination decides after a case.
DecidesAfter(H, role, count, x, t) ==
  IF CallHolds(H, x) THEN Decides(H, role, count + 1, t)
  ELSE role # "allOf" /\ Decides(H, role, count, t)
LeftAfter(H, D, role, count, x, t) ==
  IF CallHolds(H, x) THEN IF role = "anyOf" THEN {} ELSE LeftCases(H, D, role, count + 1, t)
  ELSE IF role = "allOf" THEN {} ELSE LeftCases(H, D, role, count, t)

\* No count is beyond what its combination goes on with.
Counted(role, count) ==
  /\ count \in Nat /\ role \in Combined
  /\ role = "anyOf" => count = 0
  /\ role = "oneOf" => count <= 1

\* The verdict.
LEMMA CaseDecides ==
  ASSUME NEW H, NEW s, NEW x, NEW t, Starts(s, x, t), t # <<>>, Len(t) # 0, x.do = "call",
         NEW role, NEW count, Counted(role, count)
  PROVE  Decides(H, role, count, s) <=> DecidesAfter(H, role, count, x, t)
<1> DEFINE h == CallHolds(H, x)
           F == Fits(H, s)
           G == Fits(H, t)
           n == Len(t)
           m == Len(s)
           clean(q) == \A i \in 1..Len(q) : q[i].do # "errors"
           whole(q) == \A i \in 1..Len(q) : q[i].do = "call" => i \in Fits(H, q)
<1>1. /\ n \in Nat \ {0} /\ m = n + 1 /\ 1 \in 1..m /\ s[1] = x
      /\ \A i \in 1..n : i + 1 \in 1..m /\ s[i + 1] = t[i] /\ i + 1 # 1
      /\ \A i \in 1..m : i # 1 => i - 1 \in 1..n /\ s[i] = t[i - 1] /\ i = (i - 1) + 1
  BY StartsIndices DEF Starts
<1>2. s # <<>>
  BY <1>1
<1>3. Raised(F, G, h)
  BY RaisedFits
<1>4. /\ F = {} <=> ~h /\ G = {}
      /\ (\A i, j \in F : i = j) <=> IF h THEN G = {} ELSE \A i, j \in G : i = j
  <2> HIDE DEF F, G, h
  <2>1. h \in BOOLEAN
    BY DEF h, CallHolds
  <2> QED BY <1>3, <2>1, RaisedSets
<1>5. clean(s) <=> clean(t)
  <2>1. clean(s) <=> \A i \in 1..m : s[i].do # "errors"
    OBVIOUS
  <2>2. clean(t) <=> \A i \in 1..n : t[i].do # "errors"
    OBVIOUS
  <2> HIDE DEF clean, n, m
  <2> QED BY <1>1, <2>1, <2>2
<1>6. whole(s) <=> h /\ whole(t)
  <2>1. whole(s) <=> \A i \in 1..m : s[i].do = "call" => CallHolds(H, s[i])
    BY DEF Fits
  <2>2. whole(t) <=> \A i \in 1..n : t[i].do = "call" => CallHolds(H, t[i])
    BY DEF Fits
  <2>3. h <=> CallHolds(H, s[1])
    BY <1>1
  <2> HIDE DEF whole, n, m, h
  <2> QED BY <1>1, <2>1, <2>2, <2>3
<1>7. \A c : Decides(H, role, c, s) <=>
        /\ clean(s)
        /\ role = "allOf" => whole(s) /\ (c # 0 \/ m > 1)
        /\ role = "anyOf" => c # 0 \/ F # {}
        /\ role = "oneOf" => /\ c <= 1 /\ (F = {} <=> c # 0) /\ \A i, j \in F : i = j
  BY <1>2 DEF Decides
<1>8. \A c : Decides(H, role, c, t) <=>
        /\ clean(t)
        /\ role = "allOf" => whole(t) /\ (c # 0 \/ n > 1)
        /\ role = "anyOf" => c # 0 \/ G # {}
        /\ role = "oneOf" => /\ c <= 1 /\ (G = {} <=> c # 0) /\ \A i, j \in G : i = j
  BY DEF Decides
<1> HIDE DEF F, G, clean, whole, n, m
<1>9. role \in {"allOf", "anyOf", "oneOf"} /\ count \in Nat
  BY DEF Counted, Combined
<1>10. DecidesAfter(H, role, count, x, t) <=>
         IF h THEN Decides(H, role, count + 1, t) ELSE role # "allOf" /\ Decides(H, role, count, t)
  BY DEF DecidesAfter
<1> HIDE DEF h
<1>11. CASE role = "allOf"
  <2>1. m > 1 /\ count + 1 # 0
    BY <1>1, <1>9
  <2>2. Decides(H, role, count, s) <=> clean(s) /\ whole(s)
    BY <1>7, <1>11, <2>1
  <2>3. Decides(H, role, count + 1, t) <=> clean(t) /\ whole(t)
    BY <1>8, <1>11, <2>1
  <2> QED BY <1>5, <1>6, <1>10, <1>11, <2>2, <2>3
<1>12. CASE role = "anyOf"
  <2>1. count = 0 /\ count + 1 # 0
    BY <1>9, <1>12 DEF Counted
  <2>2. Decides(H, role, count, s) <=> clean(s) /\ F # {}
    BY <1>7, <1>12, <2>1
  <2>3. /\ Decides(H, role, count + 1, t) <=> clean(t)
        /\ Decides(H, role, count, t) <=> clean(t) /\ G # {}
    BY <1>8, <1>12, <2>1
  <2> QED BY <1>4, <1>5, <1>10, <1>12, <2>2, <2>3
<1>13. CASE role = "oneOf"
  <2>1. count <= 1 /\ (count + 1 <= 1 <=> count = 0) /\ count + 1 # 0
    BY <1>9, <1>13 DEF Counted
  <2>2. Decides(H, role, count, s) <=> clean(s) /\ (F = {} <=> count # 0) /\ \A i, j \in F : i = j
    BY <1>7, <1>13, <2>1
  <2>3. /\ Decides(H, role, count + 1, t) <=> clean(t) /\ count = 0 /\ G = {} /\ \A i, j \in G : i = j
        /\ Decides(H, role, count, t) <=> clean(t) /\ (G = {} <=> count # 0) /\ \A i, j \in G : i = j
    BY <1>8, <1>13, <2>1
  <2> QED BY <1>4, <1>5, <1>10, <1>13, <2>2, <2>3
<1> QED
  BY <1>9, <1>11, <1>12, <1>13

\* The default values.
LEMMA CaseLeaves ==
  ASSUME NEW H, NEW D, NEW s, NEW x, NEW t, Starts(s, x, t), x.do = "call",
         NEW role, NEW count, Counted(role, count)
  PROVE  LeftCases(H, D, role, count, s) =
           (IF CallHolds(H, x) THEN Brings(D, x) ELSE {}) \cup LeftAfter(H, D, role, count, x, t)
<1> DEFINE h == CallHolds(H, x)
           F == Fits(H, s)
           G == Fits(H, t)
           n == Len(t)
           m == Len(s)
           e(i) == Earlier(H, s, i)
           d(i) == Earlier(H, t, i)
           U == Used(H, role, count, s)
           V(c) == Used(H, role, c, t)
           b == Brings(D, x)
           u(i) == Brings(D, s[i])
           v(i) == Brings(D, t[i])
<1>1. /\ n \in Nat /\ 1 \in 1..m /\ s[1] = x
      /\ \A i \in 1..n : i + 1 \in 1..m /\ s[i + 1] = t[i] /\ i + 1 # 1
      /\ \A i \in 1..m : i # 1 => i - 1 \in 1..n /\ s[i] = t[i - 1] /\ i = (i - 1) + 1
  BY StartsIndices
<1>2. Raised(F, G, h) /\ e(1) = {} /\ \A i \in 1..n : Raised(e(i + 1), d(i), h)
  BY RaisedFits
<1>3. role \in {"allOf", "anyOf", "oneOf"} /\ count \in Nat
  BY DEF Counted, Combined
<1>4. /\ U = {i \in F : /\ role = "allOf" => e(i) = 1..(i - 1)
                        /\ role = "anyOf" => e(i) = {}
                        /\ role = "oneOf" => /\ count = 0 \/ (count = 1 /\ e(i) = {})
                                             /\ \A j, k \in e(i) : j = k}
      /\ \A c : V(c) = {i \in G : /\ role = "allOf" => d(i) = 1..(i - 1)
                                  /\ role = "anyOf" => d(i) = {}
                                  /\ role = "oneOf" => /\ c = 0 \/ (c = 1 /\ d(i) = {})
                                                       /\ \A j, k \in d(i) : j = k}
  BY DEF Used
<1>5. F \subseteq 1..m /\ G \subseteq 1..n
  BY DEF Fits
<1>6. /\ LeftCases(H, D, role, count, s) = UNION {u(i) : i \in U}
      /\ \A c : LeftCases(H, D, role, c, t) = UNION {v(i) : i \in V(c)}
  BY DEF LeftCases
<1>7. u(1) = b /\ \A i \in 1..n : u(i + 1) = v(i)
  BY <1>1
<1>8. h \in BOOLEAN
  BY DEF h, CallHolds
<1>9. LeftAfter(H, D, role, count, x, t) =
        IF h THEN IF role = "anyOf" THEN {} ELSE UNION {v(i) : i \in V(count + 1)}
        ELSE IF role = "allOf" THEN {} ELSE UNION {v(i) : i \in V(count)}
  BY <1>6 DEF LeftAfter
<1> HIDE DEF h, F, G, n, m, e, d, U, V, b, u, v
<1>10. \A i \in 1..n : /\ e(i + 1) = {} <=> ~h /\ d(i) = {}
                       /\ (\A j, k \in e(i + 1) : j = k) <=> IF h THEN d(i) = {} ELSE \A j, k \in d(i) : j = k
  BY <1>2, <1>8, RaisedSets
<1>11. \A i \in 1..n : e(i + 1) = 1..((i + 1) - 1) <=> h /\ d(i) = 1..(i - 1)
  <2> SUFFICES ASSUME NEW i \in 1..n PROVE e(i + 1) = 1..((i + 1) - 1) <=> h /\ d(i) = 1..(i - 1)
    OBVIOUS
  <2>1. i \in Nat \ {0} /\ (i + 1) - 1 = i
    BY <1>1
  <2>2. Raised(e(i + 1), d(i), h)
    BY <1>2
  <2> DEFINE S == e(i + 1)
             T == d(i)
  <2>3. e(i + 1) = S /\ d(i) = T /\ Raised(S, T, h)
    BY <2>2
  <2> HIDE DEF S, T
  <2>4. ASSUME S = 1..i PROVE h /\ T = 1..(i - 1)
    <3>1. h
      BY <2>1, <2>3, <2>4 DEF Raised
    <3>2. \A k \in T : k \in 1..(i - 1)
      BY <2>1, <2>3, <2>4 DEF Raised
    <3>3. ASSUME NEW k \in 1..(i - 1) PROVE k \in T
      <4>1. k + 1 \in S /\ k + 1 # 1
        BY <2>1, <2>4
      <4>2. PICK j \in T : k + 1 = j + 1
        BY <2>3, <4>1 DEF Raised
      <4>3. j \in Nat
        BY <2>3 DEF Raised
      <4> QED BY <2>1, <4>2, <4>3
    <3> QED BY <3>1, <3>2, <3>3
  <2>5. ASSUME h, T = 1..(i - 1) PROVE S = 1..i
    <3>1. \A j \in S : j \in 1..i
      BY <2>1, <2>3, <2>5 DEF Raised
    <3>2. ASSUME NEW j \in 1..i PROVE j \in S
      <4>1. CASE j = 1
        BY <2>3, <2>5, <4>1 DEF Raised
      <4>2. CASE j # 1
        <5>1. j - 1 \in T /\ (j - 1) + 1 = j
          BY <2>1, <2>5, <4>2
        <5>2. (j - 1) + 1 \in S
          BY <2>3, <5>1 DEF Raised
        <5> QED BY <5>1, <5>2
      <4> QED BY <4>1, <4>2
    <3> QED BY <3>1, <3>2
  <2> QED BY <2>1, <2>3, <2>4, <2>5
<1>12. /\ 1 \in F <=> h
       /\ \A i \in 1..n : i + 1 \in F <=> i \in G
  <2>1. 1 \in F <=> h
    <3>1. \A k \in G : k + 1 # 1
      BY <1>1, <1>5
    <3> QED BY <1>2, <3>1 DEF Raised
  <2>2. ASSUME NEW i \in 1..n PROVE i + 1 \in F <=> i \in G
    <3>1. i \in Nat \ {0} /\ i + 1 # 1
      BY <1>1
    <3>2. ASSUME i + 1 \in F PROVE i \in G
      <4>1. PICK k \in G : i + 1 = k + 1
        BY <1>2, <3>1, <3>2 DEF Raised
      <4>2. k \in Nat
        BY <1>2 DEF Raised
      <4> QED BY <3>1, <4>1, <4>2
    <3> QED BY <1>2, <3>2 DEF Raised
  <2> QED BY <2>1, <2>2
<1>13. 1 \in U <=> h
  <2>1. 1..(1 - 1) = {}
    OBVIOUS
  <2>2. role = "oneOf" => count = 0 \/ count = 1
    BY <1>3 DEF Counted
  <2> QED BY <1>2, <1>4, <1>12, <2>1, <2>2
<1>14. \A i \in 1..n : i + 1 \in U <=>
         IF h THEN role # "anyOf" /\ i \in V(count + 1) ELSE role # "allOf" /\ i \in V(count)
  <2> SUFFICES ASSUME NEW i \in 1..n
               PROVE  i + 1 \in U <=>
                        IF h THEN role # "anyOf" /\ i \in V(count + 1) ELSE role # "allOf" /\ i \in V(count)
    OBVIOUS
  <2> DEFINE none == d(i) = {}
             all == d(i) = 1..(i - 1)
             one == \A j, k \in d(i) : j = k
             c == count + 1
  <2>1. /\ e(i + 1) = {} <=> ~h /\ none
        /\ (\A j, k \in e(i + 1) : j = k) <=> IF h THEN none ELSE one
        /\ e(i + 1) = 1..((i + 1) - 1) <=> h /\ all
    BY <1>10, <1>11
  <2>2. i + 1 \in U <=> /\ i \in G
                        /\ role = "allOf" => h /\ all
                        /\ role = "anyOf" => ~h /\ none
                        /\ role = "oneOf" => /\ count = 0 \/ (count = 1 /\ ~h /\ none)
                                             /\ IF h THEN none ELSE one
    BY <1>4, <1>12, <2>1
  <2>3. \A a : i \in V(a) <=> /\ i \in G
                              /\ role = "allOf" => all
                              /\ role = "anyOf" => none
                              /\ role = "oneOf" => (a = 0 \/ (a = 1 /\ none)) /\ one
    BY <1>4
  <2>4. c # 0 /\ (c = 1 <=> count = 0)
    BY <1>3
  <2>5. none => one
    OBVIOUS
  <2> HIDE DEF none, all, one, c
  <2>6. CASE h
    BY <1>3, <2>2, <2>3, <2>4, <2>5, <2>6 DEF c
  <2>7. CASE ~h
    BY <1>3, <2>2, <2>3, <2>7
  <2> QED BY <2>6, <2>7
<1> DEFINE W == IF h THEN IF role = "anyOf" THEN {} ELSE V(count + 1)
                ELSE IF role = "allOf" THEN {} ELSE V(count)
<1>15. W \subseteq 1..n /\ U \subseteq 1..m
  BY <1>4, <1>5
<1>16. \A i \in 1..n : i + 1 \in U <=> i \in W
  BY <1>14
<1>17. LeftAfter(H, D, role, count, x, t) = UNION {v(i) : i \in W}
  <2>1. UNION {v(i) : i \in {}} = {}
    OBVIOUS
  <2> QED BY <1>9, <2>1
<1> HIDE DEF W
<1>18. {u(i) : i \in U} = (IF h THEN {b} ELSE {}) \cup {v(i) : i \in W}
  <2>1. \A i \in U : (i = 1 /\ h) \/ \E k \in W : i = k + 1
    <3> SUFFICES ASSUME NEW i \in U, ~(i = 1 /\ h) PROVE \E k \in W : i = k + 1
      OBVIOUS
    <3>1. i # 1
      BY <1>13
    <3>2. i - 1 \in 1..n /\ i = (i - 1) + 1
      BY <1>1, <1>15, <3>1
    <3>3. i - 1 \in W
      BY <1>16, <3>2
    <3> QED BY <3>2, <3>3
  <2>2. \A k \in W : k + 1 \in U /\ u(k + 1) = v(k)
    BY <1>7, <1>15, <1>16
  <2> QED BY <1>7, <1>13, <2>1, <2>2
<1>19. UNION ((IF h THEN {b} ELSE {}) \cup {v(i) : i \in W}) = (IF h THEN b ELSE {}) \cup UNION {v(i) : i \in W}
  <2>1. UNION ({b} \cup {v(i) : i \in W}) = b \cup UNION {v(i) : i \in W}
    OBVIOUS
  <2>2. UNION ({} \cup {v(i) : i \in W}) = {} \cup UNION {v(i) : i \in W}
    OBVIOUS
  <2> QED BY <2>1, <2>2
<1> QED
  BY <1>6, <1>17, <1>18, <1>19 DEF h, b
-----------------------------------------------------------------------------

\* Where a combination ends: with an error, when the cases are counted, or before.
LEMMA CombinationEnds ==
  ASSUME NEW H, NEW D, NEW role \in Combined, NEW count \in Nat
  PROVE  /\ Decides(H, role, count, <<>>) /\ LeftCases(H, D, role, count, <<>>) = {}
         /\ \A s : Len(s) = 1 /\ s[1].do # "call" =>
              /\ LeftCases(H, D, role, count, s) = {}
              /\ s[1].do = "errors" => ~Decides(H, role, count, s)
              /\ s[1].do # "errors" /\ (role = "oneOf" => count <= 1) =>
                   (Decides(H, role, count, s) <=> count # 0)
<1>1. LeftCases(H, D, role, count, <<>>) = {}
  <2>1. Fits(H, <<>>) = {}
    BY DEF Fits
  <2> QED BY <2>1 DEF LeftCases, Used
<1>2. ASSUME NEW s, Len(s) = 1, s[1].do # "call"
      PROVE  /\ LeftCases(H, D, role, count, s) = {}
             /\ s[1].do = "errors" => ~Decides(H, role, count, s)
             /\ s[1].do # "errors" /\ (role = "oneOf" => count <= 1) =>
                  (Decides(H, role, count, s) <=> count # 0)
  <2>1. Fits(H, s) = {} /\ s # <<>>
    BY <1>2 DEF Fits
  <2>2. LeftCases(H, D, role, count, s) = {}
    BY <2>1 DEF LeftCases, Used
  <2>3. 1..Len(s) = {1} /\ ~(Len(s) > 1)
    BY <1>2
  <2>4. Decides(H, role, count, s) <=>
          /\ s[1].do # "errors"
          /\ role = "allOf" => count # 0
          /\ role = "anyOf" => count # 0
          /\ role = "oneOf" => count <= 1 /\ count # 0
    BY <1>2, <2>1, <2>3 DEF Decides
  <2> QED BY <2>2, <2>4 DEF Combined
<1> QED
  BY <1>1, <1>2 DEF Decides

\* What decides a combination before its last case.
LEMMA CombinationStops ==
  ASSUME NEW H, NEW D, NEW count \in Nat, NEW s, s # <<>>
  PROVE  /\ count # 0 /\ (\A i \in 1..Len(s) : s[i].do # "errors") => Decides(H, "anyOf", count, s)
         /\ count > 1 => ~Decides(H, "oneOf", count, s) /\ LeftCases(H, D, "oneOf", count, s) = {}
<1>1. count > 1 => Used(H, "oneOf", count, s) = {}
  BY DEF Used
<1>2. count > 1 => LeftCases(H, D, "oneOf", count, s) = {}
  BY <1>1 DEF LeftCases
<1>3. count > 1 => ~(count <= 1)
  OBVIOUS
<1> QED
  BY <1>2, <1>3 DEF Decides

-----------------------------------------------------------------------------
(***************************************************************************)
(* The stack.  What the invariant says of two calls, one waiting for the   *)
(* other, does not depend on their other fields.                           *)
(***************************************************************************)
Alike(f, g) == SameCall(f, g) /\ f.was = g.was
AsFar(f, g) == f.todo = g.todo /\ f.count = g.count

\* The same call, at another time.
LEMMA AlikeMeans ==
  ASSUME NEW H, NEW D, NEW f, NEW g, Alike(f, g)
  PROVE  /\ CallHolds(H, f) <=> CallHolds(H, g)
         /\ Brings(D, f) = Brings(D, g) /\ Yields(H, D, f) = Yields(H, D, g)
         /\ AsFar(f, g) => /\ Shaped(f) <=> Shaped(g)
                           /\ Passes(H, f) <=> Passes(H, g)
                           /\ Remains(H, D, f) = Remains(H, D, g)
<1>1. f.via = g.via /\ f.role = g.role /\ f.subs = g.subs /\ f.ptr = g.ptr /\ f.inst = g.inst
  BY DEF Alike, SameCall
<1>2. (CallHolds(H, f) <=> CallHolds(H, g)) /\ Brings(D, f) = Brings(D, g)
  BY <1>1 DEF CallHolds, Brings
<1>3. Yields(H, D, f) = Yields(H, D, g)
  BY <1>1, <1>2 DEF Yields
<1>4. ASSUME AsFar(f, g)
      PROVE  (Shaped(f) <=> Shaped(g)) /\ (Passes(H, f) <=> Passes(H, g)) /\ Remains(H, D, f) = Remains(H, D, g)
  <2>1. f.todo = g.todo /\ f.count = g.count
    BY <1>4 DEF AsFar
  <2>2. Shaped(f) <=> Shaped(g)
    BY <1>1, <2>1 DEF Shaped, Combination, Counting
  <2>3. \A x : (Leads(H, f, x) <=> Leads(H, g, x)) /\ Led(H, D, f, x) = Led(H, D, g, x)
    BY <1>1 DEF Leads, Led
  <2>4. \A x : (Okay(H, f, x) <=> Okay(H, g, x)) /\ Gives(H, D, f, x) = Gives(H, D, g, x)
    BY <2>3 DEF Okay, Suits, Gives
  <2>5. \A s : Clears(H, f, s) <=> Clears(H, g, s)
    BY <2>4 DEF Clears
  <2>6. \A s : Left(H, D, f, s) = Left(H, D, g, s)
    BY <2>4 DEF Left
  <2>7. Combination(f) <=> Combination(g)
    BY <1>1 DEF Combination
  <2> QED BY <1>1, <2>1, <2>2, <2>5, <2>6, <2>7 DEF Passes, Remains
<1> QED
  BY <1>2, <1>3, <1>4

\* The same two calls.
LEMMA PairMeans ==
  ASSUME NEW H, NEW D, NEW f, NEW f2, Alike(f, f2), AsFar(f, f2), NEW g, NEW g2, Alike(g, g2)
  PROVE  /\ Continues(H, f, g) <=> Continues(H, f2, g2)
         /\ RemainsAfter(H, D, f, g) = RemainsAfter(H, D, f2, g2)
         /\ Encloses(f, g) <=> Encloses(f2, g2)
<1>1. /\ g.via = g2.via /\ g.role = g2.role /\ g.subs = g2.subs /\ g.ptr = g2.ptr /\ g.inst = g2.inst
      /\ f.role = f2.role /\ f.subs = f2.subs /\ f.todo = f2.todo /\ f.count = f2.count
  BY DEF Alike, SameCall, AsFar
<1>2. /\ CallHolds(H, g) <=> CallHolds(H, g2)
      /\ Passes(H, f) <=> Passes(H, f2)
      /\ Remains(H, D, f) = Remains(H, D, f2)
  BY AlikeMeans
<1>3. (Leads(H, f, g) <=> Leads(H, f2, g2)) /\ Led(H, D, f, g) = Led(H, D, f2, g2)
  BY <1>1, <1>2 DEF Leads, Led, Branching
<1>4. (Found(H, g) <=> Found(H, g2)) /\ (Suits(H, f, g) <=> Suits(H, f2, g2))
  BY <1>1, <1>2, <1>3 DEF Found, Suits
<1>5. Continues(H, f, g) <=> Continues(H, f2, g2)
  BY <1>1, <1>2, <1>4 DEF Continues
<1>6. RemainsAfter(H, D, f, g) = RemainsAfter(H, D, f2, g2)
  BY <1>1, <1>2, <1>3, <1>4 DEF RemainsAfter
<1>7. Encloses(f, g) <=> Encloses(f2, g2)
  BY <1>1 DEF Encloses, Combination, Counting
<1> QED
  BY <1>5, <1>6, <1>7
-----------------------------------------------------------------------------

\* The calls of a and b are the same up to number n, and before it in the same
\* state.
Parallel(a, b, n) ==
  /\ n \in Nat \ {0} /\ Len(a) \in Nat /\ Len(b) \in Nat /\ n <= Len(a) /\ n <= Len(b)
  /\ \A k \in 1..n : Alike(a[k], b[k])
  /\ \A k \in 1..(n - 1) : AsFar(a[k], b[k])

\* What Gathered says of them.
GatheredAlike(H, D, a, b, n) ==
  /\ \A k \in 1..n : /\ a[k].was = b[k].was /\ Brings(D, a[k]) = Brings(D, b[k])
                     /\ Yields(H, D, a[k]) = Yields(H, D, b[k])
  /\ \A k \in 1..(n - 1) : /\ k + 1 \in 1..n
                           /\ RemainsAfter(H, D, a[k], a[k + 1]) = RemainsAfter(H, D, b[k], b[k + 1])

\* What calls below number n have before them.
LEMMA ParallelBelow ==
  ASSUME NEW H, NEW D, NEW a, NEW b, NEW n, Parallel(a, b, n)
  PROVE  /\ \A k \in 1..n : /\ CallHolds(H, a[k]) <=> CallHolds(H, b[k])
                            /\ IsHead(a, k) <=> IsHead(b, k)
                            /\ a[k].via = b[k].via /\ a[k].was = b[k].was
                            /\ Brings(D, a[k]) = Brings(D, b[k])
                            /\ Yields(H, D, a[k]) = Yields(H, D, b[k])
         /\ \A k \in 1..(n - 1) :
              /\ k \in 1..n /\ k + 1 \in 1..n
              /\ Pend(H, a, k) <=> Pend(H, b, k)
              /\ RemainsAfter(H, D, a[k], a[k + 1]) = RemainsAfter(H, D, b[k], b[k + 1])
              /\ Shaped(a[k]) <=> Shaped(b[k])
              /\ Encloses(a[k], a[k + 1]) <=> Encloses(b[k], b[k + 1])
         /\ \A h, k \in 1..n : Under(a, h, k) <=> Under(b, h, k)
         /\ GatheredAlike(H, D, a, b, n)
<1>1. ASSUME NEW k \in 1..n
      PROVE  /\ CallHolds(H, a[k]) <=> CallHolds(H, b[k])
             /\ a[k].via = b[k].via /\ a[k].was = b[k].was
             /\ Brings(D, a[k]) = Brings(D, b[k])
             /\ Yields(H, D, a[k]) = Yields(H, D, b[k])
  <2>1. Alike(a[k], b[k])
    BY DEF Parallel
  <2>2. a[k].via = b[k].via /\ a[k].was = b[k].was
    BY <2>1 DEF Alike, SameCall
  <2> QED BY <2>1, <2>2, AlikeMeans
<1>2. ASSUME NEW k \in 1..(n - 1)
      PROVE  /\ k \in 1..n /\ k + 1 \in 1..n
             /\ Pend(H, a, k) <=> Pend(H, b, k)
             /\ RemainsAfter(H, D, a[k], a[k + 1]) = RemainsAfter(H, D, b[k], b[k + 1])
             /\ Shaped(a[k]) <=> Shaped(b[k])
             /\ Encloses(a[k], a[k + 1]) <=> Encloses(b[k], b[k + 1])
  <2>1. k \in 1..n /\ k + 1 \in 1..n /\ k < Len(a) /\ k < Len(b)
    BY DEF Parallel
  <2>2. Alike(a[k], b[k]) /\ AsFar(a[k], b[k]) /\ Alike(a[k + 1], b[k + 1])
    BY <2>1 DEF Parallel
  <2>3. Passes(H, a[k]) <=> Passes(H, b[k])
    BY <2>2, AlikeMeans
  <2>4. /\ Continues(H, a[k], a[k + 1]) <=> Continues(H, b[k], b[k + 1])
        /\ RemainsAfter(H, D, a[k], a[k + 1]) = RemainsAfter(H, D, b[k], b[k + 1])
        /\ Encloses(a[k], a[k + 1]) <=> Encloses(b[k], b[k + 1])
    BY <2>2, PairMeans
  <2>5. Shaped(a[k]) <=> Shaped(b[k])
    BY <2>2, AlikeMeans
  <2>6. a[k + 1].via = b[k + 1].via
    BY <2>2 DEF Alike, SameCall
  <2>7. Pend(H, a, k) <=> Pend(H, b, k)
    BY <2>1, <2>3, <2>4, <2>6 DEF Pend
  <2> QED BY <2>1, <2>4, <2>5, <2>7
<1>3. ASSUME NEW h \in 1..n, NEW k \in 1..n PROVE Under(a, h, k) <=> Under(b, h, k)
  <2>1. \A j \in (h + 1)..k : j \in 1..n
    BY DEF Parallel
  <2>2. \A j \in (h + 1)..k : a[j].via = b[j].via
    BY <1>1, <2>1
  <2> QED BY <2>2 DEF Under
<1>4. GatheredAlike(H, D, a, b, n)
  BY <1>1, <1>2 DEF GatheredAlike
<1> QED
  BY <1>1, <1>2, <1>3, <1>4 DEF IsHead

\* The shape of the calls after a step.
LEMMA ShapesStep ==
  ASSUME NEW a, NEW b, NEW n, Parallel(a, b, n), Shapes(a), Shaped(b[n]), Len(b) \in {n, n + 1},
         Len(b) = n + 1 => Shaped(b[n + 1]) /\ Encloses(b[n], b[n + 1])
  PROVE  Shapes(b)
<1>1. /\ n \in Nat \ {0} /\ Len(a) \in Nat /\ n <= Len(a) /\ Alike(a[1], b[1]) /\ n \in 1..n
      /\ \A k \in 1..n : Alike(a[k], b[k])
  BY DEF Parallel
<1>2. /\ \A k \in 1..Len(a) : Shaped(a[k])
      /\ \A k \in 2..Len(a) : Encloses(a[k - 1], a[k])
      /\ a[1].role = "root" /\ a[1].subs = Entry /\ a[1].inst = instance
      /\ a[1].ptr = <<>> /\ a[1].was = <<>>
  <2>1. a # <<>>
    BY <1>1
  <2> QED BY <2>1 DEF Shapes
<1>3. /\ b[1].role = "root" /\ b[1].subs = Entry /\ b[1].inst = instance
      /\ b[1].ptr = <<>> /\ b[1].was = <<>>
  BY <1>1, <1>2 DEF Alike, SameCall
<1>4. \A k \in 1..(n - 1) : (Shaped(a[k]) <=> Shaped(b[k])) /\ (Encloses(a[k], a[k + 1]) <=> Encloses(b[k], b[k + 1]))
  BY ParallelBelow
<1>5. ASSUME NEW k \in 1..Len(b) PROVE Shaped(b[k])
  <2>1. CASE k \in 1..(n - 1)
    <3>1. k \in 1..Len(a)
      BY <1>1, <2>1
    <3>2. Shaped(a[k]) <=> Shaped(b[k])
      BY <1>4, <2>1
    <3> QED BY <1>2, <3>1, <3>2
  <2>2. CASE k \notin 1..(n - 1)
    <3>1. k = n \/ (k = n + 1 /\ Len(b) = n + 1)
      BY <1>1, <2>2
    <3> QED BY <3>1
  <2> QED BY <2>1, <2>2
<1>6. ASSUME NEW k \in 2..Len(b) PROVE Encloses(b[k - 1], b[k])
  <2>1. CASE k - 1 \in 1..(n - 1)
    <3>1. k \in 2..Len(a) /\ (k - 1) + 1 = k
      BY <1>1, <2>1
    <3>2. Encloses(a[k - 1], a[(k - 1) + 1]) <=> Encloses(b[k - 1], b[(k - 1) + 1])
      BY <1>4, <2>1
    <3> QED BY <1>2, <3>1, <3>2
  <2>2. CASE k - 1 \notin 1..(n - 1)
    <3>1. k = n + 1 /\ Len(b) = n + 1 /\ k - 1 = n
      BY <1>1, <2>2
    <3> QED BY <3>1
  <2> QED BY <2>1, <2>2
<1> QED
  BY <1>3, <1>5, <1>6 DEF Shapes

\* The handlers of the calls are told the same.
SameTold(a, ea, b, eb, n) == \A h \in 1..n : IsHead(a, h) => Told(a, ea, h) = Told(b, eb, h)

\* The top call goes on, and reports no error.
LEMMA JudgedEdit ==
  ASSUME NEW H, NEW a, NEW ea, NEW b, NEW eb, NEW n, Parallel(a, b, n), Len(a) = n, Len(b) = n,
         SameTold(a, ea, b, eb, n), Pend(H, a, n) <=> Pend(H, b, n)
  PROVE  Judged(H, a, ea) <=> Judged(H, b, eb)
<1>1. n \in Nat \ {0}
  BY DEF Parallel
<1>2. /\ \A k \in 1..n : /\ CallHolds(H, a[k]) <=> CallHolds(H, b[k])
                         /\ IsHead(a, k) <=> IsHead(b, k)
      /\ \A k \in 1..(n - 1) : Pend(H, a, k) <=> Pend(H, b, k)
      /\ \A h, k \in 1..n : Under(a, h, k) <=> Under(b, h, k)
  BY ParallelBelow
<1>3. \A k \in 1..n : Pend(H, a, k) <=> Pend(H, b, k)
  <2> SUFFICES ASSUME NEW k \in 1..n, k # n PROVE Pend(H, a, k) <=> Pend(H, b, k)
    OBVIOUS
  <2>1. k \in 1..(n - 1)
    BY <1>1
  <2> QED BY <1>2, <2>1
<1>4. \A h \in 1..n : \A k \in h..n : k \in 1..n
  BY <1>1
<1>5. \A h \in 1..n : (\A k \in h..n : Under(a, h, k) => Pend(H, a, k)) <=> (\A k \in h..n : Under(b, h, k) => Pend(H, b, k))
  BY <1>2, <1>3, <1>4
<1> QED
  BY <1>2, <1>5 DEF Judged, SameTold

\* An error is reported.
LEMMA JudgedReport ==
  ASSUME NEW H, NEW a, NEW ea, NEW b, NEW eb, NEW n, Parallel(a, b, n), Len(a) = n, Len(b) = n,
         NEW m \in 1..n, IsHead(a, m), Under(a, m, n), Told(b, eb, m) # <<>>,
         \A h \in 1..n : IsHead(a, h) /\ h # m => Told(a, ea, h) = Told(b, eb, h),
         ~Pend(H, a, n), Judged(H, a, ea)
  PROVE  Judged(H, b, eb)
<1>1. n \in Nat \ {0}
  BY DEF Parallel
<1>2. /\ \A k \in 1..n : /\ CallHolds(H, a[k]) <=> CallHolds(H, b[k])
                         /\ IsHead(a, k) <=> IsHead(b, k)
      /\ \A k \in 1..(n - 1) : Pend(H, a, k) <=> Pend(H, b, k)
      /\ \A h, k \in 1..n : Under(a, h, k) <=> Under(b, h, k)
  BY ParallelBelow
<1>3. ASSUME NEW h \in 1..n, IsHead(a, h)
      PROVE  CallHolds(H, b[h]) <=>
               /\ Told(b, eb, h) = <<>>
               /\ \A k \in h..n : Under(b, h, k) => Pend(H, b, k)
  <2>1. CallHolds(H, a[h]) <=>
          /\ Told(a, ea, h) = <<>>
          /\ \A k \in h..n : Under(a, h, k) => Pend(H, a, k)
    BY <1>3 DEF Judged
  <2>2. CASE h = m
    <3>1. n \in h..n
      BY <1>1
    <3>2. ~CallHolds(H, a[h])
      BY <2>1, <2>2, <3>1
    <3> QED BY <1>2, <2>2, <3>2
  <2>3. CASE h # m
    <3>1. ~Under(a, h, n)
      <4>1. CASE h < m
        <5>1. m \in (h + 1)..n /\ m # 1
          BY <1>1, <4>1
        <5>2. a[m].via # "plain"
          BY <5>1 DEF IsHead
        <5> QED BY <5>1, <5>2 DEF Under
      <4>2. CASE ~(h < m)
        <5>1. h \in (m + 1)..n /\ h # 1
          BY <1>1, <2>3, <4>2
        <5>2. a[h].via # "plain"
          BY <1>3, <5>1 DEF IsHead
        <5> QED BY <5>1, <5>2 DEF Under
      <4> QED BY <4>1, <4>2
    <3>2. \A k \in h..n : (Under(a, h, k) => Pend(H, a, k)) <=> (Under(b, h, k) => Pend(H, b, k))
      <4> SUFFICES ASSUME NEW k \in h..n
                   PROVE  (Under(a, h, k) => Pend(H, a, k)) <=> (Under(b, h, k) => Pend(H, b, k))
        OBVIOUS
      <4>1. k \in 1..n /\ (Under(a, h, k) <=> Under(b, h, k))
        BY <1>1, <1>2
      <4>2. CASE k = n
        BY <3>1, <4>1, <4>2
      <4>3. CASE k # n
        <5>1. k \in 1..(n - 1)
          BY <1>1, <4>1, <4>3
        <5> QED BY <1>2, <4>1, <5>1
      <4> QED BY <4>2, <4>3
    <3>3. (\A k \in h..n : Under(a, h, k) => Pend(H, a, k)) <=> (\A k \in h..n : Under(b, h, k) => Pend(H, b, k))
      BY <3>2
    <3>4. Told(a, ea, h) = Told(b, eb, h)
      BY <1>3, <2>3
    <3> QED BY <1>2, <2>1, <3>3, <3>4
  <2> QED BY <2>2, <2>3
<1> QED
  BY <1>2, <1>3 DEF Judged

\* A call of the top call: b has it, and a does not.
LEMMA JudgedCall ==
  ASSUME NEW H, NEW a, NEW ea, NEW b, NEW eb, NEW n, Parallel(a, b, n), Len(a) = n, Len(b) = n + 1,
         SameTold(a, ea, b, eb, n),
         Pend(H, a, n) <=> Pend(H, b, n) /\ (b[n + 1].via = "plain" => Pend(H, b, n + 1))
  PROVE  Judged(H, b, eb) <=>
           /\ Judged(H, a, ea)
           /\ b[n + 1].via # "plain" =>
                (CallHolds(H, b[n + 1]) <=> b[n + 1].errs = <<>> /\ Pend(H, b, n + 1))
<1> DEFINE g == b[n + 1]
           p == Pend(H, b, n + 1)
<1>1. n \in Nat \ {0} /\ n + 1 # 1
  BY DEF Parallel
<1>2. /\ \A k \in 1..n : /\ CallHolds(H, a[k]) <=> CallHolds(H, b[k])
                         /\ IsHead(a, k) <=> IsHead(b, k)
      /\ \A k \in 1..(n - 1) : Pend(H, a, k) <=> Pend(H, b, k)
      /\ \A h, k \in 1..n : Under(a, h, k) <=> Under(b, h, k)
  BY ParallelBelow
<1>3. ASSUME NEW h \in 1..n PROVE Under(b, h, n + 1) <=> Under(a, h, n) /\ g.via = "plain"
  <2>1. (h + 1)..(n + 1) = ((h + 1)..n) \cup {n + 1}
    BY <1>1
  <2>2. Under(b, h, n + 1) <=> Under(b, h, n) /\ g.via = "plain"
    BY <2>1 DEF Under
  <2>3. n \in 1..n
    BY <1>1
  <2> QED BY <1>2, <2>2, <2>3
<1> HIDE DEF g, p
<1>4. \A h \in 1..n : (\A k \in h..n : Under(a, h, k) => Pend(H, a, k)) <=> (\A k \in h..(n + 1) : Under(b, h, k) => Pend(H, b, k))
  <2> SUFFICES ASSUME NEW h \in 1..n
               PROVE  (\A k \in h..n : Under(a, h, k) => Pend(H, a, k)) <=> (\A k \in h..(n + 1) : Under(b, h, k) => Pend(H, b, k))
    OBVIOUS
  <2>1. h..n = (h..(n - 1)) \cup {n} /\ h..(n + 1) = (h..(n - 1)) \cup {n, n + 1}
    BY <1>1
  <2>2. \A k \in h..(n - 1) : (Under(a, h, k) => Pend(H, a, k)) <=> (Under(b, h, k) => Pend(H, b, k))
    <3> SUFFICES ASSUME NEW k \in h..(n - 1)
                 PROVE  (Under(a, h, k) => Pend(H, a, k)) <=> (Under(b, h, k) => Pend(H, b, k))
      OBVIOUS
    <3>1. k \in 1..(n - 1) /\ k \in 1..n
      BY <1>1
    <3> QED BY <1>2, <3>1
  <2>3. Under(a, h, n) <=> Under(b, h, n)
    BY <1>1, <1>2
  <2>4. (Under(a, h, n) => Pend(H, a, n)) <=>
          (Under(b, h, n) => Pend(H, b, n)) /\ (Under(b, h, n + 1) => Pend(H, b, n + 1))
    BY <1>3, <2>3 DEF g
  <2> QED BY <2>1, <2>2, <2>4
<1>5. \A h \in 1..n : IsHead(a, h) => Told(a, ea, h) = Told(b, eb, h)
  BY DEF SameTold
<1>6. Judged(H, a, ea) <=>
        \A h \in 1..n : IsHead(b, h) =>
          (CallHolds(H, b[h]) <=>
             /\ Told(b, eb, h) = <<>>
             /\ \A k \in h..(n + 1) : Under(b, h, k) => Pend(H, b, k))
  BY <1>2, <1>4, <1>5 DEF Judged
<1>7. 1..(n + 1) = (1..n) \cup {n + 1} /\ (n + 1)..(n + 1) = {n + 1}
  BY <1>1
<1>8. IsHead(b, n + 1) <=> g.via # "plain"
  BY <1>1 DEF IsHead, g
<1>9. Told(b, eb, n + 1) = g.errs
  BY <1>1 DEF Told, g
<1>10. Under(b, n + 1, n + 1)
  <2>1. ((n + 1) + 1)..(n + 1) = {}
    BY <1>1
  <2> QED BY <2>1 DEF Under
<1>11. (\A k \in (n + 1)..(n + 1) : Under(b, n + 1, k) => Pend(H, b, k)) <=> p
  BY <1>7, <1>10 DEF p
<1>12. Judged(H, b, eb) <=>
         /\ Judged(H, a, ea)
         /\ IsHead(b, n + 1) =>
              (CallHolds(H, b[n + 1]) <=>
                 /\ Told(b, eb, n + 1) = <<>>
                 /\ \A k \in (n + 1)..(n + 1) : Under(b, n + 1, k) => Pend(H, b, k))
  BY <1>6, <1>7 DEF Judged
<1> QED
  BY <1>8, <1>9, <1>11, <1>12 DEF g, p

\* The default values, when the top call goes on.
LEMMA GatheredEdit ==
  ASSUME NEW H, NEW D, NEW a, NEW oa, NEW b, NEW ob, NEW n, Parallel(a, b, n), Len(a) = n, Len(b) = n,
         Range(oa) \cup Remains(H, D, a[n]) = Range(ob) \cup Remains(H, D, b[n])
  PROVE  Gathered(H, D, a, oa) <=> Gathered(H, D, b, ob)
<1>1. n \in Nat \ {0}
  BY DEF Parallel
<1>2. /\ \A k \in 1..n : /\ a[k].was = b[k].was /\ Brings(D, a[k]) = Brings(D, b[k])
                         /\ Yields(H, D, a[k]) = Yields(H, D, b[k])
      /\ \A k \in 1..(n - 1) : /\ k + 1 \in 1..n
                               /\ RemainsAfter(H, D, a[k], a[k + 1]) = RemainsAfter(H, D, b[k], b[k + 1])
  <2>1. GatheredAlike(H, D, a, b, n)
    BY ParallelBelow
  <2> QED BY <2>1 DEF GatheredAlike
<1>3. \A k \in 1..n : k # n => k \in 1..(n - 1)
  BY <1>1
<1> QED
  BY <1>2, <1>3 DEF Gathered

\* The default values, when the top call makes another one, or that returns.
LEMMA GatheredCall ==
  ASSUME NEW H, NEW D, NEW a, NEW oa, NEW b, NEW ob, NEW n, Parallel(a, b, n), Len(a) = n, Len(b) = n + 1,
         Range(oa) \cup Remains(H, D, a[n]) =
           Range(b[n + 1].was) \cup Yields(H, D, b[n + 1]) \cup RemainsAfter(H, D, b[n], b[n + 1])
  PROVE  Gathered(H, D, b, ob) <=>
           /\ Gathered(H, D, a, oa)
           /\ Range(b[n + 1].was) \cup Brings(D, b[n + 1]) = Range(ob) \cup Remains(H, D, b[n + 1])
<1>1. n \in Nat \ {0}
  BY DEF Parallel
<1>2. /\ \A k \in 1..n : /\ a[k].was = b[k].was /\ Brings(D, a[k]) = Brings(D, b[k])
                         /\ Yields(H, D, a[k]) = Yields(H, D, b[k])
      /\ \A k \in 1..(n - 1) : /\ k + 1 \in 1..n
                               /\ RemainsAfter(H, D, a[k], a[k + 1]) = RemainsAfter(H, D, b[k], b[k + 1])
  <2>1. GatheredAlike(H, D, a, b, n)
    BY ParallelBelow
  <2> QED BY <2>1 DEF GatheredAlike
<1> DEFINE own(k) == Range(b[k].was) \cup Brings(D, b[k])
           next(k) == Range(b[k + 1].was) \cup Yields(H, D, b[k + 1]) \cup RemainsAfter(H, D, b[k], b[k + 1])
           end == Range(ob) \cup Remains(H, D, b[n + 1])
<1>3. Gathered(H, D, a, oa) <=> \A k \in 1..n : own(k) = next(k)
  <2>1. \A k \in 1..n : Range(a[k].was) \cup Brings(D, a[k]) = own(k)
    BY <1>2
  <2>2. \A k \in 1..(n - 1) :
          Range(a[k + 1].was) \cup Yields(H, D, a[k + 1]) \cup RemainsAfter(H, D, a[k], a[k + 1]) = next(k)
    BY <1>2
  <2>3. Range(oa) \cup Remains(H, D, a[n]) = next(n)
    OBVIOUS
  <2>4. \A k \in 1..n : k # n => k \in 1..(n - 1)
    BY <1>1
  <2> HIDE DEF own, next
  <2> QED BY <2>1, <2>2, <2>3, <2>4 DEF Gathered
<1>4. Gathered(H, D, b, ob) <=> \A k \in 1..(n + 1) : own(k) = IF k = n + 1 THEN end ELSE next(k)
  BY DEF Gathered
<1>5. 1..(n + 1) = (1..n) \cup {n + 1} /\ \A k \in 1..n : k # n + 1
  BY <1>1
<1>6. Gathered(H, D, b, ob) <=> (\A k \in 1..n : own(k) = next(k)) /\ own(n + 1) = end
  <2> HIDE DEF own, next, end
  <2> QED BY <1>4, <1>5
<1> QED
  BY <1>3, <1>6 DEF own, end
-----------------------------------------------------------------------------
(***************************************************************************)
(* What a call has left to do, before and after it takes a task.           *)
(***************************************************************************)

\* The tasks of a call, at another time.
LEMMA AlikeTasks ==
  ASSUME NEW H, NEW D, NEW f, NEW g, Alike(f, g)
  PROVE  /\ \A x : (Okay(H, f, x) <=> Okay(H, g, x)) /\ Gives(H, D, f, x) = Gives(H, D, g, x)
         /\ \A s : (Clears(H, f, s) <=> Clears(H, g, s)) /\ Left(H, D, f, s) = Left(H, D, g, s)
         /\ Combination(f) <=> Combination(g)
<1>1. f.role = g.role /\ f.subs = g.subs /\ f.inst = g.inst
  BY DEF Alike, SameCall
<1>2. \A x : (Leads(H, f, x) <=> Leads(H, g, x)) /\ Led(H, D, f, x) = Led(H, D, g, x)
  BY <1>1 DEF Leads, Led
<1>3. \A x : (Okay(H, f, x) <=> Okay(H, g, x)) /\ Gives(H, D, f, x) = Gives(H, D, g, x)
  BY <1>2 DEF Okay, Suits, Gives
<1>4. \A s : Clears(H, f, s) <=> Clears(H, g, s)
  BY <1>3 DEF Clears
<1>5. \A s : Left(H, D, f, s) = Left(H, D, g, s)
  BY <1>3 DEF Left
<1> QED
  BY <1>1, <1>3, <1>4, <1>5 DEF Combination

\* Nothing is left to do.
LEMMA NothingLeft ==
  ASSUME NEW H, NEW D, NEW f, f.todo = <<>>, f.count \in Nat
  PROVE  Passes(H, f) /\ Remains(H, D, f) = {}
<1>1. Clears(H, f, <<>>) /\ Left(H, D, f, <<>>) = {}
  <2>1. Reached(H, <<>>) = {}
    BY DEF Reached
  <2>2. Clears(H, f, <<>>)
    BY DEF Clears
  <2>3. Left(H, D, f, <<>>) = {}
    BY <2>1 DEF Left
  <2> QED BY <2>2, <2>3
<1>2. Combination(f) => /\ Decides(H, f.role, f.count, <<>>)
                        /\ LeftCases(H, D, f.role, f.count, <<>>) = {}
  BY CombinationEnds DEF Combination
<1> QED
  BY <1>1, <1>2 DEF Passes, Remains

\* f takes the task x, and is g then.
Takes(f, x, g) == Alike(f, g) /\ f.count = g.count /\ Starts(f.todo, x, g.todo) /\ Sequence(g.todo)

\* A task of a call that is no combination.
LEMMA TaskTaken ==
  ASSUME NEW D, NEW f, NEW x, NEW g, Shaped(f), ~Combination(f), Takes(f, x, g)
  PROVE  /\ ~Combination(g) /\ Orderly(x) /\ Shaped(g)
         /\ Passes(Holds, f) <=> Okay(Holds, f, x) /\ (Stops(Holds, x) \/ Passes(Holds, g))
         /\ Remains(Holds, D, f) =
              Gives(Holds, D, f, x) \cup (IF Stops(Holds, x) THEN {} ELSE Remains(Holds, D, g))
<1> DEFINE s == f.todo
           t == g.todo
           n == Len(t)
           m == Len(s)
<1>1. Alike(f, g) /\ Starts(s, x, t)
  BY DEF Takes
<1>2. /\ Clears(Holds, f, t) <=> Clears(Holds, g, t)
      /\ Left(Holds, D, f, t) = Left(Holds, D, g, t)
      /\ ~Combination(g)
  BY <1>1, AlikeTasks
<1>3. /\ Clears(Holds, f, s) <=> Okay(Holds, f, x) /\ (Stops(Holds, x) \/ Clears(Holds, f, t))
      /\ Left(Holds, D, f, s) =
           Gives(Holds, D, f, x) \cup (IF Stops(Holds, x) THEN {} ELSE Left(Holds, D, f, t))
  BY <1>1, TaskByTask
<1>4. /\ Passes(Holds, f) <=> Clears(Holds, f, s)
      /\ Passes(Holds, g) <=> Clears(Holds, g, t)
      /\ Remains(Holds, D, f) = Left(Holds, D, f, s)
      /\ Remains(Holds, D, g) = Left(Holds, D, g, t)
  BY <1>2 DEF Passes, Remains
<1>5. /\ 1 \in 1..m /\ s[1] = x
      /\ \A i \in 1..n : i + 1 \in 1..m /\ s[i + 1] = t[i]
  BY <1>1, StartsIndices
<1>6. \A i \in 1..m : Orderly(s[i])
  BY DEF Shaped
<1>7. Orderly(x) /\ \A i \in 1..n : Orderly(t[i])
  BY <1>5, <1>6
<1>8. g.inst \in Parts
  BY <1>1 DEF Alike, SameCall, Shaped
<1>9. Shaped(g)
  BY <1>2, <1>7, <1>8 DEF Shaped
<1> QED
  BY <1>2, <1>3, <1>4, <1>7, <1>9

\* What a combination does in the end.
Concluded(D, f, x, g) ==
  /\ Passes(Holds, g) /\ Remains(Holds, D, f) = {} /\ Remains(Holds, D, g) = {}
  /\ Passes(Holds, f) <=> x.do = "count" /\ f.count # 0
\* What it does when it tries a case.
Tries(D, f, x, g) ==
  /\ Case(x) /\ Counting(g) /\ Counted(f.role, f.count)
  /\ Passes(Holds, f) <=> DecidesAfter(Holds, f.role, f.count, x, g.todo)
  /\ Remains(Holds, D, f) = (IF CallHolds(Holds, x) THEN Brings(D, x) ELSE {})
                            \cup LeftAfter(Holds, D, f.role, f.count, x, g.todo)

\* A task of a combination.
LEMMA CaseTaken ==
  ASSUME NEW D, NEW f, NEW x, NEW g, Shaped(f), Combination(f), f.count \in Nat, Takes(f, x, g)
  PROVE  /\ Combination(g) /\ Shaped(g) /\ x.do \in {"errors", "count", "call"}
         /\ x.do # "call" => Concluded(D, f, x, g)
         /\ x.do = "call" => Tries(D, f, x, g)
<1> DEFINE s == f.todo
           t == g.todo
           n == Len(t)
           m == Len(s)
<1>1. /\ Alike(f, g) /\ f.count = g.count /\ Starts(s, x, t) /\ Sequence(t)
      /\ f.role = g.role /\ f.inst = g.inst
  BY DEF Takes, Alike, SameCall
<1>2. /\ n \in Nat /\ m = n + 1 /\ s[1] = x /\ s # <<>>
      /\ \A i \in 1..n : i + 1 \in 1..m /\ s[i + 1] = t[i]
  <2>1. n \in Nat /\ m = n + 1 /\ s[1] = x
    BY <1>1 DEF Starts
  <2>2. \A i \in 1..n : i + 1 \in 1..m /\ s[i + 1] = t[i]
    BY <1>1, StartsIndices
  <2>3. Len(<<>>) = 0
    OBVIOUS
  <2> HIDE DEF n, m
  <2> QED BY <2>1, <2>2, <2>3 DEF m
<1>3. Combination(g) /\ f.role \in Combined /\ g.inst \in Parts
  BY <1>1 DEF Combination, Shaped
<1>4. (m = 1 /\ x.do = "errors") \/ Counting(f)
  BY <1>2 DEF Shaped
<1>5. CASE n = 0
  <2>1. m = 1 /\ t = <<>>
    BY <1>1, <1>2, <1>5 DEF Sequence
  <2>2. x.do = "errors" \/ (x.do = "count" /\ (f.role = "oneOf" => f.count <= 1))
    BY <1>2, <1>4, <2>1 DEF Counting
  <2>3. Shaped(g)
    BY <1>3, <2>1 DEF Shaped
  <2>4. Passes(Holds, g) /\ Remains(Holds, D, g) = {}
    BY <1>1, <2>1, NothingLeft
  <2>5. /\ LeftCases(Holds, D, f.role, f.count, s) = {}
        /\ Decides(Holds, f.role, f.count, s) <=> x.do = "count" /\ f.count # 0
    <3> HIDE DEF s
    <3> QED BY <1>2, <1>3, <2>1, <2>2, CombinationEnds, ZenonT(30)
  <2>6. Concluded(D, f, x, g)
    BY <2>4, <2>5 DEF Concluded, Passes, Remains
  <2> QED BY <1>3, <2>2, <2>3, <2>6
<1>6. CASE n # 0
  <2>1. /\ s[m].do = "count" /\ \A i \in 1..(m - 1) : Case(s[i])
        /\ f.role = "anyOf" => f.count = 0
        /\ f.role = "oneOf" => f.count <= 1
    BY <1>2, <1>4, <1>6 DEF Counting
  <2>2. Case(x) /\ t[n].do = "count" /\ \A i \in 1..(n - 1) : Case(t[i])
    <3>1. 1 \in 1..(m - 1) /\ n \in 1..n
      BY <1>2, <1>6
    <3>2. \A i \in 1..(n - 1) : i + 1 \in 1..(m - 1) /\ i \in 1..n
      BY <1>2
    <3> HIDE DEF s, t, n, m
    <3> QED BY <1>2, <2>1, <3>1, <3>2
  <2>3. t # <<>> /\ x.do = "call"
    BY <1>6, <2>2 DEF Case
  <2>4. Counting(g)
    BY <1>1, <2>1, <2>2, <2>3 DEF Counting
  <2>5. Shaped(g)
    BY <1>3, <2>4 DEF Shaped
  <2>6. Counted(f.role, f.count)
    BY <1>3, <2>1 DEF Counted
  <2>7. Decides(Holds, f.role, f.count, s) <=> DecidesAfter(Holds, f.role, f.count, x, t)
    <3> HIDE DEF s, t
    <3> QED BY <1>1, <1>6, <2>3, <2>6, CaseDecides
  <2>8. LeftCases(Holds, D, f.role, f.count, s) =
          (IF CallHolds(Holds, x) THEN Brings(D, x) ELSE {}) \cup LeftAfter(Holds, D, f.role, f.count, x, t)
    <3> DEFINE role == f.role
               count == f.count
               left == (IF CallHolds(Holds, x) THEN Brings(D, x) ELSE {})
                       \cup LeftAfter(Holds, D, role, count, x, t)
    <3>1. Starts(s, x, t) /\ x.do = "call" /\ Counted(role, count)
      BY <1>1, <2>3, <2>6
    <3> HIDE DEF s, t, role, count
    <3>2. LeftCases(Holds, D, role, count, s) = left
      BY <3>1, CaseLeaves
    <3> HIDE DEF left
    <3>3. LeftCases(Holds, D, f.role, f.count, s) = left
      BY <3>2 DEF role, count
    <3> QED BY <3>3 DEF left, role, count
  <2>9. Tries(D, f, x, g)
    BY <2>2, <2>4, <2>6, <2>7, <2>8 DEF Tries, Passes, Remains
  <2> QED BY <1>3, <2>3, <2>5, <2>9
<1> QED
  BY <1>5, <1>6

\* Tasks are put before the others.
LEMMA PrependMeans ==
  ASSUME NEW f, NEW g, NEW tasks, Shaped(f), ~Combination(f), Sequence(f.todo), Alike(f, g),
         g.todo = tasks \o f.todo, Steady(tasks)
  PROVE  /\ Shaped(g) /\ (Passes(Holds, g) <=> Good(f, tasks) /\ Passes(Holds, f))
         /\ Remains(Holds, Brought, g) = Total(f, tasks) \cup Remains(Holds, Brought, f)
<1> DEFINE s == f.todo
           t == g.todo
<1>1. \A i \in 1..Len(s) : Orderly(s[i])
  BY DEF Shaped
<1>2. /\ \A i \in 1..Len(t) : Orderly(t[i])
      /\ Clears(Holds, f, t) <=> Good(f, tasks) /\ Clears(Holds, f, s)
      /\ Left(Holds, Brought, f, t) = Total(f, tasks) \cup Left(Holds, Brought, f, s)
  BY <1>1, PrefixMeans, ZenonT(30)
<1>3. /\ Clears(Holds, f, t) <=> Clears(Holds, g, t)
      /\ Left(Holds, Brought, f, t) = Left(Holds, Brought, g, t)
      /\ ~Combination(g)
  BY AlikeTasks
<1>4. g.inst \in Parts
  BY DEF Alike, SameCall, Shaped
<1>5. Shaped(g)
  BY <1>2, <1>3, <1>4 DEF Shaped
<1> QED
  BY <1>2, <1>3, <1>5 DEF Passes, Remains
-----------------------------------------------------------------------------
(***************************************************************************)
(* The running validation: what the invariant says, and what follows for   *)
(* the top call, its first task and its handler.                           *)
(***************************************************************************)
Runs(calls, errs, ops) ==
  /\ Shapes(calls) /\ Judged(Holds, calls, errs)
  /\ WellPlaced(validator) => Gathered(Holds, Brought, calls, ops)
Running == IInv /\ TInv /\ Meaningful /\ pc = "validating" /\ Runs(stack, errors, patch)

\* The top call.
LEMMA TopMeans ==
  ASSUME Running
  PROVE  LET n == Len(stack)
         IN /\ n \in Nat \ {0} /\ Top = stack[n] /\ FrameOK(Top, validator, instance)
            /\ Shaped(Top) /\ Top.count \in Nat /\ Sequence(Top.todo)
            /\ Pend(Holds, stack, n) <=> Passes(Holds, Top)
            /\ WellPlaced(validator) =>
                 Range(Top.was) \cup Brings(Brought, Top) = Range(patch) \cup Remains(Holds, Brought, Top)
<1> DEFINE n == Len(stack)
<1>1. IInv /\ TInv /\ pc = "validating" /\ Runs(stack, errors, patch)
  BY DEF Running
<1>2. n \in Nat \ {0} /\ Top = stack[n] /\ FrameOK(Top, validator, instance)
  BY <1>1, TopCall
<1>3. Top.count \in Nat /\ Sequence(Top.todo)
  BY <1>2 DEF FrameOK, TasksOK
<1>4. n \in 1..n /\ ~(n < n)
  BY <1>2
<1>5. Shaped(Top)
  BY <1>1, <1>2, <1>4 DEF Runs, Shapes
<1>6. Pend(Holds, stack, n) <=> Passes(Holds, Top)
  BY <1>2, <1>4 DEF Pend
<1>7. ASSUME WellPlaced(validator)
      PROVE  Range(Top.was) \cup Brings(Brought, Top) = Range(patch) \cup Remains(Holds, Brought, Top)
  BY <1>1, <1>2, <1>4, <1>7 DEF Runs, Gathered
<1> QED
  BY <1>2, <1>3, <1>5, <1>6, <1>7

\* A call whose agenda or whose errors are replaced.
LEMMA EditFields ==
  ASSUME NEW f, Fields \subseteq DOMAIN f
  PROVE  /\ \A x : LET g == [f EXCEPT !.todo = x]
                   IN Alike(f, g) /\ g.todo = x /\ g.count = f.count /\ g.errs = f.errs
         /\ \A x : LET g == [f EXCEPT !.errs = x]
                   IN Alike(f, g) /\ AsFar(f, g) /\ g.errs = x
  BY DEF Fields, Alike, AsFar, SameCall

\* Two stacks that differ in the last common call only.
LEMMA ParallelOf ==
  ASSUME NEW a, NEW b, NEW n \in Nat \ {0}, Len(a) \in Nat, Len(b) \in Nat, n <= Len(a), n <= Len(b),
         \A k \in 1..(n - 1) : a[k] = b[k], Alike(a[n], b[n]), a[n].errs = b[n].errs
  PROVE  Parallel(a, b, n) /\ \A e : SameTold(a, e, b, e, n)
<1>1. \A k \in 1..n : k = n \/ k \in 1..(n - 1)
  OBVIOUS
<1>2. \A f : Alike(f, f) /\ AsFar(f, f)
  BY DEF Alike, AsFar, SameCall
<1>3. \A k \in 1..n : Alike(a[k], b[k]) /\ a[k].errs = b[k].errs
  BY <1>1, <1>2
<1>4. \A k \in 1..(n - 1) : AsFar(a[k], b[k])
  BY <1>2
<1> QED
  BY <1>3, <1>4 DEF Parallel, SameTold, Told

\* The top call takes a task.
LEMMA ProceedMeans ==
  ASSUME Running, Top.todo # <<>>
  PROVE  LET n == Len(stack)
         IN /\ Len(Proceed) = n /\ Sequence(Proceed) /\ Parallel(stack, Proceed, n)
            /\ Takes(Top, Task, Proceed[n]) /\ Task = Top.todo[1]
            /\ \A e : SameTold(stack, e, Proceed, e, n)
            /\ \A k \in 1..n : Fields \subseteq DOMAIN Proceed[k]
<1> DEFINE n == Len(stack)
           s == Top.todo
           f == [Top EXCEPT !.todo = Tail(s)]
<1>1. /\ IInv /\ TInv /\ pc = "validating"
      /\ n \in Nat \ {0} /\ Top = stack[n] /\ FrameOK(Top, validator, instance)
      /\ Sequence(s) /\ s # <<>>
  BY TopMeans DEF Running
<1>2. Proceed = [stack EXCEPT ![n] = f]
  BY <1>1 DEF Proceed
<1>3. /\ Sequence(Tail(s)) /\ Starts(s, Head(s), Tail(s)) /\ Head(s) = s[1]
  <2> HIDE DEF s
  <2>1. /\ Len(s) \in Nat \ {0} /\ Head(s) = s[1]
        /\ Sequence(Tail(s)) /\ Len(Tail(s)) = Len(s) - 1
        /\ \A i \in 1..(Len(s) - 1) : Tail(s)[i] = s[i + 1]
    BY <1>1, FirstAndRest
  <2>2. Starts(s, Head(s), Tail(s))
    BY <2>1 DEF Starts
  <2> QED BY <2>1, <2>2
<1>4. Alike(Top, f) /\ f.todo = Tail(s) /\ f.count = Top.count /\ f.errs = Top.errs
  <2> DEFINE x == Tail(s)
             h == Top
  <2>1. Fields \subseteq DOMAIN h
    BY <1>1 DEF FrameOK
  <2>2. f = [h EXCEPT !.todo = x]
    OBVIOUS
  <2> HIDE DEF x, h, f
  <2>3. Alike(h, f) /\ f.todo = x /\ f.count = h.count /\ f.errs = h.errs
    BY <2>1, <2>2, EditFields
  <2> QED BY <2>3 DEF x, h
<1> HIDE DEF f
<1>5. Takes(Top, Task, f) /\ Task = s[1]
  BY <1>3, <1>4 DEF Takes, Task
<1>6. Len(Proceed) = n /\ Proceed[n] = f /\ \A k \in 1..(n - 1) : Proceed[k] = stack[k]
  <2> DEFINE S == Range(stack) \cup {f}
  <2>1. Sequence(stack) /\ n \in 1..n /\ \A k \in 1..(n - 1) : k \in 1..n /\ k # n
    BY <1>1 DEF TInv, CallsOK
  <2>2. stack \in Seq(S) /\ f \in S
    BY <2>1 DEF Sequence
  <2> HIDE DEF S
  <2>3. Len(Proceed) = n /\ \A k \in 1..n : Proceed[k] = IF k = n THEN f ELSE stack[k]
    BY <1>2, <2>1, <2>2, ExceptSeq
  <2> HIDE DEF n
  <2> QED BY <2>1, <2>3
<1>7. Sequence(Proceed) /\ \A k \in 1..n : Fields \subseteq DOMAIN Proceed[k]
  <2>1. CallsOK(Proceed, validator, instance)
    BY <1>1, ProceedOK
  <2> QED BY <1>6, <2>1 DEF CallsOK, FrameOK
<1>8. Parallel(stack, Proceed, n) /\ \A e : SameTold(stack, e, Proceed, e, n)
  <2> HIDE DEF n
  <2>1. Len(stack) = n /\ n <= n
    BY <1>1 DEF n
  <2> QED BY <1>1, <1>4, <1>6, <2>1, ParallelOf
<1> QED
  BY <1>5, <1>6, <1>7, <1>8

\* The top call goes on.
LEMMA GoesOn ==
  ASSUME Running, Top.todo # <<>>, NEW ops, Shaped(Proceed[Len(stack)]),
         Passes(Holds, Top) <=> Passes(Holds, Proceed[Len(stack)]),
         WellPlaced(validator) =>
           Range(patch) \cup Remains(Holds, Brought, Top) =
             Range(ops) \cup Remains(Holds, Brought, Proceed[Len(stack)])
  PROVE  Runs(Proceed, errors, ops)
<1> DEFINE n == Len(stack)
<1>1. /\ n \in Nat \ {0} /\ Top = stack[n] /\ (Pend(Holds, stack, n) <=> Passes(Holds, Top))
      /\ Runs(stack, errors, patch)
  BY TopMeans DEF Running
<1>2. /\ Len(Proceed) = n /\ Parallel(stack, Proceed, n) /\ SameTold(stack, errors, Proceed, errors, n)
  BY ProceedMeans
<1>3. Pend(Holds, Proceed, n) <=> Passes(Holds, Proceed[n])
  BY <1>1, <1>2 DEF Pend
<1>4. Shapes(Proceed)
  BY <1>1, <1>2, ShapesStep DEF Runs
<1>5. Judged(Holds, Proceed, errors)
  <2>1. Judged(Holds, stack, errors) <=> Judged(Holds, Proceed, errors)
    BY <1>1, <1>2, <1>3, JudgedEdit
  <2> QED BY <1>1, <2>1 DEF Runs
<1>6. ASSUME WellPlaced(validator) PROVE Gathered(Holds, Brought, Proceed, ops)
  <2>1. Range(patch) \cup Remains(Holds, Brought, stack[n]) = Range(ops) \cup Remains(Holds, Brought, Proceed[n])
    BY <1>1, <1>6
  <2>2. Gathered(Holds, Brought, stack, patch) <=> Gathered(Holds, Brought, Proceed, ops)
    BY <1>2, <2>1, GatheredEdit
  <2> QED BY <1>1, <1>6, <2>2 DEF Runs
<1> QED
  BY <1>4, <1>5, <1>6 DEF Runs

\* A set of numbers that is not empty and has a bound has a greatest member.
LEMMA Greatest ==
  ASSUME NEW n \in Nat, NEW S \in SUBSET (1..n), S # {}
  PROVE  \E m \in S : \A j \in S : j <= m
<1> DEFINE T == {n - i : i \in S}
<1>1. T \in SUBSET Nat /\ T # {}
  <2>1. \A i \in S : i \in 1..n
    OBVIOUS
  <2>2. \A i \in S : n - i \in Nat
    BY <2>1
  <2> QED BY <2>2
<1>2. PICK k \in T : \A j \in T : k <= j
  <2> HIDE DEF T
  <2> QED BY <1>1, Least
<1>3. PICK m \in S : k = n - m
  OBVIOUS
<1>4. ASSUME NEW j \in S PROVE j <= m
  <2>1. n - m <= n - j
    BY <1>2, <1>3
  <2> QED BY <2>1
<1> QED
  BY <1>4

\* The handler of the top call.
LEMMA HandlerMeans ==
  ASSUME Running
  PROVE  LET n == Len(stack)
         IN /\ Handler = 0 => Under(stack, 1, n)
            /\ Handler # 0 => /\ Handler \in 1..n /\ Handler # 1 /\ stack[Handler].via # "plain"
                              /\ Under(stack, Handler, n)
<1> DEFINE n == Len(stack)
           S == {i \in DOMAIN stack : stack[i].via # "plain"}
<1>1. n \in Nat \ {0} /\ DOMAIN stack = 1..n /\ stack[1].via = "plain"
  <2>1. n \in Nat \ {0} /\ Nested(stack, patch) /\ stack # <<>>
    BY TopMeans DEF Running, IInv
  <2> QED BY <2>1, Elements DEF Nested
<1>2. S = {i \in 1..n : stack[i].via # "plain"}
  BY <1>1
<1>3. Handler = IF S = {} THEN 0 ELSE CHOOSE i \in S : \A j \in S : j <= i
  BY DEF Handler
<1> HIDE DEF n, S
<1>4. CASE S = {}
  <2>1. \A j \in (1 + 1)..n : stack[j].via = "plain"
    BY <1>1, <1>2, <1>4
  <2>2. Handler = 0
    BY <1>3, <1>4
  <2> QED BY <2>1, <2>2 DEF Under, n
<1>5. CASE S # {}
  <2>1. \E i \in S : \A j \in S : j <= i
    BY <1>1, <1>2, <1>5, Greatest
  <2>2. Handler \in S /\ \A j \in S : j <= Handler
    BY <1>3, <1>5, <2>1
  <2>3. Handler \in 1..n /\ stack[Handler].via # "plain" /\ Handler # 1 /\ Handler # 0
    BY <1>1, <1>2, <2>2
  <2>4. \A j \in (Handler + 1)..n : stack[j].via = "plain"
    <3> SUFFICES ASSUME NEW j \in (Handler + 1)..n, stack[j].via # "plain" PROVE FALSE
      OBVIOUS
    <3>1. j \in 1..n /\ ~(j <= Handler)
      BY <1>1, <2>3
    <3> QED BY <1>2, <2>2, <3>1
  <2> QED BY <2>3, <2>4 DEF Under, n
<1> QED
  BY <1>4, <1>5
-----------------------------------------------------------------------------
(***************************************************************************)
(* The steps of a call.                                                    *)
(***************************************************************************)

\* The first task of the top call.
LEMMA TaskMeans ==
  ASSUME Running, Top.todo # <<>>
  PROVE  LET g == Proceed[Len(stack)]
         IN /\ Shaped(g) /\ Takes(Top, Task, g)
            /\ ~Combination(Top) =>
                 /\ Orderly(Task) /\ ~Combination(g)
                 /\ Passes(Holds, Top) <=>
                      Okay(Holds, Top, Task) /\ (Stops(Holds, Task) \/ Passes(Holds, g))
                 /\ Remains(Holds, Brought, Top) =
                      Gives(Holds, Brought, Top, Task)
                      \cup (IF Stops(Holds, Task) THEN {} ELSE Remains(Holds, Brought, g))
            /\ Combination(Top) =>
                 /\ Combination(g) /\ Task.do \in {"errors", "count", "call"}
                 /\ Task.do # "call" => Concluded(Brought, Top, Task, g)
                 /\ Task.do = "call" => Tries(Brought, Top, Task, g)
<1> DEFINE g == Proceed[Len(stack)]
<1>1. Shaped(Top) /\ Top.count \in Nat /\ Takes(Top, Task, g)
  BY TopMeans, ProceedMeans
<1> HIDE DEF g
<1>2. CASE Combination(Top)
  <2>1. /\ Combination(g) /\ Shaped(g) /\ Task.do \in {"errors", "count", "call"}
        /\ Task.do # "call" => Concluded(Brought, Top, Task, g)
        /\ Task.do = "call" => Tries(Brought, Top, Task, g)
    BY <1>1, <1>2, CaseTaken
  <2> QED BY <1>1, <1>2, <2>1 DEF g
<1>3. CASE ~Combination(Top)
  <2> DEFINE D == Brought
             f == Top
             x == Task
  <2>1. Shaped(f) /\ ~Combination(f) /\ Takes(f, x, g)
    BY <1>1, <1>3
  <2> HIDE DEF D, f, x
  <2>2. /\ ~Combination(g) /\ Orderly(x) /\ Shaped(g)
        /\ Passes(Holds, f) <=> Okay(Holds, f, x) /\ (Stops(Holds, x) \/ Passes(Holds, g))
        /\ Remains(Holds, D, f) =
             Gives(Holds, D, f, x) \cup (IF Stops(Holds, x) THEN {} ELSE Remains(Holds, D, g))
    BY <2>1, TaskTaken
  <2> QED BY <1>1, <1>3, <2>2 DEF g, D, f, x
<1> QED
  BY <1>2, <1>3

\* An error of the top call: it does not pass.
LEMMA ReportsMean ==
  ASSUME Running, Reports
  PROVE  LET g == Proceed[Len(stack)]
         IN /\ Top.todo # <<>> /\ Shaped(g) /\ ~Passes(Holds, Top) /\ Reported # <<>>
            /\ Remains(Holds, Brought, g) = Remains(Holds, Brought, Top)
<1> DEFINE g == Proceed[Len(stack)]
<1>1. /\ Top.todo # <<>> /\ IInv /\ TInv /\ pc = "validating"
      /\ Task.do = "errors" \/ (Task.do = "count" /\ Top.count = 0)
  BY DEF Reports, Steps, Running
<1>2. Shaped(g)
  BY <1>1, TaskMeans
<1>3. ASSUME Combination(Top)
      PROVE  ~Passes(Holds, Top) /\ Remains(Holds, Brought, g) = Remains(Holds, Brought, Top)
  <2>1. Concluded(Brought, Top, Task, g)
    BY <1>1, <1>3, TaskMeans
  <2>2. ~Passes(Holds, Top)
    BY <1>1, <2>1 DEF Concluded
  <2>3. Remains(Holds, Brought, g) = Remains(Holds, Brought, Top)
    BY <2>1 DEF Concluded
  <2> QED BY <2>2, <2>3
<1>4. ASSUME ~Combination(Top)
      PROVE  ~Passes(Holds, Top) /\ Remains(Holds, Brought, g) = Remains(Holds, Brought, Top)
  <2> DEFINE R == Remains(Holds, Brought, g)
             G == Gives(Holds, Brought, Top, Task)
  <2>1. /\ Orderly(Task)
        /\ Passes(Holds, Top) <=> Okay(Holds, Top, Task) /\ (Stops(Holds, Task) \/ Passes(Holds, g))
        /\ Remains(Holds, Brought, Top) = G \cup (IF Stops(Holds, Task) THEN {} ELSE R)
    BY <1>1, <1>4, TaskMeans
  <2>2. Task.do = "errors"
    BY <1>1, <2>1 DEF Orderly
  <2>3. ~Okay(Holds, Top, Task) /\ ~Stops(Holds, Task) /\ G = {}
    BY <2>2 DEF Okay, Stops, Gives
  <2> HIDE DEF R, G
  <2>4. Remains(Holds, Brought, Top) = R
    BY <2>1, <2>3
  <2> QED BY <2>1, <2>3, <2>4 DEF R
<1>5. Reported # <<>>
  <2> DEFINE S == Seq(Token)
             p == Top.ptr
             r == Top.summary
  <2>1. CASE Task.do = "errors"
    <3>1. TaskOK(Task, Top, validator, instance)
      BY <1>1, ProceedOK
    <3> QED BY <2>1, <3>1 DEF TaskOK, IsTask, Reported
  <2>2. CASE Task.do # "errors"
    <3>1. Reported = <<p>> \o r
      BY <2>2 DEF Reported
    <3>2. p \in S /\ r \in Seq(S)
      BY <1>1, TopCall DEF FrameOK, CallOK, IsCall
    <3> HIDE DEF p, r, S
    <3>3. Len(<<p>> \o r) = 1 + Len(r) /\ Len(r) \in Nat
      BY <3>2
    <3>4. Len(<<>>) = 0
      OBVIOUS
    <3> QED BY <3>1, <3>3, <3>4
  <2> QED BY <2>1, <2>2
<1> QED
  BY <1>1, <1>2, <1>3, <1>4, <1>5

\* A stack in which the error has reached its handler, the one of call m.
LEMMA ErrorKept ==
  ASSUME Running, Reports, NEW calls, NEW errs, Len(calls) = Len(stack),
         \A k \in 1..Len(stack) : Alike(Proceed[k], calls[k]) /\ AsFar(Proceed[k], calls[k]),
         NEW m \in 1..Len(stack), IsHead(stack, m), Under(stack, m, Len(stack)),
         Told(calls, errs, m) # <<>>,
         \A h \in 1..Len(stack) : IsHead(stack, h) /\ h # m => Told(stack, errors, h) = Told(calls, errs, h)
  PROVE  Runs(calls, errs, patch)
<1> DEFINE n == Len(stack)
           g == Proceed[n]
<1>1. /\ n \in Nat \ {0} /\ Top = stack[n] /\ (Pend(Holds, stack, n) <=> Passes(Holds, Top))
      /\ Runs(stack, errors, patch)
  BY TopMeans DEF Running
<1>2. /\ Top.todo # <<>> /\ Shaped(g) /\ ~Passes(Holds, Top)
      /\ Remains(Holds, Brought, g) = Remains(Holds, Brought, Top)
  BY ReportsMean
<1>3. Len(Proceed) = n /\ Parallel(stack, Proceed, n)
  BY <1>2, ProceedMeans
<1>4. n \in 1..n /\ Alike(g, calls[n]) /\ AsFar(g, calls[n])
  BY <1>1
<1>5. Parallel(stack, calls, n)
  <2>1. \A k \in 1..n : Alike(stack[k], Proceed[k]) /\ Alike(Proceed[k], calls[k]) /\ AsFar(Proceed[k], calls[k])
    BY <1>3 DEF Parallel
  <2>2. \A k \in 1..n : Alike(stack[k], calls[k])
    BY <2>1 DEF Alike, SameCall
  <2>3. \A k \in 1..(n - 1) : k \in 1..n /\ AsFar(stack[k], Proceed[k])
    BY <1>1, <1>3 DEF Parallel
  <2>4. \A k \in 1..(n - 1) : AsFar(stack[k], calls[k])
    BY <2>1, <2>3 DEF AsFar
  <2> QED BY <1>1, <2>2, <2>4 DEF Parallel
<1>6. Shaped(calls[n]) /\ Remains(Holds, Brought, calls[n]) = Remains(Holds, Brought, Top)
  <2>1. (Shaped(g) <=> Shaped(calls[n])) /\ Remains(Holds, Brought, g) = Remains(Holds, Brought, calls[n])
    <3> HIDE DEF g
    <3> QED BY <1>4, AlikeMeans
  <2> QED BY <1>2, <2>1
<1>7. Shapes(calls)
  BY <1>1, <1>5, <1>6, ShapesStep DEF Runs
<1>8. Judged(Holds, calls, errs)
  <2>1. Judged(Holds, stack, errors) /\ ~Pend(Holds, stack, n)
    BY <1>1, <1>2 DEF Runs
  <2> HIDE DEF n
  <2>2. Len(stack) = n /\ Len(calls) = n
    BY DEF n
  <2> QED BY <1>5, <2>1, <2>2, JudgedReport
<1>9. ASSUME WellPlaced(validator) PROVE Gathered(Holds, Brought, calls, patch)
  <2>1. Range(patch) \cup Remains(Holds, Brought, stack[n]) = Range(patch) \cup Remains(Holds, Brought, calls[n])
    BY <1>1, <1>6
  <2>2. Gathered(Holds, Brought, stack, patch) <=> Gathered(Holds, Brought, calls, patch)
    BY <1>5, <2>1, GatheredEdit
  <2> QED BY <1>1, <1>9, <2>2 DEF Runs
<1> QED
  BY <1>7, <1>8, <1>9 DEF Runs

\* An error is kept by a handler made for an inner call.
LEMMA ReportInsideMeans == ASSUME Running, ReportInside PROVE Runs(stack', errors', patch')
<1> DEFINE n == Len(stack)
           h == Handler
           x == Keep(stack[h], Reported)
           f == [Proceed[h] EXCEPT !.errs = x]
           s == [Proceed EXCEPT ![h] = f]
<1>1. Reports /\ h # 0 /\ stack' = s /\ errors' = errors /\ patch' = patch
  BY DEF ReportInside
<1>2. h \in 1..n /\ h # 1 /\ stack[h].via # "plain" /\ Under(stack, h, n)
  BY <1>1, HandlerMeans
<1>3. Top.todo # <<>> /\ Reported # <<>>
  BY <1>1, ReportsMean
<1>4. /\ Len(Proceed) = n /\ Sequence(Proceed) /\ SameTold(stack, errors, Proceed, errors, n)
      /\ \A k \in 1..n : Fields \subseteq DOMAIN Proceed[k]
  BY <1>3, ProceedMeans
<1>5. Alike(Proceed[h], f) /\ AsFar(Proceed[h], f) /\ f.errs = x
  <2> DEFINE e == Proceed[h]
             y == x
  <2>1. Fields \subseteq DOMAIN e /\ f = [e EXCEPT !.errs = y]
    BY <1>2, <1>4
  <2> HIDE DEF e, y, f
  <2>2. Alike(e, f) /\ AsFar(e, f) /\ f.errs = y
    BY <2>1, EditFields
  <2> QED BY <2>2 DEF e, y
<1>6. x # <<>>
  <2> DEFINE e == stack[h].errs
             r == Reported
             S == Seq(Token)
  <2>1. x = IF stack[h].via = "case" THEN e \o r ELSE IF e = <<>> THEN <<Head(r)>> ELSE e
    BY DEF Keep
  <2>2. e \in Seq(S) /\ r \in Seq(S) /\ r # <<>>
    <3>1. IInv /\ TInv
      BY DEF Running
    <3>2. FrameOK(stack[h], validator, instance)
      BY <1>2, <3>1 DEF TInv, CallsOK
    <3>3. r \in Seq(S)
      BY <1>1, <3>1, ReportedOK
    <3> QED BY <1>3, <3>2, <3>3 DEF FrameOK
  <2>3. e \o r # <<>>
    <3> HIDE DEF e, r, S
    <3>1. Len(e \o r) = Len(e) + Len(r) /\ Len(e) \in Nat /\ Len(r) \in Nat \ {0}
      BY <2>2
    <3>2. Len(<<>>) = 0
      OBVIOUS
    <3> QED BY <3>1, <3>2
  <2>4. <<Head(r)>> # <<>>
    OBVIOUS
  <2> HIDE DEF x, e, r
  <2> QED BY <2>1, <2>3, <2>4
<1> HIDE DEF f, x, h
<1>7. Len(s) = n /\ \A k \in 1..n : s[k] = IF k = h THEN f ELSE Proceed[k]
  <2> DEFINE S == Range(Proceed) \cup {f}
  <2>1. Proceed \in Seq(S) /\ f \in S
    BY <1>4 DEF Sequence
  <2> HIDE DEF S, n
  <2> QED BY <1>2, <1>4, <2>1, ExceptSeq
<1> HIDE DEF s
<1>8. \A k \in 1..n : Alike(Proceed[k], s[k]) /\ AsFar(Proceed[k], s[k])
  <2>1. \A c : Alike(c, c) /\ AsFar(c, c)
    BY DEF Alike, AsFar, SameCall
  <2> QED BY <1>5, <1>7, <2>1
<1>9. Told(s, errors, h) # <<>>
  BY <1>2, <1>5, <1>6, <1>7 DEF Told
<1>10. \A k \in 1..n : IsHead(stack, k) /\ k # h => Told(stack, errors, k) = Told(s, errors, k)
  <2>1. \A k \in 1..n : IsHead(stack, k) => Told(stack, errors, k) = Told(Proceed, errors, k)
    BY <1>4 DEF SameTold
  <2>2. \A k \in 1..n : k # h => Told(s, errors, k) = Told(Proceed, errors, k)
    BY <1>7 DEF Told
  <2> QED BY <2>1, <2>2
<1>11. IsHead(stack, h)
  BY <1>2 DEF IsHead
<1>12. Runs(s, errors, patch)
  <2>1. Len(s) = Len(stack)
    BY <1>7
  <2> QED BY <1>1, <1>2, <1>8, <1>9, <1>10, <1>11, <2>1, ErrorKept DEF n
<1> QED
  BY <1>1, <1>12

\* An error is told to the user.
LEMMA ReportToUserMeans == ASSUME Running, ReportToUser PROVE Runs(stack', errors', patch')
<1> DEFINE n == Len(stack)
           r == Reported
           S == Seq(Token)
           errs == errors \o r
<1>1. Reports /\ Handler = 0 /\ stack' = Proceed /\ errors' = errs /\ patch' = patch
  BY DEF ReportToUser
<1>2. Under(stack, 1, n)
  BY <1>1, HandlerMeans
<1>3. Top.todo # <<>> /\ r # <<>>
  BY <1>1, ReportsMean
<1>4. /\ Len(Proceed) = n /\ SameTold(stack, errors, Proceed, errors, n) /\ n \in Nat \ {0}
  BY <1>3, ProceedMeans, TopMeans
<1>5. errs # <<>>
  <2>1. errors \in Seq(S) /\ r \in Seq(S)
    BY <1>1, ReportedOK DEF Running, TInv
  <2> HIDE DEF r, S
  <2>2. Len(errs) = Len(errors) + Len(r) /\ Len(errors) \in Nat /\ Len(r) \in Nat \ {0}
    BY <1>3, <2>1
  <2>3. Len(<<>>) = 0
    OBVIOUS
  <2> HIDE DEF errs
  <2> QED BY <2>2, <2>3
<1> HIDE DEF errs
<1>6. \A k \in 1..n : Alike(Proceed[k], Proceed[k]) /\ AsFar(Proceed[k], Proceed[k])
  BY DEF Alike, AsFar, SameCall
<1>7. 1 \in 1..n /\ IsHead(stack, 1) /\ Told(Proceed, errs, 1) # <<>>
  BY <1>4, <1>5 DEF IsHead, Told
<1>8. \A k \in 1..n : IsHead(stack, k) /\ k # 1 => Told(stack, errors, k) = Told(Proceed, errs, k)
  BY <1>4 DEF SameTold, Told
<1>9. Runs(Proceed, errs, patch)
  BY <1>1, <1>2, <1>4, <1>6, <1>7, <1>8, ErrorKept DEF n
<1> QED
  BY <1>1, <1>9
-----------------------------------------------------------------------------

\* A combination that some case satisfies.
LEMMA SatisfiedMeans == ASSUME Running, Satisfied PROVE Runs(stack', errors', patch')
<1> DEFINE g == Proceed[Len(stack)]
<1>1. /\ Top.todo # <<>> /\ Task.do = "count" /\ Top.count # 0
      /\ stack' = Proceed /\ errors' = errors /\ patch' = patch
  BY DEF Satisfied, Steps
<1>2. Combination(Top)
  BY <1>1, TaskMeans DEF Orderly
<1>3. Shaped(g) /\ Concluded(Brought, Top, Task, g)
  BY <1>1, <1>2, TaskMeans
<1>4. (Passes(Holds, Top) <=> Passes(Holds, g)) /\ Remains(Holds, Brought, Top) = Remains(Holds, Brought, g)
  BY <1>1, <1>3 DEF Concluded
<1>5. Runs(Proceed, errors, patch)
  BY <1>1, <1>3, <1>4, GoesOn
<1> QED
  BY <1>1, <1>5

\* A default value is added to the patch.
LEMMA AddDefaultMeans == ASSUME Running, AddDefault PROVE Runs(stack', errors', patch')
<1> DEFINE x == [path |-> Task.path, value |-> Task.value]
           ops == Append(patch, x)
           g == Proceed[Len(stack)]
           R == Remains(Holds, Brought, g)
<1>1. /\ Top.todo # <<>> /\ Task.do = "add"
      /\ stack' = Proceed /\ errors' = errors /\ patch' = ops
  BY DEF AddDefault, Steps
<1>2. ~Combination(Top) /\ Shaped(g)
  BY <1>1, TaskMeans
<1>3. /\ Passes(Holds, Top) <=> Okay(Holds, Top, Task) /\ (Stops(Holds, Task) \/ Passes(Holds, g))
      /\ Remains(Holds, Brought, Top) =
           Gives(Holds, Brought, Top, Task) \cup (IF Stops(Holds, Task) THEN {} ELSE R)
  BY <1>1, <1>2, TaskMeans
<1>4. Okay(Holds, Top, Task) /\ ~Stops(Holds, Task) /\ Gives(Holds, Brought, Top, Task) = {x}
  BY <1>1 DEF Okay, Stops, Gives
<1>5. Range(ops) = Range(patch) \cup {x}
  <2> HIDE DEF x
  <2>1. Sequence(patch)
    BY DEF Running, IInv
  <2>2. /\ Sequence(ops) /\ Len(ops) = Len(patch) + 1 /\ Len(patch) \in Nat
        /\ \A i \in 1..Len(patch) : ops[i] = patch[i]
        /\ ops[Len(patch) + 1] = x
    BY <2>1, Longer
  <2> HIDE DEF ops
  <2>3. DOMAIN ops = 1..(Len(patch) + 1) /\ DOMAIN patch = 1..Len(patch)
    BY <2>1, <2>2, Elements
  <2> QED BY <2>2, <2>3 DEF Range
<1>6. Passes(Holds, Top) <=> Passes(Holds, g)
  BY <1>3, <1>4
<1>7. Range(patch) \cup Remains(Holds, Brought, Top) = Range(ops) \cup Remains(Holds, Brought, g)
  <2> HIDE DEF x, ops, R
  <2>1. Remains(Holds, Brought, Top) = {x} \cup R
    BY <1>3, <1>4
  <2> QED BY <1>5, <2>1 DEF R
<1> HIDE DEF ops, x
<1>8. Runs(Proceed, errors, ops)
  BY <1>1, <1>2, <1>6, <1>7, GoesOn
<1> QED
  BY <1>1, <1>8

\* No text without a length is asked for it.
LEMMA RaiseNever == ASSUME Running, Raise PROVE FALSE
<1>1. Top.todo # <<>> /\ Task.do = "raise"
  BY DEF Raise, Steps
<1> QED
  BY <1>1, TaskMeans DEF Orderly

\* The outermost call is about the instance and its schema.
LEMMA RootMeans ==
  ASSUME Running
  PROVE  /\ CallHolds(Holds, stack[1]) <=> Meant
         /\ stack[1].was = <<>>
         /\ Brings(Brought, stack[1]) =
              IF Entry = <<>> THEN {} ELSE DefaultsOf[<<Entry[1], <<>>, instance>>]
<1> DEFINE f == stack[1]
           s == Entry
<1>1. 1 \in 1..Len(stack) /\ stack # <<>> /\ Shapes(stack) /\ CallsOK(stack, validator, instance)
  <2>1. IInv /\ TInv /\ pc = "validating" /\ Runs(stack, errors, patch)
    BY DEF Running
  <2>2. Len(stack) \in Nat \ {0} /\ stack # <<>>
    BY <2>1, TopCall
  <2> QED BY <2>1, <2>2 DEF Runs, TInv
<1>2. /\ f.role = "root" /\ f.subs = s /\ f.inst = instance /\ f.ptr = <<>> /\ f.was = <<>>
      /\ f.inst \in Parts
  BY <1>1 DEF Shapes, Shaped
<1>3. s \in Seq(DOMAIN graph) /\ instance \in Parts /\ "root" \in AllRoles /\ <<>> \in Seq(Token)
  <2>1. FrameOK(f, validator, instance)
    BY <1>1 DEF CallsOK
  <2>2. f.subs \in Seq(DOMAIN graph) /\ f.ptr \in Seq(Token)
    BY <2>1 DEF FrameOK, CallOK, IsCall, graph
  <2>3. "root" \in AllRoles
    BY DEF AllRoles, Roles
  <2> HIDE DEF f, s
  <2> QED BY <1>2, <2>2, <2>3
<1> HIDE DEF f, s
<1>4. /\ <<"root", s, instance>> \in Holds <=> RoleHolds("root", s, instance)
      /\ Brought[<<"root", s, <<>>, instance>>] = RoleBrings("root", s, <<>>, instance)
  BY <1>3, CallMeaning
<1>5. /\ RoleHolds("root", s, instance) <=> s # <<>> /\ Valid[<<s[1], instance>>]
      /\ RoleBrings("root", s, <<>>, instance) = IF s = <<>> THEN {} ELSE DefaultsOf[<<s[1], <<>>, instance>>]
  BY RoleHoldsCases, RoleBringsCases
<1>6. CallHolds(Holds, f) <=> Meant
  BY <1>2, <1>4, <1>5 DEF CallHolds, Meant, s
<1>7. Brings(Brought, f) = IF s = <<>> THEN {} ELSE DefaultsOf[<<s[1], <<>>, instance>>]
  BY <1>2, <1>4, <1>5 DEF Brings
<1> QED
  BY <1>2, <1>6, <1>7 DEF f, s

\* The user's handler throws at an error: the instance is not valid.
LEMMA ThrowMeans == ASSUME Running, Throw PROVE ~Meant
<1> DEFINE n == Len(stack)
<1>1. Reports /\ Handler = 0
  BY DEF Throw
<1>2. Under(stack, 1, n) /\ ~Passes(Holds, Top)
  BY <1>1, HandlerMeans, ReportsMean
<1>3. n \in Nat \ {0} /\ ~Pend(Holds, stack, n)
  BY <1>2, TopMeans
<1>4. CallHolds(Holds, stack[1]) <=>
        /\ Told(stack, errors, 1) = <<>>
        /\ \A k \in 1..n : Under(stack, 1, k) => Pend(Holds, stack, k)
  <2>1. Judged(Holds, stack, errors) /\ 1 \in 1..n /\ IsHead(stack, 1)
    BY <1>3 DEF Running, Runs, IsHead
  <2> QED BY <2>1 DEF Judged
<1>5. ~CallHolds(Holds, stack[1])
  BY <1>2, <1>3, <1>4
<1> QED
  BY <1>5, RootMeans
-----------------------------------------------------------------------------

\* f makes the call c, and is g while it waits.
Begun(D, f, g, c) ==
  /\ Encloses(g, c)
  /\ Passes(Holds, f) <=> IF c.via = "plain" THEN Passes(Holds, g) /\ CallHolds(Holds, c)
                          ELSE Continues(Holds, g, c)
  /\ Remains(Holds, D, f) = Yields(Holds, D, c) \cup RemainsAfter(Holds, D, g, c)

\* The task x of a call that is no combination is the call c.
LEMMA PlainBegins ==
  ASSUME NEW D, NEW f, NEW x, NEW g, NEW c, Alike(f, g), SameCall(x, c), x.do = "call",
         ~Combination(g), Orderly(x),
         Passes(Holds, f) <=> Okay(Holds, f, x) /\ (Stops(Holds, x) \/ Passes(Holds, g)),
         Remains(Holds, D, f) =
           Gives(Holds, D, f, x) \cup (IF Stops(Holds, x) THEN {} ELSE Remains(Holds, D, g))
  PROVE  Begun(D, f, g, c)
<1> DEFINE R == Remains(Holds, D, g)
           B == Brings(D, c)
           L == Led(Holds, D, g, c)
<1>1. c.via # "case" /\ x.via = c.via /\ f.subs = g.subs
  BY DEF Orderly, Alike, SameCall
<1>2. /\ CallHolds(Holds, x) <=> CallHolds(Holds, c)
      /\ Brings(D, x) = B
  BY DEF SameCall, CallHolds, Brings
<1>3. Branching(Holds, x) = Branching(Holds, c)
  BY <1>2 DEF Branching
<1>4. /\ Leads(Holds, f, x) <=> Leads(Holds, g, c)
      /\ Led(Holds, D, f, x) = L
  BY <1>1, <1>3 DEF Leads, Led, SameCall
<1>5. (Suits(Holds, f, x) <=> Suits(Holds, g, c)) /\ (Found(Holds, x) <=> Found(Holds, c))
  BY <1>1, <1>2, <1>4 DEF Suits, Found
<1>6. /\ Okay(Holds, f, x) <=> Suits(Holds, g, c)
      /\ Stops(Holds, x) <=> Found(Holds, c)
  BY <1>5 DEF Okay, Stops
<1>7. Gives(Holds, D, f, x) = B \cup L
  <2>1. Gives(Holds, D, f, x) = {} \cup (Brings(D, x) \cup Led(Holds, D, f, x))
    BY DEF Gives
  <2> HIDE DEF B, L
  <2> QED BY <1>2, <1>4, <2>1
<1>8. /\ Found(Holds, c) => Suits(Holds, g, c) /\ L = {} /\ c.via # "plain"
      /\ c.via = "plain" => (Suits(Holds, g, c) <=> CallHolds(Holds, c))
  BY DEF Found, Suits, Led
<1>9. Continues(Holds, g, c) <=> Found(Holds, c) \/ (Suits(Holds, g, c) /\ Passes(Holds, g))
  BY <1>1 DEF Continues
<1>10. Passes(Holds, f) <=> IF c.via = "plain" THEN Passes(Holds, g) /\ CallHolds(Holds, c)
                            ELSE Continues(Holds, g, c)
  BY <1>6, <1>8, <1>9
<1>11. Yields(Holds, D, c) = B /\ RemainsAfter(Holds, D, g, c) = IF Found(Holds, c) THEN {} ELSE L \cup R
  BY <1>1 DEF Yields, RemainsAfter
<1> HIDE DEF B, L, R
<1>12. Remains(Holds, D, f) = B \cup L \cup (IF Found(Holds, c) THEN {} ELSE R)
  BY <1>6, <1>7 DEF R
<1>13. Remains(Holds, D, f) = Yields(Holds, D, c) \cup RemainsAfter(Holds, D, g, c)
  BY <1>8, <1>11, <1>12
<1>14. Encloses(g, c)
  BY <1>1 DEF Encloses
<1> QED
  BY <1>10, <1>13, <1>14 DEF Begun

\* The task x of a combination is the call c of a case.
LEMMA CaseBegins ==
  ASSUME NEW D, NEW f, NEW x, NEW g, NEW c, Alike(f, g), f.count = g.count, SameCall(x, c),
         Combination(g), Tries(D, f, x, g)
  PROVE  Begun(D, f, g, c)
<1>1. c.via = "case" /\ c.role = "schema" /\ f.role = g.role
  BY DEF Tries, Case, SameCall, Alike
<1>2. (CallHolds(Holds, x) <=> CallHolds(Holds, c)) /\ Brings(D, x) = Brings(D, c)
  BY DEF SameCall, CallHolds, Brings
<1>3. Passes(Holds, f) <=> DecidesAfter(Holds, g.role, g.count, c, g.todo)
  BY <1>1, <1>2 DEF Tries, DecidesAfter
<1>4. Remains(Holds, D, f) = (IF CallHolds(Holds, c) THEN Brings(D, c) ELSE {})
                             \cup LeftAfter(Holds, D, g.role, g.count, c, g.todo)
  BY <1>1, <1>2 DEF Tries, LeftAfter
<1>5. Continues(Holds, g, c) <=> DecidesAfter(Holds, g.role, g.count, c, g.todo)
  BY <1>1 DEF Continues, DecidesAfter
<1>6. /\ Yields(Holds, D, c) = IF CallHolds(Holds, c) THEN Brings(D, c) ELSE {}
      /\ RemainsAfter(Holds, D, g, c) = LeftAfter(Holds, D, g.role, g.count, c, g.todo)
  BY <1>1 DEF Yields, RemainsAfter, LeftAfter
<1>7. Encloses(g, c)
  BY <1>1 DEF Encloses, Tries
<1> QED
  BY <1>1, <1>3, <1>4, <1>5, <1>6, <1>7 DEF Begun

\* A call of another object.
LEMMA EnterMeans == ASSUME Running, Enter PROVE Runs(stack', errors', patch')
<1> DEFINE n == Len(stack)
           f == Proceed[n]
           g == Frame(Task)
           b == Append(Proceed, g)
<1>1. /\ Top.todo # <<>> /\ Task.do = "call" /\ pc = "validating" /\ IInv /\ TInv /\ Meaningful
      /\ stack' = b /\ errors' = errors /\ patch' = patch
  BY DEF Enter, Steps, Running
<1>2. /\ n \in Nat \ {0} /\ Top = stack[n] /\ (Pend(Holds, stack, n) <=> Passes(Holds, Top))
      /\ Runs(stack, errors, patch)
  BY TopMeans DEF Running
<1>3. /\ Len(Proceed) = n /\ Sequence(Proceed) /\ Parallel(stack, Proceed, n)
      /\ Takes(Top, Task, f) /\ SameTold(stack, errors, Proceed, errors, n)
  BY <1>1, ProceedMeans
<1>4. /\ SameCall(Task, g) /\ Fresh(g) /\ g.errs = <<>> /\ g.was = patch
  BY DEF Frame, SameCall, Fresh
<1>5. Begun(Brought, Top, f, g) /\ Task.inst \in Parts /\ Shaped(f)
  <2>1. Shaped(f) /\ Alike(Top, f) /\ Top.count = f.count
    BY <1>1, <1>3, TaskMeans DEF Takes
  <2>2. ASSUME Combination(Top) PROVE Begun(Brought, Top, f, g) /\ Task.inst \in Parts
    <3>1. Combination(f) /\ Tries(Brought, Top, Task, f)
      BY <1>1, <2>2, TaskMeans
    <3>2. Task.inst \in Parts
      BY <3>1 DEF Tries, Case
    <3> HIDE DEF f, g
    <3> QED BY <1>4, <2>1, <3>1, <3>2, CaseBegins
  <2>3. ASSUME ~Combination(Top) PROVE Begun(Brought, Top, f, g) /\ Task.inst \in Parts
    <3>1. /\ ~Combination(f) /\ Orderly(Task)
          /\ Passes(Holds, Top) <=> Okay(Holds, Top, Task) /\ (Stops(Holds, Task) \/ Passes(Holds, f))
          /\ Remains(Holds, Brought, Top) =
               Gives(Holds, Brought, Top, Task)
               \cup (IF Stops(Holds, Task) THEN {} ELSE Remains(Holds, Brought, f))
      BY <1>1, <2>3, TaskMeans
    <3>2. Task.inst \in Parts
      BY <1>1, <3>1 DEF Orderly
    <3> HIDE DEF f, g
    <3> QED BY <1>1, <1>4, <2>1, <3>1, <3>2, PlainBegins
  <2> QED BY <2>1, <2>2, <2>3
<1>6. AgendaDone(g)
  <2>1. CallOK(Task, validator, instance)
    BY <1>1, ProceedOK DEF TaskOK
  <2> HIDE DEF g
  <2>2. CallOK(g, validator, instance) /\ g.inst \in Parts
    BY <1>4, <1>5, <2>1 DEF CallOK, IsCall, SameCall
  <2> QED BY <1>1, <1>4, <2>2, AgendaMeans
<1> HIDE DEF g
<1>7. Len(b) = n + 1 /\ b[n + 1] = g /\ \A k \in 1..n : b[k] = Proceed[k]
  BY <1>3, Longer
<1> HIDE DEF b
<1>8. Parallel(stack, b, n) /\ SameTold(stack, errors, b, errors, n)
  <2>1. Parallel(stack, b, n)
    <3>1. n \in Nat \ {0} /\ \A k \in 1..(n - 1) : k \in 1..n
      BY <1>2
    <3> HIDE DEF n
    <3> QED BY <1>3, <1>7, <3>1 DEF Parallel
  <2>2. SameTold(stack, errors, b, errors, n)
    BY <1>3, <1>7 DEF SameTold, Told
  <2> QED BY <2>1, <2>2
<1>9. n \in 1..n /\ b[n] = f
  BY <1>2, <1>7
<1> HIDE DEF n, f
<1>10. Shapes(b)
  <2>1. Shapes(stack) /\ Shaped(b[n]) /\ Shaped(b[n + 1]) /\ Encloses(b[n], b[n + 1]) /\ Len(b) \in {n, n + 1}
    BY <1>2, <1>5, <1>6, <1>7, <1>9 DEF Runs, AgendaDone, Begun
  <2> QED BY <1>8, <2>1, ShapesStep
<1>11. /\ Pend(Holds, b, n + 1) <=> CallHolds(Holds, g)
       /\ Pend(Holds, b, n) <=> IF g.via = "plain" THEN Passes(Holds, f) ELSE Continues(Holds, f, g)
  BY <1>2, <1>6, <1>7, <1>9 DEF Pend, AgendaDone
<1>12. Judged(Holds, b, errors)
  <2>1. Pend(Holds, stack, n) <=> Pend(Holds, b, n) /\ (b[n + 1].via = "plain" => Pend(Holds, b, n + 1))
    BY <1>2, <1>5, <1>7, <1>11 DEF Begun
  <2>2. Judged(Holds, stack, errors)
    BY <1>2 DEF Runs
  <2> DEFINE H == Holds
             e == errors
  <2>3. Len(stack) = n /\ Len(b) = n + 1 /\ Parallel(stack, b, n)
    BY <1>7, <1>8 DEF n
  <2>4. Pend(H, stack, n) <=> Pend(H, b, n) /\ (b[n + 1].via = "plain" => Pend(H, b, n + 1))
    BY <2>1
  <2>5. SameTold(stack, e, b, e, n)
    BY <1>8
  <2> HIDE DEF H, e
  <2>6. Judged(H, b, e) <=>
          /\ Judged(H, stack, e)
          /\ b[n + 1].via # "plain" =>
               (CallHolds(H, b[n + 1]) <=> b[n + 1].errs = <<>> /\ Pend(H, b, n + 1))
    BY <2>3, <2>4, <2>5, JudgedCall, ZenonT(40)
  <2> QED BY <1>4, <1>7, <1>11, <2>2, <2>6 DEF H, e
<1>13. ASSUME WellPlaced(validator) PROVE Gathered(Holds, Brought, b, patch)
  <2> DEFINE D == Brought
             was == Range(g.was)
             Y == Yields(Holds, D, g)
             A == RemainsAfter(Holds, D, f, g)
  <2>1. Range(patch) \cup Remains(Holds, D, stack[n]) = was \cup Y \cup A
    <3>1. Remains(Holds, D, stack[n]) = Y \cup A /\ was = Range(patch)
      BY <1>2, <1>4, <1>5 DEF Begun
    <3> HIDE DEF was, Y, A
    <3> QED BY <3>1
  <2>2. Range(g.was) \cup Brings(D, g) = Range(patch) \cup Remains(Holds, D, g)
    BY <1>4, <1>6, <1>13 DEF AgendaDone
  <2>3. Gathered(Holds, D, stack, patch) /\ Len(stack) = n
    BY <1>2, <1>13 DEF Runs, n
  <2> HIDE DEF D
  <2>4. Gathered(Holds, D, b, patch) <=>
          /\ Gathered(Holds, D, stack, patch)
          /\ Range(b[n + 1].was) \cup Brings(D, b[n + 1]) = Range(patch) \cup Remains(Holds, D, b[n + 1])
    BY <1>7, <1>8, <1>9, <2>1, <2>3, GatheredCall
  <2>5. Gathered(Holds, D, b, patch)
    BY <1>7, <2>2, <2>3, <2>4
  <2> QED BY <2>5 DEF D
<1> QED
  BY <1>1, <1>10, <1>12, <1>13 DEF Runs
-----------------------------------------------------------------------------
(***************************************************************************)
(* A call returns.                                                         *)
(***************************************************************************)

\* A call that is done passes, and has brought its default values.  If it has a
\* handler of its own, that knows whether the call holds.
LEMMA FailedMeans ==
  ASSUME Running, Top.todo = <<>>
  PROVE  /\ Passes(Holds, Top) /\ Remains(Holds, Brought, Top) = {}
         /\ Top.via # "plain" => (Failed <=> ~CallHolds(Holds, Top))
         /\ WellPlaced(validator) => Range(Top.was) \cup Brings(Brought, Top) = Range(patch)
<1> DEFINE n == Len(stack)
<1>1. /\ n \in Nat \ {0} /\ Top = stack[n] /\ (Pend(Holds, stack, n) <=> Passes(Holds, Top))
      /\ Top.count \in Nat
      /\ WellPlaced(validator) =>
           Range(Top.was) \cup Brings(Brought, Top) = Range(patch) \cup Remains(Holds, Brought, Top)
  BY TopMeans
<1>2. Passes(Holds, Top) /\ Remains(Holds, Brought, Top) = {}
  BY <1>1, NothingLeft
<1>3. ASSUME Top.via # "plain" PROVE Failed <=> ~CallHolds(Holds, Top)
  <2>1. n # 1
    BY <1>3, TopCall DEF Running
  <2>2. Judged(Holds, stack, errors) /\ n \in 1..n /\ IsHead(stack, n)
    BY <1>1, <1>3 DEF Running, Runs, IsHead
  <2>3. CallHolds(Holds, stack[n]) <=>
          /\ Told(stack, errors, n) = <<>>
          /\ \A k \in n..n : Under(stack, n, k) => Pend(Holds, stack, k)
    BY <2>2 DEF Judged
  <2>4. \A k \in n..n : k = n
    BY <1>1
  <2> QED BY <1>1, <1>2, <2>1, <2>3, <2>4 DEF Told, Failed
<1> QED
  BY <1>1, <1>2, <1>3

\* The call c of f has returned, and f is g when it goes on.
Advances(D, f, c, g) ==
  /\ Shaped(g) /\ Alike(f, g) /\ f.errs = g.errs
  /\ Passes(Holds, g) <=> IF c.via = "plain" THEN Passes(Holds, f) ELSE Continues(Holds, f, c)
  /\ WellPlaced(validator) => Remains(Holds, D, g) = RemainsAfter(Holds, D, f, c)

\* The same, when the call returns: a is the stack without it.
LEMMA JudgedReturn ==
  ASSUME NEW H, NEW a, NEW b, NEW e, NEW n, Parallel(a, b, n), Len(a) = n, Len(b) = n + 1,
         SameTold(a, e, b, e, n), NEW t, t = b[n + 1],
         Pend(H, a, n) <=> Pend(H, b, n) /\ (t.via = "plain" => Pend(H, b, n + 1)),
         Judged(H, b, e)
  PROVE  Judged(H, a, e)
  BY JudgedCall
\* And the default values.
LEMMA GatheredReturn ==
  ASSUME NEW H, NEW D, NEW a, NEW oa, NEW b, NEW ob, NEW n, Parallel(a, b, n), Len(a) = n, Len(b) = n + 1,
         NEW t, t = b[n + 1],
         Range(oa) \cup Remains(H, D, a[n]) =
           Range(t.was) \cup Yields(H, D, t) \cup RemainsAfter(H, D, b[n], t),
         Gathered(H, D, b, ob)
  PROVE  Gathered(H, D, a, oa)
  BY GatheredCall

\* The stack after the return of a call.
LEMMA ReturnMeans ==
  ASSUME Running, Top.todo = <<>>, NEW calls, Len(calls) = Len(stack) - 1, Len(stack) # 1,
         \A k \in 1..(Len(stack) - 2) : calls[k] = stack[k],
         Advances(Brought, Caller, Top, calls[Len(stack) - 1]),
         NEW ops, ops = IF Top.via = "case" /\ Failed THEN Top.was ELSE patch
  PROVE  Runs(calls, errors, ops)
<1> DEFINE n == Len(stack)
           m == n - 1
           f == calls[m]
<1>1. /\ n \in Nat \ {0} /\ Top = stack[n] /\ (Pend(Holds, stack, n) <=> Passes(Holds, Top))
      /\ Runs(stack, errors, patch)
  BY TopMeans DEF Running
<1>2. /\ Passes(Holds, Top)
      /\ Top.via # "plain" => (Failed <=> ~CallHolds(Holds, Top))
      /\ WellPlaced(validator) => Range(Top.was) \cup Brings(Brought, Top) = Range(patch)
  BY FailedMeans
<1>3. /\ m \in Nat \ {0} /\ n = m + 1 /\ m < n /\ m - 1 = n - 2 /\ Caller = stack[m]
      /\ Len(stack) = m + 1 /\ Len(calls) = m
  BY <1>1 DEF Caller
<1>4. /\ Shaped(f) /\ Alike(Caller, f) /\ Caller.errs = f.errs
      /\ Passes(Holds, f) <=> IF Top.via = "plain" THEN Passes(Holds, Caller) ELSE Continues(Holds, Caller, Top)
      /\ WellPlaced(validator) => Remains(Holds, Brought, f) = RemainsAfter(Holds, Brought, Caller, Top)
  BY DEF Advances
<1> HIDE DEF f, m, n
<1>5. /\ Parallel(stack, calls, m)
      /\ Parallel(calls, stack, m) /\ SameTold(calls, errors, stack, errors, m)
  <2>1. \A k \in 1..(m - 1) : calls[k] = stack[k]
    BY <1>3 DEF n
  <2>2. Alike(stack[m], calls[m]) /\ Alike(calls[m], stack[m]) /\ stack[m].errs = calls[m].errs
    BY <1>3, <1>4 DEF f, Alike, SameCall
  <2>3. m <= Len(stack) /\ m <= Len(calls) /\ Len(stack) \in Nat /\ Len(calls) \in Nat
    BY <1>3
  <2>4. Parallel(stack, calls, m)
    BY <1>3, <2>1, <2>2, <2>3, ParallelOf
  <2>5. Parallel(calls, stack, m) /\ \A e : SameTold(calls, e, stack, e, m)
    BY <1>3, <2>1, <2>2, <2>3, ParallelOf
  <2> QED BY <2>4, <2>5
<1>6. Shapes(calls)
  <2>1. Shapes(stack) /\ Shaped(calls[m]) /\ Len(calls) # m + 1
    BY <1>1, <1>3, <1>4 DEF Runs, f
  <2> QED BY <1>3, <1>5, <2>1, ShapesStep
<1>7. /\ stack[m + 1] = Top
      /\ Pend(Holds, calls, m) <=> Passes(Holds, f)
      /\ Pend(Holds, stack, m) <=> IF Top.via = "plain" THEN Passes(Holds, Caller) ELSE Continues(Holds, Caller, Top)
      /\ Pend(Holds, stack, m + 1)
  BY <1>1, <1>2, <1>3 DEF Pend, f
<1>8. Judged(Holds, calls, errors)
  <2> DEFINE H == Holds
             e == errors
             b == stack
             t == b[m + 1]
  <2>1. Pend(H, calls, m) <=> Pend(H, b, m) /\ (t.via = "plain" => Pend(H, b, m + 1))
    BY <1>4, <1>7
  <2>2. /\ Parallel(calls, b, m) /\ Len(b) = m + 1 /\ SameTold(calls, e, b, e, m) /\ Judged(H, b, e)
    BY <1>1, <1>3, <1>5 DEF Runs
  <2> HIDE DEF H, e, b
  <2>3. Judged(H, calls, e)
    BY <1>3, <2>1, <2>2, JudgedReturn
  <2> QED BY <2>3 DEF H, e
<1>9. ASSUME WellPlaced(validator) PROVE Gathered(Holds, Brought, calls, ops)
  <2> DEFINE H == Holds
             D == Brought
             W == Range(Top.was)
             Y == Yields(H, D, Top)
             B == Brings(D, Top)
  <2>1. Range(ops) = W \cup Y
    <3>1. Y = IF Top.via = "case" /\ ~CallHolds(H, Top) THEN {} ELSE B
      BY DEF Yields
    <3>2. W \cup B = Range(patch)
      BY <1>2, <1>9
    <3>3. Range(ops) = IF Top.via = "case" /\ Failed THEN W ELSE Range(patch)
      OBVIOUS
    <3> HIDE DEF W, Y, B
    <3> QED BY <1>2, <3>1, <3>2, <3>3 DEF H
  <2>2. Remains(H, D, calls[m]) = RemainsAfter(H, D, Caller, Top)
    BY <1>4, <1>9 DEF f
  <2>3. Gathered(H, D, stack, patch)
    BY <1>1, <1>9 DEF Runs
  <2> DEFINE A == RemainsAfter(H, D, Caller, Top)
             R == Remains(H, D, calls[m])
             b == stack
             t == b[m + 1]
  <2>4. Range(ops) \cup R = W \cup Y \cup A
    <3>1. R = A
      BY <2>2
    <3> HIDE DEF W, Y, A, R
    <3> QED BY <2>1, <3>1
  <2>5. W = Range(t.was) /\ Y = Yields(H, D, t) /\ A = RemainsAfter(H, D, b[m], t)
    BY <1>3, <1>7
  <2> HIDE DEF W, Y, A
  <2>6. Range(ops) \cup Remains(H, D, calls[m]) =
          Range(t.was) \cup Yields(H, D, t) \cup RemainsAfter(H, D, b[m], t)
    <3> HIDE DEF H, D, b
    <3> QED BY <2>4, <2>5
  <2>7. Parallel(calls, b, m) /\ Len(b) = m + 1 /\ Gathered(H, D, b, patch)
    BY <1>3, <1>5, <2>3
  <2> HIDE DEF H, D, b
  <2>8. Gathered(H, D, calls, ops)
    BY <1>3, <2>6, <2>7, GatheredReturn
  <2> QED BY <2>8 DEF H, D
<1> QED
  BY <1>6, <1>8, <1>9 DEF Runs
-----------------------------------------------------------------------------

\* The call that waits for the top call.
LEMMA CallerMeans ==
  ASSUME Running, Len(stack) # 1
  PROVE  /\ Len(stack) - 1 \in Nat \ {0} /\ Caller = stack[Len(stack) - 1]
         /\ FrameOK(Caller, validator, instance) /\ Fields \subseteq DOMAIN Caller
         /\ Shaped(Caller) /\ Encloses(Caller, Top) /\ Sequence(Caller.todo) /\ Caller.count \in Nat
         /\ \A k \in 1..(Len(stack) - 1) : Suspended[k] = stack[k]
         /\ Len(Suspended) = Len(stack) - 1 /\ Sequence(Suspended)
<1> DEFINE n == Len(stack)
           m == n - 1
<1>1. n \in Nat \ {0} /\ Top = stack[n] /\ Shapes(stack) /\ CallsOK(stack, validator, instance) /\ stack # <<>>
  BY TopMeans DEF Running, Runs, TInv, IInv
<1>2. m \in Nat \ {0} /\ Caller = stack[m] /\ m \in 1..n /\ n \in 2..n
  BY <1>1 DEF Caller
<1>3. /\ CallsOK(Suspended, validator, instance) /\ Len(Suspended) = m
      /\ \A k \in 1..m : Suspended[k] = stack[k]
  BY <1>1, PopCall DEF Suspended
<1> HIDE DEF m
<1>4. FrameOK(Caller, validator, instance) /\ Shaped(Caller)
  BY <1>1, <1>2 DEF CallsOK, Shapes
<1>5. Encloses(Caller, Top)
  <2>1. Encloses(stack[n - 1], stack[n])
    BY <1>1, <1>2 DEF Shapes
  <2> QED BY <1>1, <1>2, <2>1 DEF m
<1>6. Fields \subseteq DOMAIN Caller /\ Sequence(Caller.todo) /\ Caller.count \in Nat
  BY <1>4 DEF FrameOK, TasksOK
<1>7. Sequence(Suspended)
  BY <1>3 DEF CallsOK
<1> QED
  BY <1>2, <1>3, <1>4, <1>5, <1>6, <1>7 DEF m

\* A call returns to the user.
LEMMA ReturnLast ==
  ASSUME Running, Returns("plain"), Len(stack) = 1
  PROVE  /\ errors = <<>> <=> Meant
         /\ WellPlaced(validator) =>
              Range(patch) = IF Entry = <<>> THEN {} ELSE DefaultsOf[<<Entry[1], <<>>, instance>>]
<1>1. Top.todo = <<>> /\ Top = stack[1]
  BY TopMeans DEF Returns
<1>2. /\ Pend(Holds, stack, 1)
      /\ WellPlaced(validator) => Range(Top.was) \cup Brings(Brought, Top) = Range(patch)
  BY <1>1, TopMeans, FailedMeans
<1>3. CallHolds(Holds, stack[1]) <=> errors = <<>>
  <2>1. Judged(Holds, stack, errors) /\ 1 \in 1..Len(stack) /\ IsHead(stack, 1)
    BY DEF Running, Runs, IsHead
  <2>2. CallHolds(Holds, stack[1]) <=>
          /\ Told(stack, errors, 1) = <<>>
          /\ \A k \in 1..Len(stack) : Under(stack, 1, k) => Pend(Holds, stack, k)
    BY <2>1 DEF Judged
  <2>3. \A k \in 1..Len(stack) : k = 1
    OBVIOUS
  <2> QED BY <1>2, <2>2, <2>3 DEF Told
<1>4. /\ CallHolds(Holds, stack[1]) <=> Meant
      /\ stack[1].was = <<>>
      /\ Brings(Brought, stack[1]) = IF Entry = <<>> THEN {} ELSE DefaultsOf[<<Entry[1], <<>>, instance>>]
  BY RootMeans
<1>5. Range(<<>>) = {}
  BY DEF Range
<1> QED
  BY <1>1, <1>2, <1>3, <1>4, <1>5

\* A call returns, and its outcome does not matter.
LEMMA ReturnPlainMeans ==
  ASSUME Running, ReturnPlain, Len(stack) # 1 PROVE Runs(stack', errors', patch')
<1> DEFINE n == Len(stack)
<1>1. Top.todo = <<>> /\ Top.via = "plain" /\ stack' = Suspended /\ errors' = errors /\ patch' = patch
  BY DEF ReturnPlain, Returns
<1>2. /\ Len(Suspended) = n - 1 /\ \A k \in 1..(n - 1) : Suspended[k] = stack[k]
      /\ Caller = stack[n - 1] /\ Shaped(Caller) /\ n - 1 \in Nat \ {0} /\ n \in Nat
  BY CallerMeans
<1>3. Suspended[n - 1] = Caller /\ \A k \in 1..(n - 2) : Suspended[k] = stack[k]
  BY <1>2
<1>4. Advances(Brought, Caller, Top, Caller)
  <2>1. Alike(Caller, Caller)
    BY DEF Alike, SameCall
  <2>2. Remains(Holds, Brought, Caller) = RemainsAfter(Holds, Brought, Caller, Top)
    BY <1>1 DEF RemainsAfter, Found, Led
  <2> QED BY <1>1, <1>2, <2>1, <2>2 DEF Advances
<1>5. Runs(Suspended, errors, patch)
  BY <1>1, <1>2, <1>3, <1>4, ReturnMeans
<1> QED
  BY <1>1, <1>5

\* The caller goes on, as the outcome of the top call demands.
LEMMA ResumeMeans ==
  ASSUME Running, Top.todo = <<>>, Top.via # "plain", NEW f, Resume(f),
         Advances(Brought, Caller, Top, f),
         patch' = IF Top.via = "case" /\ Failed THEN Top.was ELSE patch
  PROVE  Runs(stack', errors', patch')
<1> DEFINE n == Len(stack)
           m == n - 1
           s == [Suspended EXCEPT ![m] = f]
           ops == IF Top.via = "case" /\ Failed THEN Top.was ELSE patch
<1>1. n # 1
  BY TopCall DEF Running
<1>2. /\ m \in Nat \ {0} /\ Len(Suspended) = m /\ Sequence(Suspended)
      /\ \A k \in 1..m : Suspended[k] = stack[k]
  BY <1>1, CallerMeans
<1>3. stack' = s /\ errors' = errors /\ patch' = ops
  BY DEF Resume
<1>4. Len(s) = m /\ \A k \in 1..m : s[k] = IF k = m THEN f ELSE Suspended[k]
  <2> DEFINE S == Range(Suspended) \cup {f}
  <2>1. Suspended \in Seq(S) /\ f \in S /\ m \in 1..m
    BY <1>2 DEF Sequence
  <2> HIDE DEF S, m
  <2> QED BY <1>2, <2>1, ExceptSeq
<1> HIDE DEF s, ops
<1>5. s[m] = f /\ n - 2 = m - 1
  BY <1>2, <1>4
<1>6. \A k \in 1..(n - 2) : s[k] = stack[k]
  BY <1>2, <1>4, <1>5
<1>7. Runs(s, errors, ops)
  BY <1>1, <1>4, <1>5, <1>6, ReturnMeans DEF ops
<1> QED
  BY <1>3, <1>7

\* The caller gets more to do.
LEMMA PrependAdvances ==
  ASSUME Running, Top.todo = <<>>, Top.via \notin {"plain", "case", "contains"}, NEW tasks,
         Prepend(tasks), UNCHANGED patch, Steady(tasks),
         Good(Caller, tasks) <=> Suits(Holds, Caller, Top),
         Total(Caller, tasks) = Led(Holds, Brought, Caller, Top)
  PROVE  Runs(stack', errors', patch')
<1> DEFINE x == tasks \o Caller.todo
           g == [Caller EXCEPT !.todo = x]
           R == Remains(Holds, Brought, Caller)
           L == Led(Holds, Brought, Caller, Top)
<1>1. Len(stack) # 1
  BY TopCall DEF Running
<1>2. /\ Fields \subseteq DOMAIN Caller /\ Shaped(Caller) /\ Encloses(Caller, Top) /\ Sequence(Caller.todo)
  BY <1>1, CallerMeans
<1>3. ~Combination(Caller)
  BY <1>2 DEF Encloses
<1>4. Alike(Caller, g) /\ g.todo = x /\ g.errs = Caller.errs
  <2> DEFINE f == Caller
  <2>1. Fields \subseteq DOMAIN f /\ g = [f EXCEPT !.todo = x]
    BY <1>2
  <2> HIDE DEF f, x, g
  <2>2. Alike(f, g) /\ g.todo = x /\ g.errs = f.errs
    BY <2>1, EditFields
  <2> QED BY <2>2 DEF f
<1>5. Resume(g)
  BY DEF Prepend
<1> HIDE DEF g
<1>6. /\ Shaped(g) /\ (Passes(Holds, g) <=> Good(Caller, tasks) /\ Passes(Holds, Caller))
      /\ Remains(Holds, Brought, g) = Total(Caller, tasks) \cup Remains(Holds, Brought, Caller)
  <2> DEFINE f == Caller
  <2>1. Shaped(f) /\ ~Combination(f) /\ Sequence(f.todo) /\ Alike(f, g) /\ g.todo = tasks \o f.todo
    BY <1>2, <1>3, <1>4
  <2> HIDE DEF f
  <2>2. /\ Shaped(g) /\ (Passes(Holds, g) <=> Good(f, tasks) /\ Passes(Holds, f))
        /\ Remains(Holds, Brought, g) = Total(f, tasks) \cup Remains(Holds, Brought, f)
    BY <2>1, PrependMeans
  <2> QED BY <2>2 DEF f
<1>7. /\ Continues(Holds, Caller, Top) <=> Suits(Holds, Caller, Top) /\ Passes(Holds, Caller)
      /\ RemainsAfter(Holds, Brought, Caller, Top) = L \cup R
  BY DEF Continues, RemainsAfter, Found
<1>8. Advances(Brought, Caller, Top, g)
  <2>1. Remains(Holds, Brought, g) = RemainsAfter(Holds, Brought, Caller, Top)
    BY <1>6, <1>7
  <2> QED BY <1>4, <1>6, <1>7, <2>1 DEF Advances
<1> QED
  BY <1>5, <1>8, ResumeMeans

\* The schema under "not" returns.
LEMMA ReturnNotMeans == ASSUME Running, ReturnNot PROVE Runs(stack', errors', patch')
<1> DEFINE tasks == Reject(~Failed, Top.ptr)
<1>1. Top.todo = <<>> /\ Top.via = "not" /\ Prepend(tasks) /\ UNCHANGED patch
  BY DEF ReturnNot, Returns
<1>2. Failed <=> ~CallHolds(Holds, Top)
  BY <1>1, FailedMeans
<1>3. Steady(tasks) /\ (Good(Caller, tasks) <=> ~(~Failed)) /\ Total(Caller, tasks) = {}
  BY RejectMeans
<1> HIDE DEF tasks
<1>4. /\ Good(Caller, tasks) <=> Suits(Holds, Caller, Top)
      /\ Total(Caller, tasks) = Led(Holds, Brought, Caller, Top)
  BY <1>1, <1>2, <1>3 DEF Suits, Led
<1> QED
  BY <1>1, <1>3, <1>4, PrependAdvances

\* The schema of an additional property returns.
LEMMA ReturnPropertyMeans == ASSUME Running, ReturnProperty PROVE Runs(stack', errors', patch')
<1> DEFINE tasks == Reject(Failed, Caller.ptr)
<1>1. Top.todo = <<>> /\ Top.via = "property" /\ Prepend(tasks) /\ UNCHANGED patch
  BY DEF ReturnProperty, Returns
<1>2. Failed <=> ~CallHolds(Holds, Top)
  BY <1>1, FailedMeans
<1>3. Steady(tasks) /\ (Good(Caller, tasks) <=> ~Failed) /\ Total(Caller, tasks) = {}
  BY RejectMeans
<1> HIDE DEF tasks
<1>4. /\ Good(Caller, tasks) <=> Suits(Holds, Caller, Top)
      /\ Total(Caller, tasks) = Led(Holds, Brought, Caller, Top)
  BY <1>1, <1>2, <1>3 DEF Suits, Led
<1> QED
  BY <1>1, <1>3, <1>4, PrependAdvances

\* The condition returns: "then" or "else" is next.
LEMMA ReturnIfMeans == ASSUME Running, ReturnIf PROVE Runs(stack', errors', patch')
<1> DEFINE i == Caller.subs[1]
           s == graph[i]
           j == IF Failed THEN s.else ELSE s.then
           ptr == Top.ptr
           inst == Top.inst
           subs == Caller.subs
           tasks == IfPresent(j, "plain", ptr, inst)
           role == Branching(Holds, Top)
<1>1. Top.todo = <<>> /\ Top.via = "if" /\ Prepend(tasks) /\ UNCHANGED patch
  BY DEF ReturnIf, Returns
<1>2. (Failed <=> ~CallHolds(Holds, Top)) /\ validator \in Corpus
  BY <1>1, FailedMeans DEF Running, TInv
<1>3. /\ FrameOK(Caller, validator, instance) /\ FrameOK(Top, validator, instance)
      /\ Within(Top, Caller) /\ Shaped(Top)
  BY <1>1, TopCall, TopMeans DEF Running
<1>4. subs \in Seq(DOMAIN graph) /\ i \in DOMAIN graph /\ ptr \in Seq(Token) /\ inst \in Parts
  <2>1. subs \in Seq(DOMAIN graph) /\ Len(subs) = 1
    BY <1>3 DEF FrameOK, CallOK, IsCall, Within, graph
  <2>2. ptr \in Seq(Token) /\ inst \in Parts
    BY <1>3 DEF FrameOK, CallOK, IsCall, Shaped
  <2>3. i \in DOMAIN graph
    BY <2>1, OfLengthOne
  <2> QED BY <2>1, <2>2, <2>3
<1>5. {s.then, s.else} \subseteq DOMAIN graph \cup {0} /\ 0 \notin DOMAIN graph
  BY <1>2, <1>4, SchemaObjects DEF IsSchema
<1> HIDE DEF subs, i, ptr, inst
<1>6. role = IF Failed THEN "else" ELSE "then"
  BY <1>2 DEF Branching
<1>7. /\ Leads(Holds, Caller, Top) <=> (j # 0 => Valid[<<j, inst>>])
      /\ Led(Holds, Brought, Caller, Top) = IF j = 0 THEN {} ELSE DefaultsOf[<<j, ptr, inst>>]
  <2>1. role \in AllRoles
    BY <1>6 DEF AllRoles
  <2> HIDE DEF role
  <2>2. /\ <<role, subs, inst>> \in Holds <=> RoleHolds(role, subs, inst)
        /\ Brought[<<role, subs, ptr, inst>>] = RoleBrings(role, subs, ptr, inst)
    BY <1>4, <2>1, CallMeaning
  <2>3. /\ RoleHolds("then", subs, inst) <=> (s.then # 0 => Valid[<<s.then, inst>>])
        /\ RoleHolds("else", subs, inst) <=> (s.else # 0 => Valid[<<s.else, inst>>])
        /\ RoleBrings("then", subs, ptr, inst) = IF s.then = 0 THEN {} ELSE DefaultsOf[<<s.then, ptr, inst>>]
        /\ RoleBrings("else", subs, ptr, inst) = IF s.else = 0 THEN {} ELSE DefaultsOf[<<s.else, ptr, inst>>]
    BY RoleHoldsCases, BranchBrings DEF i, subs
  <2>4. /\ RoleHolds(role, subs, inst) <=> (j # 0 => Valid[<<j, inst>>])
        /\ RoleBrings(role, subs, ptr, inst) = IF j = 0 THEN {} ELSE DefaultsOf[<<j, ptr, inst>>]
    BY <1>6, <2>3
  <2>5. /\ Leads(Holds, Caller, Top) <=> <<role, subs, inst>> \in Holds
        /\ Led(Holds, Brought, Caller, Top) = Brought[<<role, subs, ptr, inst>>]
    BY <1>1 DEF Leads, Led, role, subs, ptr, inst
  <2> HIDE DEF j
  <2> QED BY <2>2, <2>4, <2>5
<1>8. j \in DOMAIN graph \cup {0}
  BY <1>5
<1> HIDE DEF j
<1>9. Asks(Caller, tasks, {j} \ {0}, ptr, inst)
  BY <1>4, <1>5, <1>8, IfPresentMeans
<1> HIDE DEF tasks
<1>10. /\ Steady(tasks) /\ (Good(Caller, tasks) <=> (j # 0 => Valid[<<j, inst>>]))
       /\ Total(Caller, tasks) = IF j = 0 THEN {} ELSE DefaultsOf[<<j, ptr, inst>>]
  <2> DEFINE V(k) == Valid[<<k, inst>>]
             D(k) == DefaultsOf[<<k, ptr, inst>>]
  <2>1. /\ Steady(tasks) /\ (Good(Caller, tasks) <=> \A k \in {j} \ {0} : V(k))
        /\ Total(Caller, tasks) = UNION {D(k) : k \in {j} \ {0}}
    BY <1>9 DEF Asks
  <2> HIDE DEF V, D
  <2>2. UNION {D(k) : k \in {j} \ {0}} = IF j = 0 THEN {} ELSE D(j)
    OBVIOUS
  <2>3. (\A k \in {j} \ {0} : V(k)) <=> (j # 0 => V(j))
    OBVIOUS
  <2> QED BY <2>1, <2>2, <2>3 DEF V, D
<1>11. /\ Good(Caller, tasks) <=> Suits(Holds, Caller, Top)
       /\ Total(Caller, tasks) = Led(Holds, Brought, Caller, Top)
  BY <1>1, <1>7, <1>10 DEF Suits
<1> QED
  BY <1>1, <1>10, <1>11, PrependAdvances
-----------------------------------------------------------------------------

\* The schema under "contains" returns.
LEMMA ReturnContainsMeans == ASSUME Running, ReturnContains PROVE Runs(stack', errors', patch')
<1> DEFINE h == [Caller EXCEPT !.todo = <<>>]
           g == IF Failed THEN Caller ELSE h
           R == Remains(Holds, Brought, Caller)
<1>1. Top.todo = <<>> /\ Top.via = "contains" /\ Resume(g) /\ UNCHANGED patch
  BY DEF ReturnContains, Returns
<1>2. Failed <=> ~CallHolds(Holds, Top)
  BY <1>1, FailedMeans
<1>3. /\ Fields \subseteq DOMAIN Caller /\ Shaped(Caller) /\ Encloses(Caller, Top) /\ Caller.count \in Nat
  <2>1. Len(stack) # 1
    BY <1>1, TopCall DEF Running
  <2> QED BY <2>1, CallerMeans
<1>4. ~Combination(Caller)
  BY <1>1, <1>3 DEF Encloses
<1>5. /\ Continues(Holds, Caller, Top) <=> ~Failed \/ Passes(Holds, Caller)
      /\ RemainsAfter(Holds, Brought, Caller, Top) = IF Failed THEN R ELSE {}
  BY <1>1, <1>2 DEF Continues, RemainsAfter, Found, Suits, Led
<1>6. Alike(Caller, h) /\ h.todo = <<>> /\ h.errs = Caller.errs /\ h.count = Caller.count
  <2> DEFINE f == Caller
             x == <<>>
  <2>1. Fields \subseteq DOMAIN f /\ h = [f EXCEPT !.todo = x]
    BY <1>3
  <2> HIDE DEF f, x, h
  <2>2. Alike(f, h) /\ h.todo = x /\ h.errs = f.errs /\ h.count = f.count
    BY <2>1, EditFields
  <2> QED BY <2>2 DEF f, x
<1> HIDE DEF h
<1>7. Shaped(h) /\ Passes(Holds, h) /\ Remains(Holds, Brought, h) = {}
  <2>1. Passes(Holds, h) /\ Remains(Holds, Brought, h) = {}
    BY <1>3, <1>6, NothingLeft
  <2>2. ~Combination(h) /\ h.inst \in Parts
    BY <1>3, <1>4, <1>6 DEF Alike, SameCall, Combination, Shaped
  <2>3. Len(<<>>) = 0
    OBVIOUS
  <2>4. \A i \in 1..Len(h.todo) : Orderly(h.todo[i])
    BY <1>6, <2>3
  <2> QED BY <2>1, <2>2, <2>4 DEF Shaped
<1>8. Advances(Brought, Caller, Top, g)
  <2>1. CASE Failed
    <3>1. g = Caller /\ Alike(Caller, Caller)
      BY <2>1 DEF Alike, SameCall
    <3> HIDE DEF g
    <3> QED BY <1>1, <1>3, <1>5, <2>1, <3>1 DEF Advances
  <2>2. CASE ~Failed
    <3>1. g = h
      BY <2>2
    <3> HIDE DEF g
    <3> QED BY <1>1, <1>5, <1>6, <1>7, <2>2, <3>1 DEF Advances
  <2> QED BY <2>1, <2>2
<1> HIDE DEF g
<1> QED
  BY <1>1, <1>8, ResumeMeans
-----------------------------------------------------------------------------
(***************************************************************************)
(* A case returns: f is the combination before, g after, c is the case.    *)
(***************************************************************************)
Waits(f, c) ==
  /\ Shaped(f) /\ Combination(f) /\ Counting(f) /\ f.count \in Nat /\ Sequence(f.todo)
  /\ c.via = "case"
\* The count after the case.
Tally(f, c) == IF CallHolds(Holds, c) THEN f.count + 1 ELSE f.count
Tallied(f, c, g) == Alike(f, g) /\ f.errs = g.errs /\ g.count = Tally(f, c)

\* The tasks of such a combination.
LEMMA WaitsMeans ==
  ASSUME NEW f, NEW c, Waits(f, c)
  PROVE  /\ f.todo # <<>> /\ \A i \in 1..Len(f.todo) : f.todo[i].do # "errors"
         /\ f.role = "anyOf" => f.count = 0
         /\ f.role = "oneOf" => f.count <= 1
         /\ f.role \in Combined /\ f.inst \in Parts
<1> DEFINE s == f.todo
<1>1. /\ s # <<>> /\ s[Len(s)].do = "count" /\ \A i \in 1..(Len(s) - 1) : Case(s[i])
      /\ f.role = "anyOf" => f.count = 0
      /\ f.role = "oneOf" => f.count <= 1
      /\ f.role \in Combined /\ f.inst \in Parts /\ Sequence(s)
  BY DEF Waits, Counting, Combination, Shaped
<1> HIDE DEF s
<1>2. Len(s) \in Nat
  BY <1>1, Elements
<1>3. \A i \in 1..Len(s) : i = Len(s) \/ i \in 1..(Len(s) - 1)
  BY <1>2
<1>4. \A i \in 1..Len(s) : s[i].do # "errors"
  BY <1>1, <1>3 DEF Case
<1> QED
  BY <1>1, <1>4 DEF s

\* The combination ends with an error: a case of allOf fails, a second one of
\* oneOf holds.
LEMMA CaseRejects ==
  ASSUME NEW D, NEW f, NEW c, NEW g, Waits(f, c), Tallied(f, c, g),
         (f.role = "allOf" /\ ~CallHolds(Holds, c)) \/ (f.role = "oneOf" /\ Tally(f, c) > 1),
         NEW paths, g.todo = <<Errors(paths)>>
  PROVE  Advances(D, f, c, g)
<1> DEFINE s == g.todo
           count == g.count
<1>1. /\ f.role \in Combined /\ f.inst \in Parts /\ f.todo # <<>> /\ (f.role = "oneOf" => f.count <= 1)
      /\ c.via = "case" /\ f.count \in Nat
  BY WaitsMeans DEF Waits
<1>2. /\ Alike(f, g) /\ f.errs = g.errs /\ g.role = f.role /\ g.inst = f.inst
      /\ count = Tally(f, c) /\ count \in Nat
  BY <1>1 DEF Tallied, Alike, SameCall, Tally
<1>3. Len(s) = 1 /\ s[1].do = "errors"
  BY DEF Errors
<1> HIDE DEF s, count
<1>4. ~Decides(Holds, f.role, count, s) /\ LeftCases(Holds, D, f.role, count, s) = {}
  <2> DEFINE role == f.role
             H == Holds
  <2>1. role \in Combined
    BY <1>1
  <2> HIDE DEF role, H
  <2>2. ~Decides(H, role, count, s) /\ LeftCases(H, D, role, count, s) = {}
    BY <1>2, <1>3, <2>1, CombinationEnds
  <2> QED BY <2>2 DEF role, H
<1>5. Combination(g) /\ Shaped(g)
  <2>1. Combination(g)
    BY <1>1, <1>2 DEF Combination
  <2> QED BY <1>1, <1>2, <1>3, <2>1 DEF Shaped, s
<1>6. ~Passes(Holds, g) /\ Remains(Holds, D, g) = {}
  BY <1>2, <1>4, <1>5 DEF Passes, Remains, s, count
<1>7. ~Continues(Holds, f, c) /\ RemainsAfter(Holds, D, f, c) = {}
  <2>1. CASE f.role = "allOf" /\ ~CallHolds(Holds, c)
    BY <1>1, <2>1 DEF Continues, RemainsAfter
  <2>2. CASE f.role = "oneOf" /\ Tally(f, c) > 1
    <3> DEFINE n == f.count + 1
               t == f.todo
    <3>1. CallHolds(Holds, c) /\ n \in Nat /\ n > 1 /\ t # <<>>
      BY <1>1, <2>2 DEF Tally
    <3>2. /\ Continues(Holds, f, c) <=> Decides(Holds, "oneOf", n, t)
          /\ RemainsAfter(Holds, D, f, c) = LeftCases(Holds, D, "oneOf", n, t)
      BY <1>1, <2>2, <3>1 DEF Continues, RemainsAfter
    <3> HIDE DEF n, t
    <3>3. ~Decides(Holds, "oneOf", n, t) /\ LeftCases(Holds, D, "oneOf", n, t) = {}
      BY <3>1, CombinationStops
    <3> QED BY <3>2, <3>3
  <2> QED BY <2>1, <2>2
<1> QED
  BY <1>1, <1>2, <1>5, <1>6, <1>7 DEF Advances

\* The combination ends without an error: a case of anyOf holds.
LEMMA CaseAccepts ==
  ASSUME NEW D, NEW f, NEW c, NEW g, Waits(f, c), Tallied(f, c, g),
         f.role = "anyOf", CallHolds(Holds, c), g.todo = <<>>
  PROVE  Advances(D, f, c, g)
<1> DEFINE n == f.count + 1
           t == f.todo
<1>1. /\ f.inst \in Parts /\ t # <<>> /\ \A i \in 1..Len(t) : t[i].do # "errors"
      /\ c.via = "case" /\ f.count \in Nat /\ Combination(f)
  BY WaitsMeans DEF Waits
<1>2. /\ Alike(f, g) /\ f.errs = g.errs /\ g.role = f.role /\ g.inst = f.inst /\ g.count \in Nat
  BY <1>1 DEF Tallied, Alike, SameCall, Tally
<1>3. Passes(Holds, g) /\ Remains(Holds, D, g) = {}
  BY <1>2, NothingLeft
<1>4. Shaped(g)
  <2>1. Combination(g)
    BY <1>1, <1>2 DEF Combination
  <2> QED BY <1>1, <1>2, <2>1 DEF Shaped
<1>5. /\ Continues(Holds, f, c) <=> Decides(Holds, "anyOf", n, t)
      /\ RemainsAfter(Holds, D, f, c) = {}
  BY <1>1 DEF Continues, RemainsAfter
<1>6. Decides(Holds, "anyOf", n, t)
  <2>1. n \in Nat /\ n # 0
    BY <1>1
  <2> HIDE DEF n, t
  <2> QED BY <1>1, <2>1, CombinationStops
<1> QED
  BY <1>1, <1>2, <1>3, <1>4, <1>5, <1>6 DEF Advances

\* The combination goes on.
LEMMA CaseGoesOn ==
  ASSUME NEW D, NEW f, NEW c, NEW g, Waits(f, c), Tallied(f, c, g), g.todo = f.todo,
         ~(f.role = "allOf" /\ ~CallHolds(Holds, c)), ~(f.role = "anyOf" /\ CallHolds(Holds, c)),
         ~(f.role = "oneOf" /\ Tally(f, c) > 1)
  PROVE  Advances(D, f, c, g)
<1> DEFINE n == Tally(f, c)
           t == f.todo
<1>1. /\ f.inst \in Parts /\ f.count \in Nat /\ c.via = "case" /\ Combination(f) /\ Counting(f)
      /\ f.role = "anyOf" => f.count = 0
  BY WaitsMeans DEF Waits
<1>2. /\ Alike(f, g) /\ f.errs = g.errs /\ g.role = f.role /\ g.inst = f.inst /\ g.count = n /\ n \in Nat
  BY <1>1 DEF Tallied, Alike, SameCall, Tally
<1>3. Combination(g) /\ Counting(g)
  <2>1. f.role = "anyOf" => n = 0
    BY <1>1 DEF Tally
  <2>2. f.role = "oneOf" => n <= 1
    BY <1>2
  <2> HIDE DEF n
  <2> QED BY <1>1, <1>2, <2>1, <2>2 DEF Counting, Combination
<1>4. Shaped(g)
  BY <1>1, <1>2, <1>3 DEF Shaped
<1>5. /\ Passes(Holds, g) <=> Decides(Holds, f.role, n, t)
      /\ Remains(Holds, D, g) = LeftCases(Holds, D, f.role, n, t)
  BY <1>2, <1>3 DEF Passes, Remains
<1>6. /\ Continues(Holds, f, c) <=> Decides(Holds, f.role, n, t)
      /\ RemainsAfter(Holds, D, f, c) = LeftCases(Holds, D, f.role, n, t)
  <2>1. CASE CallHolds(Holds, c)
    <3>1. f.count + 1 = n
      BY <2>1 DEF Tally
    <3> QED BY <1>1, <2>1, <3>1 DEF Continues, RemainsAfter
  <2>2. CASE ~CallHolds(Holds, c)
    <3>1. f.count = n /\ f.role # "allOf"
      BY <2>2 DEF Tally
    <3> QED BY <1>1, <2>2, <3>1 DEF Continues, RemainsAfter
  <2> QED BY <2>1, <2>2
<1> QED
  BY <1>1, <1>2, <1>4, <1>5, <1>6 DEF Advances

\* A case of a combination returns.
LEMMA ReturnCaseMeans == ASSUME Running, ReturnCase PROVE Runs(stack', errors', patch')
<1> DEFINE count == IF Failed THEN Caller.count ELSE Caller.count + 1
           summary == Caller.summary \o Top.errs
           f == [Caller EXCEPT !.count = count, !.summary = summary]
           all == <<Head(Top.errs)>> \o Top.errs
           a == [f EXCEPT !.todo = <<Errors(all)>>]
           b == [f EXCEPT !.todo = <<>>]
           d == [f EXCEPT !.todo = Reject(TRUE, Top.ptr)]
           g == CASE f.role = "allOf" /\ Failed -> a
                  [] f.role = "anyOf" /\ count = 1 -> b
                  [] f.role = "oneOf" /\ count > 1 -> d
                  [] OTHER -> f
<1>1. /\ Top.todo = <<>> /\ Top.via = "case" /\ Resume(g) /\ (~Failed => patch' = patch)
  BY DEF ReturnCase, Returns
<1>2. (Failed <=> ~CallHolds(Holds, Top)) /\ (Failed => patch' = Top.was)
  BY <1>1, FailedMeans, CaseKeeps DEF Running
<1>3. Fields \subseteq DOMAIN Caller /\ Waits(Caller, Top)
  <2>1. Len(stack) # 1
    BY <1>1, TopCall DEF Running
  <2>2. /\ Fields \subseteq DOMAIN Caller /\ Shaped(Caller) /\ Encloses(Caller, Top) /\ Sequence(Caller.todo)
        /\ Caller.count \in Nat
    BY <2>1, CallerMeans
  <2> QED BY <1>1, <2>2 DEF Waits, Encloses
<1>4. count = Tally(Caller, Top)
  BY <1>2 DEF Tally
<1>5. Fields \subseteq DOMAIN f /\ Tallied(Caller, Top, f) /\ f.todo = Caller.todo
  <2> HIDE DEF summary
  <2>1. Alike(Caller, f) /\ f.errs = Caller.errs /\ f.count = count /\ f.todo = Caller.todo
    <3> HIDE DEF count
    <3> QED BY <1>3 DEF Alike, SameCall, Fields
  <2>2. DOMAIN f = DOMAIN Caller
    OBVIOUS
  <2> HIDE DEF f
  <2> QED BY <1>3, <1>4, <2>1, <2>2 DEF Tallied
<1> HIDE DEF f
<1>6. \A x : LET h == [f EXCEPT !.todo = x] IN Tallied(Caller, Top, h) /\ h.todo = x
  <2> SUFFICES ASSUME NEW x PROVE LET h == [f EXCEPT !.todo = x] IN Tallied(Caller, Top, h) /\ h.todo = x
    BY Zenon
  <2> DEFINE h == [f EXCEPT !.todo = x]
  <2>1. Alike(f, h) /\ h.todo = x /\ h.count = f.count /\ h.errs = f.errs
    BY <1>5, EditFields
  <2> HIDE DEF h
  <2>2. Tallied(Caller, Top, h)
    BY <1>5, <2>1 DEF Tallied, Alike, SameCall
  <2> QED BY <2>1, <2>2 DEF h
<1>7. f.role = Caller.role
  BY <1>5 DEF Tallied, Alike, SameCall
<1>8. Advances(Brought, Caller, Top, g)
  <2>1. CASE f.role = "allOf" /\ Failed
    <3>1. g = a /\ Tallied(Caller, Top, a) /\ a.todo = <<Errors(all)>>
      BY <1>6, <2>1
    <3> HIDE DEF a, all, g
    <3> QED BY <1>2, <1>3, <1>7, <2>1, <3>1, CaseRejects
  <2>2. CASE f.role = "anyOf" /\ count = 1
    <3>1. g = b /\ Tallied(Caller, Top, b) /\ b.todo = <<>>
      BY <1>6, <2>2
    <3>2. CallHolds(Holds, Top)
      <4>1. Caller.count = 0
        BY <1>3, <1>7, <2>2, WaitsMeans
      <4> QED BY <1>2, <2>2, <4>1
    <3> HIDE DEF b, g
    <3> QED BY <1>3, <1>7, <2>2, <3>1, <3>2, CaseAccepts
  <2>3. CASE f.role = "oneOf" /\ count > 1
    <3>1. g = d /\ Tallied(Caller, Top, d) /\ d.todo = Reject(TRUE, Top.ptr)
      BY <1>6, <2>3
    <3>2. Reject(TRUE, Top.ptr) = <<Errors(<<Top.ptr>>)>>
      BY DEF Reject
    <3> HIDE DEF d, g, count
    <3> QED BY <1>3, <1>4, <1>7, <2>3, <3>1, <3>2, CaseRejects
  <2>4. CASE ~(f.role = "allOf" /\ Failed) /\ ~(f.role = "anyOf" /\ count = 1) /\ ~(f.role = "oneOf" /\ count > 1)
    <3>1. g = f
      BY <2>4
    <3>2. ~(Caller.role = "anyOf" /\ CallHolds(Holds, Top))
      <4>1. Caller.role = "anyOf" => Caller.count = 0
        BY <1>3, WaitsMeans
      <4> QED BY <1>2, <1>7, <2>4, <4>1
    <3> HIDE DEF g, count
    <3> QED BY <1>2, <1>3, <1>4, <1>5, <1>7, <2>4, <3>1, <3>2, CaseGoesOn
  <2> QED BY <2>1, <2>2, <2>3, <2>4
<1> HIDE DEF g, count
<1>9. patch' = IF Top.via = "case" /\ Failed THEN Top.was ELSE patch
  BY <1>1, <1>2
<1> QED
  BY <1>1, <1>8, <1>9, ResumeMeans
-----------------------------------------------------------------------------
(***************************************************************************)
(* A validation begins.                                                    *)
(***************************************************************************)

\* The instance is one of its parts.
LEMMA WholePart == ASSUME IsDocument(instance) PROVE instance \in Parts
<1>1. IsTree(instance, Token, Node) /\ IsMapping(instance) /\ <<>> \in DOMAIN instance
  BY DocumentTree
<1>2. Subtree(instance, <<>>) = instance
  BY <1>1, SubtreeWhole, SMT
<1> QED
  BY <1>1, <1>2 DEF Parts

\* The outermost call starts with its whole agenda.
LEMMA ValidateMeans == ASSUME IInv, TInv, Meaningful, Validate PROVE Runs(stack', errors', patch')
<1> DEFINE f == [via |-> "plain", role |-> "root", subs |-> Entry, ptr |-> <<>>,
                 inst |-> instance, todo |-> Agenda("root", Entry, <<>>, instance),
                 errs |-> <<>>, count |-> 0, summary |-> <<>>, mark |-> 0, was |-> <<>>]
           s == <<f>>
<1>1. patch' = <<>> /\ errors' = <<>> /\ stack' = s /\ validator' = validator /\ instance' = instance
  BY DEF Validate, inputs
<1>2. /\ f.role = "root" /\ f.subs = Entry /\ f.inst = instance /\ f.ptr = <<>> /\ f.was = <<>>
      /\ Fresh(f)
  BY DEF Fresh
<1>3. Len(s) = 1 /\ s[1] = f
  OBVIOUS
<1> HIDE DEF f, s
<1>4. AgendaDone(f)
  <2>1. CallsOK(s, validator, instance)
    <3>1. TInv'
      BY ValidateOK
    <3>2. CallsOK(stack', validator', instance')
      BY <3>1 DEF TInv
    <3> QED BY <1>1, <3>2
  <2>2. CallOK(f, validator, instance)
    BY <1>3, <2>1 DEF CallsOK, FrameOK
  <2>3. f.inst \in Parts
    BY <1>2, WholePart DEF TInv
  <2> QED BY <1>2, <2>2, <2>3, AgendaMeans
<1>5. Shapes(s)
  BY <1>2, <1>3, <1>4 DEF Shapes, AgendaDone
<1>6. Pend(Holds, s, 1) <=> CallHolds(Holds, f)
  BY <1>3, <1>4 DEF Pend, AgendaDone
<1>7. Judged(Holds, s, <<>>)
  <2>1. \A h \in 1..Len(s) : h = 1
    BY <1>3
  <2>2. \A k \in 1..Len(s) : k = 1
    BY <1>3
  <2>3. 1 \in 1..Len(s) /\ Under(s, 1, 1)
    BY <1>3 DEF Under
  <2>4. CallHolds(Holds, s[1]) <=>
          /\ Told(s, <<>>, 1) = <<>>
          /\ \A k \in 1..Len(s) : Under(s, 1, k) => Pend(Holds, s, k)
    BY <1>3, <1>6, <2>2, <2>3 DEF Told
  <2> QED BY <2>1, <2>4 DEF Judged
<1>8. ASSUME WellPlaced(validator) PROVE Gathered(Holds, Brought, s, <<>>)
  <2>1. Remains(Holds, Brought, f) = Brings(Brought, f)
    BY <1>4, <1>8 DEF AgendaDone
  <2> QED BY <1>2, <1>3, <2>1 DEF Gathered
<1> QED
  BY <1>1, <1>5, <1>7, <1>8 DEF Runs
-----------------------------------------------------------------------------
(***************************************************************************)
(* Validator and instance stay as long as a validation runs, and with them *)
(* all that is meant.                                                      *)
(***************************************************************************)

\* The values that are validated, and the schema of the instance.
LEMMA SameParts == ASSUME validator' = validator, instance' = instance PROVE Parts' = Parts /\ Entry' = Entry
  BY DEF Parts, Entry

\* What is valid.
LEMMA SameValid == ASSUME validator' = validator, instance' = instance PROVE Valid' = Valid
  BY DEF Valid, graph, Parts, ValidSchema, ValidType, ValidObject, ValidArray, ValidLogic, ValidIf, Branch,
         Passing, Defaulted, DefaultOf, Holder, ValidText, ValidNumber

\* The default values.
LEMMA DefaultsStay ==
  ASSUME validator' = validator, instance' = instance PROVE DefaultsOf' = DefaultsOf
<1>1. Parts' = Parts /\ Valid' = Valid
  BY SameParts, SameValid
<1> QED
  BY <1>1 DEF DefaultsOf, InSchema, InObject, InArray, InLogic, InIf, graph, InItem, InItems, InMembers,
              OfAbsent, InDependencies, DefaultOf, Holder, Tried

\* What calls mean.
LEMMA SameCalls ==
  ASSUME validator' = validator, instance' = instance PROVE Holds' = Holds /\ Brought' = Brought
<1>1. Parts' = Parts /\ Valid' = Valid /\ DefaultsOf' = DefaultsOf
  BY SameParts, SameValid, DefaultsStay
<1>2. Holds' = Holds
  BY <1>1 DEF Holds, RoleHolds, graph, ValidObject, Defaulted, DefaultOf, Holder
<1>3. Brought' = Brought
  BY <1>1 DEF Brought, RoleBrings, graph, InObject, DefaultOf, OfAbsent, Holder
<1> QED
  BY <1>2, <1>3

\* The shape of the stack.
LEMMA SameShapes ==
  ASSUME validator' = validator, instance' = instance PROVE Shapes(stack)' <=> Shapes(stack')
<1>1. Parts' = Parts /\ Entry' = Entry
  BY SameParts
<1> QED
  BY <1>1 DEF Shapes, Shaped, Counting, Case, Orderly, Encloses, Combination

\* The default values that belong to the instance.
Belonging == IF Entry = <<>> THEN {} ELSE DefaultsOf[<<Entry[1], <<>>, instance>>]

\* The meaning.
LEMMA SameMeaning ==
  ASSUME validator' = validator, instance' = instance
  PROVE  /\ (Meaningful' <=> Meaningful) /\ (Meant' <=> Meant) /\ Belonging' = Belonging
         /\ WellPlaced(validator)' <=> WellPlaced(validator)
         /\ Runs(stack, errors, patch)' <=> Runs(stack', errors', patch')
<1>1. Entry' = Entry /\ Valid' = Valid /\ DefaultsOf' = DefaultsOf /\ Holds' = Holds /\ Brought' = Brought
  BY SameParts, SameValid, DefaultsStay, SameCalls
<1>2. Meaningful' <=> Meaningful
  BY DEF Meaningful, Undisputed, graph
<1>3. (Meant' <=> Meant) /\ Belonging' = Belonging
  BY <1>1 DEF Meant, Belonging
<1>4. WellPlaced(validator)' <=> WellPlaced(validator)
  OBVIOUS
<1>5. Judged(Holds, stack, errors)' <=> Judged(Holds, stack', errors')
  <2>1. Judged(Holds, stack, errors)' <=> Judged(Holds', stack', errors')
    OBVIOUS
  <2> QED BY <1>1, <2>1
<1>6. Gathered(Holds, Brought, stack, patch)' <=> Gathered(Holds, Brought, stack', patch')
  <2>1. Gathered(Holds, Brought, stack, patch)' <=> Gathered(Holds', Brought', stack', patch')
    OBVIOUS
  <2> QED BY <1>1, <2>1
<1>7. Runs(stack, errors, patch)' <=> Runs(stack', errors', patch')
  BY <1>4, <1>5, <1>6, SameShapes DEF Runs
<1> QED
  BY <1>2, <1>3, <1>4, <1>7
-----------------------------------------------------------------------------
(***************************************************************************)
(* The invariant, together with IInv and TInv.                             *)
(***************************************************************************)
Answers ==
  /\ pc = "validating" => Runs(stack, errors, patch)
  /\ pc = "returned" => (errors = <<>> <=> Meant) /\ (WellPlaced(validator) => Range(patch) = Belonging)
  /\ pc = "thrown" => ~Meant
MInv == Meaningful => Answers

\* It holds after a step that keeps validator and instance.
LEMMA AnswersNext ==
  ASSUME validator' = validator, instance' = instance,
         Meaningful =>
           /\ pc' = "validating" => Runs(stack', errors', patch')
           /\ pc' = "returned" =>
                (errors' = <<>> <=> Meant) /\ (WellPlaced(validator) => Range(patch') = Belonging)
           /\ pc' = "thrown" => ~Meant
  PROVE  MInv'
  BY SameMeaning DEF MInv, Answers

\* A step of the validation.
LEMMA StepMeans == ASSUME IInv, TInv, MInv, Meaningful, Validating PROVE MInv'
<1>1. pc = "validating" /\ validator' = validator /\ instance' = instance
  BY DEF Validating, ReportInside, ReportToUser, Throw, Raise, Satisfied, AddDefault, Enter,
         ReturnPlain, ReturnNot, ReturnProperty, ReturnContains, ReturnIf, ReturnCase,
         Reports, Steps, Returns, Resume, Prepend, inputs
<1>2. Running
  BY <1>1 DEF Running, MInv, Answers
<1>3. ASSUME pc' = pc, Runs(stack', errors', patch') PROVE MInv'
  BY <1>1, <1>3, AnswersNext
<1>4. CASE ReportInside
  BY <1>2, <1>3, <1>4, ReportInsideMeans DEF ReportInside
<1>5. CASE ReportToUser
  BY <1>2, <1>3, <1>5, ReportToUserMeans DEF ReportToUser
<1>6. CASE Throw
  <2>1. ~Meant /\ pc' = "thrown"
    BY <1>2, <1>6, ThrowMeans DEF Throw
  <2> QED BY <1>1, <2>1, AnswersNext
<1>7. CASE Raise
  BY <1>2, <1>7, RaiseNever
<1>8. CASE Satisfied
  BY <1>2, <1>3, <1>8, SatisfiedMeans DEF Satisfied
<1>9. CASE AddDefault
  BY <1>2, <1>3, <1>9, AddDefaultMeans DEF AddDefault
<1>10. CASE Enter
  BY <1>2, <1>3, <1>10, EnterMeans DEF Enter
<1>11. CASE ReturnPlain
  <2>1. Returns("plain") /\ pc' = (IF Len(stack) = 1 THEN "returned" ELSE pc) /\ patch' = patch /\ errors' = errors
    BY <1>11 DEF ReturnPlain
  <2>2. CASE Len(stack) = 1
    <3>1. (errors = <<>> <=> Meant) /\ (WellPlaced(validator) => Range(patch) = Belonging)
      BY <1>2, <2>1, <2>2, ReturnLast DEF Belonging
    <3> QED BY <1>1, <2>1, <2>2, <3>1, AnswersNext
  <2>3. CASE Len(stack) # 1
    BY <1>2, <1>3, <1>11, <2>1, <2>3, ReturnPlainMeans
  <2> QED BY <2>2, <2>3
<1>12. CASE ReturnNot
  BY <1>2, <1>3, <1>12, ReturnNotMeans DEF ReturnNot, Prepend, Resume
<1>13. CASE ReturnProperty
  BY <1>2, <1>3, <1>13, ReturnPropertyMeans DEF ReturnProperty, Prepend, Resume
<1>14. CASE ReturnContains
  BY <1>2, <1>3, <1>14, ReturnContainsMeans DEF ReturnContains, Resume
<1>15. CASE ReturnIf
  BY <1>2, <1>3, <1>15, ReturnIfMeans DEF ReturnIf, Prepend, Resume
<1>16. CASE ReturnCase
  BY <1>2, <1>3, <1>16, ReturnCaseMeans DEF ReturnCase, Resume
<1> QED
  BY <1>4, <1>5, <1>6, <1>7, <1>8, <1>9, <1>10, <1>11, <1>12, <1>13, <1>14, <1>15, <1>16 DEF Validating

\* Every step keeps the invariant.
LEMMA MeaningInductive == IInv /\ TInv /\ MInv /\ [Next]_vars => MInv'
<1> SUFFICES ASSUME IInv, TInv, MInv, [Next]_vars PROVE MInv'
  OBVIOUS
<1>1. CASE Validate
  <2>1. validator' = validator /\ instance' = instance /\ pc' = "validating"
    BY <1>1 DEF Validate, inputs
  <2>2. Meaningful => Runs(stack', errors', patch')
    BY <1>1, ValidateMeans
  <2> QED BY <2>1, <2>2, AnswersNext
<1>2. CASE Validating
  <2>1. CASE Meaningful
    BY <1>2, <2>1, StepMeans
  <2>2. CASE ~Meaningful
    <3>1. validator' = validator /\ instance' = instance
      BY <1>2 DEF Validating, ReportInside, ReportToUser, Throw, Raise, Satisfied, AddDefault, Enter,
         ReturnPlain, ReturnNot, ReturnProperty, ReturnContains, ReturnIf, ReturnCase, Resume, Prepend, inputs
    <3> QED BY <2>2, <3>1, AnswersNext
  <2> QED BY <2>1, <2>2
<1>3. CASE ApplyPatch
  <2>1. pc' \in {"idle", "unpatchable"}
    BY <1>3 DEF ApplyPatch
  <2> QED BY <2>1 DEF MInv, Answers
<1>4. CASE UNCHANGED vars
  <2>1. /\ validator' = validator /\ instance' = instance /\ stack' = stack /\ patch' = patch
        /\ errors' = errors /\ pc' = pc
    BY <1>4 DEF vars
  <2>2. Meaningful => Answers
    BY DEF MInv
  <2> QED BY <2>1, <2>2, AnswersNext DEF Answers
<1> QED
  BY <1>1, <1>2, <1>3, <1>4 DEF Next, Stop

\* The verdict and the patch, at the end of every validation.
LEMMA MeaningInvariant == Spec => [](TInv /\ MInv)
<1>1. Init => MInv
  BY DEF Init, MInv, Answers
<1>2. IInv /\ TInv /\ MInv /\ [Next]_vars => MInv'
  BY MeaningInductive
<1> QED
  BY <1>1, <1>2, TypesInvariant, PTL DEF Spec

\* VerdictIsMeaning (ValidationMeaning): whatever is validated, whatever fails and
\* succeeds inside and whichever handler the user gives, validate() finds an error,
\* or throws, exactly when the instance does not satisfy its schema.  The meaning
\* must exist (no schema asks itself about the same value), and the README's list
\* of known disagreements must not apply.
THEOREM VerdictMeant == Spec => [](Grounded(validator) /\ Undisputed => VerdictIsMeaning)
<1>1. TInv /\ MInv => (Grounded(validator) /\ Undisputed => VerdictIsMeaning)
  BY DEF TInv, MInv, Meaningful, Answers, VerdictIsMeaning
<1> QED
  BY <1>1, MeaningInvariant, PTL

\* PatchIsMeaning (ValidationMeaning): the patch that validate() returns has all the
\* default values that belong to the instance, and none of an alternative that
\* failed, if besides no default value is given to a schema that the code calls
\* with the wrong path.
THEOREM PatchMeant ==
  Spec => [](WellPlaced(validator) /\ Grounded(validator) /\ Undisputed => PatchIsMeaning)
<1>1. TInv /\ MInv => (WellPlaced(validator) /\ Grounded(validator) /\ Undisputed => PatchIsMeaning)
  BY DEF TInv, MInv, Meaningful, Answers, PatchIsMeaning, Belonging
<1> QED
  BY <1>1, MeaningInvariant, PTL
=============================================================================
