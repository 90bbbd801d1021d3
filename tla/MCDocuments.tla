---------------------------- MODULE MCDocuments -----------------------------
(***************************************************************************)
(* Families of single documents, each exploring one way of referring.      *)
(***************************************************************************)
EXTENDS MCNotation

(***************************************************************************)
(* Two definitions and a property, each a schema of its own or a reference *)
(* to one another, to the document or to nothing, with and without an      *)
(* override of the default value.                                          *)
(***************************************************************************)
Slot == {<<"definitions", "a">>, <<"definitions", "b">>, <<"properties", "p">>}
Aims == Slot \cup {<<>>, <<"definitions", "none">>}
References3 ==
  [Slot -> {Empty, Always} \cup
           {[Ref(To("", p)) EXCEPT !.default = d] : p \in Aims, d \in BOOLEAN}]

(***************************************************************************)
(* A definition with an $id, that of a location or a plain name, and the   *)
(* ways to refer to it and to what is inside it from inside and outside.   *)
(***************************************************************************)
A == <<"definitions", "a">>
R == <<"properties", "r">>
Identifiers ==
  [id : {NoRef, To("n", <<>>), Named("foo")},
   inner : {NoRef, To("", R), To("", A), Named("foo"), Named("bar")},
   rId : {NoRef, Named("bar"), To("x", <<>>)},
   p : {NoRef, To("", A), To("", A \o R), To("n", <<>>), To("n", R), Named("foo"),
        Named("bar"), To("x", <<>>)}]
IdentifiersText(c) ==
  A :> Id(c.id) @@ A \o <<"properties", "q">> :> Ref(c.inner) @@ A \o R :> Id(c.rId)
  @@ <<"properties", "p">> :> Ref(c.p)

(***************************************************************************)
(* References to members that are no keywords: below a definition, which   *)
(* is compiled before the references, and at the root, whose members are   *)
(* filed after them.  No reference points inside the target of another.    *)
(***************************************************************************)
C == <<"properties", "c">>
V == <<"v">>
AimsAt(at) == {NoRef} \cup {To("", at \o p) : p \in {<<>>, C, V, <<"none">>}}
UnknownAt(at) ==
  {c \in [at : {at}, p : AimsAt(at), q : AimsAt(at), c : AimsAt(at), v : AimsAt(at)] :
     c.p # NoRef \/ c.q # NoRef}
Nested(c) ==
  \E r, s \in {c.p, c.q, c.c, c.v} \ {NoRef} :
    IsStrictPrefix(r.ptr, s.ptr) /\ Last(s.ptr) # "none"
AllUnknown == UNION {UnknownAt(at) : at \in {A \o <<"u">>, <<"u">>}}
Unknown == {c \in AllUnknown : ~Nested(c)}
UnknownText(c) ==
  c.at \o C :> Ref(c.c) @@ c.at \o V :> Ref(c.v)
  @@ <<"properties", "p">> :> Ref(c.p) @@ <<"properties", "q">> :> Ref(c.q)

(***************************************************************************)
(* Every keyword that holds schemas, one of them a reference to the root;  *)
(* a definition refers to the other or to nothing.  "type" may exclude the *)
(* keyword, which then is an unknown one; an array that is no keyword is   *)
(* left out, since references to its elements are found only later.        *)
(***************************************************************************)
Forms ==
  {<<<<k, "c">>, {<<k, "r">>}>> : k \in {"$defs", "definitions", "properties", "dependencies"}}
  \cup {<<<<k, "0">>, {<<k, "1">>}>> : k \in {"allOf", "anyOf", "oneOf"}}
  \cup {<<<<"items", "0">>, {<<"items", "1">>, <<"additionalItems">>}>>}
  \cup {<<<<k>>, {}>> : k \in {"additionalProperties", "propertyNames", "items", "contains",
                               "not", "if", "then", "else"}}
AllKeywords ==
  [form : Forms, types : Types, kind : {"object", "boolean", "scalar", "array"}]
UnknownArray(c) == c.form[1] = <<"items", "0">> /\ "array" \notin Range(c.types)
Keywords == {c \in AllKeywords : ~UnknownArray(c)}
KeywordsText(c) ==
  <<>> :> Of(c.types)
  @@ c.form[1] :> [Empty EXCEPT !.kind = c.kind]
  @@ <<"$defs", "a">> :> Ref(To("", c.form[1]))
  @@ [p \in c.form[2] |-> Ref(To("", <<>>))]
  @@ (IF c.form[1] = <<"items", "0">> THEN <<"items">> :> Array ELSE <<>>)
-----------------------------------------------------------------------------
(***************************************************************************)
(* Documents at the edges: an $id that is the pointer of another value,    *)
(* below which nothing can be filed; one $id given to two schemas; and a   *)
(* schema of two URIs, a member of which is compiled under the one and     *)
(* filed under the other, from where a later reference gets it.            *)
(***************************************************************************)
B == <<"definitions", "b">>
U == <<"u">>
Edges ==
  {A \o U :> Scalar @@ B :> Id(To("", A \o U)) @@ B \o V :> Scalar}
  \cup {A :> Id(id) @@ B :> Id(id) : id \in {Named("foo"), To("n", <<>>)}}
  \cup {A :> Ref(To("", B \o U)) @@ B :> Id(To("n", <<>>)) @@ B \o U :> u
           @@ <<"properties", "p">> :> Ref(To("n", U)) : u \in {Empty, Always}}

(***************************************************************************)
(* Documents the compiler treats otherwise than the code base says.        *)
(***************************************************************************)

\* The schema a definition is part of is referred to from inside, after one of
\* its members has been filed: objects created for the pointer of the member
\* stand for a schema that is still being compiled.
RecursiveDefinition ==
  {A \o <<"properties", "a", "u">> :> Scalar
     @@ A \o <<"properties", "b">> :> Ref(To("", A))}

\* A member of a kept value refers to the value, and is itself referred to: it is
\* compiled again, in the same place, before its own compilation is over.
RecursiveUnknown ==
  {A \o U \o V :> Ref(To("", A \o U)) @@ <<"properties", "p">> :> Ref(To("", A \o U \o V))}

\* A member that is no schema stands beside a plain name while a reference to the
\* document waits: it is taken for what the reference is looking for, and compiled
\* without any URI.
Nameless ==
  {A :> Ref(To("", <<>>)) @@ B :> Id(Named("foo")) @@ B \o V :> Scalar}

MCCorpus ==
  ({"references"} \X References3) \cup ({"identifiers"} \X Identifiers)
  \cup ({"unknown"} \X Unknown) \cup ({"keywords"} \X Keywords) \cup ({"text"} \X Edges)
DanglingCorpus == {"text"} \X RecursiveUnknown
RecursionCorpus == {"text"} \X RecursiveDefinition
NamelessCorpus == {"text"} \X Nameless

MCText ==
  [c \in MCCorpus \cup RecursionCorpus \cup DanglingCorpus \cup NamelessCorpus |->
     "" :> Document(CASE c[1] = "identifiers" -> IdentifiersText(c[2])
                      [] c[1] = "unknown" -> UnknownText(c[2])
                      [] c[1] = "keywords" -> KeywordsText(c[2])
                      [] OTHER -> c[2])]
=============================================================================
