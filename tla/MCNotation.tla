---------------------------- MODULE MCNotation -----------------------------
(***************************************************************************)
(* What the instances below share: their tokens in the order of a          *)
(* std::map, their locations, and a notation for schema documents.         *)
(***************************************************************************)
EXTENDS SchemaMeaning, TLC

TokenOrder ==
  <<"", "$defs", "$id", "$ref", "0", "1", "a", "additionalItems", "additionalProperties", "allOf",
    "anyOf", "b", "c", "contains", "definitions", "dependencies", "else", "if", "items",
    "none", "not", "oneOf", "p", "patternProperties", "properties", "propertyNames", "q",
    "r", "then", "u", "v", "w">>
MCToken == {TokenOrder[i] : i \in DOMAIN TokenOrder}
MCIndex == <<"0", "1">>
MCRank == [t \in MCToken |-> CHOOSE i \in DOMAIN TokenOrder : TokenOrder[i] = t]

LocationOrder == <<"", "n", "x", "y">>
MCLocation == {LocationOrder[i] : i \in DOMAIN LocationOrder}
MCLocationRank ==
  [l \in MCLocation |-> CHOOSE i \in DOMAIN LocationOrder : LocationOrder[i] = l]
MCResolve == [x \in MCLocation \X MCLocation |-> IF x[2] = "" THEN x[1] ELSE x[2]]

\* A reference by JSON pointer, or by plain name.
To(l, p) == [loc |-> l, ptr |-> p, name |-> NoName]
Named(n) == [loc |-> "", ptr |-> <<>>, name |-> n]

Empty == Blank
Always == [Blank EXCEPT !.kind = "boolean"]
Scalar == [Blank EXCEPT !.kind = "scalar"]
Array == [Blank EXCEPT !.kind = "array"]
Ref(r) == [Blank EXCEPT !.ref = r]
Id(r) == [Blank EXCEPT !.id = r]
Of(types) == [Blank EXCEPT !.types = types]

\* The document with the given values, and plain objects around them.
Document(values) ==
  values @@ [p \in UNION {Prefixes(q) : q \in DOMAIN values} |-> Empty]
=============================================================================
