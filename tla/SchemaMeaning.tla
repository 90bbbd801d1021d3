--------------------------- MODULE SchemaMeaning ----------------------------
(***************************************************************************)
(* What the references of a set of schema documents mean, read off the     *)
(* texts and not off the compiler: which values are schemas, which URIs    *)
(* designate a value, and whether every reference designates a schema.     *)
(* The compiler's verdict and its registry are checked against it.         *)
(***************************************************************************)
EXTENDS SchemaCompiler

\* The location of the base URI inside the first n tokens of a pointer.
BaseLocation(l, t, p) ==
  LET b[n \in 0..Len(p)] ==
        LET above == IF n = 0 THEN l ELSE b[n - 1]
            id == t[SubSeq(p, 1, n)].id
        IN IF id = NoRef THEN above ELSE Resolve[above, id.loc]
  IN b[Len(p)]

\* The URI the $id at p gives.
IdUri(l, t, p) ==
  Derive(FileUri(IF p = <<>> THEN l ELSE BaseLocation(l, t, Front(p))), t[p].id)

\* The URIs of the value at p: a JSON pointer from the root of its document or
\* from any $id around it, and the $id of its own, which may be a plain name.
UrisOf(c, l, p) ==
  LET t == Text[c][l]
      ids == {q \in Prefixes(p) : t[q].id # NoRef}
  IN {[FileUri(l) EXCEPT !.ptr = p]}
     \cup {Extend(IdUri(l, t, q), Rest(p, Len(q))) :
             q \in {r \in ids : IdUri(l, t, r).name = NoName \/ r = p}}

Values(c) == UNION {{[loc |-> l, ptr |-> p] : p \in DOMAIN Text[c][l]} : l \in DOMAIN Text[c]}
Designated(c, u) == {x \in Values(c) : u \in UrisOf(c, x.loc, x.ptr)}
-----------------------------------------------------------------------------
\* The schemas directly inside the schema at p.  What stands beside a $ref is
\* ignored, except definitions; a keyword of a type the schema does not ask for
\* holds none.
OneSchema(types) ==
  {"not", "if", "then", "else"}
  \cup (IF "object" \in types THEN {"additionalProperties", "propertyNames"} ELSE {})
  \cup (IF "array" \in types THEN {"contains"} ELSE {})
ManySchemas(types) ==
  {"allOf", "anyOf", "oneOf"}
  \cup (IF "object" \in types THEN {"properties", "patternProperties", "dependencies"} ELSE {})

Inside(t, p) ==
  LET types == {t[p].types[i] : i \in DOMAIN t[p].types}
      defs == IF Append(p, "$defs") \in DOMAIN t THEN "$defs" ELSE "definitions"
      under(k) == {p \o <<k, m>> : m \in Members(t, Append(p, k))}
      items == Append(p, "items")
      keywords ==
        {Append(p, k) : k \in OneSchema(types)} \cup UNION {under(k) : k \in ManySchemas(types)}
        \cup (IF "array" \notin types \/ items \notin DOMAIN t THEN {}
              ELSE IF t[items].kind = "array"
              THEN under("items") \cup {Append(p, "additionalItems")} ELSE {items})
  IN {q \in under(defs) \cup (IF t[p].ref = NoRef THEN keywords ELSE {}) :
        q \in DOMAIN t /\ ~(t[q].kind = "array" /\ \E d \in under("dependencies") : d = q)}

\* The URI a reference at p names, and the values it can designate.
RefUri(l, t, p) == Derive(FileUri(BaseLocation(l, t, p)), t[p].ref)

\* The schemas found by following keywords and references from what is in S.
RECURSIVE Schemas(_, _)
Schemas(c, S) ==
  LET next(x) ==
        LET t == Text[c][x.loc]
        IN {[loc |-> x.loc, ptr |-> q] : q \in Inside(t, x.ptr)}
           \cup (IF t[x.ptr].ref = NoRef THEN {}
                 ELSE LET u == RefUri(x.loc, t, x.ptr)
                      IN Designated(c, u)
                         \cup {[loc |-> l, ptr |-> <<>>] : l \in DOMAIN Text[c] \cap {u.loc}})
      T == S \cup UNION {next(x) : x \in S}
  IN IF T = S THEN S ELSE Schemas(c, T)

\* Every reference reached from the root document designates one schema, every
\* schema is an object or a boolean, and no two values have a URI in common.
Meaningful(c) ==
  LET S == Schemas(c, {[loc |-> RootLocation, ptr |-> <<>>]})
  IN /\ \A x \in S :
          LET t == Text[c][x.loc]
              v == t[x.ptr]
          IN /\ v.kind \in {"object", "boolean"}
             /\ v.ref # NoRef =>
                  Cardinality(Designated(c, RefUri(x.loc, t, x.ptr)) \cap S) = 1
     /\ \A x \in S : \A u \in UrisOf(c, x.loc, x.ptr) : Designated(c, u) = {x}
-----------------------------------------------------------------------------
(***************************************************************************)
(* The compiler against the meaning of the texts.                          *)
(***************************************************************************)

\* set_root_schema() fails only for documents with a reference that designates
\* nothing or a value that is no schema, whatever the order in which the
\* references, their targets and the files are met.
RejectsOnlyMeaningless == pc \in {"thrown", "undefined"} => ~Meaningful(corpus)

\* It succeeds only when every reference designates a schema.
AcceptsOnlyMeaningful == pc = "ready" => Meaningful(corpus)

\* A URI is bound to the schema of the value it designates, compiled from all
\* of its text: never from another place, from a value filed under a wrong
\* pointer, or from what an earlier compilation left of it.
BoundToDesignated ==
  \A u \in DOMAIN home :
    \E x \in Designated(corpus, u) :
      LET v == Text[corpus][x.loc][x.ptr]
      IN /\ home[u].node = [v EXCEPT !.at = x]
         /\ v.kind = "object" => home[u].keys = Members(Text[corpus][x.loc], x.ptr)
=============================================================================
