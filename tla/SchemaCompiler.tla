--------------------------- MODULE SchemaCompiler ---------------------------
(***************************************************************************)
(* The compilation of JSON schemas into a graph of schema objects:         *)
(* root_schema and schema::make of json-validator.cpp.                     *)
(*                                                                         *)
(* set_root_schema() walks the root document, and then every document the  *)
(* loader returns for a location some reference named.  Each sub-schema    *)
(* becomes an object registered under every URI it can be referenced by;   *)
(* a reference met before its target becomes a schema_ref that the         *)
(* registration of the target resolves; members which are no keywords are  *)
(* kept per file, to be compiled when a later reference points to them.    *)
(*                                                                         *)
(* The recursion of make() and insert_unknown_keyword() is a stack of      *)
(* frames, one action per step of the function on top.  The compiler       *)
(* erases the keywords it has understood from the very JSON value it is    *)
(* reading, which may be the store of unknown keywords: frames therefore   *)
(* hold the place they read, and lose it when an inner call destroys it.   *)
(***************************************************************************)
EXTENDS JsonTree, Maps

CONSTANTS
  Location,       \* the locations (URIs without their fragment) of documents
  RootLocation,   \* the location of the root document, "" in the code
  Hint,           \* the location parts of $id and $ref values
  Resolve,        \* Resolve[base, hint]: the location json_uri::derive() gives
  Token,          \* reference tokens: keywords, property names, indices
  Rank,           \* the order of tokens in a std::map, as numbers
  EmptyKey,       \* the empty property name, "" in the code
  Index,          \* the tokens "0", "1", ... as many as the documents need
  LocationRank,   \* the order of locations in files_, as numbers
  Name,           \* plain-name fragments
  NoName, NoRef,  \* no plain name; no $id or no $ref
  NoUri, NoKey,   \* no URI; no keyword
  Nowhere,        \* the place of objects the compiler made itself
  Corpus,         \* identifiers of sets of schema documents
  Text,           \* Text[c]: the documents of c, by location
  HasLoader,      \* a loader callback was given
  FlakyLoader,    \* the callback may throw for a document it could serve
  MaxCalls        \* bound: calls of set_root_schema()

(***************************************************************************)
(* A value of a document.  Keywords that hold schemas are members of the   *)
(* tree; those that matter to the compilation and hold none are fields.    *)
(* types lists the validators with sub-schemas that "type" asks for, in    *)
(* their order of construction; at is where the value stood in the text.   *)
(***************************************************************************)
Types == {<<>>, <<"object">>, <<"array">>, <<"object", "array">>, <<"array", "object">>}
Uri == [loc : Location, ptr : Seq(Token), name : Name \cup {NoName}]
Reference == [loc : Hint, ptr : Seq(Token), name : Name \cup {NoName}]
Place == [loc : Location, ptr : Seq(Token)]
Node == [kind : {"object", "array", "boolean", "scalar"},
         id : Reference \cup {NoRef}, ref : Reference \cup {NoRef},
         default : BOOLEAN, types : Types, at : Place \cup {Nowhere}]

(***************************************************************************)
(* A schema object.  target is what a weak_ptr points to, owns are the     *)
(* objects it holds by shared_ptr; 0 is the null pointer.                  *)
(***************************************************************************)
Object == [kind : {"type", "boolean", "ref"}, uri : Uri \cup {NoUri},
           target : Nat, owns : SUBSET Nat]

(***************************************************************************)
(* A call of make() or, in the steps "keep" and "members", a call of       *)
(* insert_unknown_keyword().  src is the JSON value it works on, held the  *)
(* part of it an iterator points to while an inner call runs.              *)
(***************************************************************************)
Source == [in : {"doc", "store", "freed"}, loc : Location, ptr : Seq(Token)]
Frame == [step : {"enter", "definitions", "branches", "override", "register",
                  "filing", "keep", "kept", "members"},
          src : Source, held : Seq(Token), uris : Seq(Uri),
          todo : Seq(Token), kw : Token \cup {NoKey},
          slots : SUBSET [at : Seq(Token), keys : Seq(Token)],
          keys : SUBSET Token, kids : SUBSET Nat, obj : Nat,
          was : [node : Node, keys : SUBSET Token]]

AnyType == <<"object", "array">>

ASSUME TokenAssumption ==
  /\ Index \in Seq(Token)
  /\ {EmptyKey, "$defs", "definitions", "$id", "$ref", "properties", "patternProperties",
      "additionalProperties", "dependencies", "propertyNames", "items",
      "additionalItems", "contains", "not", "allOf", "anyOf", "oneOf",
      "if", "then", "else"} \subseteq Token
  /\ Rank \in [Token -> Nat]
  /\ \A s, t \in Token : Rank[s] = Rank[t] => s = t

ASSUME LocationAssumption ==
  /\ RootLocation \in Location
  /\ Resolve \in [Location \X Hint -> Location]
  /\ LocationRank \in [Location -> Nat]
  /\ \A k, l \in Location : LocationRank[k] = LocationRank[l] => k = l

ASSUME CorpusAssumption ==
  /\ Corpus # {}
  /\ NoName \notin Name
  /\ NoRef \notin Reference /\ Nowhere \notin Place
  /\ NoKey \notin Token /\ NoUri \notin Uri
  /\ \A c \in Corpus :
       /\ RootLocation \in DOMAIN Text[c]
       /\ DOMAIN Text[c] \subseteq Location
       /\ \A l \in DOMAIN Text[c] :
            IsTree(Text[c][l], Token, Node) /\ <<>> \in DOMAIN Text[c][l]

ASSUME OptionAssumption == {HasLoader, FlakyLoader} \subseteq BOOLEAN /\ MaxCalls \in Nat

VARIABLES
  schemas,     \* URI -> object: the schemas of all files_
  unresolved,  \* URI -> object: the references waiting for their target
  unknown,     \* location -> document: the files_ and their unknown_keywords
  heap,        \* every schema object ever made
  root,        \* root_, 0 while it is null
  doc,         \* the document being compiled
  stack,       \* the calls of make() and insert_unknown_keyword()
  pc,          \* what set_root_schema() is doing, or how it ended
  corpus,      \* the documents given to it, and served to it
  pending,     \* the locations this round of the loading loop still visits
  again,       \* new_schema_loaded
  calls,       \* calls of set_root_schema() so far
  base,        \* history: Len(heap) when the current call started
  loads,       \* history: the loader calls of the current call
  home         \* history: where the schema of a URI stood in the text

registry == <<schemas, unresolved, unknown>>
vars == <<schemas, unresolved, unknown, heap, root, doc, stack, pc, corpus,
          pending, again, calls, base, loads, home>>
-----------------------------------------------------------------------------
(***************************************************************************)
(* URIs.                                                                   *)
(***************************************************************************)
FileUri(l) == [loc |-> l, ptr |-> <<>>, name |-> NoName]

Derive(uri, ref) == [loc |-> Resolve[uri.loc, ref.loc], ptr |-> ref.ptr, name |-> ref.name]

Extend(uri, keys) == IF uri.name = NoName THEN [uri EXCEPT !.ptr = @ \o keys] ELSE uri

\* What pointer() returns: the root of the document for a plain name.
Pointed(uri) == [uri EXCEPT !.name = NoName]

\* Sub-schemas of a plain name cannot be referenced.  Only the URI a $id gave,
\* which is the last one, can hold a plain name (see Names).  KeepNames is a
\* mutant, as are the definitions named by "mutants" in PROJECT.json below.
KeepNames(uris) == uris
ForgetAll(uris) == IF uris # <<>> /\ uris[Len(uris)].name # NoName THEN <<>> ELSE uris
Unnamed(uris) ==
  IF uris # <<>> /\ uris[Len(uris)].name # NoName THEN Front(uris) ELSE uris

-----------------------------------------------------------------------------
(***************************************************************************)
(* The running call, the value it works on, and the JSON they live in.     *)
(***************************************************************************)
Depth == Len(stack)
Top == stack[Depth]
Running(step) == stack # <<>> /\ Top.step = step /\ Top.src.in # "freed"

TextOf(src) == IF src.in = "doc" THEN doc ELSE unknown[src.loc]
Value(src) == TextOf(src)[src.ptr]
Child(src, ptr) == [src EXCEPT !.ptr = @ \o ptr]
KeysOf(src) == IF Value(src).kind = "object" THEN Members(TextOf(src), src.ptr) ELSE {}

\* The entry of files_ for a location, created on demand.
Blank == [kind |-> "object", id |-> NoRef, ref |-> NoRef, default |-> FALSE,
          types |-> AnyType, at |-> Nowhere]
WithFile(l) ==
  IF l \in DOMAIN unknown THEN unknown ELSE Put(unknown, l, [p \in {<<>>} |-> Blank])

\* Where the calls below the top would read next.
Holds(f) == f.src.ptr \o f.held

\* The calls which hold something at or below one of the pointers gone lose it.
Freed(frames, src, gone) ==
  [i \in DOMAIN frames |->
     IF /\ frames[i].src.in = src.in
        /\ frames[i].src.loc = src.loc
        /\ \E p \in gone : IsPrefix(p, Holds(frames[i]))
     THEN [frames[i] EXCEPT !.src.in = "freed"] ELSE frames[i]]

\* The running call changes the document it reads; f is its new frame.
Rewrite(text, gone, f) ==
  /\ doc' = IF Top.src.in = "doc" THEN text ELSE doc
  /\ unknown' = IF Top.src.in = "store" THEN [unknown EXCEPT ![Top.src.loc] = text]
                ELSE unknown
  /\ stack' = [Freed(stack, Top.src, gone) EXCEPT ![Depth] = f]

Continue(f) == stack' = [stack EXCEPT ![Depth] = f]
Call(f, g) == stack' = Append([stack EXCEPT ![Depth] = f], g)

\* An exception leaves set_root_schema(), or the behaviour is undefined.
Raise(outcome) == stack' = <<>> /\ pc' = outcome

NewFrame(step, src, uris) ==
  [step |-> step, src |-> src, held |-> <<>>, uris |-> uris, todo |-> <<>>,
   kw |-> NoKey, slots |-> {}, keys |-> {}, kids |-> {}, obj |-> 0,
   was |-> [node |-> Blank, keys |-> {}]]

\* A call of make(): the keys of the sub-schema are appended to the URIs.
MakeFrame(src, uris, keys) ==
  NewFrame("enter", src,
           [i \in DOMAIN Unnamed(uris) |-> Extend(Unnamed(uris)[i], keys)])

KeepFrame(src, uri, key) == [NewFrame("keep", src, <<uri>>) EXCEPT !.kw = key]

NewObject(kind, uri, target, owns) ==
  [kind |-> kind, uri |-> uri, target |-> target, owns |-> owns]
-----------------------------------------------------------------------------
(***************************************************************************)
(* set_root_schema(): forget all files, compile the root document.         *)
(***************************************************************************)
Atop(l, t) == [p \in DOMAIN t |-> [t[p] EXCEPT !.at = [loc |-> l, ptr |-> p]]]

Compile(l, c) ==
  /\ doc' = Atop(l, Text[c][l])
  /\ stack' = <<MakeFrame([in |-> "doc", loc |-> l, ptr |-> <<>>], <<FileUri(l)>>, <<>>)>>

KeepUnresolved == schemas' = NoEntries /\ unknown' = NoEntries /\ home' = NoEntries /\ UNCHANGED unresolved
ClearFiles ==
  schemas' = NoEntries /\ unresolved' = NoEntries /\ unknown' = NoEntries /\ home' = NoEntries

AtRest == pc \in {"new", "ready", "thrown"}

SetRootSchema(c) ==
  /\ AtRest
  /\ calls < MaxCalls
  /\ calls' = calls + 1
  /\ corpus' = c
  /\ ClearFiles
  /\ base' = Len(heap)
  /\ loads' = <<>>
  /\ pc' = "root"
  /\ Compile(RootLocation, c)
  /\ UNCHANGED <<heap, root, pending, again>>
-----------------------------------------------------------------------------
(***************************************************************************)
(* schema::make().                                                         *)
(***************************************************************************)
rest == <<root, pc, corpus, pending, again, calls, base, loads, home>>

Alloc(o) == heap' = Append(heap, o)
New == Len(heap) + 1

EnterBoolean ==
  /\ Running("enter")
  /\ Value(Top.src).kind = "boolean"
  /\ Alloc(NewObject("boolean", NoUri, 0, {}))
  /\ Continue([Top EXCEPT !.step = "register", !.obj = New,
                          !.was = [node |-> Value(Top.src), keys |-> {}]])
  /\ UNCHANGED <<registry, doc, rest>>

IdentifiedOnly(uris, id) == IF id = NoRef THEN uris ELSE <<Derive(Last(uris), id)>>

\* $id is one more URI of this schema, and the base of what is inside: the last
\* of its URIs, even when it was one of them before.
Without(uris, uri) ==
  IF \E i \in 1..Len(uris) : uris[i] = uri
  THEN RemoveAt(uris, CHOOSE i \in 1..Len(uris) : uris[i] = uri) ELSE uris
Identified(uris, id) ==
  IF id = NoRef THEN uris
  ELSE Append(Without(uris, Derive(Last(uris), id)), Derive(Last(uris), id))

Definitions(src) ==
  IF "$defs" \in KeysOf(src) THEN <<"$defs">> ELSE <<"definitions">>

EnterObject ==
  /\ Running("enter")
  /\ LET v == Value(Top.src)
     IN /\ v.kind = "object"
        /\ v.id # NoRef => Top.uris # <<>>
        /\ Rewrite(SetNode(TextOf(Top.src), Top.src.ptr, [v EXCEPT !.id = NoRef]),
                   {Append(Top.src.ptr, "$id")},
                   [Top EXCEPT !.step = "definitions",
                               !.uris = Identified(Top.uris, v.id),
                               !.todo = Definitions(Top.src),
                               !.was = [node |-> v, keys |-> KeysOf(Top.src)]])
  /\ UNCHANGED <<schemas, unresolved, heap, rest>>

\* Neither a boolean nor an object: "invalid JSON-type for a schema".
EnterRejected ==
  /\ Running("enter")
  /\ Value(Top.src).kind \notin {"boolean", "object"}
  /\ Top.uris # <<>>
  /\ Raise("thrown")
  /\ UNCHANGED <<registry, heap, doc, root, corpus, pending, again, calls, base, loads, home>>
-----------------------------------------------------------------------------
(***************************************************************************)
(* The keywords that hold sub-schemas, each opened in the order in which   *)
(* the constructors look for it, and erased when its schemas are made.     *)
(***************************************************************************)
ValidatorKeywords(type) ==
  IF type = "object"
  THEN <<"properties", "patternProperties", "additionalProperties", "dependencies",
         "propertyNames">>
  ELSE <<"items", "contains">>

Branches(types) ==
  (IF Len(types) >= 1 THEN ValidatorKeywords(types[1]) ELSE <<>>)
  \o (IF Len(types) = 2 THEN ValidatorKeywords(types[2]) ELSE <<>>)
  \o <<"not", "allOf", "anyOf", "oneOf", "if", "then", "else">>

Several == {"$defs", "definitions", "properties", "patternProperties", "dependencies",
            "allOf", "anyOf", "oneOf"}

\* The keys appended to the URIs for the element m of a keyword.
KeysOfElement(kw, m) == IF kw \in Several THEN <<m>> ELSE <<kw, m>>
KeysFor(kw, m) == IF kw = "patternProperties" THEN <<m>> ELSE <<kw, m>>

\* The elements of a keyword with several schemas.  A value that is no container
\* has itself as the only one, without a key.
ElementsOf(src, kw) ==
  LET at == Append(src.ptr, kw)
  IN IF TextOf(src)[at].kind \in {"object", "array"}
     THEN {[at |-> <<kw, m>>, key |-> m] : m \in Members(TextOf(src), at)}
     ELSE {[at |-> <<kw>>, key |-> EmptyKey]}

\* A combination counts its elements, whatever their keys are.
KeyIn(elements, kw, e) ==
  LET n == Cardinality({d \in elements : Rank[d.key] <= Rank[e.key]})
  IN IF kw \in {"allOf", "anyOf", "oneOf"} /\ n \in DOMAIN Index THEN Index[n] ELSE e.key

\* The sub-schemas of a keyword: where they are, and the keys for their URIs.
Slots(src, kw) ==
  LET value == TextOf(src)[Append(src.ptr, kw)]
      elements == ElementsOf(src, kw)
      only(k) == {[at |-> <<k>>, keys |-> <<k>>]}
      each == {[at |-> e.at, keys |-> KeysFor(kw, KeyIn(elements, kw, e))] : e \in elements}
  IN CASE kw = "dependencies" -> {s \in each : TextOf(src)[src.ptr \o s.at].kind # "array"}
       [] kw \in Several \ {"dependencies"} -> each
       [] kw = "items" /\ value.kind = "array" ->
            each \cup (IF "additionalItems" \in KeysOf(src) THEN only("additionalItems") ELSE {})
       [] kw = "items" /\ value.kind = "scalar" -> {}
       [] OTHER -> only(kw)

\* What the constructor erases when it is done with the keyword.
Understood(src, kw) ==
  IF kw = "items" /\ TextOf(src)[Append(src.ptr, kw)].kind = "array"
  THEN {"items", "additionalItems"} ELSE {kw}

\* Elements in the order of the map or the array, additionalItems last.
Before(s, t) ==
  IF s.at[1] = t.at[1] THEN Rank[s.at[Len(s.at)]] <= Rank[t.at[Len(t.at)]]
  ELSE t.at[1] = "additionalItems"

Present(n) == Top.todo[n] \in KeysOf(Top.src)
NoneOpen == Top.kw = NoKey /\ \A n \in 1..Len(Top.todo) : ~Present(n)

OpenKeyword ==
  /\ Running("definitions") \/ Running("branches")
  /\ Top.kw = NoKey
  /\ \E n \in 1..Len(Top.todo) :
       /\ Present(n)
       /\ \A m \in 1..(n - 1) : ~Present(m)
       /\ Continue([Top EXCEPT !.kw = Top.todo[n], !.slots = Slots(Top.src, Top.todo[n]),
                               !.todo = SubSeq(@, n + 1, Len(@))])
  /\ UNCHANGED <<registry, heap, doc, rest>>

\* The elements of the open keyword not visited yet and not erased meanwhile.
OpenSlots == {s \in Top.slots : Top.src.ptr \o s.at \in DOMAIN TextOf(Top.src)}

CompileSlot ==
  /\ Running("definitions") \/ Running("branches")
  /\ \E s \in OpenSlots :
       /\ \A t \in OpenSlots : Before(s, t)
       /\ Call([Top EXCEPT !.slots = @ \ {s}, !.held = s.at],
               MakeFrame(Child(Top.src, s.at), Top.uris, s.keys))
  /\ UNCHANGED <<registry, heap, doc, rest>>

CloseKeyword ==
  /\ Running("definitions") \/ Running("branches")
  /\ Top.kw # NoKey
  /\ OpenSlots = {}
  /\ LET gone == {Append(Top.src.ptr, k) : k \in Understood(Top.src, Top.kw)}
     IN Rewrite([p \in {q \in DOMAIN TextOf(Top.src) : \A g \in gone : ~IsPrefix(g, q)}
                   |-> TextOf(Top.src)[p]],
                gone, [Top EXCEPT !.kw = NoKey, !.slots = {}])
  /\ UNCHANGED <<schemas, unresolved, heap, rest>>

\* The definitions are done and there is no $ref: a type_schema.
StartType ==
  /\ Running("definitions") /\ NoneOpen
  /\ Value(Top.src).ref = NoRef
  /\ Continue([Top EXCEPT !.step = "branches", !.todo = Branches(Value(Top.src).types)])
  /\ UNCHANGED <<registry, heap, doc, rest>>

FinishType ==
  /\ Running("branches") /\ NoneOpen
  /\ Alloc(NewObject("type", NoUri, 0, Top.kids))
  /\ Rewrite(SetNode(TextOf(Top.src), Top.src.ptr,
                     [Value(Top.src) EXCEPT !.types = AnyType, !.default = FALSE]),
             {}, [Top EXCEPT !.step = "register", !.obj = New])
  /\ UNCHANGED <<schemas, unresolved, rest>>
-----------------------------------------------------------------------------
(***************************************************************************)
(* A schema that is a $ref: get_or_create_ref(), then the override of the  *)
(* default value.                                                          *)
(***************************************************************************)
Target == Derive(Last(Top.uris), Value(Top.src).ref)
AtReference ==
  /\ Running("definitions") /\ NoneOpen
  /\ Value(Top.src).ref # NoRef
  /\ Top.uris # <<>>
Referring == [Top EXCEPT !.step = "override", !.held = <<"$ref">>]

\* The target is known, or another reference already waits for it.
ReuseReference ==
  /\ AtReference
  /\ Target \in DOMAIN schemas \cup DOMAIN unresolved
  /\ unknown' = WithFile(Target.loc)
  /\ Continue([Referring EXCEPT !.held = <<>>,
                 !.obj = IF Target \in DOMAIN schemas THEN schemas[Target]
                         ELSE unresolved[Target]])
  /\ UNCHANGED <<schemas, unresolved, heap, doc, rest>>

\* Whether the files keep an unknown keyword at this URI.
NeverStored(files, uri) == FALSE
Stored(files, uri) ==
  uri.name = NoName /\ uri.ptr # <<>> /\ uri.ptr \in DOMAIN files[uri.loc]

\* A new reference waits; a stored unknown keyword it points to is compiled now.
CreateReference ==
  /\ AtReference
  /\ Target \notin DOMAIN schemas \cup DOMAIN unresolved
  /\ Alloc(NewObject("ref", Target, 0, {}))
  /\ unresolved' = Put(unresolved, Target, New)
  /\ unknown' = WithFile(Target.loc)
  /\ IF Stored(WithFile(Target.loc), Target)
     THEN Call(Referring,
               MakeFrame([in |-> "store", loc |-> Target.loc, ptr |-> Target.ptr],
                         <<Target>>, <<>>))
     ELSE Continue([Referring EXCEPT !.held = <<>>, !.obj = New])
  /\ UNCHANGED <<schemas, doc, rest>>

OverridingWeakly(o) ==
  IF heap[o].kind = "ref" THEN NewObject("ref", Top.uris[1], o, {})
  ELSE [heap[o] EXCEPT !.uri = NoUri]

\* make_for_default_(): a copy of a compiled schema shares what it owns; a
\* reference becomes a new one that keeps the reference it overrides alive.
Overriding(o) ==
  IF heap[o].kind = "ref" THEN NewObject("ref", Top.uris[1], o, {o})
  ELSE [heap[o] EXCEPT !.uri = NoUri]

Override ==
  /\ Running("override")
  /\ LET v == Value(Top.src)
         done == [Top EXCEPT !.step = "register"]
     IN /\ v.default /\ heap[Top.obj].kind = "ref" => Top.uris # <<>>
        /\ IF v.default
           THEN Alloc(Overriding(Top.obj))
           ELSE UNCHANGED heap
        /\ Rewrite(SetNode(TextOf(Top.src), Top.src.ptr,
                           [v EXCEPT !.ref = NoRef, !.default = FALSE]),
                   {Append(Top.src.ptr, "$ref")},
                   [done EXCEPT !.obj = IF v.default THEN New ELSE @])
  /\ UNCHANGED <<schemas, unresolved, rest>>
-----------------------------------------------------------------------------
(***************************************************************************)
(* The last loop of make(): root_schema::insert() for every URI, followed  *)
(* by insert_unknown_keyword() for every member that is left.              *)
(***************************************************************************)
Inserting == Running("register") /\ Top.uris # <<>>

BindUnlinked(uri, o) ==
  /\ schemas' = Put(schemas, uri, o)
  /\ unresolved' = Drop(unresolved, uri)
  /\ UNCHANGED heap
BindStillAwaited(uri, o) ==
  /\ schemas' = Put(schemas, uri, o)
  /\ UNCHANGED <<unresolved, heap>>
BindStrongly(uri, o) ==
  /\ schemas' = Put(schemas, uri, o)
  /\ unresolved' = Drop(unresolved, uri)
  /\ heap' = IF uri \in DOMAIN unresolved
             THEN [heap EXCEPT ![unresolved[uri]].target = o, ![unresolved[uri]].owns = {o}]
             ELSE heap

\* The object becomes the schema of the URI, and the target of who waits for it.
Bind(uri, o) ==
  /\ schemas' = Put(schemas, uri, o)
  /\ unresolved' = Drop(unresolved, uri)
  /\ heap' = IF uri \in DOMAIN unresolved
             THEN [heap EXCEPT ![unresolved[uri]].target = o] ELSE heap

InsertAnyway ==
  /\ Inserting
  /\ schemas' = Put(schemas, Head(Top.uris), Top.obj)
  /\ Continue([Top EXCEPT !.step = "filing", !.keys = KeysOf(Top.src)])
  /\ UNCHANGED <<unresolved, unknown, heap, doc, rest>>
InsertSchema ==
  /\ Inserting
  /\ LET uri == Head(Top.uris)
     IN /\ uri \notin DOMAIN schemas
        /\ Bind(uri, Top.obj)
        /\ unknown' = WithFile(uri.loc)
        /\ home' = Put(home, uri, Top.was)
  /\ Continue([Top EXCEPT !.step = "filing", !.keys = KeysOf(Top.src)])
  /\ UNCHANGED <<doc, root, pc, corpus, pending, again, calls, base, loads>>

\* "schema with ... already inserted"
InsertTwice ==
  /\ Inserting
  /\ Head(Top.uris) \in DOMAIN schemas
  /\ Raise("thrown")
  /\ UNCHANGED <<registry, heap, doc, root, corpus, pending, again, calls, base, loads, home>>

\* The members not filed yet and not erased meanwhile.
OpenKeys == {k \in Top.keys : Append(Top.src.ptr, k) \in DOMAIN TextOf(Top.src)}

FinishUri ==
  /\ Running("filing")
  /\ OpenKeys = {}
  /\ Continue([Top EXCEPT !.step = "register", !.uris = Tail(@)])
  /\ UNCHANGED <<registry, heap, doc, rest>>

FileKeywordAgain ==
  /\ Running("filing") \/ Running("members")
  /\ \E k \in OpenKeys :
       Call([Top EXCEPT !.held = <<k>>], KeepFrame(Child(Top.src, <<k>>), Head(Top.uris), k))
  /\ UNCHANGED <<registry, heap, doc, rest>>

\* The next member of a schema, or of an unknown keyword's value.
FileKeyword ==
  /\ Running("filing") \/ Running("members")
  /\ \E k \in OpenKeys :
       /\ \A l \in OpenKeys : Rank[k] <= Rank[l]
       /\ Call([Top EXCEPT !.keys = @ \ {k}, !.held = <<k>>],
               KeepFrame(Child(Top.src, <<k>>), Head(Top.uris), k))
  /\ UNCHANGED <<registry, heap, doc, rest>>
-----------------------------------------------------------------------------
(***************************************************************************)
(* insert_unknown_keyword().                                               *)
(***************************************************************************)
Owner == Head(Top.uris)
KeywordUri == Extend(Owner, <<Top.kw>>)
Kept == [Top EXCEPT !.step = "kept", !.kw = NoKey, !.uris = <<KeywordUri>>]

\* A reference is waiting for it: it is a schema.
CompileKeyword ==
  /\ Running("keep")
  /\ Pointed(KeywordUri) \in DOMAIN unresolved
  /\ unknown' = WithFile(Owner.loc)
  /\ Call(Kept, MakeFrame(Top.src, <<KeywordUri>>, <<>>))
  /\ UNCHANGED <<schemas, unresolved, heap, doc, rest>>

\* Objects are created for the tokens of the pointer that are not there yet;
\* a value that is no object cannot get members (a type_error).
StorePointer == Append(Owner.ptr, Top.kw)
Blocked(t) ==
  \E p \in Prefixes(Owner.ptr) \cap DOMAIN t :
    /\ t[p].kind # "object"
    /\ p = Owner.ptr \/ SubSeq(StorePointer, 1, Len(p) + 1) \notin DOMAIN t

StoreKeyword ==
  /\ Running("keep")
  /\ Pointed(KeywordUri) \notin DOMAIN unresolved
  /\ ~Blocked(WithFile(Owner.loc)[Owner.loc])
  /\ LET t == WithFile(Owner.loc)[Owner.loc]
     IN unknown' = [WithFile(Owner.loc) EXCEPT ![Owner.loc] =
                      Graft(Trunk(t, Owner.ptr, Blank), StorePointer,
                            Subtree(TextOf(Top.src), Top.src.ptr))]
  /\ LET below == {Append(StorePointer, k) : k \in Token}
         store == [in |-> "store", loc |-> Owner.loc, ptr |-> <<>>]
     IN stack' = Freed([stack EXCEPT ![Depth] = Kept], store, below)
  /\ UNCHANGED <<schemas, unresolved, heap, doc, rest>>

StoreFails ==
  /\ Running("keep")
  /\ Pointed(KeywordUri) \notin DOMAIN unresolved
  /\ Blocked(WithFile(Owner.loc)[Owner.loc])
  /\ Raise("thrown")
  /\ unknown' = WithFile(Owner.loc)
  /\ UNCHANGED <<schemas, unresolved, heap, doc, root, corpus, pending, again, calls, base,
                 loads, home>>

\* Whatever became of the value, its own members are filed too.
OpenMembers ==
  /\ Running("kept")
  /\ Continue([Top EXCEPT !.step = "members", !.keys = KeysOf(Top.src)])
  /\ UNCHANGED <<registry, heap, doc, rest>>
-----------------------------------------------------------------------------
(***************************************************************************)
(* Returning from make() or insert_unknown_keyword().                      *)
(***************************************************************************)
Returning ==
  \/ stack # <<>> /\ Top.step = "register" /\ Top.uris = <<>>
  \/ Running("members") /\ OpenKeys = {}

\* What the caller does with the schema object it gets.
Received(caller, o) ==
  [caller EXCEPT
     !.held = <<>>,
     !.kids = IF caller.step = "branches" THEN @ \cup {o} ELSE @,
     !.obj = IF caller.step = "override" THEN o ELSE @]

ReturnToCaller ==
  /\ Returning
  /\ Depth > 1
  /\ stack' = [Front(stack) EXCEPT ![Depth - 1] = Received(@, Top.obj)]
  /\ UNCHANGED <<registry, heap, doc, rest>>

Locations == DOMAIN unknown

ReturnRoot ==
  /\ Returning
  /\ Depth = 1 /\ pc = "root"
  /\ root' = Top.obj
  /\ stack' = <<>> /\ pc' = "load"
  /\ pending' = Locations /\ again' = FALSE
  /\ UNCHANGED <<registry, heap, doc, corpus, calls, base, loads, home>>

ReturnLoaded ==
  /\ Returning
  /\ Depth = 1 /\ pc = "load"
  /\ stack' = <<>>
  /\ UNCHANGED <<registry, heap, doc, rest>>

(***************************************************************************)
(* What C++ leaves undefined: reading a JSON value that was destroyed, and *)
(* back() or [0] of a schema's URIs when all were plain names.             *)
(***************************************************************************)
NeedsUri ==
  \/ /\ Top.step = "enter"
     /\ \/ Value(Top.src).kind \in {"array", "scalar"}
        \/ Value(Top.src).kind = "object" /\ Value(Top.src).id # NoRef
  \/ Top.step = "definitions" /\ NoneOpen /\ Value(Top.src).ref # NoRef
  \/ Top.step = "override" /\ Value(Top.src).default /\ heap[Top.obj].kind = "ref"

Undefined ==
  /\ stack # <<>>
  /\ ~Returning
  /\ \/ Top.src.in = "freed"
     \/ Top.src.in # "freed" /\ Top.uris = <<>> /\ NeedsUri
  /\ Raise("undefined")
  /\ UNCHANGED <<registry, heap, doc, root, corpus, pending, again, calls, base, loads, home>>
-----------------------------------------------------------------------------
(***************************************************************************)
(* The loading loop of set_root_schema().                                  *)
(***************************************************************************)
Loading == pc = "load" /\ stack = <<>>
Loaded(l) == \E u \in DOMAIN schemas : u.loc = l
NextLocation(l) ==
  /\ Loading
  /\ l \in pending /\ \A k \in pending : LocationRank[l] <= LocationRank[k]

SkipFile(l) ==
  /\ NextLocation(l)
  /\ Loaded(l)
  /\ pending' = pending \ {l}
  /\ UNCHANGED <<registry, heap, root, doc, stack, pc, corpus, again, calls, base, loads, home>>

LoadFile(l) ==
  /\ NextLocation(l)
  /\ ~Loaded(l)
  /\ HasLoader
  /\ l \in DOMAIN Text[corpus]
  /\ Compile(l, corpus)
  /\ pending' = pending \ {l} /\ again' = TRUE
  /\ loads' = Append(loads, l)
  /\ UNCHANGED <<registry, heap, root, pc, corpus, calls, base, home>>

\* No callback was given, or it throws.
LoadFails(l) ==
  /\ NextLocation(l)
  /\ ~Loaded(l)
  /\ HasLoader => l \notin DOMAIN Text[corpus] \/ FlakyLoader
  /\ loads' = IF HasLoader THEN Append(loads, l) ELSE loads
  /\ Raise("thrown")
  /\ UNCHANGED <<registry, heap, doc, root, corpus, pending, again, calls, base, home>>

NextRoundAlways ==
  /\ Loading /\ pending = {} /\ again
  /\ pending' = Locations
  /\ UNCHANGED <<registry, heap, root, doc, stack, pc, corpus, again, calls, base, loads, home>>
NextRound ==
  /\ Loading /\ pending = {} /\ again
  /\ pending' = Locations /\ again' = FALSE
  /\ UNCHANGED <<registry, heap, root, doc, stack, pc, corpus, calls, base, loads, home>>

\* No reference is left unresolved in any file.
CompleteOnceLoaded == \A u \in DOMAIN unresolved : Loaded(u.loc)
Complete == DOMAIN unresolved = {}

FinishAfterOneRound ==
  /\ Loading /\ pending = {}
  /\ pc' = IF Complete THEN "ready" ELSE "thrown"
  /\ UNCHANGED <<registry, heap, root, doc, stack, corpus, pending, again, calls, base, loads,
                 home>>

\* Success, or "... has still the following undefined references".
Finish ==
  /\ Loading /\ pending = {} /\ ~again
  /\ pc' = IF Complete THEN "ready" ELSE "thrown"
  /\ UNCHANGED <<registry, heap, root, doc, stack, corpus, pending, again, calls, base, loads,
                 home>>
-----------------------------------------------------------------------------
Init ==
  /\ schemas = NoEntries /\ unresolved = NoEntries /\ unknown = NoEntries /\ home = NoEntries
  /\ heap = <<>> /\ root = 0 /\ base = 0
  /\ doc = NoEntries /\ stack = <<>> /\ loads = <<>>
  /\ pc = "new" /\ corpus = (CHOOSE c \in Corpus : TRUE) /\ calls = 0
  /\ pending = {} /\ again = FALSE

Making ==
  \/ EnterBoolean \/ EnterObject \/ EnterRejected
  \/ OpenKeyword \/ CompileSlot \/ CloseKeyword \/ StartType \/ FinishType
  \/ ReuseReference \/ CreateReference \/ Override
  \/ InsertSchema \/ InsertTwice \/ FinishUri \/ FileKeyword
  \/ CompileKeyword \/ StoreKeyword \/ StoreFails \/ OpenMembers
  \/ ReturnToCaller \/ ReturnRoot \/ ReturnLoaded \/ Undefined

LoadStep ==
  \/ \E l \in Location : SkipFile(l) \/ LoadFile(l) \/ LoadFails(l)
  \/ NextRound \/ Finish

Compute == Making \/ LoadStep

\* The bound on calls is reached, or nothing is known of the program any more.
Stop ==
  /\ (AtRest /\ calls = MaxCalls) \/ pc = "undefined"
  /\ UNCHANGED vars

Next == Compute \/ (\E c \in Corpus : SetRootSchema(c)) \/ Stop

\* The thread that called set_root_schema() keeps running.
Spec == Init /\ [][Next]_vars
FairSpec == Spec /\ WF_vars(Compute)
-----------------------------------------------------------------------------
(***************************************************************************)
(* Correctness.                                                            *)
(***************************************************************************)

\* Every variable has its type; of the URIs of a call only the last can be a
\* plain name, which is why dropping the last one drops them all.
Names == \A i \in 1..Depth : \A j \in DOMAIN stack[i].uris :
           stack[i].uris[j].name # NoName => j = Len(stack[i].uris)
IsTable(t, uris, values) == DOMAIN t \subseteq uris /\ \A u \in DOMAIN t : t[u] \in values
TypeOK ==
  /\ heap \in Seq(Object)
  /\ IsTable(schemas, Uri, 1..Len(heap)) /\ IsTable(unresolved, Uri, 1..Len(heap))
  /\ IsTable(home, Uri, [node : Node, keys : SUBSET Token])
  /\ DOMAIN unknown \subseteq Location
  /\ \A l \in DOMAIN unknown : IsTree(unknown[l], Token, Node)
  /\ IsTree(doc, Token, Node)
  /\ stack \in Seq(Frame) /\ Names
  /\ root \in 0..Len(heap) /\ base \in 0..Len(heap)
  /\ pc \in {"new", "root", "load", "ready", "thrown", "undefined"}
  /\ corpus \in Corpus /\ pending \subseteq Location /\ again \in BOOLEAN
  /\ calls \in 0..MaxCalls /\ loads \in Seq(Location)

\* A URI is never registered and awaited at once: a reference that still waits
\* for a registered schema would be reported as undefined.
RegisteredXorAwaited == DOMAIN schemas \cap DOMAIN unresolved = {}

\* The references made by get_or_create_ref() during the current call.
References == {o \in (base + 1)..Len(heap) : heap[o].kind = "ref" /\ heap[o].owns = {}}

\* Wherever a reference and its target were met first, the reference is either
\* awaited and empty, or points to the very object registered under its URI.
RefsFollowRegistry ==
  \A o \in References :
    LET r == heap[o]
    IN \/ r.uri \in DOMAIN unresolved /\ unresolved[r.uri] = o /\ r.target = 0
       \/ r.uri \in DOMAIN schemas /\ r.target = schemas[r.uri]

\* The objects kept alive by files_ and root_, themselves or through others.
Roots ==
  {schemas[u] : u \in DOMAIN schemas} \cup {unresolved[u] : u \in DOMAIN unresolved}
  \cup ({root} \ {0})
WithOwned(objects) == objects \cup UNION {heap[o].owns : o \in objects}
Reached[n \in 0..Len(heap)] == IF n = 0 THEN Roots ELSE WithOwned(Reached[n - 1])
Alive == Reached[Len(heap)]

\* After success no reference is left that validation could meet "unresolved or
\* freed": the weak pointers of all live references of this call point to live
\* objects, those overridden by a default next to a $ref included.
NoFreedTarget ==
  pc = "ready" =>
    \A o \in Alive \cap (base + 1)..Len(heap) :
      heap[o].kind = "ref" => heap[o].target \in Alive

\* The shared pointers form no cycle, although schemas refer to one another in
\* cycles: an object only owns objects made before it, so all are freed.
OwnershipAcyclic == \A o \in 1..Len(heap) : \A k \in heap[o].owns : 0 < k /\ k < o

\* Nothing an earlier call made is ever registered or awaited, even when that
\* call failed half-way: a reference never gets a schema of another document.
CurrentGeneration ==
  /\ \A u \in DOMAIN schemas : schemas[u] > base
  /\ \A u \in DOMAIN unresolved : unresolved[u] > base

\* A document is requested from the loader at most once per call.
LoadedOnce == \A i, j \in 1..Len(loads) : loads[i] = loads[j] => i = j

\* A binding of the registry is not changed or dropped while the call lasts:
\* references handed out early and late see the same schema.
BoundForGood ==
  [][calls' = calls => \A u \in DOMAIN schemas :
                          u \in DOMAIN schemas' /\ schemas'[u] = schemas[u]]_vars

\* The behaviour is never undefined.
NeverUndefined == pc # "undefined"

\* The compiler keeps the promise of LinkTable: whatever the order of the calls
\* of make(), insert() and get_or_create_ref(), references are linked as there.
Links ==
  INSTANCE LinkTable WITH
    bound <- schemas,
    names <- [o \in References |-> heap[o].uri],
    target <- [o \in References |-> heap[o].target],
    outcome <- CASE pc = "new" -> "none"
                 [] pc \in {"root", "load"} -> "compiling"
                 [] pc = "ready" -> "accepted"
                 [] OTHER -> "rejected"
KeepsLinks == Links!Spec

\* Every call of set_root_schema() ends.
Terminates == pc \in {"root", "load"} ~> pc \notin {"root", "load"}
=============================================================================
