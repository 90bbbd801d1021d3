------------------------ MODULE SchemaCompilerTypes -------------------------
(***************************************************************************)
(* The type invariant of SchemaCompiler, proved.  It is not inductive by   *)
(* itself: that a value read is a JSON node depends on every call that has *)
(* not lost its place still finding it in the document, and the type of a  *)
(* URI on no sub-schema being made below a plain name.                     *)
(***************************************************************************)
EXTENDS SchemaCompiler, DataProofs

\* The calls of insert_unknown_keyword(), and the calls that make them.
KeepSteps == {"keep", "kept", "members"}
FilingSteps == {"filing", "members"}

PlainOnlyLast(uris) == \A j \in 1..Len(uris) : uris[j].name # NoName => j = Len(uris)
NoPlain(uris) == \A j \in 1..Len(uris) : uris[j].name = NoName

\* A call that has not lost its place finds it in d, the document being compiled,
\* or among the unknown keywords u.
Placed(src, d, u) ==
  /\ src.in = "doc" => src.ptr \in DOMAIN d
  /\ src.in = "store" => src.loc \in DOMAIN u /\ src.ptr \in DOMAIN u[src.loc]

\* A call during the compilation that started with b objects, when there are n.
Fits(f, n, b, d, u) ==
  /\ f \in Frame
  /\ f.obj \in {0} \cup (b + 1)..n
  /\ f.kids \subseteq 1..n
  /\ f.step \in {"register", "filing"} => f.obj # 0
  /\ f.step \in {"filing"} \cup KeepSteps => f.uris # <<>>
  /\ f.step = "keep" => f.kw \in Token
  /\ f.step = "enter" => NoPlain(f.uris)
  /\ PlainOnlyLast(f.uris)
  /\ Placed(f.src, d, u)

\* insert_unknown_keyword() is called by the loops over members and by itself.
Calls(f, g) == (f.step \in FilingSteps) <=> (g.step \in KeepSteps)

StackOK(s, n, b, d, u) ==
  /\ s \in Seq(Frame)
  /\ \A i \in 1..Len(s) : Fits(s[i], n, b, d, u)
  /\ \A i \in 1..Len(s) : s[i].src.in = "doc" => s[i].src.loc = s[1].src.loc
  /\ \A i \in 1..(Len(s) - 1) : Calls(s[i], s[i + 1])
  /\ s # <<>> => s[1].step \notin KeepSteps
  /\ s # <<>> /\ s[Len(s)].step = "override" => s[Len(s)].obj # 0

\* Entries belong to the objects of the current call.
Entries(t, b, n) == IsTable(t, Uri, (b + 1)..n)

Typed ==
  /\ heap \in Seq(Object) /\ base \in 0..Len(heap) /\ root \in 0..Len(heap)
  /\ Entries(schemas, base, Len(heap)) /\ Entries(unresolved, base, Len(heap))
  /\ IsTable(home, Uri, [node : Node, keys : SUBSET Token])
  /\ DOMAIN unknown \subseteq Location
  /\ \A l \in DOMAIN unknown : IsTree(unknown[l], Token, Node)
  /\ IsTree(doc, Token, Node)
  /\ pc \in {"new", "root", "load", "ready", "thrown", "undefined"}
  /\ corpus \in Corpus /\ pending \subseteq Location /\ again \in BOOLEAN
  /\ calls \in 0..MaxCalls /\ loads \in Seq(Location)

\* The compiler only runs during a call of set_root_schema().
Phases ==
  /\ stack # <<>> => pc \in {"root", "load"}
  /\ pc = "root" => stack # <<>>

IInv == Typed /\ Phases /\ StackOK(stack, Len(heap), base, doc, unknown)
-----------------------------------------------------------------------------
(***************************************************************************)
(* Sequences, URIs and documents.                                          *)
(***************************************************************************)

\* A schema's URIs, and those of its sub-schemas, are URIs.
LEMMA DeriveType ==
  ASSUME NEW uri \in Uri, NEW ref \in Reference
  PROVE  Derive(uri, ref) \in Uri
<1>1. uri.loc \in Location /\ ref.loc \in Hint /\ ref.ptr \in Seq(Token)
      /\ ref.name \in Name \cup {NoName}
  BY DEF Uri, Reference
<1>2. Resolve[uri.loc, ref.loc] \in Location
  BY <1>1, LocationAssumption
<1> QED
  BY <1>1, <1>2 DEF Derive, Uri

\* json_uri::append() gives a URI, with a plain name only when it had one.
LEMMA ExtendType ==
  ASSUME NEW uri \in Uri, NEW keys \in Seq(Token)
  PROVE  Extend(uri, keys) \in Uri /\ Extend(uri, keys).name = uri.name
<1>1. uri.ptr \o keys \in Seq(Token)
  BY DEF Uri
<1>2. CASE uri.name = NoName
  <2>1. Extend(uri, keys) = [uri EXCEPT !.ptr = uri.ptr \o keys]
    BY <1>2 DEF Extend
  <2> DEFINE q == uri.ptr \o keys
  <2> HIDE DEF q
  <2>2. [uri EXCEPT !.ptr = q] \in Uri /\ [uri EXCEPT !.ptr = q].name = uri.name
    BY <1>1 DEF q, Uri
  <2> QED BY <2>1, <2>2 DEF q
<1>3. CASE uri.name # NoName
  BY <1>3 DEF Extend
<1> QED
  BY <1>2, <1>3

\* The URI of a file is a URI without a plain name.
LEMMA FileUriType == \A l \in Location : FileUri(l) \in Uri /\ FileUri(l).name = NoName
  BY DEF FileUri, Uri

\* Of the URIs for sub-schemas none is a plain name.
LEMMA UnnamedType ==
  ASSUME NEW uris \in Seq(Uri), PlainOnlyLast(uris)
  PROVE  Unnamed(uris) \in Seq(Uri) /\ NoPlain(Unnamed(uris))
  BY DEF Unnamed, PlainOnlyLast, NoPlain, Front

\* Dropping a repeated URI leaves URIs.
LEMMA WithoutType ==
  ASSUME NEW uris \in Seq(Uri), NEW uri, NoPlain(uris)
  PROVE  Without(uris, uri) \in Seq(Uri) /\ NoPlain(Without(uris, uri))
<1>1. CASE ~ \E i \in 1..Len(uris) : uris[i] = uri
  BY <1>1 DEF Without
<1>2. CASE \E i \in 1..Len(uris) : uris[i] = uri
  <2>1. PICK i \in 1..Len(uris) : i = CHOOSE j \in 1..Len(uris) : uris[j] = uri
    BY <1>2
  <2>2. Without(uris, uri) = SubSeq(uris, 1, i - 1) \o SubSeq(uris, i + 1, Len(uris))
    BY <1>2, <2>1 DEF Without, RemoveAt
  <2> DEFINE l == SubSeq(uris, 1, i - 1)  r == SubSeq(uris, i + 1, Len(uris))
  <2>3. l \in Seq(Uri) /\ r \in Seq(Uri) /\ NoPlain(l) /\ NoPlain(r)
    BY DEF NoPlain
  <2> HIDE DEF l, r
  <2>4. l \o r \in Seq(Uri) /\ NoPlain(l \o r)
    BY <2>3 DEF NoPlain
  <2> QED
    BY <2>2, <2>4 DEF l, r
<1> QED
  BY <1>1, <1>2

\* An $id gives one more URI, the only one that can be a plain name.
LEMMA IdentifiedType ==
  ASSUME NEW uris \in Seq(Uri), NEW id \in Reference \cup {NoRef}, NoPlain(uris),
         id # NoRef => uris # <<>>
  PROVE  Identified(uris, id) \in Seq(Uri) /\ PlainOnlyLast(Identified(uris, id))
<1>1. CASE id = NoRef
  BY <1>1 DEF Identified, PlainOnlyLast, NoPlain
<1>2. CASE id # NoRef
  <2> DEFINE uri == Derive(Last(uris), id)  w == Without(uris, uri)
  <2>1. uri \in Uri
    BY <1>2, DeriveType DEF Last
  <2>2. w \in Seq(Uri) /\ NoPlain(w)
    BY WithoutType
  <2>3. Identified(uris, id) = Append(w, uri)
    BY <1>2 DEF Identified
  <2> HIDE DEF uri, w
  <2> QED
    BY <2>1, <2>2, <2>3 DEF PlainOnlyLast, NoPlain
<1> QED
  BY <1>1, <1>2

\* The object the library creates for a missing token is a node.
LEMMA BlankType == Blank \in Node
  BY DEF Blank, Node, Types, AnyType

\* Replacing a node keeps a document.
LEMMA SetNodeType ==
  ASSUME NEW t, IsTree(t, Token, Node), NEW p, NEW n \in Node
  PROVE  IsTree(SetNode(t, p, n), Token, Node) /\ DOMAIN SetNode(t, p, n) = DOMAIN t
  BY DEF IsTree, SetNode

\* Creating the objects on the way to a pointer keeps a document.
LEMMA TrunkType ==
  ASSUME NEW t, IsTree(t, Token, Node), NEW p \in Seq(Token)
  PROVE  /\ IsTree(Trunk(t, p, Blank), Token, Node)
         /\ DOMAIN t \subseteq DOMAIN Trunk(t, p, Blank)
<1>1. Prefixes(p) \subseteq Seq(Token)
  BY DEF Prefixes
<1> QED
  BY <1>1, BlankType DEF Trunk, IsTree

-----------------------------------------------------------------------------
(***************************************************************************)
(* The stack of calls.                                                     *)
(***************************************************************************)

\* What may follow a frame in its place, and be called by it.
Follows(f, g) ==
  /\ g.src = f.src
  /\ g.step \in KeepSteps <=> f.step \in KeepSteps

\* The running call is a frame that fits the objects and the documents.
LEMMA TopFits ==
  ASSUME NEW s, NEW n, NEW b, NEW d, NEW u, StackOK(s, n, b, d, u), s # <<>>
  PROVE  /\ Len(s) \in Nat \ {0}
         /\ s[Len(s)] \in Frame
         /\ Fits(s[Len(s)], n, b, d, u)
  BY DEF StackOK

\* Frames stay in order when objects are added to the heap.
LEMMA FitsGrow ==
  ASSUME NEW f, NEW n \in Nat, NEW m \in Nat, n <= m, NEW b \in Nat, NEW d, NEW u, NEW e, NEW v,
         Fits(f, n, b, d, u), Placed(f.src, e, v)
  PROVE  Fits(f, m, b, e, v)
<1>1. (b + 1)..n \subseteq (b + 1)..m /\ 1..n \subseteq 1..m
  OBVIOUS
<1> QED
  BY <1>1 DEF Fits

\* The running call goes on, at its place or at one it has found again.
LEMMA ReplaceTop ==
  ASSUME NEW s, NEW n \in Nat, NEW m \in Nat, n <= m, NEW b \in Nat, NEW d, NEW u, NEW f,
         StackOK(s, n, b, d, u), s # <<>>,
         Fits(f, m, b, d, u), f.step \in KeepSteps <=> s[Len(s)].step \in KeepSteps,
         f.src.loc = s[Len(s)].src.loc, f.src.in = "doc" => f.src.loc = s[1].src.loc,
         f.step = "override" => f.obj # 0
  PROVE  StackOK([s EXCEPT ![Len(s)] = f], m, b, d, u)
<1> DEFINE t == [s EXCEPT ![Len(s)] = f]
<1>1. s \in Seq(Frame) /\ Len(s) \in Nat \ {0} /\ f \in Frame
  BY DEF StackOK, Fits
<1>2. /\ t \in Seq(Frame) /\ Len(t) = Len(s) /\ t[Len(s)] = f
      /\ \A i \in 1..(Len(s) - 1) : t[i] = s[i]
  BY <1>1
<1> HIDE DEF t
<1>3. ASSUME NEW i \in 1..Len(t) PROVE Fits(t[i], m, b, d, u)
  <2>1. CASE i = Len(s)
    BY <2>1, <1>2
  <2>2. CASE i # Len(s)
    <3>1. i \in 1..(Len(s) - 1) /\ t[i] = s[i] /\ Fits(s[i], n, b, d, u)
      BY <1>1, <1>2, <2>2 DEF StackOK
    <3>2. Placed(s[i].src, d, u)
      BY <3>1 DEF Fits
    <3> QED BY <3>1, <3>2, FitsGrow
  <2> QED BY <2>1, <2>2
<1>4. \A i \in 1..Len(t) : t[i].src.loc = s[i].src.loc
  BY <1>1, <1>2
<1>5. \A i \in 1..Len(t) : t[i].step \in KeepSteps <=> s[i].step \in KeepSteps
  BY <1>1, <1>2
<1>6. ASSUME NEW i \in 1..(Len(t) - 1) PROVE Calls(t[i], t[i + 1])
  <2>1. Calls(s[i], s[i + 1]) /\ t[i] = s[i] /\ i + 1 \in 1..Len(t)
    BY <1>1, <1>2 DEF StackOK
  <2> QED BY <2>1, <1>5 DEF Calls
<1>7. \A i \in 1..Len(t) : t[i].src.in = "doc" => t[i].src.loc = t[1].src.loc
  BY <1>1, <1>2, <1>4 DEF StackOK
<1>8. t[1].step \notin KeepSteps
  BY <1>1, <1>2, <1>5 DEF StackOK
<1>9. t[Len(t)].step = "override" => t[Len(t)].obj # 0
  BY <1>2
<1> QED
  BY <1>2, <1>3, <1>6, <1>7, <1>8, <1>9 DEF StackOK, t

\* The running call f makes the call g.
LEMMA PushCall ==
  ASSUME NEW s, NEW n \in Nat, NEW m \in Nat, n <= m, NEW b \in Nat, NEW d, NEW u, NEW f, NEW g,
         StackOK(s, n, b, d, u), s # <<>>,
         Fits(f, m, b, d, u), Follows(s[Len(s)], f),
         Fits(g, m, b, d, u), Calls(f, g), g.step # "override",
         g.src.in = "doc" => f.src.in = "doc" /\ g.src.loc = f.src.loc
  PROVE  StackOK(Append([s EXCEPT ![Len(s)] = f], g), m, b, d, u)
<1> DEFINE t == Append([s EXCEPT ![Len(s)] = f], g)
           k == Len(s)
<1>1. s \in Seq(Frame) /\ k \in Nat \ {0} /\ f \in Frame /\ g \in Frame
  BY DEF StackOK, Fits
<1>2. /\ t \in Seq(Frame) /\ Len(t) = k + 1 /\ t[k] = f /\ t[k + 1] = g
      /\ \A i \in 1..(k - 1) : t[i] = s[i]
  <2> DEFINE q == [s EXCEPT ![k] = f]
  <2>1. q \in Seq(Frame) /\ Len(q) = k /\ \A i \in 1..k : q[i] = IF i = k THEN f ELSE s[i]
    BY <1>1
  <2> HIDE DEF q
  <2>2. /\ Append(q, g) \in Seq(Frame) /\ Len(Append(q, g)) = k + 1 /\ Append(q, g)[k + 1] = g
        /\ \A i \in 1..k : Append(q, g)[i] = q[i]
    BY <2>1, <1>1, AppendProperties
  <2>3. t = Append(q, g)
    BY DEF q
  <2> HIDE DEF t
  <2>4. k \in 1..k /\ 1..(k - 1) \subseteq 1..k /\ k \notin 1..(k - 1)
    BY <1>1
  <2> QED BY <2>1, <2>2, <2>3, <2>4
<1> HIDE DEF t
<1>3. ASSUME NEW i \in 1..Len(t) PROVE Fits(t[i], m, b, d, u)
  <2>1. CASE i \in {k, k + 1}
    BY <2>1, <1>2
  <2>2. CASE i \notin {k, k + 1}
    <3>1. i \in 1..(k - 1) /\ t[i] = s[i] /\ Fits(s[i], n, b, d, u)
      BY <1>1, <1>2, <2>2 DEF StackOK
    <3>2. Placed(s[i].src, d, u)
      BY <3>1 DEF Fits
    <3> QED BY <3>1, <3>2, FitsGrow
  <2> QED BY <2>1, <2>2
<1>4. \A i \in 1..k : t[i].src = s[i].src
  BY <1>1, <1>2 DEF Follows
<1>5. \A i \in 1..k : t[i].step \in KeepSteps <=> s[i].step \in KeepSteps
  BY <1>1, <1>2 DEF Follows
<1>6. ASSUME NEW i \in 1..(Len(t) - 1) PROVE Calls(t[i], t[i + 1])
  <2>1. CASE i = k
    BY <2>1, <1>1, <1>2
  <2>2. CASE i # k
    <3>1. i \in 1..(k - 1) /\ i + 1 \in 1..k
      BY <1>1, <1>2, <2>2
    <3>2. Calls(s[i], s[i + 1]) /\ t[i] = s[i]
      BY <1>1, <1>2, <3>1 DEF StackOK
    <3> QED BY <3>1, <3>2, <1>5 DEF Calls
  <2> QED BY <2>1, <2>2
<1>7. ASSUME NEW i \in 1..Len(t), t[i].src.in = "doc" PROVE t[i].src.loc = t[1].src.loc
  <2>1. \A j \in 1..k : t[j].src.in = "doc" => t[j].src.loc = t[1].src.loc
    BY <1>1, <1>4 DEF StackOK
  <2>2. CASE i = k + 1
    BY <2>1, <2>2, <1>1, <1>2, <1>7
  <2>3. CASE i # k + 1
    BY <2>1, <2>3, <1>1, <1>2, <1>7
  <2> QED BY <2>2, <2>3
<1>8. t[1].step \notin KeepSteps
  BY <1>1, <1>5 DEF StackOK
<1>9. t[Len(t)].step # "override"
  BY <1>2
<1> QED
  BY <1>2, <1>3, <1>6, <1>7, <1>8, <1>9 DEF StackOK, t

\* A document changes: the calls that do not lose their place are still in it.
LEMMA FreedFits ==
  ASSUME NEW s, NEW n \in Nat, NEW b \in Nat, NEW d, NEW u, StackOK(s, n, b, d, u),
         NEW src, NEW gone, NEW e, NEW v,
         \A i \in 1..Len(s) : Placed(Freed(s, src, gone)[i].src, e, v)
  PROVE  /\ StackOK(Freed(s, src, gone), n, b, e, v)
         /\ Len(Freed(s, src, gone)) = Len(s)
<1> DEFINE t == Freed(s, src, gone)
           freed(i) == [s[i] EXCEPT !.src.in = "freed"]
<1>1. s \in Seq(Frame) /\ Len(s) \in Nat /\ \A i \in 1..Len(s) : s[i] \in Frame
  BY DEF StackOK
<1>2. DOMAIN t = 1..Len(s) /\ \A i \in 1..Len(s) : t[i] = s[i] \/ t[i] = freed(i)
  <2>1. DOMAIN s = 1..Len(s)
    BY <1>1
  <2>2. DOMAIN t = DOMAIN s
    BY DEF Freed
  <2>3. \A i \in DOMAIN s : t[i] = s[i] \/ t[i] = freed(i)
    BY DEF Freed
  <2> QED BY <2>1, <2>2, <2>3
<1>3. ASSUME NEW i \in 1..Len(s)
      PROVE  /\ freed(i) \in Frame
             /\ freed(i).src.in = "freed" /\ freed(i).src.loc = s[i].src.loc
             /\ freed(i).step = s[i].step /\ freed(i).obj = s[i].obj
             /\ freed(i).kids = s[i].kids /\ freed(i).uris = s[i].uris
             /\ freed(i).kw = s[i].kw
  <2>1. s[i] \in Frame
    BY <1>1
  <2> QED BY <2>1 DEF Frame, Source
<1>4. ASSUME NEW i \in 1..Len(s)
      PROVE  /\ t[i] \in Frame
             /\ t[i].src.in = "freed" \/ t[i].src = s[i].src
             /\ t[i].src.loc = s[i].src.loc
             /\ t[i].step = s[i].step /\ t[i].obj = s[i].obj
             /\ t[i].kids = s[i].kids /\ t[i].uris = s[i].uris /\ t[i].kw = s[i].kw
  BY <1>1, <1>2, <1>3
<1>5. t \in Seq(Frame) /\ Len(t) = Len(s)
  <2>1. t \in [1..Len(s) -> Frame]
    BY <1>2, <1>4 DEF Freed
  <2> QED BY <2>1, <1>1
<1>6. \A i \in 1..Len(s) : Placed(t[i].src, e, v)
  OBVIOUS
<1> HIDE DEF t, freed
<1>7. ASSUME NEW i \in 1..Len(s) PROVE Fits(t[i], n, b, e, v)
  BY <1>4, <1>6, SMTT(20) DEF StackOK, Fits, PlainOnlyLast, NoPlain
<1>8. \A i \in 1..(Len(s) - 1) : Calls(t[i], t[i + 1])
  <2> SUFFICES ASSUME NEW i \in 1..(Len(s) - 1) PROVE Calls(t[i], t[i + 1])
    OBVIOUS
  <2>1. i \in 1..Len(s) /\ i + 1 \in 1..Len(s)
    BY <1>1
  <2>2. t[i].step = s[i].step /\ t[i + 1].step = s[i + 1].step
    BY <2>1, <1>4
  <2>3. Calls(s[i], s[i + 1])
    BY DEF StackOK
  <2> QED BY <2>2, <2>3 DEF Calls
<1>9. \A i \in 1..Len(s) : t[i].src.in = "doc" => t[i].src.loc = t[1].src.loc
  <2> SUFFICES ASSUME NEW i \in 1..Len(s), t[i].src.in = "doc" PROVE t[i].src.loc = t[1].src.loc
    OBVIOUS
  <2>1. t[i].src = s[i].src /\ 1 \in 1..Len(s)
    BY <1>1, <1>4
  <2>2. s[i].src.loc = s[1].src.loc
    BY <2>1 DEF StackOK
  <2> QED BY <2>1, <2>2, <1>4
<1>10. s # <<>> => t[1].step \notin KeepSteps /\ (t[Len(s)].step = "override" => t[Len(s)].obj # 0)
  BY <1>1, <1>4 DEF StackOK
<1>11. s = <<>> <=> t = <<>>
  BY <1>1, <1>5
<1> QED
  BY <1>5, <1>7, <1>8, <1>9, <1>10, <1>11 DEF StackOK, t

\* A call returns to its caller.
LEMMA PopCall ==
  ASSUME NEW s, NEW n \in Nat, NEW b \in Nat, NEW d, NEW u, StackOK(s, n, b, d, u),
         Len(s) > 1, s[Len(s)].step \in {"register", "members"}
  PROVE  StackOK([Front(s) EXCEPT ![Len(s) - 1] = Received(@, s[Len(s)].obj)], n, b, d, u)
<1> DEFINE k == Len(s) - 1
           c == s[k]
           r == Received(c, s[Len(s)].obj)
           t == [Front(s) EXCEPT ![k] = Received(@, s[Len(s)].obj)]
<1>1. s \in Seq(Frame) /\ Len(s) \in Nat /\ k \in Nat \ {0}
  BY DEF StackOK
<1>2. c \in Frame /\ Fits(c, n, b, d, u) /\ Fits(s[Len(s)], n, b, d, u) /\ Calls(c, s[Len(s)])
  BY <1>1 DEF StackOK
<1>3. c.step \in {"branches", "override"} => s[Len(s)].obj \in (b + 1)..n
  BY <1>2 DEF Calls, KeepSteps, FilingSteps, Fits
<1>4. /\ r \in Frame /\ r.step = c.step /\ r.src = c.src /\ r.uris = c.uris /\ r.kw = c.kw
      /\ r.kids = IF c.step = "branches" THEN c.kids \cup {s[Len(s)].obj} ELSE c.kids
      /\ r.obj = IF c.step = "override" THEN s[Len(s)].obj ELSE c.obj
  <2>1. s[Len(s)].obj \in Nat
    BY <1>2 DEF Fits, Frame
  <2>2. c.kids \cup {s[Len(s)].obj} \in SUBSET Nat /\ c.kids \in SUBSET Nat /\ c.obj \in Nat
    BY <1>2, <2>1 DEF Frame
  <2> DEFINE kids == IF c.step = "branches" THEN c.kids \cup {s[Len(s)].obj} ELSE c.kids
             obj == IF c.step = "override" THEN s[Len(s)].obj ELSE c.obj
  <2>3. r = [c EXCEPT !.held = <<>>, !.kids = kids, !.obj = obj]
    BY DEF Received
  <2>4. kids \in SUBSET Nat /\ obj \in Nat
    BY <2>1, <2>2
  <2> HIDE DEF kids, obj, r, c, t
  <2>5. /\ r \in Frame /\ r.step = c.step /\ r.src = c.src /\ r.uris = c.uris /\ r.kw = c.kw
        /\ r.kids = kids /\ r.obj = obj
    <3>1. c \in Frame /\ <<>> \in Seq(Token)
      BY <1>2
    <3> QED BY <3>1, <2>3, <2>4 DEF Frame
  <2> QED BY <2>5 DEF kids, obj
<1>5. Fits(r, n, b, d, u)
  <2>1. r.kids \subseteq 1..n
    BY <1>2, <1>3, <1>4 DEF Fits
  <2>2. r.obj \in {0} \cup (b + 1)..n
    BY <1>2, <1>3, <1>4 DEF Fits
  <2> QED BY <1>2, <1>3, <1>4, <2>1, <2>2 DEF Fits, PlainOnlyLast, NoPlain
<1>6. Front(s) \in Seq(Frame) /\ Len(Front(s)) = k /\ \A i \in 1..k : Front(s)[i] = s[i]
  BY <1>1 DEF Front
<1>7. t \in Seq(Frame) /\ Len(t) = k /\ t[k] = r /\ \A i \in 1..(k - 1) : t[i] = s[i]
  BY <1>1, <1>4, <1>6
<1> HIDE DEF r, t
<1>8. \A i \in 1..k : Fits(t[i], n, b, d, u)
  BY <1>1, <1>5, <1>7 DEF StackOK
<1>9. ASSUME NEW i \in 1..k PROVE t[i].src = s[i].src /\ t[i].step = s[i].step
  <2>1. CASE i = k
    BY <2>1, <1>4, <1>7
  <2>2. CASE i # k
    <3>1. i \in 1..(k - 1)
      BY <2>2, <1>1
    <3> QED BY <3>1, <1>7
  <2> QED BY <2>1, <2>2
<1>10. ASSUME NEW i \in 1..(k - 1) PROVE Calls(t[i], t[i + 1])
  <2>1. Calls(s[i], s[i + 1]) /\ i \in 1..k /\ i + 1 \in 1..k
    BY <1>1 DEF StackOK
  <2> QED BY <2>1, <1>9 DEF Calls
<1>11. \A i \in 1..k : t[i].src.in = "doc" => t[i].src.loc = t[1].src.loc
  BY <1>1, <1>9 DEF StackOK
<1>12. t[1].step \notin KeepSteps
  BY <1>1, <1>9 DEF StackOK
<1>13. t[k].step = "override" => t[k].obj # 0
  BY <1>3, <1>4, <1>7, <1>2 DEF Fits
<1> QED
  BY <1>7, <1>8, <1>10, <1>11, <1>12, <1>13 DEF StackOK, t
-----------------------------------------------------------------------------
(***************************************************************************)
(* What the actions have in common.                                        *)
(***************************************************************************)

\* What every action of a running call starts from.
LEMMA Basics ==
  ASSUME IInv
  PROVE  Len(heap) \in Nat /\ base \in Nat /\ base <= Len(heap)
  BY DEF IInv, Typed

\* A call that has not lost its place reads a JSON node.
LEMMA ReadsNode ==
  ASSUME IInv, stack # <<>>, Top.src.in # "freed"
  PROVE  /\ Top \in Frame /\ Fits(Top, Len(heap), base, doc, unknown)
         /\ Top.src.ptr \in Seq(Token) /\ Top.src.loc \in Location
         /\ IsTree(TextOf(Top.src), Token, Node)
         /\ Top.src.ptr \in DOMAIN TextOf(Top.src)
         /\ Value(Top.src) \in Node
         /\ KeysOf(Top.src) \subseteq Token
         /\ Top.src.in = "store" => Top.src.loc \in DOMAIN unknown
<1>1. Top \in Frame /\ Fits(Top, Len(heap), base, doc, unknown)
  BY TopFits DEF IInv, Top, Depth
<1>2. Top.src \in Source
  BY <1>1 DEF Frame
<1>3. Top.src.in \in {"doc", "store"} /\ Top.src.ptr \in Seq(Token) /\ Top.src.loc \in Location
  BY <1>2 DEF Source
<1>4. Placed(Top.src, doc, unknown)
  BY <1>1 DEF Fits
<1>5. IsTree(TextOf(Top.src), Token, Node) /\ Top.src.ptr \in DOMAIN TextOf(Top.src)
  <2>1. CASE Top.src.in = "doc"
    BY <2>1, <1>4 DEF IInv, Typed, TextOf, Placed
  <2>2. CASE Top.src.in = "store"
    BY <2>2, <1>4 DEF IInv, Typed, TextOf, Placed
  <2> QED BY <1>3, <2>1, <2>2
<1>6. Value(Top.src) \in Node
  BY <1>5 DEF Value, IsTree
<1>7. KeysOf(Top.src) \subseteq Token
  BY <1>3, <1>5, MembersType DEF KeysOf
<1> QED
  BY <1>1, <1>3, <1>4, <1>5, <1>6, <1>7 DEF Placed

\* The running call goes on where it is.
LEMMA Continues ==
  ASSUME IInv, stack # <<>>, NEW m \in Nat, Len(heap) <= m, NEW f,
         Fits(f, m, base, doc, unknown), Follows(Top, f), f.step = "override" => f.obj # 0
  PROVE  /\ StackOK([stack EXCEPT ![Depth] = f], m, base, doc, unknown)
         /\ [stack EXCEPT ![Depth] = f] # <<>>
<1>1. StackOK(stack, Len(heap), base, doc, unknown) /\ Len(stack) \in Nat \ {0}
  BY TopFits DEF IInv
<1>2. f.src = stack[Len(stack)].src
      /\ (f.step \in KeepSteps <=> stack[Len(stack)].step \in KeepSteps)
  BY DEF Follows, Top, Depth
<1>3. stack[Len(stack)].src.in = "doc" => stack[Len(stack)].src.loc = stack[1].src.loc
  BY <1>1 DEF StackOK
<1>4. stack \in Seq(Frame) /\ f \in Frame
  BY <1>1 DEF StackOK, Fits
<1>5. Len([stack EXCEPT ![Depth] = f]) = Len(stack) /\ [stack EXCEPT ![Depth] = f] \in Seq(Frame)
  BY <1>1, <1>4 DEF Depth
<1>6. [stack EXCEPT ![Depth] = f] # <<>>
  BY <1>1, <1>5
<1> QED
  BY <1>1, <1>2, <1>3, <1>6, Basics, ReplaceTop DEF Depth

\* The running call makes another one.
LEMMA MakesCall ==
  ASSUME IInv, stack # <<>>, NEW m \in Nat, Len(heap) <= m, NEW f, NEW g,
         Fits(f, m, base, doc, unknown), Follows(Top, f),
         Fits(g, m, base, doc, unknown), Calls(f, g), g.step # "override",
         g.src.in = "doc" => f.src.in = "doc" /\ g.src.loc = f.src.loc
  PROVE  /\ StackOK(Append([stack EXCEPT ![Depth] = f], g), m, base, doc, unknown)
         /\ Append([stack EXCEPT ![Depth] = f], g) # <<>>
<1>1. StackOK(stack, Len(heap), base, doc, unknown)
  BY DEF IInv
<1>2. StackOK(Append([stack EXCEPT ![Depth] = f], g), m, base, doc, unknown)
  BY <1>1, Basics, PushCall DEF Depth, Top
<1>3. [stack EXCEPT ![Depth] = f] \in Seq(Frame) /\ g \in Frame
  <2>1. stack \in Seq(Frame) /\ f \in Frame /\ g \in Frame
    BY <1>1 DEF StackOK, Fits
  <2> QED BY <2>1 DEF Depth
<1> QED
  BY <1>2, <1>3, AppendProperties

\* The running call changes its document: what is not gone stays in place.
LEMMA RewriteFits ==
  ASSUME IInv, stack # <<>>, Top.src.in # "freed",
         NEW text, IsTree(text, Token, Node), NEW gone \in SUBSET Seq(Token),
         \A q \in DOMAIN TextOf(Top.src) : (\A g \in gone : ~IsPrefix(g, q)) => q \in DOMAIN text,
         Top.src.ptr \in DOMAIN text,
         NEW m \in Nat, Len(heap) <= m, NEW f,
         Fits(f, m, base, doc, unknown), Follows(Top, f), f.step = "override" => f.obj # 0,
         Rewrite(text, gone, f)
  PROVE  /\ StackOK(stack', m, base, doc', unknown') /\ stack' # <<>>
         /\ IsTree(doc', Token, Node)
         /\ DOMAIN unknown' = DOMAIN unknown
         /\ \A l \in DOMAIN unknown' : IsTree(unknown'[l], Token, Node)
<1> DEFINE src == Top.src
           n == Len(heap)
<1>1. /\ Top \in Frame /\ src.ptr \in Seq(Token) /\ src.loc \in Location
      /\ src.in \in {"doc", "store"}
      /\ src.in = "store" => src.loc \in DOMAIN unknown
  BY ReadsNode DEF Frame, Source
<1>2. /\ doc' = IF src.in = "doc" THEN text ELSE doc
      /\ unknown' = IF src.in = "store" THEN [unknown EXCEPT ![src.loc] = text] ELSE unknown
      /\ stack' = [Freed(stack, src, gone) EXCEPT ![Len(stack)] = f]
  BY DEF Rewrite, Depth
<1>3. /\ IsTree(doc, Token, Node) /\ \A l \in DOMAIN unknown : IsTree(unknown[l], Token, Node)
      /\ StackOK(stack, n, base, doc, unknown) /\ n \in Nat /\ base \in Nat
  BY Basics DEF IInv, Typed
<1>4. stack \in Seq(Frame) /\ Len(stack) \in Nat \ {0}
  BY <1>3 DEF StackOK
<1>5. src.in = "doc" => src.loc = stack[1].src.loc
  BY <1>3, <1>4 DEF StackOK, Top, Depth
<1>6. ASSUME NEW i \in 1..Len(stack) PROVE Placed(Freed(stack, src, gone)[i].src, doc', unknown')
  <2> DEFINE r == Freed(stack, src, gone)[i]
             x == stack[i]
  <2>1. x \in Frame /\ Placed(x.src, doc, unknown) /\ i \in DOMAIN stack
    BY <1>3, <1>4 DEF StackOK, Fits
  <2>2. x.src \in Source /\ x.held \in Seq(Token)
    BY <2>1 DEF Frame
  <2>3. x.src.ptr \in Seq(Token)
    BY <2>2 DEF Source
  <2> DEFINE loses == /\ x.src.in = src.in /\ x.src.loc = src.loc
                      /\ \E p \in gone : IsPrefix(p, Holds(x))
  <2>4. r = IF loses THEN [x EXCEPT !.src.in = "freed"] ELSE x
    BY <2>1 DEF Freed
  <2>5. CASE loses
    <3>1. r.src.in = "freed"
      BY <2>1, <2>2, <2>4, <2>5 DEF Frame, Source
    <3> QED BY <3>1 DEF Placed
  <2>6. CASE ~loses
    <3>1. r = x
      BY <2>4, <2>6
    <3>2. ASSUME x.src.in = src.in, x.src.loc = src.loc PROVE \A g \in gone : ~IsPrefix(g, x.src.ptr)
      BY <2>2, <2>3, <2>6, <3>2, PrefixBelow DEF Holds
    <3>3. ASSUME x.src.in = "doc" PROVE x.src.ptr \in DOMAIN doc'
      <4>1. x.src.ptr \in DOMAIN doc /\ x.src.loc = stack[1].src.loc
        BY <2>1, <3>3, <1>3 DEF Placed, StackOK
      <4>2. CASE src.in = "doc"
        BY <4>1, <4>2, <3>2, <3>3, <1>2, <1>5 DEF TextOf
      <4>3. CASE src.in # "doc"
        BY <4>1, <4>3, <1>2
      <4> QED BY <4>2, <4>3
    <3>4. ASSUME x.src.in = "store"
          PROVE x.src.loc \in DOMAIN unknown' /\ x.src.ptr \in DOMAIN unknown'[x.src.loc]
      <4>1. x.src.loc \in DOMAIN unknown /\ x.src.ptr \in DOMAIN unknown[x.src.loc]
        BY <2>1, <3>4 DEF Placed
      <4>2. CASE src.in = "store" /\ x.src.loc = src.loc
        <5>1. unknown'[x.src.loc] = text /\ DOMAIN unknown' = DOMAIN unknown
          BY <4>1, <4>2, <1>2
        <5>2. x.src.ptr \in DOMAIN TextOf(Top.src)
          BY <4>1, <4>2 DEF TextOf
        <5> QED BY <5>1, <5>2, <4>1, <4>2, <3>2, <3>4
      <4>3. CASE ~(src.in = "store" /\ x.src.loc = src.loc)
        BY <4>1, <4>3, <1>2
      <4> QED BY <4>2, <4>3
    <3> QED BY <3>1, <3>3, <3>4 DEF Placed
  <2> QED BY <2>5, <2>6
<1> DEFINE s == Freed(stack, src, gone)
<1>7. StackOK(s, n, base, doc', unknown') /\ Len(s) = Len(stack)
  BY <1>3, <1>6, FreedFits, ZenonT(30)
<1>8. ASSUME NEW i \in 1..Len(stack)
      PROVE s[i].src.loc = stack[i].src.loc /\ s[i].step = stack[i].step
  <2>1. stack[i] \in Frame /\ i \in DOMAIN stack
    BY <1>4
  <2>2. s[i] = stack[i] \/ s[i] = [stack[i] EXCEPT !.src.in = "freed"]
    BY <2>1 DEF Freed
  <2> QED BY <2>1, <2>2 DEF Frame, Source
<1>9. Placed(f.src, doc', unknown')
  <2>1. f.src = src
    BY DEF Follows
  <2>2. src.in = "doc" => src.ptr \in DOMAIN doc'
    BY <1>2
  <2>3. src.in = "store" => src.loc \in DOMAIN unknown' /\ src.ptr \in DOMAIN unknown'[src.loc]
    BY <1>1, <1>2
  <2> QED BY <2>1, <2>2, <2>3 DEF Placed
<1>10. Fits(f, m, base, doc', unknown')
  BY <1>3, <1>9, FitsGrow
<1>11. StackOK([s EXCEPT ![Len(s)] = f], m, base, doc', unknown')
  <2>1. s # <<>>
    BY <1>4, <1>7
  <2>2. 1 \in 1..Len(stack) /\ Len(stack) \in 1..Len(stack)
    BY <1>4
  <2>3. f.src.loc = s[Len(s)].src.loc /\ (f.src.in = "doc" => f.src.loc = s[1].src.loc)
    BY <1>5, <1>7, <1>8, <2>2 DEF Follows, Top, Depth
  <2>4. f.step \in KeepSteps <=> s[Len(s)].step \in KeepSteps
    BY <1>7, <1>8, <2>2 DEF Follows, Top, Depth
  <2> HIDE DEF s
  <2> QED BY <1>3, <1>7, <1>10, <2>1, <2>3, <2>4, ReplaceTop
<1>12. IsTree(doc', Token, Node)
  BY <1>2, <1>3
<1>13. DOMAIN unknown' = DOMAIN unknown /\ \A l \in DOMAIN unknown' : IsTree(unknown'[l], Token, Node)
  BY <1>1, <1>2, <1>3
<1>14. stack' # <<>>
  <2>1. s \in Seq(Frame) /\ f \in Frame
    BY <1>7, <1>10 DEF StackOK, Fits
  <2>2. Len(stack') = Len(stack)
    BY <1>2, <1>7, <2>1
  <2> QED BY <1>4, <2>2
<1> QED
  BY <1>2, <1>7, <1>11, <1>12, <1>13, <1>14

\* A step of the running call, in the order in which the invariant is stated.
LEMMA StepTyped ==
  ASSUME IInv, stack # <<>>, stack' # <<>>,
         heap' \in Seq(Object), Len(heap) <= Len(heap'),
         Entries(schemas', base, Len(heap')), Entries(unresolved', base, Len(heap')),
         IsTable(home', Uri, [node : Node, keys : SUBSET Token]),
         DOMAIN unknown' \subseteq Location,
         \A l \in DOMAIN unknown' : IsTree(unknown'[l], Token, Node),
         IsTree(doc', Token, Node),
         StackOK(stack', Len(heap'), base, doc', unknown'),
         UNCHANGED <<root, pc, corpus, pending, again, calls, base, loads>>
  PROVE  IInv'
<1>1. Len(heap) \in Nat /\ Len(heap') \in Nat /\ base \in Nat /\ base <= Len(heap)
  BY Basics
<1>2. base' \in 0..Len(heap') /\ root' \in 0..Len(heap')
  BY <1>1 DEF IInv, Typed
<1>3. Typed'
  BY <1>2 DEF IInv, Typed
<1>4. Phases'
  BY DEF IInv, Phases
<1> QED
  BY <1>3, <1>4 DEF IInv

\* More objects are more than enough.
LEMMA EntriesGrow ==
  ASSUME NEW t, NEW b \in Nat, NEW n \in Nat, NEW m \in Nat, n <= m, Entries(t, b, n)
  PROVE  Entries(t, b, m)
  BY DEF Entries, IsTable

\* An entry put into a table of the registry keeps its type.
LEMMA EntriesPut ==
  ASSUME NEW t, NEW b, NEW n, Entries(t, b, n), NEW u \in Uri, NEW o \in (b + 1)..n
  PROVE  Entries(Put(t, u, o), b, n)
  BY DEF Entries, IsTable, Put

\* An entry dropped from a table of the registry keeps its type.
LEMMA EntriesDrop ==
  ASSUME NEW t, NEW b, NEW n, Entries(t, b, n), NEW u
  PROVE  Entries(Drop(t, u), b, n)
  BY DEF Entries, IsTable, Drop

\* A new schema object keeps the objects typed.
LEMMA AllocTyped ==
  ASSUME IInv, NEW o \in Object, Alloc(o)
  PROVE  /\ heap' \in Seq(Object) /\ Len(heap') = New /\ New \in Nat /\ Len(heap) <= New
         /\ New \in (base + 1)..New /\ Len(heap) \in Nat /\ base \in Nat
         /\ Entries(schemas, base, New) /\ Entries(unresolved, base, New)
<1>1. heap \in Seq(Object) /\ Len(heap) \in Nat /\ base \in Nat /\ base <= Len(heap)
      /\ Entries(schemas, base, Len(heap)) /\ Entries(unresolved, base, Len(heap))
  BY Basics DEF IInv, Typed
<1>2. heap' \in Seq(Object) /\ Len(heap') = Len(heap) + 1
  BY <1>1, AppendProperties DEF Alloc
<1>3. Entries(schemas, base, Len(heap) + 1) /\ Entries(unresolved, base, Len(heap) + 1)
  BY <1>1, EntriesGrow
<1> QED
  BY <1>1, <1>2, <1>3 DEF New

\* A frame of the running call in which the objects, the keyword and what is left
\* to do differ.
LEMMA FitsAs ==
  ASSUME NEW e, NEW f \in Frame, NEW n, NEW m, NEW b, NEW d, NEW u,
         Fits(e, n, b, d, u), f.src = e.src, f.uris = e.uris,
         f.obj \in {0} \cup (b + 1)..m, f.kids \subseteq 1..m,
         f.step \in {"register", "filing"} => f.obj # 0,
         f.step \in {"filing"} \cup KeepSteps => f.uris # <<>>,
         f.step \notin {"keep", "enter"}
  PROVE  Fits(f, m, b, d, u)
  BY DEF Fits

-----------------------------------------------------------------------------
(***************************************************************************)
(* Each action keeps the invariant.  First make().                         *)
(***************************************************************************)

\* The objects a call has collected exist after an allocation too.
LEMMA KidsGrow ==
  ASSUME IInv, stack # <<>>, Top.src.in # "freed"
  PROVE  Top.kids \subseteq 1..(Len(heap) + 1) /\ Top.kids \in SUBSET Nat
<1>1. Top.kids \subseteq 1..Len(heap) /\ Top.kids \in SUBSET Nat
  BY ReadsNode DEF Fits, Frame
<1> QED
  BY <1>1, Basics

\* make() on true or false keeps the invariant.
LEMMA EnterBooleanTyped == ASSUME IInv, EnterBoolean PROVE IInv'
<1> DEFINE was == [node |-> Value(Top.src), keys |-> {}]
           f == [Top EXCEPT !.step = "register", !.obj = New, !.was = was]
           o == NewObject("boolean", NoUri, 0, {})
<1>1. /\ stack # <<>> /\ Top.src.in # "freed" /\ Top.step = "enter"
      /\ Alloc(o) /\ stack' = [stack EXCEPT ![Depth] = f]
      /\ UNCHANGED <<registry, doc, rest>>
  BY DEF EnterBoolean, Running, Continue
<1>2. o \in Object
  BY DEF NewObject, Object
<1>3. was \in [node : Node, keys : SUBSET Token]
  BY <1>1, ReadsNode
<1> HIDE DEF was, o
<1>4. /\ f \in Frame /\ f.src = Top.src /\ f.uris = Top.uris /\ f.kids = Top.kids
      /\ f.step = "register" /\ f.obj = New
  BY <1>1, <1>2, <1>3, ReadsNode, AllocTyped DEF Frame
<1> HIDE DEF f
<1>5. Fits(f, New, base, doc, unknown) /\ Follows(Top, f)
  BY <1>1, <1>2, <1>4, ReadsNode, AllocTyped, KidsGrow, FitsAs DEF Follows, KeepSteps, New
<1>6. StackOK(stack', New, base, doc, unknown) /\ stack' # <<>>
  BY <1>1, <1>2, <1>4, <1>5, AllocTyped, Continues DEF f
<1> QED
  BY <1>1, <1>2, <1>6, AllocTyped, StepTyped DEF registry, rest, IInv, Typed

\* A step of the running call that rewrites its document, and may make an object.
LEMMA RewriteTyped ==
  ASSUME IInv, stack # <<>>, Top.src.in # "freed",
         NEW text, IsTree(text, Token, Node), NEW gone \in SUBSET Seq(Token),
         \A q \in DOMAIN TextOf(Top.src) : (\A g \in gone : ~IsPrefix(g, q)) => q \in DOMAIN text,
         Top.src.ptr \in DOMAIN text,
         heap' \in Seq(Object), Len(heap) <= Len(heap'),
         NEW f, Fits(f, Len(heap'), base, doc, unknown), Follows(Top, f),
         f.step = "override" => f.obj # 0,
         Rewrite(text, gone, f),
         UNCHANGED <<schemas, unresolved, rest>>
  PROVE  IInv'
<1>1. Len(heap') \in Nat /\ Len(heap) \in Nat /\ base \in Nat
  BY Basics
<1>2. /\ StackOK(stack', Len(heap'), base, doc', unknown') /\ stack' # <<>>
      /\ IsTree(doc', Token, Node) /\ DOMAIN unknown' = DOMAIN unknown
      /\ \A l \in DOMAIN unknown' : IsTree(unknown'[l], Token, Node)
  BY <1>1, RewriteFits
<1>3. Entries(schemas, base, Len(heap')) /\ Entries(unresolved, base, Len(heap'))
  BY <1>1, EntriesGrow DEF IInv, Typed
<1> QED
  BY <1>2, <1>3, StepTyped DEF rest, IInv, Typed

\* make() on an object, which reads and erases its $id, keeps the invariant.
LEMMA EnterObjectTyped == ASSUME IInv, EnterObject PROVE IInv'
<1> DEFINE v == Value(Top.src)
           uris == Identified(Top.uris, v.id)
           was == [node |-> v, keys |-> KeysOf(Top.src)]
           todo == Definitions(Top.src)
           text == SetNode(TextOf(Top.src), Top.src.ptr, [v EXCEPT !.id = NoRef])
           gone == {Append(Top.src.ptr, "$id")}
           f == [Top EXCEPT !.step = "definitions", !.uris = uris, !.todo = todo, !.was = was]
<1>1. /\ stack # <<>> /\ Top.src.in # "freed" /\ Top.step = "enter"
      /\ v.id # NoRef => Top.uris # <<>>
      /\ Rewrite(text, gone, f)
      /\ UNCHANGED <<schemas, unresolved, heap, rest>>
  BY DEF EnterObject, Running
<1>2. v \in Node /\ Top \in Frame /\ Top.src.ptr \in Seq(Token)
  BY <1>1, ReadsNode
<1>3. was \in [node : Node, keys : SUBSET Token] /\ todo \in Seq(Token)
  BY <1>1, <1>2, ReadsNode, TokenAssumption DEF Definitions
<1>4. uris \in Seq(Uri) /\ PlainOnlyLast(uris)
  <2>1. NoPlain(Top.uris) /\ Top.uris \in Seq(Uri) /\ v.id \in Reference \cup {NoRef}
    BY <1>1, <1>2, ReadsNode DEF Fits, Frame, Node
  <2> QED BY <1>1, <2>1, IdentifiedType
<1>5. /\ IsTree(text, Token, Node) /\ DOMAIN text = DOMAIN TextOf(Top.src)
      /\ gone \in SUBSET Seq(Token)
  <2>1. [v EXCEPT !.id = NoRef] \in Node
    BY <1>2 DEF Node
  <2>2. gone \in SUBSET Seq(Token)
    BY <1>2, TokenAssumption
  <2> QED BY <1>1, <2>1, <2>2, ReadsNode, SetNodeType
<1> HIDE DEF was, uris, todo, text, gone
<1>6. /\ f \in Frame /\ f.src = Top.src /\ f.uris = uris /\ f.kids = Top.kids
      /\ f.step = "definitions" /\ f.obj = Top.obj
  BY <1>2, <1>3, <1>4 DEF Frame
<1> HIDE DEF f
<1>7. Fits(f, Len(heap), base, doc, unknown) /\ Follows(Top, f)
  BY <1>1, <1>4, <1>6, ReadsNode DEF Fits, Follows, KeepSteps
<1>8. /\ \A q \in DOMAIN TextOf(Top.src) : (\A g \in gone : ~IsPrefix(g, q)) => q \in DOMAIN text
      /\ Top.src.ptr \in DOMAIN text
      /\ heap' \in Seq(Object) /\ Len(heap) <= Len(heap') /\ heap' = heap
  BY <1>1, <1>5, Basics, ReadsNode DEF IInv, Typed
<1> QED
  BY <1>1, <1>5, <1>6, <1>7, <1>8, RewriteTyped

\* A step of the running call that changes nothing but its frame.
LEMMA ContinueTyped ==
  ASSUME IInv, stack # <<>>, NEW f, Continue(f),
         Fits(f, Len(heap), base, doc, unknown), Follows(Top, f), f.step # "override",
         UNCHANGED <<registry, heap, doc, rest>>
  PROVE  IInv'
<1>1. Len(heap) \in Nat /\ Len(heap) <= Len(heap)
  BY Basics
<1>2. StackOK([stack EXCEPT ![Depth] = f], Len(heap), base, doc, unknown)
      /\ [stack EXCEPT ![Depth] = f] # <<>>
  BY <1>1, Continues
<1>3. stack' = [stack EXCEPT ![Depth] = f]
  BY DEF Continue
<1> QED
  BY <1>1, <1>2, <1>3, StepTyped DEF registry, rest, IInv, Typed

\* A step that ends the call of set_root_schema() with an exception, or worse.
LEMMA RaiseTyped ==
  ASSUME IInv, stack' = <<>>, pc' \in {"thrown", "undefined"},
         DOMAIN unknown' \subseteq Location,
         \A l \in DOMAIN unknown' : IsTree(unknown'[l], Token, Node),
         loads' \in Seq(Location),
         UNCHANGED <<schemas, unresolved, heap, doc, root, corpus, pending, again, calls, base,
                     home>>
  PROVE  IInv'
<1>1. StackOK(<<>>, Len(heap), base, doc, unknown')
  BY DEF StackOK
<1>2. Typed' /\ Phases'
  BY DEF IInv, Typed, Phases
<1> QED
  BY <1>1, <1>2 DEF IInv

\* make() on another value throws, which keeps the invariant.
LEMMA EnterRejectedTyped == ASSUME IInv, EnterRejected PROVE IInv'
  BY RaiseTyped DEF EnterRejected, Raise, registry, IInv, Typed

\* The sub-schemas of a keyword are found at pointers, with keys for their URIs.
LEMMA SlotsType ==
  ASSUME NEW src, src.ptr \in Seq(Token), IsTree(TextOf(src), Token, Node), NEW kw \in Token
  PROVE  Slots(src, kw) \in SUBSET [at : Seq(Token), keys : Seq(Token)]
<1> DEFINE at == Append(src.ptr, kw)
           elements == ElementsOf(src, kw)
           only(k) == {[at |-> <<k>>, keys |-> <<k>>]}
           each == {[at |-> e.at, keys |-> KeysFor(kw, KeyIn(elements, kw, e))] : e \in elements}
           S == [at : Seq(Token), keys : Seq(Token)]
<1>1. Members(TextOf(src), at) \subseteq Token
  <2>1. at \in Seq(Token)
    BY AppendProperties
  <2> QED BY <2>1, MembersType
<1>2. elements \in SUBSET [at : Seq(Token), key : Token]
  <2>1. EmptyKey \in Token
    BY TokenAssumption
  <2>2. <<kw>> \in Seq(Token) /\ \A m \in Token : <<kw, m>> \in Seq(Token)
    OBVIOUS
  <2>3. CASE TextOf(src)[at].kind \in {"object", "array"}
    <3>1. elements = {[at |-> <<kw, m>>, key |-> m] : m \in Members(TextOf(src), at)}
      BY <2>3 DEF ElementsOf
    <3> HIDE DEF elements
    <3>2. ASSUME NEW e \in elements PROVE e \in [at : Seq(Token), key : Token]
      <4>1. PICK m \in Members(TextOf(src), at) : e = [at |-> <<kw, m>>, key |-> m]
        BY Zenon, <3>1
      <4>2. m \in Token
        BY Zenon, <1>1
      <4>3. <<kw, m>> \in Seq(Token)
        BY <2>2, <4>2
      <4> QED BY <4>1, <4>2, <4>3
    <3> QED BY <3>2
  <2>4. CASE TextOf(src)[at].kind \notin {"object", "array"}
    <3>1. elements = {[at |-> <<kw>>, key |-> EmptyKey]}
      BY <2>4 DEF ElementsOf
    <3> HIDE DEF elements
    <3> QED BY <2>1, <2>2, <3>1
  <2> QED BY <2>3, <2>4
<1> HIDE DEF elements
<1>3. ASSUME NEW e \in elements
      PROVE  [at |-> e.at, keys |-> KeysFor(kw, KeyIn(elements, kw, e))] \in S
  <2>1. e.at \in Seq(Token) /\ e.key \in Token
    BY <1>2
  <2>2. ASSUME NEW n \in DOMAIN Index PROVE Index[n] \in Token
    <3>1. Index \in Seq(Token)
      BY Zenon, TokenAssumption
    <3>2. DOMAIN Index = 1..Len(Index)
      BY <3>1, LenProperties
    <3> QED BY Zenon, <3>1, <3>2, ElementOfSeq
  <2>3. KeyIn(elements, kw, e) \in Token
    BY <2>1, <2>2 DEF KeyIn
  <2>4. KeysFor(kw, KeyIn(elements, kw, e)) \in Seq(Token)
    BY <2>3 DEF KeysFor
  <2> QED BY <2>1, <2>4
<1>4. only(kw) \subseteq S /\ only("additionalItems") \subseteq S
  BY TokenAssumption
<1>5. each \subseteq S
  BY <1>3
<1> HIDE DEF S, only, each
<1>6. Slots(src, kw) \subseteq each \cup only(kw) \cup only("additionalItems")
  BY DEF Slots, elements, only, each
<1> QED
  BY <1>4, <1>5, <1>6 DEF S

\* Looking up the next keyword with sub-schemas keeps the invariant.
LEMMA OpenKeywordTyped == ASSUME IInv, OpenKeyword PROVE IInv'
<1>1. /\ stack # <<>> /\ Top.src.in # "freed" /\ Top.step \in {"definitions", "branches"}
      /\ UNCHANGED <<registry, heap, doc, rest>>
  BY DEF OpenKeyword, Running
<1>2. Top \in Frame /\ Top.todo \in Seq(Token)
  BY <1>1, ReadsNode DEF Frame
<1>3. PICK n \in 1..Len(Top.todo) :
        Continue([Top EXCEPT !.kw = Top.todo[n], !.slots = Slots(Top.src, Top.todo[n]),
                             !.todo = SubSeq(@, n + 1, Len(@))])
  BY DEF OpenKeyword
<1> DEFINE slots == Slots(Top.src, Top.todo[n])
           todo == SubSeq(Top.todo, n + 1, Len(Top.todo))
           kw == Top.todo[n]
           f == [Top EXCEPT !.kw = kw, !.slots = slots, !.todo = todo]
<1>4. kw \in Token /\ todo \in Seq(Token)
  BY <1>2
<1>5. slots \in SUBSET [at : Seq(Token), keys : Seq(Token)]
  BY <1>1, <1>4, ReadsNode, SlotsType
<1> HIDE DEF slots, todo, kw
<1>6. /\ f \in Frame /\ f.src = Top.src /\ f.uris = Top.uris /\ f.kids = Top.kids
      /\ f.step = Top.step /\ f.obj = Top.obj
  BY <1>2, <1>4, <1>5 DEF Frame
<1>7. Continue(f)
  BY <1>3 DEF slots, todo, kw
<1> HIDE DEF f
<1>8. Fits(f, Len(heap), base, doc, unknown) /\ Follows(Top, f)
  BY <1>1, <1>6, ReadsNode DEF Fits, Follows, KeepSteps
<1> QED
  BY <1>1, <1>6, <1>7, <1>8, ContinueTyped

\* A call of make() for a place that is there.
LEMMA MakeFrameFits ==
  ASSUME NEW src \in Source, NEW d, NEW u, Placed(src, d, u), NEW m \in Nat, NEW b \in Nat,
         NEW uris \in Seq(Uri), PlainOnlyLast(uris), NEW keys \in Seq(Token)
  PROVE  /\ Fits(MakeFrame(src, uris, keys), m, b, d, u)
         /\ MakeFrame(src, uris, keys).step = "enter" /\ MakeFrame(src, uris, keys).src = src
<1> DEFINE names == [i \in DOMAIN Unnamed(uris) |-> Extend(Unnamed(uris)[i], keys)]
           f == MakeFrame(src, uris, keys)
<1>1. Unnamed(uris) \in Seq(Uri) /\ NoPlain(Unnamed(uris))
  BY UnnamedType
<1>2. /\ names \in Seq(Uri) /\ Len(names) = Len(Unnamed(uris))
      /\ \A i \in 1..Len(names) : names[i] = Extend(Unnamed(uris)[i], keys)
  <2>1. DOMAIN Unnamed(uris) = 1..Len(Unnamed(uris)) /\ Len(Unnamed(uris)) \in Nat
    BY <1>1
  <2>2. \A i \in 1..Len(Unnamed(uris)) : Extend(Unnamed(uris)[i], keys) \in Uri
    BY <1>1, ExtendType
  <2>3. names \in [1..Len(Unnamed(uris)) -> Uri]
    BY <2>1, <2>2
  <2> QED BY <2>1, <2>3
<1>3. NoPlain(names)
  BY <1>1, <1>2, ExtendType DEF NoPlain
<1>4. /\ [node |-> Blank, keys |-> {}] \in [node : Node, keys : SUBSET Token]
      /\ NoKey \in Token \cup {NoKey} /\ <<>> \in Seq(Token)
  BY BlankType
<1> HIDE DEF names
<1>5. f = NewFrame("enter", src, names)
  BY DEF MakeFrame, names
<1>6. /\ f \in Frame /\ f.src = src /\ f.uris = names /\ f.kids = {} /\ f.step = "enter"
      /\ f.obj = 0
  BY <1>2, <1>4, <1>5 DEF NewFrame, Frame
<1> HIDE DEF f
<1>7. Fits(f, m, b, d, u)
  BY <1>3, <1>6 DEF Fits, KeepSteps, PlainOnlyLast, NoPlain
<1> QED
  BY <1>6, <1>7 DEF f

\* What is below the place of the running call is there when its document has it.
LEMMA ChildPlaced ==
  ASSUME IInv, stack # <<>>, Top.src.in # "freed", NEW p \in Seq(Token),
         Top.src.ptr \o p \in DOMAIN TextOf(Top.src)
  PROVE  /\ Child(Top.src, p) \in Source /\ Placed(Child(Top.src, p), doc, unknown)
         /\ Child(Top.src, p).in = Top.src.in /\ Child(Top.src, p).loc = Top.src.loc
<1> DEFINE src == Top.src
           q == src.ptr \o p
           c == Child(src, p)
<1>1. /\ src \in Source /\ src.in \in {"doc", "store"} /\ q \in Seq(Token)
      /\ src.in = "store" => src.loc \in DOMAIN unknown
  BY ReadsNode DEF Frame, Source
<1>2. c = [src EXCEPT !.ptr = q]
  BY DEF Child
<1> HIDE DEF q
<1>3. c \in Source /\ c.in = src.in /\ c.loc = src.loc /\ c.ptr = q
  BY <1>1, <1>2 DEF Source
<1>4. q \in DOMAIN TextOf(src)
  BY DEF q
<1> QED
  BY <1>1, <1>3, <1>4 DEF Placed, TextOf

\* make() for a sub-schema keeps the invariant.
LEMMA CompileSlotTyped == ASSUME IInv, CompileSlot PROVE IInv'
<1>1. /\ stack # <<>> /\ Top.src.in # "freed" /\ Top.step \in {"definitions", "branches"}
      /\ UNCHANGED <<registry, heap, doc, rest>>
  BY DEF CompileSlot, Running
<1>2. PICK s \in OpenSlots :
        Call([Top EXCEPT !.slots = @ \ {s}, !.held = s.at],
             MakeFrame(Child(Top.src, s.at), Top.uris, s.keys))
  BY DEF CompileSlot
<1> DEFINE slots == Top.slots \ {s}
           at == s.at
           f == [Top EXCEPT !.slots = slots, !.held = at]
           src == Child(Top.src, at)
           g == MakeFrame(src, Top.uris, s.keys)
<1>3. /\ Top \in Frame /\ Top.uris \in Seq(Uri) /\ PlainOnlyLast(Top.uris)
      /\ s \in Top.slots /\ Top.src.ptr \o at \in DOMAIN TextOf(Top.src)
  BY <1>1, ReadsNode DEF OpenSlots, Frame, Fits
<1>4. at \in Seq(Token) /\ s.keys \in Seq(Token)
      /\ slots \in SUBSET [at : Seq(Token), keys : Seq(Token)]
  BY <1>3 DEF Frame
<1>5. /\ src \in Source /\ Placed(src, doc, unknown)
      /\ src.in = Top.src.in /\ src.loc = Top.src.loc
  BY <1>1, <1>3, <1>4, ChildPlaced
<1>6. stack' = Append([stack EXCEPT ![Depth] = f], g)
  BY <1>2 DEF Call
<1> HIDE DEF slots, at, src
<1>7. /\ f \in Frame /\ f.src = Top.src /\ f.uris = Top.uris /\ f.kids = Top.kids
      /\ f.step = Top.step /\ f.obj = Top.obj
  BY <1>3, <1>4 DEF Frame
<1>8. Fits(g, Len(heap), base, doc, unknown) /\ g.step = "enter" /\ g.src = src
  BY <1>3, <1>4, <1>5, Basics, MakeFrameFits, SMTT(20)
<1> HIDE DEF f, g
<1>9. Fits(f, Len(heap), base, doc, unknown) /\ Follows(Top, f) /\ Calls(f, g)
  BY <1>1, <1>7, <1>8, ReadsNode DEF Fits, Follows, Calls, KeepSteps, FilingSteps
<1>10. StackOK(stack', Len(heap), base, doc, unknown) /\ stack' # <<>>
  BY <1>1, <1>5, <1>6, <1>7, <1>8, <1>9, Basics, MakesCall
<1> QED
  BY <1>1, <1>10, Basics, StepTyped DEF registry, rest, IInv, Typed

\* Erasing a keyword that is understood keeps the invariant.
LEMMA CloseKeywordTyped == ASSUME IInv, CloseKeyword PROVE IInv'
<1> DEFINE gone == {Append(Top.src.ptr, k) : k \in Understood(Top.src, Top.kw)}
           kept == {q \in DOMAIN TextOf(Top.src) : \A g \in gone : ~IsPrefix(g, q)}
           text == [p \in kept |-> TextOf(Top.src)[p]]
           f == [Top EXCEPT !.kw = NoKey, !.slots = {}]
<1>1. /\ stack # <<>> /\ Top.src.in # "freed" /\ Top.step \in {"definitions", "branches"}
      /\ Top.kw # NoKey /\ Rewrite(text, gone, f)
      /\ UNCHANGED <<schemas, unresolved, heap, rest>>
  BY DEF CloseKeyword, Running
<1>2. /\ Top \in Frame /\ Top.src.ptr \in Seq(Token) /\ Top.kw \in Token
      /\ IsTree(TextOf(Top.src), Token, Node) /\ Top.src.ptr \in DOMAIN TextOf(Top.src)
  BY <1>1, ReadsNode DEF Frame
<1>3. gone \in SUBSET Seq(Token) /\ \A g \in gone : ~IsPrefix(g, Top.src.ptr)
  <2>1. Understood(Top.src, Top.kw) \subseteq Token
    BY <1>2, TokenAssumption DEF Understood
  <2>2. \A k \in Token : /\ Append(Top.src.ptr, k) \in Seq(Token)
                         /\ ~IsPrefix(Append(Top.src.ptr, k), Top.src.ptr)
    BY <1>2, AppendProperties, LongerNoPrefix
  <2> QED BY <2>1, <2>2
<1> HIDE DEF gone
<1>4. IsTree(text, Token, Node) /\ Top.src.ptr \in DOMAIN text /\ DOMAIN text = kept
  BY <1>2, <1>3 DEF IsTree
<1>5. \A q \in DOMAIN TextOf(Top.src) : (\A g \in gone : ~IsPrefix(g, q)) => q \in DOMAIN text
  BY <1>4
<1> HIDE DEF kept, text
<1>6. /\ f \in Frame /\ f.src = Top.src /\ f.uris = Top.uris /\ f.kids = Top.kids
      /\ f.step = Top.step /\ f.obj = Top.obj
  BY <1>2 DEF Frame
<1> HIDE DEF f
<1>7. Fits(f, Len(heap), base, doc, unknown) /\ Follows(Top, f)
  BY <1>1, <1>6, ReadsNode DEF Fits, Follows, KeepSteps
<1>8. heap' \in Seq(Object) /\ Len(heap) <= Len(heap') /\ heap' = heap
  BY <1>1, Basics DEF IInv, Typed
<1> QED
  BY <1>1, <1>3, <1>4, <1>5, <1>6, <1>7, <1>8, RewriteTyped

\* The keywords of a type_schema are tokens.
LEMMA BranchesType == \A types \in Types : Branches(types) \in Seq(Token)
<1>1. \A t \in {"object", "array"} : ValidatorKeywords(t) \in Seq(Token)
  BY TokenAssumption DEF ValidatorKeywords
<1>2. <<"not", "allOf", "anyOf", "oneOf", "if", "then", "else">> \in Seq(Token)
  BY TokenAssumption
<1>3. <<>> \in Seq(Token)
  OBVIOUS
<1> SUFFICES ASSUME NEW types \in Types PROVE Branches(types) \in Seq(Token)
  OBVIOUS
<1>4. /\ Len(types) >= 1 => types[1] \in {"object", "array"}
      /\ Len(types) = 2 => types[2] \in {"object", "array"}
  BY DEF Types
<1> DEFINE x == IF Len(types) >= 1 THEN ValidatorKeywords(types[1]) ELSE <<>>
           y == IF Len(types) = 2 THEN ValidatorKeywords(types[2]) ELSE <<>>
           z == <<"not", "allOf", "anyOf", "oneOf", "if", "then", "else">>
<1>5. x \in Seq(Token) /\ y \in Seq(Token) /\ z \in Seq(Token)
  BY <1>1, <1>2, <1>3, <1>4
<1>6. Branches(types) = x \o y \o z
  BY DEF Branches
<1> HIDE DEF x, y, z
<1> QED
  BY <1>5, <1>6

\* Starting the constructor of type_schema keeps the invariant.
LEMMA StartTypeTyped == ASSUME IInv, StartType PROVE IInv'
<1> DEFINE todo == Branches(Value(Top.src).types)
           f == [Top EXCEPT !.step = "branches", !.todo = todo]
<1>1. /\ stack # <<>> /\ Top.src.in # "freed" /\ Top.step = "definitions"
      /\ Continue(f) /\ UNCHANGED <<registry, heap, doc, rest>>
  BY DEF StartType, Running
<1>2. Top \in Frame /\ todo \in Seq(Token)
  BY <1>1, ReadsNode, BranchesType DEF Node
<1> HIDE DEF todo
<1>3. /\ f \in Frame /\ f.src = Top.src /\ f.uris = Top.uris /\ f.kids = Top.kids
      /\ f.step = "branches" /\ f.obj = Top.obj
  BY <1>2 DEF Frame
<1> HIDE DEF f
<1>4. Fits(f, Len(heap), base, doc, unknown) /\ Follows(Top, f)
  BY <1>1, <1>3, ReadsNode DEF Fits, Follows, KeepSteps
<1> QED
  BY <1>1, <1>3, <1>4, ContinueTyped

\* The end of the constructor of type_schema keeps the invariant.
LEMMA FinishTypeTyped == ASSUME IInv, FinishType PROVE IInv'
<1> DEFINE o == NewObject("type", NoUri, 0, Top.kids)
           n == [Value(Top.src) EXCEPT !.types = AnyType, !.default = FALSE]
           text == SetNode(TextOf(Top.src), Top.src.ptr, n)
           f == [Top EXCEPT !.step = "register", !.obj = New]
<1>1. /\ stack # <<>> /\ Top.src.in # "freed" /\ Top.step = "branches"
      /\ Alloc(o) /\ Rewrite(text, {}, f) /\ UNCHANGED <<schemas, unresolved, rest>>
  BY DEF FinishType, Running
<1>2. /\ Top \in Frame /\ Value(Top.src) \in Node /\ IsTree(TextOf(Top.src), Token, Node)
      /\ Top.src.ptr \in DOMAIN TextOf(Top.src)
  BY <1>1, ReadsNode
<1>3. o \in Object
  BY <1>1, KidsGrow DEF NewObject, Object
<1>4. IsTree(text, Token, Node) /\ DOMAIN text = DOMAIN TextOf(Top.src)
  <2>1. n \in Node
    BY <1>2 DEF Node, AnyType, Types
  <2> QED BY <1>2, <2>1, SetNodeType
<1> HIDE DEF o, n, text
<1>5. /\ f \in Frame /\ f.src = Top.src /\ f.uris = Top.uris /\ f.kids = Top.kids
      /\ f.step = "register" /\ f.obj = New
  BY <1>1, <1>2, <1>3, AllocTyped DEF Frame
<1> HIDE DEF f
<1>6. Fits(f, New, base, doc, unknown) /\ Follows(Top, f)
  BY <1>1, <1>3, <1>5, ReadsNode, AllocTyped, KidsGrow, FitsAs DEF Follows, KeepSteps, New
<1>7. heap' \in Seq(Object) /\ Len(heap) <= Len(heap') /\ Len(heap') = New
  BY <1>1, <1>3, AllocTyped
<1>8. {} \in SUBSET Seq(Token) /\ Top.src.ptr \in DOMAIN text
      /\ \A q \in DOMAIN TextOf(Top.src) : (\A g \in {} : ~IsPrefix(g, q)) => q \in DOMAIN text
  BY <1>2, <1>4
<1> QED
  BY <1>1, <1>4, <1>5, <1>6, <1>7, <1>8, RewriteTyped
-----------------------------------------------------------------------------
(***************************************************************************)
(* References.                                                             *)
(***************************************************************************)

\* Creating the entry of a file disturbs no other.
LEMMA WithFileType ==
  ASSUME IInv, NEW l \in Location
  PROVE  /\ DOMAIN unknown \subseteq DOMAIN WithFile(l) /\ l \in DOMAIN WithFile(l)
         /\ DOMAIN WithFile(l) \subseteq Location
         /\ \A k \in DOMAIN unknown : WithFile(l)[k] = unknown[k]
         /\ \A k \in DOMAIN WithFile(l) : IsTree(WithFile(l)[k], Token, Node)
         /\ l \notin DOMAIN unknown => DOMAIN WithFile(l)[l] = {<<>>}
<1>1. IsTree([p \in {<<>>} |-> Blank], Token, Node)
  BY BlankType DEF IsTree
<1> QED
  BY <1>1 DEF WithFile, Put, IInv, Typed

\* No call loses its place when the entry of a file is created.
LEMMA WithFileFits ==
  ASSUME IInv, NEW l \in Location, NEW s, NEW n \in Nat, StackOK(s, n, base, doc, unknown)
  PROVE  StackOK(s, n, base, doc, WithFile(l))
<1>1. ASSUME NEW i \in 1..Len(s) PROVE Fits(s[i], n, base, doc, WithFile(l))
  BY WithFileType DEF StackOK, Fits, Placed
<1> QED
  BY <1>1 DEF StackOK

\* A $ref is derived to a URI.
LEMMA TargetType == ASSUME IInv, AtReference PROVE Target \in Uri /\ Target.loc \in Location
<1>1. Top \in Frame /\ Value(Top.src) \in Node /\ Top.uris # <<>> /\ Value(Top.src).ref # NoRef
  BY ReadsNode DEF AtReference, Running
<1>2. Last(Top.uris) \in Uri /\ Value(Top.src).ref \in Reference
  BY <1>1 DEF Frame, Node, Last
<1> QED
  BY <1>2, DeriveType DEF Target, Uri

\* The call that follows a reference holds its $ref meanwhile.
LEMMA ReferringType ==
  ASSUME IInv, AtReference
  PROVE  /\ Referring \in Frame /\ Referring.src = Top.src /\ Referring.uris = Top.uris
         /\ Referring.kids = Top.kids /\ Referring.step = "override" /\ Referring.obj = Top.obj
<1> DEFINE held == <<"$ref">>
<1>1. Top \in Frame /\ held \in Seq(Token)
  BY ReadsNode, TokenAssumption DEF AtReference, Running
<1>2. Referring = [Top EXCEPT !.step = "override", !.held = held]
  BY DEF Referring
<1> HIDE DEF held
<1> QED
  BY <1>1, <1>2 DEF Frame

\* A $ref to a known or awaited URI keeps the invariant.
LEMMA ReuseReferenceTyped == ASSUME IInv, ReuseReference PROVE IInv'
<1> DEFINE o == IF Target \in DOMAIN schemas THEN schemas[Target] ELSE unresolved[Target]
           f == [Referring EXCEPT !.held = <<>>, !.obj = o]
<1>1. /\ stack # <<>> /\ Top.src.in # "freed" /\ Top.step = "definitions" /\ AtReference
      /\ Target \in DOMAIN schemas \cup DOMAIN unresolved
      /\ unknown' = WithFile(Target.loc)
      /\ stack' = [stack EXCEPT ![Depth] = f]
      /\ UNCHANGED <<schemas, unresolved, heap, doc, rest>>
  BY DEF ReuseReference, AtReference, Running, Continue
<1>2. o \in (base + 1)..Len(heap) /\ Len(heap) \in Nat /\ base \in Nat
  BY <1>1, Basics DEF IInv, Typed, Entries, IsTable
<1> HIDE DEF o
<1>3. /\ f \in Frame /\ f.src = Top.src /\ f.uris = Top.uris /\ f.kids = Top.kids
      /\ f.step = "override" /\ f.obj = o
  <2> DEFINE r == Referring
  <2>1. /\ r \in Frame /\ r.src = Top.src /\ r.uris = Top.uris /\ r.kids = Top.kids
        /\ r.step = "override" /\ o \in Nat /\ <<>> \in Seq(Token)
    BY <1>1, <1>2, ReferringType
  <2> HIDE DEF r
  <2>2. [r EXCEPT !.held = <<>>, !.obj = o] \in Frame
    BY <2>1 DEF Frame
  <2> QED BY <2>1, <2>2 DEF r, Frame
<1> HIDE DEF f
<1>4. Fits(f, Len(heap), base, doc, unknown) /\ Follows(Top, f) /\ f.obj # 0
  BY <1>1, <1>2, <1>3, ReadsNode DEF Fits, Follows, KeepSteps
<1>5. StackOK(stack', Len(heap), base, doc, unknown) /\ stack' # <<>>
  <2>1. Len(heap) \in Nat /\ Len(heap) <= Len(heap)
    BY <1>2
  <2> QED BY <1>1, <1>4, <2>1, Continues
<1>6. StackOK(stack', Len(heap), base, doc, unknown')
  BY <1>1, <1>2, <1>5, TargetType, WithFileFits
<1>7. DOMAIN unknown' \subseteq Location /\ \A l \in DOMAIN unknown' : IsTree(unknown'[l], Token, Node)
  BY <1>1, TargetType, WithFileType
<1> QED
  BY <1>1, <1>2, <1>5, <1>6, <1>7, StepTyped DEF rest, IInv, Typed

\* A $ref to a new URI, which may compile a stored keyword, keeps the invariant.
LEMMA CreateReferenceTyped == ASSUME IInv, CreateReference PROVE IInv'
<1> DEFINE o == NewObject("ref", Target, 0, {})
           f == [Referring EXCEPT !.held = <<>>, !.obj = New]
           src == [in |-> "store", loc |-> Target.loc, ptr |-> Target.ptr]
           g == MakeFrame(src, <<Target>>, <<>>)
<1>1. /\ stack # <<>> /\ Top.src.in # "freed" /\ Top.step = "definitions" /\ AtReference
      /\ Alloc(o)
      /\ unresolved' = Put(unresolved, Target, New)
      /\ unknown' = WithFile(Target.loc)
      /\ IF Stored(WithFile(Target.loc), Target)
         THEN stack' = Append([stack EXCEPT ![Depth] = Referring], g)
         ELSE stack' = [stack EXCEPT ![Depth] = f]
      /\ UNCHANGED <<schemas, doc, rest>>
  BY DEF CreateReference, AtReference, Running, Continue, Call
<1>2. Target \in Uri /\ Target.loc \in Location
  BY <1>1, TargetType
<1>3. o \in Object
  BY <1>2 DEF NewObject, Object
<1> HIDE DEF o
<1>4. /\ heap' \in Seq(Object) /\ Len(heap') = New /\ New \in Nat /\ Len(heap) <= New
      /\ New \in (base + 1)..New /\ Len(heap) \in Nat /\ base \in Nat /\ New # 0
      /\ Entries(schemas, base, New) /\ Entries(unresolved, base, New)
  BY <1>1, <1>3, AllocTyped
<1>5. Entries(unresolved', base, New)
  BY <1>1, <1>2, <1>4, EntriesPut
<1>6. StackOK(stack', New, base, doc, unknown) /\ stack' # <<>>
  <2>1. CASE Stored(WithFile(Target.loc), Target)
    <3>1. /\ Target.name = NoName /\ Target.ptr # <<>>
          /\ Target.ptr \in DOMAIN WithFile(Target.loc)[Target.loc]
      BY <2>1 DEF Stored
    <3>2. Target.loc \in DOMAIN unknown /\ Target.ptr \in DOMAIN unknown[Target.loc]
      BY <1>2, <3>1, WithFileType
    <3>3. src \in Source /\ Placed(src, doc, unknown) /\ src.in = "store"
      BY <1>2, <3>2 DEF Source, Uri, Placed
    <3> DEFINE uris == <<Target>>
               keys == <<>>
    <3>4. uris \in Seq(Uri) /\ PlainOnlyLast(uris) /\ keys \in Seq(Token)
      BY <1>2 DEF PlainOnlyLast
    <3> HIDE DEF src, uris, keys
    <3>5. /\ Fits(MakeFrame(src, uris, keys), New, base, doc, unknown)
          /\ MakeFrame(src, uris, keys).step = "enter" /\ MakeFrame(src, uris, keys).src = src
      BY <1>4, <3>3, <3>4, MakeFrameFits
    <3>6. Fits(g, New, base, doc, unknown) /\ g.step = "enter" /\ g.src = src
      BY <3>5 DEF uris, keys
    <3> DEFINE r == Referring
    <3>7. /\ r \in Frame /\ r.src = Top.src /\ r.uris = Top.uris /\ r.kids = Top.kids
          /\ r.step = "override" /\ r.obj = Top.obj
      BY <1>1, ReferringType
    <3> HIDE DEF r, g
    <3>8. Top.obj \in {0} \cup (base + 1)..New /\ Top.kids \subseteq 1..New
      BY <1>1, <1>4, ReadsNode DEF Fits, New
    <3>9. Fits(r, New, base, doc, unknown) /\ Follows(Top, r) /\ Calls(r, g)
      BY <1>1, <3>6, <3>7, <3>8, ReadsNode
      DEF Fits, Follows, Calls, KeepSteps, FilingSteps
    <3>10. /\ StackOK(Append([stack EXCEPT ![Depth] = r], g), New, base, doc, unknown)
           /\ Append([stack EXCEPT ![Depth] = r], g) # <<>>
      BY <1>1, <1>4, <3>3, <3>6, <3>9, MakesCall
    <3> QED BY <1>1, <2>1, <3>10 DEF r
  <2>2. CASE ~Stored(WithFile(Target.loc), Target)
    <3>1. /\ f \in Frame /\ f.src = Top.src /\ f.uris = Top.uris /\ f.kids = Top.kids
          /\ f.step = "override" /\ f.obj = New
      <4> DEFINE r == Referring
      <4>1. /\ r \in Frame /\ r.src = Top.src /\ r.uris = Top.uris /\ r.kids = Top.kids
            /\ r.step = "override" /\ <<>> \in Seq(Token)
        BY <1>1, ReferringType
      <4> HIDE DEF r
      <4>2. [r EXCEPT !.held = <<>>, !.obj = New] \in Frame
        BY <1>4, <4>1 DEF Frame
      <4> QED BY <4>1, <4>2 DEF r, Frame
    <3> HIDE DEF f
    <3>2. Fits(f, New, base, doc, unknown) /\ Follows(Top, f)
      BY <1>1, <1>4, <3>1, ReadsNode, KidsGrow, FitsAs, SMTT(20) DEF Follows, KeepSteps, New
    <3> QED BY <1>1, <1>4, <2>2, <3>1, <3>2, Continues
  <2> QED BY <2>1, <2>2
<1>7. StackOK(stack', New, base, doc, unknown')
  BY <1>1, <1>2, <1>4, <1>6, WithFileFits
<1>8. DOMAIN unknown' \subseteq Location /\ \A l \in DOMAIN unknown' : IsTree(unknown'[l], Token, Node)
  BY <1>1, <1>2, WithFileType
<1> QED
  BY <1>1, <1>4, <1>5, <1>6, <1>7, <1>8, StepTyped DEF rest, IInv, Typed

\* The copy of a schema, or of a reference to one, with a default of its own.
LEMMA OverridingType ==
  ASSUME NEW o \in 1..Len(heap), heap \in Seq(Object), heap[o].kind = "ref" => Top.uris[1] \in Uri
  PROVE  Overriding(o) \in Object
<1>1. heap[o] \in Object /\ o \in Nat
  OBVIOUS
<1>2. CASE heap[o].kind = "ref"
  BY <1>1, <1>2 DEF Overriding, NewObject, Object
<1>3. CASE heap[o].kind # "ref"
  BY <1>1, <1>3 DEF Overriding, Object
<1> QED
  BY <1>2, <1>3

\* The default value next to a $ref keeps the invariant.
LEMMA OverrideTyped == ASSUME IInv, Override PROVE IInv'
<1> DEFINE v == Value(Top.src)
           n == [v EXCEPT !.ref = NoRef, !.default = FALSE]
           text == SetNode(TextOf(Top.src), Top.src.ptr, n)
           gone == {Append(Top.src.ptr, "$ref")}
           obj == IF v.default THEN New ELSE Top.obj
           r == [Top EXCEPT !.step = "register"]
           f == [r EXCEPT !.obj = obj]
<1>1. /\ stack # <<>> /\ Top.src.in # "freed" /\ Top.step = "override"
      /\ v.default /\ heap[Top.obj].kind = "ref" => Top.uris # <<>>
      /\ IF v.default THEN Alloc(Overriding(Top.obj)) ELSE UNCHANGED heap
      /\ UNCHANGED <<schemas, unresolved, rest>>
  BY DEF Override, Running
<1>2. Rewrite(text, gone, f)
  <2>1. f = [r EXCEPT !.obj = IF v.default THEN New ELSE r.obj]
    BY <1>1, ReadsNode DEF Frame
  <2> QED BY <2>1 DEF Override
<1>3. /\ Top \in Frame /\ v \in Node /\ IsTree(TextOf(Top.src), Token, Node)
      /\ Top.src.ptr \in DOMAIN TextOf(Top.src) /\ Top.src.ptr \in Seq(Token)
      /\ Top.kids \subseteq 1..Len(heap)
  BY <1>1, ReadsNode DEF Fits
<1>4. Top.obj \in (base + 1)..Len(heap) /\ Top.obj \in 1..Len(heap) /\ heap \in Seq(Object)
      /\ Len(heap) \in Nat /\ base \in Nat
  <2>1. Top.obj # 0 /\ Top.obj \in {0} \cup (base + 1)..Len(heap)
    BY <1>1, ReadsNode DEF IInv, StackOK, Top, Depth, Fits
  <2> QED BY <2>1, Basics DEF IInv, Typed
<1>5. v.default => Overriding(Top.obj) \in Object
  <2>1. Top.uris # <<>> => Top.uris[1] \in Uri
    BY <1>3 DEF Frame
  <2> QED BY <1>1, <1>4, <2>1, OverridingType
<1>6. /\ heap' \in Seq(Object) /\ Len(heap') \in Nat /\ Len(heap) <= Len(heap')
      /\ obj \in (base + 1)..Len(heap') /\ obj # 0 /\ obj \in Nat
  <2>1. CASE v.default
    BY <1>1, <1>4, <1>5, <2>1, AllocTyped
  <2>2. CASE ~v.default
    BY <1>1, <1>4, <2>2
  <2> QED BY <2>1, <2>2
<1>7. IsTree(text, Token, Node) /\ DOMAIN text = DOMAIN TextOf(Top.src)
  <2>1. n \in Node
    BY <1>3 DEF Node
  <2> QED BY <1>3, <2>1, SetNodeType
<1>8. gone \in SUBSET Seq(Token)
  <2>1. "$ref" \in Token
    BY TokenAssumption
  <2> QED BY <1>3, <2>1, AppendProperties
<1> HIDE DEF text, gone, obj
<1>9. /\ f \in Frame /\ f.src = Top.src /\ f.uris = Top.uris /\ f.kids = Top.kids
      /\ f.step = "register" /\ f.obj = obj
  <2>1. /\ r \in Frame /\ r.src = Top.src /\ r.uris = Top.uris /\ r.kids = Top.kids
        /\ r.step = "register"
    BY <1>3 DEF Frame
  <2> HIDE DEF r
  <2> QED BY <1>6, <2>1 DEF Frame
<1> HIDE DEF f
<1>10. Fits(f, Len(heap'), base, doc, unknown) /\ Follows(Top, f)
  <2>1. Top.kids \subseteq 1..Len(heap')
    BY <1>3, <1>4, <1>6
  <2>2. obj \in {0} \cup (base + 1)..Len(heap')
    BY <1>6
  <2>3. Fits(f, Len(heap'), base, doc, unknown)
    BY <1>1, <1>6, <1>9, <2>1, <2>2, ReadsNode, FitsAs DEF KeepSteps
  <2> QED BY <1>1, <1>9, <2>3 DEF Follows, KeepSteps
<1>11. /\ \A q \in DOMAIN TextOf(Top.src) : (\A g \in gone : ~IsPrefix(g, q)) => q \in DOMAIN text
       /\ Top.src.ptr \in DOMAIN text
  BY <1>3, <1>7
<1> QED
  BY <1>1, <1>2, <1>6, <1>7, <1>8, <1>9, <1>10, <1>11, RewriteTyped
-----------------------------------------------------------------------------
(***************************************************************************)
(* Registration, and the members that are no keywords.                     *)
(***************************************************************************)

\* root_schema::insert() keeps the invariant.
LEMMA InsertSchemaTyped == ASSUME IInv, InsertSchema PROVE IInv'
<1> DEFINE uri == Head(Top.uris)
           keys == KeysOf(Top.src)
           f == [Top EXCEPT !.step = "filing", !.keys = keys]
<1>1. /\ stack # <<>> /\ Top.src.in # "freed" /\ Top.step = "register" /\ Top.uris # <<>>
      /\ schemas' = Put(schemas, uri, Top.obj)
      /\ unresolved' = Drop(unresolved, uri)
      /\ heap' = IF uri \in DOMAIN unresolved
                 THEN [heap EXCEPT ![unresolved[uri]].target = Top.obj] ELSE heap
      /\ unknown' = WithFile(uri.loc)
      /\ home' = Put(home, uri, Top.was)
      /\ stack' = [stack EXCEPT ![Depth] = f]
      /\ UNCHANGED <<doc, root, pc, corpus, pending, again, calls, base, loads>>
  BY DEF InsertSchema, Inserting, Bind, Running, Continue
<1>2. /\ Top \in Frame /\ uri \in Uri /\ keys \in SUBSET Token
      /\ Top.obj \in (base + 1)..Len(heap) /\ Top.obj # 0 /\ Top.obj \in Nat
      /\ Top.was \in [node : Node, keys : SUBSET Token]
  <2>1. Top \in Frame /\ keys \in SUBSET Token /\ Fits(Top, Len(heap), base, doc, unknown)
    BY <1>1, ReadsNode
  <2> QED BY <1>1, <2>1 DEF Frame, Fits
<1>3. uri.loc \in Location
  BY <1>2 DEF Uri
<1>4. heap \in Seq(Object) /\ Len(heap) \in Nat /\ base \in Nat
      /\ Entries(schemas, base, Len(heap)) /\ Entries(unresolved, base, Len(heap))
  BY Basics DEF IInv, Typed
<1>5. heap' \in Seq(Object) /\ Len(heap') = Len(heap)
  <2>1. CASE uri \in DOMAIN unresolved
    <3>1. unresolved[uri] \in 1..Len(heap)
      BY <1>4, <2>1 DEF Entries, IsTable
    <3>2. [heap[unresolved[uri]] EXCEPT !.target = Top.obj] \in Object
      <4> DEFINE h == heap[unresolved[uri]]
                 x == Top.obj
      <4>1. h \in Object /\ x \in Nat
        BY <1>2, <1>4, <3>1
      <4> HIDE DEF h, x
      <4>2. [h EXCEPT !.target = x] \in Object
        BY <4>1 DEF Object
      <4> QED BY <4>2 DEF h, x
    <3>3. heap' = [heap EXCEPT ![unresolved[uri]] =
                     [heap[unresolved[uri]] EXCEPT !.target = Top.obj]]
      BY <1>1, <1>4, <2>1, <3>1
    <3> QED BY <1>4, <3>1, <3>2, <3>3
  <2>2. CASE uri \notin DOMAIN unresolved
    BY <1>1, <1>4, <2>2
  <2> QED BY <2>1, <2>2
<1>6. Entries(schemas', base, Len(heap)) /\ Entries(unresolved', base, Len(heap))
  BY <1>1, <1>2, <1>4, EntriesPut, EntriesDrop
<1>7. IsTable(home', Uri, [node : Node, keys : SUBSET Token])
  BY <1>1, <1>2 DEF IInv, Typed, IsTable, Put
<1> HIDE DEF keys
<1>8. /\ f \in Frame /\ f.src = Top.src /\ f.uris = Top.uris /\ f.kids = Top.kids
      /\ f.step = "filing" /\ f.obj = Top.obj
  BY <1>2 DEF Frame
<1> HIDE DEF f, uri
<1>9. Fits(f, Len(heap), base, doc, unknown) /\ Follows(Top, f)
  BY <1>1, <1>2, <1>8, ReadsNode DEF Fits, Follows, KeepSteps
<1>10. StackOK(stack', Len(heap), base, doc, unknown) /\ stack' # <<>>
  <2>1. Len(heap) <= Len(heap)
    BY <1>4
  <2> QED BY <1>1, <1>4, <1>8, <1>9, <2>1, Continues
<1>11. StackOK(stack', Len(heap), base, doc, unknown')
  BY <1>1, <1>3, <1>4, <1>10, WithFileFits
<1>12. DOMAIN unknown' \subseteq Location /\ \A l \in DOMAIN unknown' : IsTree(unknown'[l], Token, Node)
  BY <1>1, <1>3, WithFileType
<1>13. Len(heap) <= Len(heap') /\ IsTree(doc', Token, Node)
  BY <1>1, <1>4, <1>5 DEF IInv, Typed
<1> QED
  BY <1>1, <1>5, <1>6, <1>7, <1>10, <1>11, <1>12, <1>13, StepTyped

\* A URI inserted twice throws, which keeps the invariant.
LEMMA InsertTwiceTyped == ASSUME IInv, InsertTwice PROVE IInv'
  BY RaiseTyped DEF InsertTwice, Raise, registry, IInv, Typed

\* Going on to the next URI keeps the invariant.
LEMMA FinishUriTyped == ASSUME IInv, FinishUri PROVE IInv'
<1> DEFINE uris == Tail(Top.uris)
           f == [Top EXCEPT !.step = "register", !.uris = uris]
<1>1. /\ stack # <<>> /\ Top.src.in # "freed" /\ Top.step = "filing"
      /\ Continue(f) /\ UNCHANGED <<registry, heap, doc, rest>>
  BY DEF FinishUri, Running
<1>2. /\ Top \in Frame /\ Fits(Top, Len(heap), base, doc, unknown) /\ Top.uris # <<>>
      /\ Top.uris \in Seq(Uri) /\ PlainOnlyLast(Top.uris)
  BY <1>1, ReadsNode DEF Fits, Frame
<1>3. uris \in Seq(Uri) /\ PlainOnlyLast(uris)
  <2>1. uris \in Seq(Uri) /\ Len(uris) = Len(Top.uris) - 1
        /\ \A i \in 1..Len(uris) : uris[i] = Top.uris[i + 1]
    BY <1>2, HeadTailProperties
  <2> HIDE DEF uris
  <2>2. \A i \in 1..Len(uris) : i + 1 \in 1..Len(Top.uris)
    BY <1>2, <2>1
  <2> QED BY <1>2, <2>1, <2>2 DEF PlainOnlyLast
<1> HIDE DEF uris
<1>4. /\ f \in Frame /\ f.src = Top.src /\ f.uris = uris /\ f.kids = Top.kids
      /\ f.step = "register" /\ f.obj = Top.obj
  BY <1>2, <1>3 DEF Frame
<1> HIDE DEF f
<1>5. Fits(f, Len(heap), base, doc, unknown) /\ Follows(Top, f)
  BY <1>1, <1>2, <1>3, <1>4 DEF Fits, Follows, KeepSteps
<1> QED
  BY <1>1, <1>4, <1>5, ContinueTyped

\* Filing a member keeps the invariant.
LEMMA FileKeywordTyped == ASSUME IInv, FileKeyword PROVE IInv'
<1>1. /\ stack # <<>> /\ Top.src.in # "freed" /\ Top.step \in {"filing", "members"}
      /\ UNCHANGED <<registry, heap, doc, rest>>
  BY DEF FileKeyword, Running
<1>2. PICK k \in OpenKeys :
        Call([Top EXCEPT !.keys = @ \ {k}, !.held = <<k>>],
             KeepFrame(Child(Top.src, <<k>>), Head(Top.uris), k))
  BY DEF FileKeyword
<1>3. /\ Top \in Frame /\ Fits(Top, Len(heap), base, doc, unknown) /\ Top.uris # <<>>
      /\ Top.uris \in Seq(Uri) /\ PlainOnlyLast(Top.uris) /\ Top.src.ptr \in Seq(Token)
  BY <1>1, ReadsNode DEF Fits, Frame, KeepSteps
<1>4. k \in Token /\ k \in Top.keys /\ Append(Top.src.ptr, k) \in DOMAIN TextOf(Top.src)
  BY <1>3 DEF OpenKeys, Frame
<1> DEFINE held == <<k>>
           keys == Top.keys \ {k}
           src == Child(Top.src, held)
           uris == <<Head(Top.uris)>>
           f == [Top EXCEPT !.keys = keys, !.held = held]
           g == [NewFrame("keep", src, uris) EXCEPT !.kw = k]
<1>5. /\ held \in Seq(Token) /\ keys \in SUBSET Token
      /\ Top.src.ptr \o held = Append(Top.src.ptr, k)
  BY <1>3, <1>4, AppendIsConcat DEF Frame
<1>6. /\ src \in Source /\ Placed(src, doc, unknown)
      /\ src.in = Top.src.in /\ src.loc = Top.src.loc
  BY <1>1, <1>4, <1>5, ChildPlaced
<1>7. uris \in Seq(Uri) /\ uris # <<>> /\ PlainOnlyLast(uris)
  BY <1>3 DEF PlainOnlyLast
<1>8. stack' = Append([stack EXCEPT ![Depth] = f], g)
  BY <1>2 DEF Call, KeepFrame
<1> HIDE DEF held, keys, src, uris
<1>9. /\ f \in Frame /\ f.src = Top.src /\ f.uris = Top.uris /\ f.kids = Top.kids
      /\ f.step = Top.step /\ f.obj = Top.obj
  BY <1>3, <1>5 DEF Frame
<1>10. /\ g \in Frame /\ g.src = src /\ g.uris = uris /\ g.kids = {} /\ g.step = "keep"
       /\ g.obj = 0 /\ g.kw = k
  <2>1. /\ [node |-> Blank, keys |-> {}] \in [node : Node, keys : SUBSET Token]
        /\ <<>> \in Seq(Token)
    BY BlankType
  <2> QED BY <1>4, <1>6, <1>7, <2>1 DEF NewFrame, Frame
<1> HIDE DEF f, g
<1>11. Fits(f, Len(heap), base, doc, unknown) /\ Follows(Top, f) /\ Calls(f, g)
  BY <1>1, <1>3, <1>9, <1>10 DEF Fits, Follows, Calls, KeepSteps, FilingSteps
<1>12. Fits(g, Len(heap), base, doc, unknown)
  BY <1>4, <1>6, <1>7, <1>10 DEF Fits, KeepSteps
<1>13. Len(heap) \in Nat /\ Len(heap) <= Len(heap)
  BY Basics
<1>14. /\ StackOK(Append([stack EXCEPT ![Depth] = f], g), Len(heap), base, doc, unknown)
       /\ Append([stack EXCEPT ![Depth] = f], g) # <<>>
  BY <1>1, <1>6, <1>9, <1>10, <1>11, <1>12, <1>13, MakesCall
<1> QED
  BY <1>1, <1>8, <1>13, <1>14, StepTyped DEF registry, rest, IInv, Typed

\* insert_unknown_keyword() goes on with the URI of the keyword.
LEMMA KeptType ==
  ASSUME IInv, Running("keep")
  PROVE  /\ Owner \in Uri /\ Owner.loc \in Location /\ Owner.ptr \in Seq(Token)
         /\ StorePointer \in Seq(Token) /\ <<KeywordUri>> \in Seq(Uri)
         /\ PlainOnlyLast(<<KeywordUri>>)
         /\ Fits(Kept, Len(heap), base, doc, unknown) /\ Follows(Top, Kept)
         /\ Kept.step = "kept" /\ Kept.src = Top.src
<1> DEFINE uris == <<KeywordUri>>
           f == [Top EXCEPT !.step = "kept", !.kw = NoKey, !.uris = uris]
<1>1. /\ Top \in Frame /\ Top.uris \in Seq(Uri) /\ Top.uris # <<>> /\ Top.kw \in Token
      /\ Fits(Top, Len(heap), base, doc, unknown) /\ Top.step = "keep"
  BY ReadsNode DEF Running, Fits, Frame, KeepSteps
<1>2. Owner \in Uri /\ <<Top.kw>> \in Seq(Token)
  BY <1>1 DEF Owner
<1>3. Owner.loc \in Location /\ Owner.ptr \in Seq(Token) /\ StorePointer \in Seq(Token)
  BY <1>1, <1>2, AppendProperties DEF Uri, StorePointer
<1>4. KeywordUri \in Uri
  BY <1>2, ExtendType DEF KeywordUri
<1>5. uris \in Seq(Uri) /\ uris # <<>> /\ PlainOnlyLast(uris)
  BY <1>4 DEF PlainOnlyLast
<1>6. Kept = f
  BY DEF Kept
<1> HIDE DEF uris
<1>7. /\ f \in Frame /\ f.src = Top.src /\ f.uris = uris /\ f.kids = Top.kids
      /\ f.step = "kept" /\ f.obj = Top.obj
  BY <1>1, <1>5 DEF Frame
<1> HIDE DEF f
<1>8. Fits(f, Len(heap), base, doc, unknown) /\ Follows(Top, f)
  BY <1>1, <1>5, <1>7 DEF Fits, Follows, KeepSteps
<1> QED
  BY <1>2, <1>3, <1>5, <1>6, <1>7, <1>8 DEF uris

\* Compiling an unknown keyword a reference waits for keeps the invariant.
LEMMA CompileKeywordTyped == ASSUME IInv, CompileKeyword PROVE IInv'
<1> DEFINE uris == <<KeywordUri>>
           none == <<>>
           src == Top.src
           g == MakeFrame(src, uris, none)
<1>1. /\ stack # <<>> /\ Top.src.in # "freed" /\ Running("keep")
      /\ unknown' = WithFile(Owner.loc)
      /\ stack' = Append([stack EXCEPT ![Depth] = Kept], g)
      /\ UNCHANGED <<schemas, unresolved, heap, doc, rest>>
  BY DEF CompileKeyword, Running, Call
<1>2. /\ Owner.loc \in Location /\ uris \in Seq(Uri) /\ PlainOnlyLast(uris)
      /\ Fits(Kept, Len(heap), base, doc, unknown) /\ Follows(Top, Kept)
      /\ Kept.step = "kept" /\ Kept.src = Top.src
  BY <1>1, KeptType
<1>3. src \in Source /\ Placed(src, doc, unknown)
  BY <1>1, ReadsNode DEF Frame, Fits
<1>4. none \in Seq(Token) /\ Len(heap) \in Nat /\ Len(heap) <= Len(heap) /\ base \in Nat
  BY Basics
<1> HIDE DEF uris, none, src
<1>5. Fits(g, Len(heap), base, doc, unknown) /\ g.step = "enter" /\ g.src = src
  BY <1>2, <1>3, <1>4, MakeFrameFits
<1> HIDE DEF g
<1> USE DEF src
<1>6. Calls(Kept, g)
  BY <1>2, <1>5 DEF Calls, KeepSteps, FilingSteps
<1>7. StackOK(stack', Len(heap), base, doc, unknown) /\ stack' # <<>>
  BY <1>1, <1>2, <1>4, <1>5, <1>6, MakesCall
<1>8. StackOK(stack', Len(heap), base, doc, unknown')
  BY <1>1, <1>2, <1>4, <1>7, WithFileFits
<1>9. DOMAIN unknown' \subseteq Location /\ \A l \in DOMAIN unknown' : IsTree(unknown'[l], Token, Node)
  BY <1>1, <1>2, WithFileType
<1> QED
  BY <1>1, <1>4, <1>7, <1>8, <1>9, StepTyped DEF rest, IInv, Typed

\* Everything but what is below the stored keyword stays in the store.
LEMMA StoreKeywordTyped == ASSUME IInv, StoreKeyword PROVE IInv'
<1> DEFINE l == Owner.loc
           files == WithFile(l)
           trunk == Trunk(files[l], Owner.ptr, Blank)
           copy == Subtree(TextOf(Top.src), Top.src.ptr)
           text == Graft(trunk, StorePointer, copy)
           gone == {Append(StorePointer, k) : k \in Token}
           store == [in |-> "store", loc |-> l, ptr |-> <<>>]
           s == [stack EXCEPT ![Depth] = Kept]
<1>1. /\ stack # <<>> /\ Top.src.in # "freed" /\ Running("keep")
      /\ unknown' = [files EXCEPT ![l] = text]
      /\ stack' = Freed(s, store, gone)
      /\ UNCHANGED <<schemas, unresolved, heap, doc, rest>>
  BY DEF StoreKeyword, Running
<1>2. /\ l \in Location /\ Owner.ptr \in Seq(Token) /\ StorePointer \in Seq(Token)
      /\ Fits(Kept, Len(heap), base, doc, unknown) /\ Follows(Top, Kept)
      /\ Kept.step = "kept" /\ Kept.src = Top.src
  BY <1>1, KeptType
<1>3. /\ DOMAIN unknown \subseteq DOMAIN files /\ l \in DOMAIN files /\ DOMAIN files \subseteq Location
      /\ \A k \in DOMAIN unknown : files[k] = unknown[k]
      /\ \A k \in DOMAIN files : IsTree(files[k], Token, Node)
  BY <1>2, WithFileType
<1>4. IsTree(trunk, Token, Node) /\ DOMAIN files[l] \subseteq DOMAIN trunk
  BY <1>2, <1>3, TrunkType
<1>5. IsTree(copy, Token, Node) /\ <<>> \in DOMAIN copy
  BY <1>1, ReadsNode, SubtreeType
<1>6. /\ IsTree(text, Token, Node) /\ StorePointer \in DOMAIN text
      /\ \A q \in DOMAIN files[l] : ~IsPrefix(StorePointer, q) => q \in DOMAIN text
  <2>1. /\ IsTree(text, Token, Node)
        /\ \A q \in DOMAIN trunk : ~IsPrefix(StorePointer, q) => q \in DOMAIN text
        /\ StorePointer \in DOMAIN text
    <3> HIDE DEF trunk, copy
    <3> QED BY <1>2, <1>4, <1>5, GraftType
  <2> QED BY <1>4, <2>1
<1> HIDE DEF trunk, copy, text, files
<1>7. /\ DOMAIN unknown \subseteq DOMAIN unknown' /\ DOMAIN unknown' \subseteq Location
      /\ unknown'[l] = text
      /\ \A k \in DOMAIN unknown : k # l => unknown'[k] = unknown[k]
      /\ \A k \in DOMAIN unknown' : IsTree(unknown'[k], Token, Node)
  BY <1>1, <1>3, <1>6
<1>8. Len(heap) \in Nat /\ Len(heap) <= Len(heap) /\ base \in Nat
  BY Basics
<1>9. StackOK(s, Len(heap), base, doc, unknown) /\ s # <<>>
  BY <1>1, <1>2, <1>8, Continues
<1>10. s \in Seq(Frame) /\ Len(s) \in Nat /\ \A i \in 1..Len(s) : Fits(s[i], Len(heap), base, doc, unknown)
  BY <1>9 DEF StackOK
<1> HIDE DEF s
<1>11. ASSUME NEW i \in 1..Len(s) PROVE Placed(Freed(s, store, gone)[i].src, doc, unknown')
  <2> DEFINE r == Freed(s, store, gone)[i]
             x == s[i]
             loses == /\ x.src.in = store.in /\ x.src.loc = store.loc
                      /\ \E p \in gone : IsPrefix(p, Holds(x))
  <2>1. x \in Frame /\ Placed(x.src, doc, unknown) /\ i \in DOMAIN s
    BY <1>10 DEF Fits
  <2>2. x.src \in Source /\ x.held \in Seq(Token)
    BY <2>1 DEF Frame
  <2>3. x.src.ptr \in Seq(Token)
    BY <2>2 DEF Source
  <2>4. r = IF loses THEN [x EXCEPT !.src.in = "freed"] ELSE x
    BY <2>1 DEF Freed
  <2>5. CASE loses
    <3>1. r.src.in = "freed"
      BY <2>1, <2>2, <2>4, <2>5 DEF Frame, Source
    <3> QED BY <3>1 DEF Placed
  <2>6. CASE ~loses
    <3>1. r = x
      BY <2>4, <2>6
    <3>2. x.src.in = "doc" => x.src.ptr \in DOMAIN doc
      BY <2>1 DEF Placed
    <3>3. ASSUME x.src.in = "store"
          PROVE x.src.loc \in DOMAIN unknown' /\ x.src.ptr \in DOMAIN unknown'[x.src.loc]
      <4>1. x.src.loc \in DOMAIN unknown /\ x.src.ptr \in DOMAIN unknown[x.src.loc]
        BY <2>1, <3>3 DEF Placed
      <4>2. CASE x.src.loc = l
        <5>1. x.src.ptr \in DOMAIN files[l]
          BY <1>3, <4>1, <4>2
        <5>2. CASE ~IsPrefix(StorePointer, x.src.ptr)
          BY <1>6, <1>7, <4>1, <4>2, <5>1, <5>2
        <5>3. CASE IsPrefix(StorePointer, x.src.ptr) /\ x.src.ptr # StorePointer
          <6>1. PICK k \in Token : IsPrefix(Append(StorePointer, k), x.src.ptr)
            BY <1>2, <2>3, <5>3, PrefixStep
          <6>2. Append(StorePointer, k) \in Seq(Token)
            BY <1>2
          <6>3. IsPrefix(Append(StorePointer, k), Holds(x))
            BY <2>2, <2>3, <6>1, <6>2, PrefixBelow DEF Holds
          <6>4. loses
            BY <3>3, <4>2, <6>3
          <6> QED BY <2>6, <6>4
        <5>4. CASE x.src.ptr = StorePointer
          BY <1>6, <1>7, <4>1, <4>2, <5>4
        <5> QED BY <5>2, <5>3, <5>4
      <4>3. CASE x.src.loc # l
        BY <1>7, <4>1, <4>3
      <4> QED BY <4>2, <4>3
    <3> QED BY <3>1, <3>2, <3>3 DEF Placed
  <2> QED BY <2>5, <2>6
<1>12. StackOK(stack', Len(heap), base, doc, unknown') /\ Len(stack') = Len(s)
  <2> HIDE DEF gone, store
  <2> QED BY <1>1, <1>8, <1>9, <1>11, FreedFits, ZenonT(30)
<1>13. stack' # <<>>
  <2>1. Len(s) # 0
    BY <1>9, <1>10
  <2> QED BY <1>12, <2>1
<1> QED
  BY <1>1, <1>7, <1>8, <1>12, <1>13, StepTyped DEF rest, IInv, Typed

\* A keyword that cannot be stored throws, which keeps the invariant.
LEMMA StoreFailsTyped == ASSUME IInv, StoreFails PROVE IInv'
<1>1. stack' = <<>> /\ pc' = "thrown" /\ unknown' = WithFile(Owner.loc) /\ Running("keep")
      /\ UNCHANGED <<schemas, unresolved, heap, doc, root, corpus, pending, again, calls, base,
                     loads, home>>
  BY DEF StoreFails, Raise
<1>2. DOMAIN unknown' \subseteq Location /\ \A l \in DOMAIN unknown' : IsTree(unknown'[l], Token, Node)
  BY <1>1, KeptType, WithFileType
<1>3. loads' \in Seq(Location)
  BY <1>1 DEF IInv, Typed
<1> QED
  BY <1>1, <1>2, <1>3, RaiseTyped

\* Going on to the members of an unknown keyword keeps the invariant.
LEMMA OpenMembersTyped == ASSUME IInv, OpenMembers PROVE IInv'
<1> DEFINE keys == KeysOf(Top.src)
           f == [Top EXCEPT !.step = "members", !.keys = keys]
<1>1. /\ stack # <<>> /\ Top.src.in # "freed" /\ Top.step = "kept"
      /\ Continue(f) /\ UNCHANGED <<registry, heap, doc, rest>>
  BY DEF OpenMembers, Running
<1>2. Top \in Frame /\ keys \in SUBSET Token /\ Fits(Top, Len(heap), base, doc, unknown)
  BY <1>1, ReadsNode
<1> HIDE DEF keys
<1>3. /\ f \in Frame /\ f.src = Top.src /\ f.uris = Top.uris /\ f.kids = Top.kids
      /\ f.step = "members" /\ f.obj = Top.obj
  BY <1>2 DEF Frame
<1> HIDE DEF f
<1>4. Fits(f, Len(heap), base, doc, unknown) /\ Follows(Top, f)
  BY <1>1, <1>2, <1>3 DEF Fits, Follows, KeepSteps
<1> QED
  BY <1>1, <1>3, <1>4, ContinueTyped
-----------------------------------------------------------------------------
(***************************************************************************)
(* Returning, loading, and the call of set_root_schema() itself.           *)
(***************************************************************************)

\* Returning to make() or insert_unknown_keyword() keeps the invariant.
LEMMA ReturnToCallerTyped == ASSUME IInv, ReturnToCaller PROVE IInv'
<1>1. /\ stack # <<>> /\ Len(stack) > 1
      /\ stack[Len(stack)].step \in {"register", "members"}
      /\ stack' = [Front(stack) EXCEPT ![Len(stack) - 1] = Received(@, stack[Len(stack)].obj)]
      /\ UNCHANGED <<registry, heap, doc, rest>>
  BY DEF ReturnToCaller, Returning, Running, Depth, Top
<1>2. StackOK(stack, Len(heap), base, doc, unknown) /\ Len(heap) \in Nat /\ base \in Nat
  BY Basics DEF IInv
<1>3. StackOK(stack', Len(heap), base, doc, unknown)
  BY <1>1, <1>2, PopCall
<1>4. stack' # <<>>
  <2>1. stack \in Seq(Frame) /\ Len(stack) \in Nat
    BY <1>2 DEF StackOK
  <2>2. DOMAIN Front(stack) = 1..(Len(stack) - 1)
    BY <1>1, <2>1 DEF Front
  <2>3. DOMAIN stack' = 1..(Len(stack) - 1)
    BY <1>1, <2>2
  <2>4. 1 \in DOMAIN stack'
    BY <1>1, <2>1, <2>3
  <2> QED BY <2>4
<1>5. Len(heap) <= Len(heap)
  BY <1>2
<1> QED
  BY <1>1, <1>3, <1>4, <1>5, StepTyped DEF registry, rest, IInv, Typed

\* The root schema is made, which keeps the invariant.
LEMMA ReturnRootTyped == ASSUME IInv, ReturnRoot PROVE IInv'
<1>1. /\ stack # <<>> /\ root' = Top.obj /\ stack' = <<>> /\ pc' = "load"
      /\ pending' = DOMAIN unknown /\ again' = FALSE
      /\ UNCHANGED <<registry, heap, doc, corpus, calls, base, loads, home>>
  BY DEF ReturnRoot, Returning, Running, Locations
<1>2. StackOK(stack, Len(heap), base, doc, unknown) /\ Len(heap) \in Nat /\ base \in Nat
  BY Basics DEF IInv
<1>3. Fits(Top, Len(heap), base, doc, unknown)
  BY <1>1, <1>2, TopFits DEF Top, Depth
<1>4. root' \in 0..Len(heap)
  BY <1>1, <1>2, <1>3 DEF Fits
<1>5. StackOK(stack', Len(heap), base, doc, unknown)
  BY <1>1 DEF StackOK
<1>6. Typed' /\ Phases'
  BY <1>1, <1>4 DEF registry, IInv, Typed, Phases
<1> QED
  BY <1>1, <1>5, <1>6 DEF registry, IInv

\* A loaded document is compiled, which keeps the invariant.
LEMMA ReturnLoadedTyped == ASSUME IInv, ReturnLoaded PROVE IInv'
<1>1. stack' = <<>> /\ pc = "load" /\ UNCHANGED <<registry, heap, doc, rest>>
  BY DEF ReturnLoaded
<1>2. StackOK(stack', Len(heap), base, doc, unknown)
  BY <1>1 DEF StackOK
<1>3. Typed' /\ Phases'
  BY <1>1 DEF registry, rest, IInv, Typed, Phases
<1> QED
  BY <1>1, <1>2, <1>3 DEF registry, rest, IInv

\* Undefined behaviour ends the model's knowledge and keeps the invariant.
LEMMA UndefinedTyped == ASSUME IInv, Undefined PROVE IInv'
  BY RaiseTyped DEF Undefined, Raise, registry, IInv, Typed

\* A document starts where its only call is.
LEMMA CompileTyped ==
  ASSUME NEW c \in Corpus, NEW l \in DOMAIN Text[c], Compile(l, c),
         NEW n \in Nat, NEW b \in Nat, NEW u
  PROVE  /\ IsTree(doc', Token, Node)
         /\ StackOK(stack', n, b, doc', u) /\ stack' # <<>>
<1> DEFINE t == Text[c][l]
           src == [in |-> "doc", loc |-> l, ptr |-> <<>>]
           uris == <<FileUri(l)>>
           none == <<>>
           f == MakeFrame(src, uris, none)
<1>1. l \in Location /\ IsTree(t, Token, Node) /\ <<>> \in DOMAIN t
  BY CorpusAssumption
<1>2. doc' = Atop(l, t) /\ stack' = <<f>>
  BY DEF Compile
<1>3. DOMAIN doc' = DOMAIN t /\ IsTree(doc', Token, Node)
  <2>1. ASSUME NEW p \in DOMAIN t PROVE [t[p] EXCEPT !.at = [loc |-> l, ptr |-> p]] \in Node
    <3> DEFINE v == t[p]
               at == [loc |-> l, ptr |-> p]
    <3>1. v \in Node /\ at \in Place
      BY <1>1 DEF IsTree, Place
    <3> HIDE DEF v, at
    <3>2. [v EXCEPT !.at = at] \in Node
      BY <3>1 DEF Node
    <3> QED BY <3>2 DEF v, at
  <2> QED BY <1>1, <1>2, <2>1 DEF Atop, IsTree
<1>4. src \in Source /\ src.in = "doc" /\ Placed(src, doc', u) /\ none \in Seq(Token)
  BY <1>1, <1>3 DEF Source, Placed
<1>5. uris \in Seq(Uri) /\ PlainOnlyLast(uris)
  BY <1>1, FileUriType DEF PlainOnlyLast
<1> HIDE DEF src, uris, none
<1>6. Fits(f, n, b, doc', u) /\ f.step = "enter" /\ f.src = src
  BY <1>4, <1>5, MakeFrameFits
<1> HIDE DEF f
<1>7. f \in Frame
  BY <1>6 DEF Fits
<1>8. stack' \in Seq(Frame) /\ Len(stack') = 1 /\ stack'[1] = f /\ stack' # <<>>
  BY <1>2, <1>7
<1> QED
  BY <1>3, <1>6, <1>8 DEF StackOK, KeepSteps

\* The loading loop keeps the invariant.
LEMMA LoadStepTyped == ASSUME IInv, LoadStep PROVE IInv'
<1> USE DEF NextLocation, Loading
<1>1. ASSUME NEW l \in Location, SkipFile(l) PROVE IInv'
  <2>1. /\ pending' = pending \ {l} /\ stack = <<>>
        /\ UNCHANGED <<registry, heap, root, doc, stack, pc, corpus, again, calls, base, loads, home>>
    BY <1>1 DEF SkipFile
  <2>2. Typed' /\ Phases'
    BY <2>1 DEF registry, IInv, Typed, Phases
  <2> QED BY <2>1, <2>2 DEF registry, IInv
<1>2. ASSUME NEW l \in Location, LoadFile(l) PROVE IInv'
  <2>1. /\ Compile(l, corpus) /\ l \in DOMAIN Text[corpus] /\ pc = "load"
        /\ pending' = pending \ {l} /\ again' = TRUE /\ loads' = Append(loads, l)
        /\ UNCHANGED <<registry, heap, root, pc, corpus, calls, base, home>>
    BY <1>2 DEF LoadFile
  <2>2. corpus \in Corpus /\ Len(heap) \in Nat /\ base \in Nat /\ loads \in Seq(Location)
    BY Basics DEF IInv, Typed
  <2>3. IsTree(doc', Token, Node)
        /\ StackOK(stack', Len(heap), base, doc', unknown) /\ stack' # <<>>
    BY <2>1, <2>2, CompileTyped
  <2>4. loads' \in Seq(Location)
    BY <2>1, <2>2
  <2>5. Typed' /\ Phases'
    BY <2>1, <2>3, <2>4 DEF registry, IInv, Typed, Phases
  <2> QED BY <2>1, <2>3, <2>5 DEF registry, IInv
<1>3. ASSUME NEW l \in Location, LoadFails(l) PROVE IInv'
  <2>1. /\ stack' = <<>> /\ pc' = "thrown"
        /\ loads' = IF HasLoader THEN Append(loads, l) ELSE loads
        /\ UNCHANGED <<registry, heap, doc, root, corpus, pending, again, calls, base, home>>
    BY <1>3 DEF LoadFails, Raise
  <2>2. loads' \in Seq(Location)
    BY <2>1 DEF IInv, Typed
  <2> QED BY <2>1, <2>2, RaiseTyped DEF registry, IInv, Typed
<1>4. CASE NextRound
  <2>1. /\ pending' = DOMAIN unknown /\ again' = FALSE /\ stack = <<>> /\ pc = "load"
        /\ UNCHANGED <<registry, heap, root, doc, stack, pc, corpus, calls, base, loads, home>>
    BY <1>4 DEF NextRound, Locations
  <2>2. Typed' /\ Phases'
    BY <2>1 DEF registry, IInv, Typed, Phases
  <2> QED BY <2>1, <2>2 DEF registry, IInv
<1>5. CASE Finish
  <2>1. /\ pc' \in {"ready", "thrown"} /\ stack = <<>>
        /\ UNCHANGED <<registry, heap, root, doc, stack, corpus, pending, again, calls, base,
                       loads, home>>
    BY <1>5 DEF Finish
  <2>2. Typed' /\ Phases'
    BY <2>1 DEF registry, IInv, Typed, Phases
  <2> QED BY <2>1, <2>2 DEF registry, IInv
<1> QED
  BY <1>1, <1>2, <1>3, <1>4, <1>5 DEF LoadStep

\* A new call of set_root_schema() establishes what the invariant says of calls.
LEMMA SetRootSchemaTyped ==
  ASSUME IInv, NEW c \in Corpus, SetRootSchema(c) PROVE IInv'
<1>1. /\ calls < MaxCalls /\ calls' = calls + 1 /\ corpus' = c
      /\ schemas' = NoEntries /\ unresolved' = NoEntries /\ unknown' = NoEntries
      /\ home' = NoEntries /\ base' = Len(heap) /\ loads' = <<>> /\ pc' = "root"
      /\ Compile(RootLocation, c)
      /\ UNCHANGED <<heap, root, pending, again>>
  BY DEF SetRootSchema, ClearFiles
<1>2. Len(heap) \in Nat /\ RootLocation \in DOMAIN Text[c]
  BY Basics, CorpusAssumption
<1>3. IsTree(doc', Token, Node)
      /\ StackOK(stack', Len(heap), Len(heap), doc', unknown') /\ stack' # <<>>
  BY <1>1, <1>2, CompileTyped
<1>4. DOMAIN NoEntries = {} /\ calls' \in 0..MaxCalls /\ Len(heap) \in 0..Len(heap)
  BY <1>1, <1>2, OptionAssumption DEF NoEntries, IInv, Typed
<1>5. Typed'
  BY <1>1, <1>3, <1>4 DEF IInv, Typed, Entries, IsTable
<1>6. Phases'
  BY <1>1, <1>3 DEF Phases
<1> QED
  BY <1>1, <1>3, <1>5, <1>6 DEF IInv
-----------------------------------------------------------------------------

\* The invariant holds before the first call.
LEMMA InitTyped == ASSUME Init PROVE IInv
<1>1. corpus \in Corpus /\ calls \in 0..MaxCalls
  BY CorpusAssumption, OptionAssumption DEF Init
<1>2. heap = <<>> /\ heap \in Seq(Object) /\ Len(heap) = 0 /\ root = 0 /\ base = 0
      /\ loads \in Seq(Location) /\ DOMAIN NoEntries = {}
      /\ schemas = NoEntries /\ unresolved = NoEntries /\ unknown = NoEntries
      /\ home = NoEntries /\ doc = NoEntries /\ stack = <<>> /\ pc = "new"
      /\ pending = {} /\ again = FALSE
  BY DEF Init, NoEntries
<1>3. Typed
  <2>1. Entries(schemas, base, Len(heap)) /\ Entries(unresolved, base, Len(heap))
        /\ IsTable(home, Uri, [node : Node, keys : SUBSET Token])
    BY <1>2 DEF Entries, IsTable
  <2>2. DOMAIN unknown \subseteq Location /\ \A l \in DOMAIN unknown : IsTree(unknown[l], Token, Node)
    BY <1>2
  <2>3. IsTree(doc, Token, Node)
    BY <1>2 DEF IsTree
  <2>4. base \in 0..Len(heap) /\ root \in 0..Len(heap)
    BY <1>2
  <2> QED BY <1>1, <1>2, <2>1, <2>2, <2>3, <2>4 DEF Typed
<1>4. Phases /\ StackOK(stack, Len(heap), base, doc, unknown)
  BY <1>2 DEF Phases, StackOK
<1> QED
  BY <1>3, <1>4 DEF IInv

\* Every step of make() and insert_unknown_keyword() keeps the invariant.
LEMMA MakingTyped == ASSUME IInv, Making PROVE IInv'
  BY EnterBooleanTyped, EnterObjectTyped, EnterRejectedTyped, OpenKeywordTyped, CompileSlotTyped,
     CloseKeywordTyped, StartTypeTyped, FinishTypeTyped, ReuseReferenceTyped,
     CreateReferenceTyped, OverrideTyped, InsertSchemaTyped, InsertTwiceTyped, FinishUriTyped,
     FileKeywordTyped, CompileKeywordTyped, StoreKeywordTyped, StoreFailsTyped,
     OpenMembersTyped, ReturnToCallerTyped, ReturnRootTyped, ReturnLoadedTyped, UndefinedTyped
     DEF Making

\* The strengthened invariant is inductive.
LEMMA NextTyped == ASSUME IInv, [Next]_vars PROVE IInv'
<1>1. CASE Making
  BY <1>1, MakingTyped
<1>2. CASE LoadStep
  BY <1>2, LoadStepTyped
<1>3. CASE \E c \in Corpus : SetRootSchema(c)
  BY <1>3, SetRootSchemaTyped
<1>4. CASE UNCHANGED vars
  BY <1>4 DEF vars, IInv, Typed, Phases
<1> QED
  BY <1>1, <1>2, <1>3, <1>4 DEF Next, Compute, Stop

\* It implies the type invariant the runs check.
LEMMA TypedIsTypeOK == ASSUME IInv PROVE TypeOK
<1>1. Len(heap) \in Nat /\ base \in Nat
  BY Basics
<1>2. (base + 1)..Len(heap) \subseteq 1..Len(heap)
  BY <1>1
<1>3. stack \in Seq(Frame) /\ Len(stack) \in Nat
      /\ \A i \in 1..Len(stack) : stack[i] \in Frame /\ PlainOnlyLast(stack[i].uris)
  BY DEF IInv, StackOK, Fits
<1>4. Names
  <2> SUFFICES ASSUME NEW i \in 1..Len(stack), NEW j \in DOMAIN stack[i].uris,
                      stack[i].uris[j].name # NoName
               PROVE  j = Len(stack[i].uris)
    BY DEF Names, Depth
  <2>1. stack[i].uris \in Seq(Uri)
    BY <1>3 DEF Frame
  <2>2. j \in 1..Len(stack[i].uris)
    BY <2>1
  <2> QED BY <1>3, <2>2 DEF PlainOnlyLast
<1> QED
  BY <1>2, <1>3, <1>4 DEF IInv, Typed, Entries, IsTable, TypeOK

\* Every variable always has its type: for all documents, all files a loader may
\* serve and all orders of tokens, the frames of make() find what they read.
THEOREM TypeCorrect == Spec => []TypeOK
<1>1. Init => IInv
  BY InitTyped
<1>2. IInv /\ [Next]_vars => IInv'
  BY NextTyped
<1>3. IInv => TypeOK
  BY TypedIsTypeOK
<1> QED
  BY <1>1, <1>2, <1>3, PTL DEF Spec
=============================================================================
