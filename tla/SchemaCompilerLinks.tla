------------------------ MODULE SchemaCompilerLinks -------------------------
(***************************************************************************)
(* Proofs about the registry of SchemaCompiler: how references are linked  *)
(* to their targets, who owns whom, that all of it keeps the promise of    *)
(* LinkTable, that what validation can reach is alive, and that each       *)
(* document is loaded once.                                                *)
(***************************************************************************)
EXTENDS SchemaCompilerTypes

\* Who waits under a URI is a reference made for this URI, empty so far.
Awaited ==
  \A u \in DOMAIN unresolved :
    LET r == heap[unresolved[u]]
    IN r.kind = "ref" /\ r.owns = {} /\ r.uri = u /\ r.target = 0

LInv == RegisteredXorAwaited /\ Awaited /\ RefsFollowRegistry /\ OwnershipAcyclic
-----------------------------------------------------------------------------
(***************************************************************************)
(* What a step can do to the registry.                                     *)
(***************************************************************************)
Busy == pc \in {"root", "load"}
Quiet ==
  /\ UNCHANGED <<schemas, unresolved, heap, base, calls>>
  /\ \/ pc' = pc
     \/ Busy /\ pc' = "load"
     \/ Busy /\ pc' \in {"thrown", "undefined"}
     \/ Busy /\ pc' = "ready" /\ Complete

\* It makes an object which is no reference of get_or_create_ref().
Makes(o) ==
  /\ Alloc(o) /\ o \in Object
  /\ o.kind = "ref" => o.target \in o.owns
  /\ \A k \in o.owns : 0 < k /\ k <= Len(heap)
  /\ UNCHANGED <<schemas, unresolved, base, calls, pc>>

\* A type_schema is one new object that owns its sub-schemas.
LEMMA FinishTypeMakes == ASSUME IInv, FinishType PROVE \E o : Makes(o)
<1> DEFINE kids == Top.kids
           o == NewObject("type", NoUri, 0, kids)
<1>1. /\ stack # <<>> /\ Top.src.in # "freed" /\ Alloc(o)
      /\ UNCHANGED <<schemas, unresolved, base, calls, pc>>
  BY DEF FinishType, Running, rest
<1>2. kids \in SUBSET Nat /\ \A k \in kids : 0 < k /\ k <= Len(heap)
  BY <1>1, ReadsNode DEF Fits, Frame
<1> HIDE DEF kids
<1>3. o \in Object /\ o.kind = "type" /\ o.owns = kids
  BY <1>2 DEF NewObject, Object
<1> HIDE DEF o
<1> QED
  BY <1>1, <1>2, <1>3 DEF Makes

\* A boolean schema is one new object.
LEMMA EnterBooleanMakes == ASSUME IInv, EnterBoolean PROVE \E o : Makes(o)
<1> DEFINE o == NewObject("boolean", NoUri, 0, {})
<1>1. Alloc(o) /\ UNCHANGED <<schemas, unresolved, base, calls, pc>>
  BY DEF EnterBoolean, registry, rest
<1>2. o \in Object /\ o.kind = "boolean" /\ o.owns = {}
  BY DEF NewObject, Object
<1> HIDE DEF o
<1> QED
  BY <1>1, <1>2 DEF Makes

\* An override is one new object, or none.
LEMMA OverrideMakes ==
  ASSUME IInv, OwnershipAcyclic, Override PROVE Quiet \/ \E o : Makes(o)
<1> DEFINE k == Top.obj
           o == Overriding(k)
<1>1. /\ stack # <<>> /\ Top.src.in # "freed" /\ Top.step = "override"
      /\ Value(Top.src).default /\ heap[k].kind = "ref" => Top.uris # <<>>
      /\ UNCHANGED <<schemas, unresolved, base, calls, pc>>
      /\ IF Value(Top.src).default THEN Alloc(o) ELSE UNCHANGED heap
  BY DEF Override, Running, rest
<1>2. CASE ~Value(Top.src).default
  BY <1>1, <1>2 DEF Quiet
<1>3. CASE Value(Top.src).default
  <2>1. /\ Top \in Frame /\ Fits(Top, Len(heap), base, doc, unknown) /\ Top.obj # 0
    BY <1>1, ReadsNode DEF IInv, StackOK, Top, Depth
  <2>2. k \in 1..Len(heap) /\ heap[k] \in Object /\ Top.uris \in Seq(Uri)
        /\ Len(heap) \in Nat
    BY <2>1, Basics DEF Fits, Frame, IInv, Typed
  <2>3. CASE heap[k].kind = "ref"
    <3> DEFINE u == Top.uris[1]
               owns == {k}
    <3>1. u \in Uri /\ owns \in SUBSET Nat /\ k \in Nat /\ k \in owns
          /\ \A i \in owns : 0 < i /\ i <= Len(heap)
      BY <1>1, <1>3, <2>2, <2>3
    <3>2. o = NewObject("ref", u, k, owns)
      BY <2>3 DEF Overriding
    <3> HIDE DEF u, owns, k
    <3>3. o \in Object /\ o.owns = owns /\ o.target = k
      BY <3>1, <3>2 DEF NewObject, Object
    <3> QED BY <1>1, <1>3, <3>1, <3>3 DEF Makes
  <2>4. CASE heap[k].kind # "ref"
    <3> DEFINE h == heap[k]
    <3>1. o = [h EXCEPT !.uri = NoUri]
      BY <2>4 DEF Overriding
    <3>2. h \in Object /\ \A i \in h.owns : 0 < i /\ i < k
      BY <2>2 DEF OwnershipAcyclic
    <3>3. h.kind # "ref"
      BY <2>4
    <3> HIDE DEF h
    <3>4. o \in Object /\ o.kind = h.kind /\ o.owns = h.owns /\ h.owns \subseteq Nat
      BY <3>1, <3>2 DEF Object
    <3>5. \A i \in h.owns : 0 < i /\ i <= Len(heap)
      BY <2>2, <3>2, <3>4
    <3> HIDE DEF o, k
    <3> QED BY <1>1, <1>3, <3>3, <3>4, <3>5 DEF Makes
  <2> QED BY <2>3, <2>4
<1> QED
  BY <1>2, <1>3

\* Only a few actions touch the registry or the objects.
LEMMA StepKinds ==
  ASSUME IInv, OwnershipAcyclic, [Next]_vars
  PROVE  \/ Quiet \/ (\E o : Makes(o)) \/ CreateReference \/ InsertSchema
         \/ \E c \in Corpus : SetRootSchema(c)
<1>1. CASE EnterBoolean \/ FinishType \/ Override
  BY <1>1, EnterBooleanMakes, FinishTypeMakes, OverrideMakes
<1>2. stack # <<>> => Busy
  BY DEF IInv, Phases, Busy
<1>3. CASE EnterObject
  BY <1>3 DEF EnterObject, Quiet, rest
<1>4. CASE EnterRejected \/ InsertTwice \/ StoreFails \/ Undefined
  <2>1. stack # <<>> /\ pc' \in {"thrown", "undefined"}
        /\ UNCHANGED <<schemas, unresolved, heap, base, calls>>
    BY <1>4 DEF EnterRejected, InsertTwice, Inserting, StoreFails, Undefined, Running, Raise, registry
  <2> QED BY <1>2, <2>1 DEF Quiet
<1>5. CASE OpenKeyword \/ CompileSlot \/ CloseKeyword \/ StartType
  BY <1>5 DEF OpenKeyword, CompileSlot, CloseKeyword, StartType, Quiet, registry, rest
<1>6. CASE ReuseReference \/ FinishUri \/ FileKeyword \/ CompileKeyword
  BY <1>6 DEF ReuseReference, FinishUri, FileKeyword, CompileKeyword, Quiet, registry, rest
<1>7. CASE StoreKeyword \/ OpenMembers \/ ReturnToCaller \/ ReturnLoaded
  BY <1>7 DEF StoreKeyword, OpenMembers, ReturnToCaller, ReturnLoaded, Quiet, registry, rest
<1>8. CASE ReturnRoot
  BY <1>8 DEF ReturnRoot, Quiet, Busy, registry
<1>9. CASE LoadStep
  <2>1. ASSUME NEW l \in Location, SkipFile(l) \/ LoadFile(l) \/ LoadFails(l) PROVE Quiet
    BY <2>1 DEF SkipFile, LoadFile, LoadFails, Raise, NextLocation, Loading, Quiet, Busy, registry
  <2>2. CASE NextRound \/ Finish
    BY <2>2 DEF NextRound, Finish, Loading, Quiet, Busy, registry
  <2> QED BY <1>9, <2>1, <2>2 DEF LoadStep
<1>10. CASE UNCHANGED vars
  BY <1>10 DEF vars, Quiet
<1> QED
  BY <1>1, <1>3, <1>4, <1>5, <1>6, <1>7, <1>8, <1>9, <1>10 DEF Next, Compute, Making, Stop
-----------------------------------------------------------------------------
(***************************************************************************)
(* The links are right, and stay so.                                       *)
(***************************************************************************)

\* What leaves the registry and the objects alone keeps the links.
LEMMA QuietLinks ==
  ASSUME LInv, Quiet PROVE LInv' /\ References' = References
  BY DEF LInv, RegisteredXorAwaited, Awaited, RefsFollowRegistry, OwnershipAcyclic, References, Quiet

\* A new object leaves the others as they are.
LEMMA HeapGrows ==
  ASSUME IInv, NEW o \in Object, Alloc(o)
  PROVE  /\ heap' \in Seq(Object) /\ Len(heap) \in Nat /\ Len(heap') = Len(heap) + 1
         /\ \A i \in 1..Len(heap) : heap'[i] = heap[i]
         /\ heap'[New] = o
         /\ base \in Nat /\ base <= Len(heap)
         /\ \A u \in DOMAIN schemas : schemas[u] \in (base + 1)..Len(heap)
         /\ \A u \in DOMAIN unresolved : unresolved[u] \in (base + 1)..Len(heap)
<1>1. heap \in Seq(Object) /\ Len(heap) \in Nat /\ base \in Nat /\ base <= Len(heap)
  BY Basics DEF IInv, Typed
<1>2. heap' = Append(heap, o)
  BY DEF Alloc
<1> QED
  BY <1>1, <1>2, AppendProperties DEF New, IInv, Typed, Entries, IsTable

\* A new object that is no awaited reference keeps the links.
LEMMA MakesLinks ==
  ASSUME IInv, LInv, NEW o, Makes(o)
  PROVE  LInv' /\ References' = References /\ \A r \in References : heap'[r] = heap[r]
<1>1. o \in Object /\ Alloc(o) /\ UNCHANGED <<schemas, unresolved, base>>
      /\ o.owns \subseteq Nat
  BY DEF Makes, Object
<1>2. References' = References /\ \A r \in References : heap'[r] = heap[r]
  <2>1. \A r \in (base + 1)..Len(heap) : heap'[r] = heap[r]
    BY <1>1, HeapGrows
  <2>2. (base + 1)..Len(heap') = (base + 1)..Len(heap) \cup {New}
    BY <1>1, HeapGrows DEF New
  <2>3. New \notin References'
    BY <1>1, HeapGrows DEF References, Makes
  <2> QED BY <1>1, <2>1, <2>2, <2>3 DEF References
<1>3. RegisteredXorAwaited'
  BY <1>1 DEF LInv, RegisteredXorAwaited
<1>4. Awaited'
  <2>1. \A u \in DOMAIN unresolved : heap'[unresolved[u]] = heap[unresolved[u]]
    BY <1>1, HeapGrows
  <2> QED BY <1>1, <2>1 DEF LInv, Awaited
<1>5. RefsFollowRegistry'
  BY <1>1, <1>2 DEF LInv, RefsFollowRegistry
<1>6. OwnershipAcyclic'
  <2>1. ASSUME NEW i \in 1..Len(heap'), NEW k \in heap'[i].owns PROVE 0 < k /\ k < i
    <3>1. CASE i \in 1..Len(heap)
      BY <1>1, <2>1, <3>1, HeapGrows DEF LInv, OwnershipAcyclic
    <3>2. CASE i = New
      BY <1>1, <2>1, <3>2, HeapGrows DEF Makes, New
    <3> QED BY <1>1, <2>1, <3>1, <3>2, HeapGrows DEF New
  <2> QED BY <2>1 DEF OwnershipAcyclic
<1> QED
  BY <1>2, <1>3, <1>4, <1>5, <1>6 DEF LInv

\* What get_or_create_ref() does to the registry when the URI is new.
LEMMA CreateReferenceSteps ==
  ASSUME IInv, CreateReference
  PROVE  /\ Target \in Uri /\ Target \notin DOMAIN schemas \cup DOMAIN unresolved
         /\ NewObject("ref", Target, 0, {}) \in Object
         /\ Alloc(NewObject("ref", Target, 0, {}))
         /\ unresolved' = Put(unresolved, Target, New)
         /\ UNCHANGED <<schemas, base, calls, pc>> /\ Busy
<1>1. stack # <<>> /\ AtReference /\ Target \notin DOMAIN schemas \cup DOMAIN unresolved
      /\ Alloc(NewObject("ref", Target, 0, {}))
      /\ unresolved' = Put(unresolved, Target, New)
      /\ UNCHANGED <<schemas, base, calls, pc>>
  BY DEF CreateReference, AtReference, Running, rest
<1>2. Target \in Uri
  BY <1>1, TargetType
<1>3. NewObject("ref", Target, 0, {}) \in Object
  BY <1>2 DEF NewObject, Object
<1> QED
  BY <1>1, <1>2, <1>3 DEF IInv, Phases, Busy

\* get_or_create_ref() keeps the links.
LEMMA CreateReferenceLinks ==
  ASSUME IInv, LInv, CreateReference
  PROVE  /\ LInv' /\ References' = References \cup {New} /\ New \notin References
         /\ heap'[New] = NewObject("ref", Target, 0, {})
         /\ \A r \in References : heap'[r] = heap[r]
<1> DEFINE o == NewObject("ref", Target, 0, {})
<1>1. /\ Target \in Uri /\ Target \notin DOMAIN schemas \cup DOMAIN unresolved
      /\ o \in Object /\ Alloc(o) /\ unresolved' = Put(unresolved, Target, New)
      /\ UNCHANGED <<schemas, base>>
  BY CreateReferenceSteps
<1>2. o.kind = "ref" /\ o.uri = Target /\ o.target = 0 /\ o.owns = {}
  BY DEF NewObject
<1> HIDE DEF o
<1>3. /\ Len(heap) \in Nat /\ Len(heap') = Len(heap) + 1 /\ base \in Nat /\ base <= Len(heap)
      /\ \A i \in 1..Len(heap) : heap'[i] = heap[i]
      /\ heap'[New] = o
      /\ \A u \in DOMAIN unresolved : unresolved[u] \in (base + 1)..Len(heap)
  BY <1>1, HeapGrows
<1>4. /\ References' = References \cup {New} /\ New \notin References
      /\ \A r \in References : heap'[r] = heap[r]
  <2>1. \A r \in (base + 1)..Len(heap) : heap'[r] = heap[r]
    BY <1>3
  <2>2. (base + 1)..Len(heap') = (base + 1)..Len(heap) \cup {New} /\ New \notin (base + 1)..Len(heap)
    BY <1>3 DEF New
  <2>3. New \in References'
    BY <1>1, <1>2, <1>3, <2>2 DEF References
  <2> QED BY <1>1, <2>1, <2>2, <2>3 DEF References
<1>5. RegisteredXorAwaited'
  BY <1>1 DEF LInv, RegisteredXorAwaited, Put
<1>6. Awaited'
  <2> SUFFICES ASSUME NEW u \in DOMAIN unresolved'
               PROVE  /\ heap'[unresolved'[u]].kind = "ref" /\ heap'[unresolved'[u]].owns = {}
                      /\ heap'[unresolved'[u]].uri = u /\ heap'[unresolved'[u]].target = 0
    BY DEF Awaited
  <2>1. CASE u = Target
    <3>1. unresolved'[u] = New
      BY <1>1, <2>1 DEF Put
    <3> QED BY <1>2, <1>3, <2>1, <3>1
  <2>2. CASE u # Target
    <3>1. u \in DOMAIN unresolved /\ unresolved'[u] = unresolved[u]
      BY <1>1, <2>2 DEF Put
    <3>2. heap'[unresolved[u]] = heap[unresolved[u]]
      BY <1>3, <3>1
    <3> QED BY <3>1, <3>2 DEF LInv, Awaited
  <2> QED BY <2>1, <2>2
<1>7. RefsFollowRegistry'
  <2> SUFFICES ASSUME NEW r \in References'
               PROVE  \/ /\ heap'[r].uri \in DOMAIN unresolved'
                         /\ unresolved'[heap'[r].uri] = r /\ heap'[r].target = 0
                      \/ /\ heap'[r].uri \in DOMAIN schemas'
                         /\ heap'[r].target = schemas'[heap'[r].uri]
    BY DEF RefsFollowRegistry
  <2>1. CASE r = New
    BY <1>1, <1>2, <1>3, <2>1 DEF Put
  <2>2. CASE r \in References
    <3>1. heap'[r] = heap[r]
      BY <1>4, <2>2
    <3>2. CASE heap[r].uri \in DOMAIN unresolved /\ unresolved[heap[r].uri] = r /\ heap[r].target = 0
      BY <1>1, <3>1, <3>2 DEF Put
    <3>3. CASE heap[r].uri \in DOMAIN schemas /\ heap[r].target = schemas[heap[r].uri]
      BY <1>1, <3>1, <3>3
    <3> QED BY <2>2, <3>2, <3>3 DEF LInv, RefsFollowRegistry
  <2> QED BY <1>4, <2>1, <2>2
<1>8. OwnershipAcyclic'
  <2>1. ASSUME NEW i \in 1..Len(heap'), NEW k \in heap'[i].owns PROVE 0 < k /\ k < i
    <3>1. CASE i \in 1..Len(heap)
      BY <1>3, <2>1, <3>1 DEF LInv, OwnershipAcyclic
    <3>2. CASE i = New
      BY <1>2, <1>3, <2>1, <3>2
    <3> QED BY <1>3, <2>1, <3>1, <3>2 DEF New
  <2> QED BY <2>1 DEF OwnershipAcyclic
<1> QED
  BY <1>3, <1>4, <1>5, <1>6, <1>7, <1>8 DEF LInv, o

\* The object an insertion changes, and how.
LEMMA InsertSchemaSteps ==
  ASSUME IInv, InsertSchema, NEW uri, uri = Head(Top.uris), NEW s, s = Top.obj
  PROVE  /\ uri \in Uri /\ uri \notin DOMAIN schemas
         /\ s \in (base + 1)..Len(heap) /\ base \in Nat /\ Len(heap) \in Nat
         /\ schemas' = Put(schemas, uri, s) /\ unresolved' = Drop(unresolved, uri)
         /\ UNCHANGED <<base, calls, pc>> /\ Busy
         /\ Len(heap') = Len(heap)
         /\ \A i \in 1..Len(heap) :
              IF uri \in DOMAIN unresolved /\ i = unresolved[uri]
              THEN /\ heap'[i].target = s /\ heap'[i].kind = heap[i].kind
                   /\ heap'[i].uri = heap[i].uri /\ heap'[i].owns = heap[i].owns
              ELSE heap'[i] = heap[i]
<1>1. /\ stack # <<>> /\ Top.src.in # "freed" /\ Top.step = "register" /\ Top.uris # <<>>
      /\ uri \notin DOMAIN schemas
      /\ schemas' = Put(schemas, uri, s)
      /\ unresolved' = Drop(unresolved, uri)
      /\ heap' = IF uri \in DOMAIN unresolved
                 THEN [heap EXCEPT ![unresolved[uri]].target = s] ELSE heap
      /\ UNCHANGED <<base, calls, pc>>
  BY DEF InsertSchema, Inserting, Bind, Running
<1>2. Top \in Frame /\ Fits(Top, Len(heap), base, doc, unknown)
  BY <1>1, ReadsNode
<1>3. uri \in Uri /\ s \in (base + 1)..Len(heap)
  BY <1>1, <1>2 DEF Frame, Fits
<1>4. heap \in Seq(Object) /\ Len(heap) \in Nat /\ base \in Nat
      /\ \A u \in DOMAIN unresolved : unresolved[u] \in (base + 1)..Len(heap)
  BY Basics DEF IInv, Typed, Entries, IsTable
<1>5. \A i \in 1..Len(heap) : heap[i] \in Object
  BY <1>4
<1>6. CASE uri \in DOMAIN unresolved
  <2> DEFINE w == unresolved[uri]
             h == heap[w]
             g == [h EXCEPT !.target = s]
  <2>1. w \in 1..Len(heap) /\ h \in Object
    BY <1>4, <1>5, <1>6
  <2>2. heap' = [heap EXCEPT ![w] = g]
    BY <1>1, <1>4, <1>6, <2>1
  <2> HIDE DEF w, h
  <2>3. g.target = s /\ g.kind = h.kind /\ g.uri = h.uri /\ g.owns = h.owns
    BY <2>1 DEF Object
  <2> HIDE DEF g
  <2>4. Len(heap') = Len(heap) /\ heap'[w] = g /\ \A i \in 1..Len(heap) : i # w => heap'[i] = heap[i]
    BY <1>4, <2>1, <2>2
  <2> QED
    BY <1>1, <1>2, <1>3, <1>4, <2>3, <2>4 DEF w, h, IInv, Phases, Busy
<1>7. CASE uri \notin DOMAIN unresolved
  BY <1>1, <1>3, <1>4, <1>7 DEF IInv, Phases, Busy
<1> QED
  BY <1>6, <1>7

\* root_schema::insert() keeps the links.
LEMMA InsertSchemaLinks ==
  ASSUME IInv, LInv, InsertSchema
  PROVE  LInv' /\ References' = References
<1> DEFINE uri == Head(Top.uris)
           s == Top.obj
           hit(i) == uri \in DOMAIN unresolved /\ i = unresolved[uri]
<1>1. /\ uri \in Uri /\ uri \notin DOMAIN schemas
      /\ s \in (base + 1)..Len(heap) /\ base \in Nat /\ Len(heap) \in Nat
      /\ schemas' = Put(schemas, uri, s) /\ unresolved' = Drop(unresolved, uri)
      /\ base' = base /\ Len(heap') = Len(heap)
      /\ \A i \in 1..Len(heap) :
           IF hit(i)
           THEN /\ heap'[i].target = s /\ heap'[i].kind = heap[i].kind
                /\ heap'[i].uri = heap[i].uri /\ heap'[i].owns = heap[i].owns
           ELSE heap'[i] = heap[i]
  BY InsertSchemaSteps
<1>2. \A i \in 1..Len(heap) : /\ heap'[i].kind = heap[i].kind /\ heap'[i].uri = heap[i].uri
                              /\ heap'[i].owns = heap[i].owns
  BY <1>1
<1>3. \A u \in DOMAIN unresolved : unresolved[u] \in (base + 1)..Len(heap)
  BY DEF IInv, Typed, Entries, IsTable
<1> HIDE DEF uri, s
<1>4. References' = References
  <2>1. \A i \in (base + 1)..Len(heap) : heap'[i].kind = heap[i].kind /\ heap'[i].owns = heap[i].owns
    BY <1>1, <1>2
  <2> QED BY <1>1, <2>1 DEF References
<1>5. RegisteredXorAwaited'
  BY <1>1 DEF LInv, RegisteredXorAwaited, Put, Drop
<1>6. Awaited'
  <2> SUFFICES ASSUME NEW u \in DOMAIN unresolved'
               PROVE  /\ heap'[unresolved'[u]].kind = "ref" /\ heap'[unresolved'[u]].owns = {}
                      /\ heap'[unresolved'[u]].uri = u /\ heap'[unresolved'[u]].target = 0
    BY DEF Awaited
  <2>1. u \in DOMAIN unresolved /\ u # uri /\ unresolved'[u] = unresolved[u]
    BY <1>1 DEF Drop
  <2>2. unresolved[u] \in 1..Len(heap) /\ heap[unresolved[u]].uri = u
    BY <1>1, <1>3, <2>1 DEF LInv, Awaited
  <2>3. ~hit(unresolved[u])
    BY <2>1, <2>2 DEF LInv, Awaited
  <2>4. heap'[unresolved[u]] = heap[unresolved[u]]
    BY <1>1, <2>2, <2>3
  <2> QED BY <2>1, <2>4 DEF LInv, Awaited
<1>7. RefsFollowRegistry'
  <2> SUFFICES ASSUME NEW r \in References
               PROVE  \/ /\ heap'[r].uri \in DOMAIN unresolved'
                         /\ unresolved'[heap'[r].uri] = r /\ heap'[r].target = 0
                      \/ /\ heap'[r].uri \in DOMAIN schemas'
                         /\ heap'[r].target = schemas'[heap'[r].uri]
    BY <1>4 DEF RefsFollowRegistry
  <2>1. r \in 1..Len(heap)
    BY <1>1 DEF References
  <2>2. CASE hit(r)
    <3>1. heap[r].uri = uri
      BY <2>2 DEF LInv, Awaited
    <3>2. heap'[r].uri = uri /\ heap'[r].target = s
      BY <1>1, <1>2, <2>1, <2>2, <3>1
    <3> QED BY <1>1, <3>2 DEF Put
  <2>3. CASE ~hit(r)
    <3>1. heap'[r] = heap[r]
      BY <1>1, <2>1, <2>3
    <3>2. CASE heap[r].uri \in DOMAIN unresolved /\ unresolved[heap[r].uri] = r /\ heap[r].target = 0
      <4>1. heap[r].uri # uri
        BY <2>3, <3>2
      <4> QED BY <1>1, <3>1, <3>2, <4>1 DEF Drop
    <3>3. CASE heap[r].uri \in DOMAIN schemas /\ heap[r].target = schemas[heap[r].uri]
      BY <1>1, <3>1, <3>3 DEF Put
    <3> QED BY <3>2, <3>3 DEF LInv, RefsFollowRegistry
  <2> QED BY <2>2, <2>3
<1>8. OwnershipAcyclic'
  BY <1>1, <1>2 DEF LInv, OwnershipAcyclic
<1> QED
  BY <1>4, <1>5, <1>6, <1>7, <1>8 DEF LInv

\* Forgetting all files leaves no link to be wrong.
LEMMA SetRootSchemaLinks ==
  ASSUME IInv, LInv, NEW c \in Corpus, SetRootSchema(c)
  PROVE  LInv' /\ References' = {} /\ schemas' = NoEntries /\ ~Busy /\ pc' = "root" /\ calls' # calls
<1>1. /\ schemas' = NoEntries /\ unresolved' = NoEntries /\ heap' = heap /\ base' = Len(heap)
      /\ pc' = "root" /\ calls' = calls + 1 /\ AtRest
  BY DEF SetRootSchema, ClearFiles
<1>2. Len(heap) \in Nat /\ calls \in Nat
  BY Basics, OptionAssumption DEF IInv, Typed
<1>3. References' = {}
  BY <1>1, <1>2 DEF References
<1>4. LInv'
  BY <1>1, <1>3 DEF LInv, RegisteredXorAwaited, Awaited, RefsFollowRegistry, OwnershipAcyclic,
     NoEntries
<1> QED
  BY <1>1, <1>2, <1>3, <1>4 DEF AtRest, Busy

\* The links are right whatever comes.
LEMMA LinksStep == ASSUME IInv, LInv, [Next]_vars PROVE LInv'
<1>1. OwnershipAcyclic
  BY DEF LInv
<1> QED
  BY <1>1, StepKinds, QuietLinks, MakesLinks, CreateReferenceLinks, InsertSchemaLinks,
     SetRootSchemaLinks
-----------------------------------------------------------------------------
(***************************************************************************)
(* The theorems.                                                           *)
(***************************************************************************)

\* There are no links before the first call.
LEMMA LinksInit == ASSUME Init PROVE LInv
<1>1. schemas = NoEntries /\ unresolved = NoEntries /\ Len(heap) = 0 /\ base = 0
  BY DEF Init
<1>2. References = {}
  BY <1>1 DEF References
<1> QED
  BY <1>1, <1>2 DEF LInv, RegisteredXorAwaited, Awaited, RefsFollowRegistry, OwnershipAcyclic,
     NoEntries

\* Both invariants hold in every reachable state.
LEMMA AlwaysRight == Spec => [](IInv /\ LInv)
<1>1. Init => IInv /\ LInv
  BY InitTyped, LinksInit
<1>2. IInv /\ LInv /\ [Next]_vars => IInv' /\ LInv'
  BY NextTyped, LinksStep
<1> QED
  BY <1>1, <1>2, PTL DEF Spec

\* For all documents and all loaders: insert() takes a reference off the
\* unresolved ones in the step that registers its target, and get_or_create_ref()
\* never makes a reference to a registered schema.
THEOREM NeverBoth == Spec => []RegisteredXorAwaited
<1>1. LInv => RegisteredXorAwaited
  BY DEF LInv
<1> QED
  BY <1>1, AlwaysRight, PTL

\* For all documents and all loaders: whether a reference was made before or after
\* its target, it is awaited and empty or points to the schema of its URI.
THEOREM AlwaysFollowing == Spec => []RefsFollowRegistry
<1>1. LInv => RefsFollowRegistry
  BY DEF LInv
<1> QED
  BY <1>1, AlwaysRight, PTL

\* For all documents and all loaders, the shared pointers between schema objects
\* form no cycle, so that the schemas of a validator are freed with it.
THEOREM NeverCyclic == Spec => []OwnershipAcyclic
<1>1. LInv => OwnershipAcyclic
  BY DEF LInv
<1> QED
  BY <1>1, AlwaysRight, PTL

\* No schema and no reference of an earlier call of set_root_schema() is left in
\* the registry, whether that call succeeded or threw.
THEOREM NothingStale == Spec => []CurrentGeneration
<1>1. IInv => CurrentGeneration
  BY Basics DEF IInv, Typed, Entries, IsTable, CurrentGeneration
<1> QED
  BY <1>1, AlwaysRight, PTL

\* While a call lasts, no URI is bound to another schema or loses its own.
THEOREM NeverRebound == Spec => BoundForGood
<1> DEFINE Stay == calls' = calls => \A u \in DOMAIN schemas :
                                      u \in DOMAIN schemas' /\ schemas'[u] = schemas[u]
<1>1. IInv /\ LInv /\ [Next]_vars => [Stay]_vars
  <2> SUFFICES ASSUME IInv, LInv, [Next]_vars PROVE Stay
    OBVIOUS
  <2>1. CASE InsertSchema
    BY <2>1, InsertSchemaSteps, ZenonT(30) DEF Put
  <2>2. CASE Quiet \/ (\E o : Makes(o))
    BY <2>2 DEF Quiet, Makes
  <2>3. CASE CreateReference
    BY <2>3, CreateReferenceSteps
  <2>4. CASE \E c \in Corpus : SetRootSchema(c)
    BY <2>4, SetRootSchemaLinks
  <2> QED BY <2>1, <2>2, <2>3, <2>4, StepKinds DEF LInv
<1> QED
  BY <1>1, AlwaysRight, PTL DEF Spec, BoundForGood
-----------------------------------------------------------------------------
(***************************************************************************)
(* The refinement: the registry implements LinkTable.                      *)
(***************************************************************************)
Outcome == CASE pc = "new" -> "none"
             [] pc \in {"root", "load"} -> "compiling"
             [] pc = "ready" -> "accepted"
             [] OTHER -> "rejected"

\* The outcome LinkTable sees, from what set_root_schema() is doing.
LEMMA OutcomeOf ==
  ASSUME IInv
  PROVE  /\ Busy => Outcome = "compiling"
         /\ ~Busy => Outcome # "compiling"
         /\ pc = "ready" => Outcome = "accepted"
         /\ pc \in {"thrown", "undefined"} => Outcome = "rejected"
  BY DEF Outcome, Busy

\* The compiler starts as the table does.
LEMMA LinksInitial == ASSUME Init PROVE Links!Init
<1>1. schemas = NoEntries /\ pc = "new" /\ Len(heap) = 0 /\ base = 0
  BY DEF Init
<1>2. References = {}
  BY <1>1 DEF References
<1> QED
  BY <1>1, <1>2 DEF Links!Init, NoEntries, Links!NoEntries

\* The references as LinkTable sees them.
LinkNames == [o \in References |-> heap[o].uri]
LinkTargets == [o \in References |-> heap[o].target]

\* What leaves the registry and the objects alone is a stutter, a beginning or an end.
LEMMA QuietRefines ==
  ASSUME IInv, IInv', LInv, Quiet PROVE [Links!Next]_(Links!vars)
<1>1. /\ References' = References /\ heap' = heap /\ schemas' = schemas
  BY QuietLinks DEF Quiet
<1>2. LinkNames' = LinkNames /\ LinkTargets' = LinkTargets
  BY <1>1 DEF LinkNames, LinkTargets
<1>3. CASE Outcome' = Outcome
  BY <1>1, <1>2, <1>3 DEF Links!vars, LinkNames, LinkTargets, Outcome
<1>4. CASE Busy /\ pc' \in {"thrown", "undefined"}
  <2>1. Outcome = "compiling" /\ Outcome' = "rejected"
    BY <1>4, OutcomeOf DEF Outcome
  <2>2. Links!Reject
    BY <1>1, <1>2, <2>1 DEF Links!Reject, LinkNames, LinkTargets, Outcome
  <2> QED BY <2>2 DEF Links!Next
<1>5. CASE Busy /\ pc' = "ready" /\ Complete
  <2>1. Outcome = "compiling" /\ Outcome' = "accepted"
    BY <1>5, OutcomeOf DEF Outcome
  <2>2. \A r \in DOMAIN LinkTargets : LinkTargets[r] # 0
    <3> SUFFICES ASSUME NEW r \in References PROVE heap[r].target # 0
      BY DEF LinkTargets
    <3>1. heap[r].uri \in DOMAIN schemas /\ heap[r].target = schemas[heap[r].uri]
      BY <1>5 DEF Complete, LInv, RefsFollowRegistry
    <3>2. schemas[heap[r].uri] \in (base + 1)..Len(heap)
      BY <3>1 DEF IInv, Typed, Entries, IsTable
    <3> QED BY <3>1, <3>2, Basics
  <2>3. Links!Accept
    BY <1>1, <1>2, <2>1, <2>2 DEF Links!Accept, LinkNames, LinkTargets, Outcome
  <2> QED BY <2>3 DEF Links!Next
<1>6. CASE Busy /\ pc' = "load"
  <2>1. Outcome' = Outcome
    BY <1>6 DEF Outcome, Busy
  <2> QED BY <1>3, <2>1
<1>7. CASE pc' = pc
  <2>1. Outcome' = Outcome
    BY <1>7 DEF Outcome
  <2> QED BY <1>3, <2>1
<1> QED
  BY <1>4, <1>5, <1>6, <1>7 DEF Quiet

\* A new object that is no awaited reference is a stutter.
LEMMA MakesRefines ==
  ASSUME IInv, LInv, NEW o, Makes(o) PROVE UNCHANGED Links!vars
<1>1. References' = References /\ schemas' = schemas /\ pc' = pc
      /\ \A r \in References : heap'[r] = heap[r]
  BY MakesLinks DEF Makes
<1>2. LinkNames' = LinkNames /\ LinkTargets' = LinkTargets /\ Outcome' = Outcome
  BY <1>1 DEF LinkNames, LinkTargets, Outcome
<1> QED
  BY <1>1, <1>2 DEF Links!vars, LinkNames, LinkTargets, Outcome

\* get_or_create_ref() refers.
LEMMA CreateReferenceRefines ==
  ASSUME IInv, LInv, CreateReference PROVE Links!Next
<1> DEFINE o == NewObject("ref", Target, 0, {})
<1>1. /\ References' = References \cup {New} /\ New \notin References
      /\ heap'[New] = o /\ \A r \in References : heap'[r] = heap[r]
  BY CreateReferenceLinks
<1>2. /\ Target \notin DOMAIN schemas /\ schemas' = schemas /\ pc' = pc /\ Busy
  BY CreateReferenceSteps
<1>3. o.uri = Target /\ o.target = 0
  BY DEF NewObject
<1> HIDE DEF o
<1>4. LinkNames' = Put(LinkNames, New, Target) /\ LinkTargets' = Put(LinkTargets, New, 0)
  BY <1>1, <1>3 DEF LinkNames, LinkTargets, Put
<1>5. Outcome = "compiling" /\ Outcome' = Outcome /\ New \in DOMAIN LinkNames'
      /\ LinkNames'[New] = Target /\ New \notin DOMAIN LinkNames
  <2>1. Outcome = "compiling" /\ Outcome' = Outcome
    BY <1>2, OutcomeOf DEF Outcome
  <2>2. New \in DOMAIN LinkNames' /\ LinkNames'[New] = Target
    BY <1>1, <1>3 DEF LinkNames
  <2>3. New \notin DOMAIN LinkNames
    BY <1>1 DEF LinkNames
  <2> QED BY <2>1, <2>2, <2>3
<1>6. \E r \in DOMAIN LinkNames' :
        /\ Outcome = "compiling" /\ LinkNames'[r] \notin DOMAIN schemas
        /\ r \notin DOMAIN LinkNames
        /\ LinkNames' = Put(LinkNames, r, LinkNames'[r]) /\ LinkTargets' = Put(LinkTargets, r, 0)
        /\ UNCHANGED <<schemas, Outcome>>
  BY <1>2, <1>4, <1>5
<1>7. \E r \in DOMAIN LinkNames' : Links!Refer(r, LinkNames'[r])
  BY <1>6 DEF Links!Refer, Links!Put, Put, LinkNames, LinkTargets, Outcome
<1> QED
  BY <1>7 DEF Links!Next, LinkNames

\* root_schema::insert() binds.
LEMMA InsertSchemaRefines ==
  ASSUME IInv, LInv, InsertSchema PROVE Links!Next
<1> DEFINE uri == Head(Top.uris)
           s == Top.obj
<1>1. /\ uri \notin DOMAIN schemas /\ s # 0
      /\ s \in (base + 1)..Len(heap) /\ base \in Nat /\ Len(heap) \in Nat
      /\ schemas' = Put(schemas, uri, s) /\ pc' = pc /\ Busy
      /\ \A i \in 1..Len(heap) :
           IF uri \in DOMAIN unresolved /\ i = unresolved[uri]
           THEN /\ heap'[i].target = s /\ heap'[i].kind = heap[i].kind
                /\ heap'[i].uri = heap[i].uri /\ heap'[i].owns = heap[i].owns
           ELSE heap'[i] = heap[i]
  BY InsertSchemaSteps
<1>2. References' = References
  BY InsertSchemaLinks
<1> HIDE DEF uri, s
<1>3. ASSUME NEW r \in References
      PROVE  /\ heap'[r].uri = heap[r].uri
             /\ heap'[r].target = IF heap[r].uri = uri THEN s ELSE heap[r].target
  <2>1. r \in 1..Len(heap)
    BY <1>1 DEF References
  <2>2. heap[r].uri = uri <=> (uri \in DOMAIN unresolved /\ r = unresolved[uri])
    <3>1. ASSUME heap[r].uri = uri PROVE uri \in DOMAIN unresolved /\ r = unresolved[uri]
      BY <1>1, <3>1 DEF LInv, RefsFollowRegistry
    <3>2. ASSUME uri \in DOMAIN unresolved, r = unresolved[uri] PROVE heap[r].uri = uri
      BY <3>2 DEF LInv, Awaited
    <3> QED BY <3>1, <3>2
  <2> QED BY <1>1, <2>1, <2>2
<1>4. LinkNames' = LinkNames
  BY <1>2, <1>3 DEF LinkNames
<1>5. LinkTargets' = [r \in DOMAIN LinkTargets |->
                        IF LinkNames[r] = uri THEN s ELSE LinkTargets[r]]
  BY <1>2, <1>3 DEF LinkTargets, LinkNames
<1>6. Outcome = "compiling" /\ Outcome' = Outcome
  BY <1>1, OutcomeOf DEF Outcome
<1>7. uri \in DOMAIN schemas' /\ schemas'[uri] = s
  BY <1>1 DEF Put
<1>8. \E u \in DOMAIN schemas' :
        /\ Outcome = "compiling" /\ u \notin DOMAIN schemas /\ schemas'[u] # 0
        /\ schemas' = Put(schemas, u, schemas'[u])
        /\ LinkTargets' = [r \in DOMAIN LinkTargets |->
                             IF LinkNames[r] = u THEN schemas'[u] ELSE LinkTargets[r]]
        /\ UNCHANGED <<LinkNames, Outcome>>
  BY <1>1, <1>4, <1>5, <1>6, <1>7
<1>9. \E u \in DOMAIN schemas' : Links!Bind(u, schemas'[u])
  BY <1>8 DEF Links!Bind, Links!Put, Put, LinkNames, LinkTargets, Outcome
<1> QED
  BY <1>9 DEF Links!Next

\* set_root_schema() begins.
LEMMA SetRootSchemaRefines ==
  ASSUME IInv, IInv', LInv, NEW c \in Corpus, SetRootSchema(c) PROVE Links!Next
<1>1. References' = {} /\ schemas' = NoEntries /\ ~Busy /\ pc' = "root"
  BY SetRootSchemaLinks
<1>2. LinkNames' = NoEntries /\ LinkTargets' = NoEntries
  BY <1>1 DEF LinkNames, LinkTargets, NoEntries
<1>3. Outcome # "compiling" /\ Outcome' = "compiling"
  BY <1>1, OutcomeOf DEF Outcome
<1>4. Links!Begin
  BY <1>1, <1>2, <1>3 DEF Links!Begin, Links!NoEntries, NoEntries, LinkNames, LinkTargets, Outcome
<1> QED
  BY <1>4 DEF Links!Next

\* The compiler keeps the promise of LinkTable: the step of every action is a step
\* of the table or leaves it as it is, for all documents and all loaders.
THEOREM PromiseKept == Spec => KeepsLinks
<1>1. Init => Links!Init
  BY LinksInitial
<1>2. IInv /\ LInv /\ [Next]_vars => [Links!Next]_(Links!vars)
  <2> SUFFICES ASSUME IInv, LInv, [Next]_vars PROVE [Links!Next]_(Links!vars)
    OBVIOUS
  <2>1. IInv'
    BY NextTyped
  <2>2. CASE Quiet
    BY <2>1, <2>2, QuietRefines
  <2>3. ASSUME NEW o, Makes(o) PROVE [Links!Next]_(Links!vars)
    BY <2>3, MakesRefines
  <2>4. CASE CreateReference
    BY <2>4, CreateReferenceRefines
  <2>5. CASE InsertSchema
    BY <2>5, InsertSchemaRefines
  <2>6. ASSUME NEW c \in Corpus, SetRootSchema(c) PROVE [Links!Next]_(Links!vars)
    BY <2>1, <2>6, SetRootSchemaRefines
  <2> QED BY <2>2, <2>3, <2>4, <2>5, <2>6, StepKinds DEF LInv
<1> QED
  BY <1>1, <1>2, AlwaysRight, PTL DEF Spec, KeepsLinks, Links!Spec
-----------------------------------------------------------------------------
(***************************************************************************)
(* Lifetimes.  References hold their targets by weak pointers; only the    *)
(* registry, the root and the owners of an object keep it.                 *)
(***************************************************************************)

\* A reference made for a default value owns the reference it stands for.
OverridesOwn ==
  \A o \in 1..Len(heap) :
    heap[o].kind = "ref" /\ heap[o].owns # {} => heap[o].target \in heap[o].owns

\* Success is not reported while a reference waits.
NoneAwaited == pc = "ready" => DOMAIN unresolved = {}

FInv == OverridesOwn /\ NoneAwaited
-----------------------------------------------------------------------------
(***************************************************************************)
(* What is alive.                                                          *)
(***************************************************************************)

\* f lists what can be reached in so many steps, up to m.
IsChain(f, m) == f = [n \in 0..m |-> IF n = 0 THEN Roots ELSE WithOwned(f[n - 1])]

\* There is such a list, of every length.
LEMMA ChainExists == \A m \in Nat : \E f : IsChain(f, m)
<1> DEFINE T == {m \in Nat : ~ \E f : IsChain(f, m)}
<1> SUFFICES ASSUME T # {} PROVE FALSE
  OBVIOUS
<1>1. PICK m \in T : \A n \in T : m <= n
  BY Least
<1>2. CASE m = 0
  <2> DEFINE f == [n \in 0..0 |-> Roots]
  <2>1. f = [n \in 0..0 |-> IF n = 0 THEN Roots ELSE WithOwned(f[n - 1])]
    OBVIOUS
  <2>2. IsChain(f, 0)
    BY <2>1 DEF IsChain
  <2> HIDE DEF f
  <2> QED BY <1>1, <1>2, <2>2
<1>3. CASE m # 0
  <2>1. m \in Nat /\ m - 1 \in Nat /\ m - 1 \notin T
    BY <1>1, <1>3
  <2>2. PICK f : IsChain(f, m - 1)
    BY <2>1
  <2> DEFINE g == [n \in 0..m |-> IF n = m THEN WithOwned(f[m - 1]) ELSE f[n]]
  <2>3. \A n \in 0..(m - 1) : f[n] = IF n = 0 THEN Roots ELSE WithOwned(f[n - 1])
    BY <2>2 DEF IsChain
  <2>4. ASSUME NEW n \in 0..m PROVE g[n] = IF n = 0 THEN Roots ELSE WithOwned(g[n - 1])
    <3>1. CASE n = m
      <4>1. g[n - 1] = f[m - 1] /\ g[n] = WithOwned(f[m - 1])
        BY <1>3, <2>1, <3>1
      <4> QED BY <1>3, <3>1, <4>1
    <3>2. CASE n # m
      <4>1. n \in 0..(m - 1) /\ g[n] = f[n] /\ (n # 0 => g[n - 1] = f[n - 1])
        BY <2>1, <3>2
      <4> QED BY <2>3, <4>1
    <3> QED BY <3>1, <3>2
  <2>5. g = [n \in 0..m |-> g[n]]
    OBVIOUS
  <2> HIDE DEF g
  <2>6. IsChain(g, m)
    BY <2>4, <2>5 DEF IsChain
  <2> QED BY <1>1, <2>6
<1> QED
  BY <1>2, <1>3

\* What is reached in the next step.
LEMMA ReachedStep ==
  ASSUME Len(heap) \in Nat
  PROVE  /\ Reached[0] = Roots
         /\ \A n \in 1..Len(heap) : Reached[n] = WithOwned(Reached[n - 1])
<1>1. \E f : IsChain(f, Len(heap))
  BY ChainExists
<1>2. IsChain(Reached, Len(heap))
  BY <1>1 DEF IsChain, Reached
<1>3. \A n \in 0..Len(heap) : Reached[n] = IF n = 0 THEN Roots ELSE WithOwned(Reached[n - 1])
  <2> HIDE DEF Reached
  <2> QED BY <1>2 DEF IsChain
<1> QED
  BY <1>3

\* An object found in a step, and not before, was made the earlier the later it
\* is found.
Descends(m) ==
  /\ Roots \subseteq Reached[m] /\ Reached[m] \subseteq 1..Len(heap)
  /\ m # 0 => \A o \in Reached[m] : o \in Reached[m - 1] \/ o <= Len(heap) - m

\* Each step goes down to earlier objects.
LEMMA StepsDescend ==
  ASSUME IInv, OwnershipAcyclic PROVE \A m \in 0..Len(heap) : Descends(m)
<1>1. Len(heap) \in Nat /\ Roots \subseteq 1..Len(heap)
  BY Basics DEF Roots, IInv, Typed, Entries, IsTable
<1>2. \A o \in 1..Len(heap) : \A k \in heap[o].owns : k \in 1..Len(heap) /\ k < o
  <2>1. \A o \in 1..Len(heap) : heap[o] \in Object
    BY <1>1 DEF IInv, Typed
  <2>2. \A h \in Object : h.owns \subseteq Nat
    BY DEF Object
  <2>3. \A o \in 1..Len(heap) : heap[o].owns \subseteq Nat
    BY <2>1, <2>2
  <2> QED BY <1>1, <2>3 DEF OwnershipAcyclic
<1> DEFINE T == {m \in Nat : m <= Len(heap) /\ ~Descends(m)}
<1> SUFFICES ASSUME T # {} PROVE FALSE
  BY <1>1
<1>3. PICK m \in T : \A n \in T : m <= n
  BY Least
<1>4. CASE m = 0
  BY <1>1, <1>3, <1>4, ReachedStep DEF Descends
<1>5. CASE m # 0
  <2>1. /\ m \in 1..Len(heap) /\ m - 1 \in Nat /\ Reached[m] = WithOwned(Reached[m - 1])
        /\ Descends(m - 1)
    BY <1>1, <1>3, <1>5, ReachedStep
  <2>2. Roots \subseteq Reached[m] /\ Reached[m] \subseteq 1..Len(heap)
    BY <1>2, <2>1 DEF Descends, WithOwned
  <2>3. ASSUME NEW o \in Reached[m], o \notin Reached[m - 1] PROVE o <= Len(heap) - m
    <3>1. PICK q \in Reached[m - 1] : o \in heap[q].owns
      BY <2>1, <2>3 DEF WithOwned
    <3>2. q \in 1..Len(heap) /\ o \in 1..Len(heap) /\ o < q
      BY <1>2, <2>1, <3>1 DEF Descends
    <3>3. CASE m = 1
      BY <1>1, <3>2, <3>3
    <3>4. CASE m # 1
      <4>1. m - 1 \in 1..Len(heap) /\ Reached[m - 1] = WithOwned(Reached[(m - 1) - 1])
        BY <1>1, <2>1, <3>4, ReachedStep
      <4>2. q \notin Reached[(m - 1) - 1]
        BY <2>3, <3>1, <4>1 DEF WithOwned
      <4>3. q <= Len(heap) - (m - 1)
        BY <2>1, <3>1, <4>1, <4>2 DEF Descends
      <4> QED BY <1>1, <2>1, <3>2, <4>3
    <3> QED BY <3>3, <3>4
  <2>4. Descends(m)
    BY <2>2, <2>3 DEF Descends
  <2> QED BY <1>3, <2>4
<1> QED
  BY <1>4, <1>5

\* What a living object owns is alive; so is what the registry holds.
LEMMA AliveClosed ==
  ASSUME IInv, OwnershipAcyclic
  PROVE  Roots \subseteq Alive /\ \A o \in Alive : heap[o].owns \subseteq Alive
<1>1. Len(heap) \in Nat
  BY Basics
<1>2. Descends(Len(heap))
  BY <1>1, StepsDescend
<1>3. ASSUME NEW o \in Reached[Len(heap)] PROVE heap[o].owns \subseteq Reached[Len(heap)]
  <2>1. o \in 1..Len(heap)
    BY <1>2 DEF Descends
  <2>2. o \in Reached[Len(heap) - 1] /\ Len(heap) \in 1..Len(heap)
    BY <1>1, <1>2, <2>1 DEF Descends
  <2>3. Reached[Len(heap)] = WithOwned(Reached[Len(heap) - 1])
    BY <1>1, <2>2, ReachedStep
  <2> QED BY <2>2, <2>3 DEF WithOwned
<1> QED
  BY <1>2, <1>3 DEF Alive, Descends
-----------------------------------------------------------------------------
(***************************************************************************)
(* The invariant.                                                          *)
(***************************************************************************)

\* Only what makes or changes an object, or ends a call, could break it.
LEMMA FInvStep == ASSUME IInv, LInv, FInv, [Next]_vars PROVE FInv'
<1>1. OwnershipAcyclic
  BY DEF LInv
<1>2. CASE Quiet
  BY <1>2 DEF Quiet, FInv, OverridesOwn, NoneAwaited, Complete, Busy
<1>3. ASSUME NEW o, Makes(o) PROVE FInv'
  <2>1. /\ o \in Object /\ Alloc(o) /\ UNCHANGED <<unresolved, pc>>
        /\ o.kind = "ref" => o.target \in o.owns
    BY <1>3 DEF Makes
  <2>2. /\ Len(heap') = Len(heap) + 1 /\ Len(heap) \in Nat /\ heap'[Len(heap) + 1] = o
        /\ \A i \in 1..Len(heap) : heap'[i] = heap[i]
    BY <2>1, HeapGrows DEF New
  <2> QED BY <2>1, <2>2 DEF FInv, OverridesOwn, NoneAwaited
<1>4. CASE CreateReference
  <2> DEFINE o == NewObject("ref", Target, 0, {})
  <2>1. o \in Object /\ Alloc(o) /\ pc' = pc /\ pc # "ready"
    BY <1>4, CreateReferenceSteps DEF Busy
  <2>2. o.owns = {}
    BY DEF NewObject
  <2> HIDE DEF o
  <2>3. /\ Len(heap') = Len(heap) + 1 /\ Len(heap) \in Nat /\ heap'[Len(heap) + 1] = o
        /\ \A i \in 1..Len(heap) : heap'[i] = heap[i]
    BY <2>1, HeapGrows DEF New
  <2> QED BY <2>1, <2>2, <2>3 DEF FInv, OverridesOwn, NoneAwaited
<1>5. CASE InsertSchema
  <2>1. PICK uri, s : uri = Head(Top.uris) /\ s = Top.obj
    OBVIOUS
  <2>2. /\ pc' = pc /\ pc # "ready" /\ Len(heap') = Len(heap)
        /\ \A i \in 1..Len(heap) :
             IF uri \in DOMAIN unresolved /\ i = unresolved[uri]
             THEN heap'[i].kind = heap[i].kind /\ heap'[i].owns = heap[i].owns
             ELSE heap'[i] = heap[i]
    BY <1>5, <2>1, InsertSchemaSteps DEF Busy
  <2>3. uri \in DOMAIN unresolved => heap[unresolved[uri]].owns = {}
    BY DEF LInv, Awaited
  <2>4. OverridesOwn'
    BY <2>2, <2>3 DEF FInv, OverridesOwn
  <2> QED BY <2>2, <2>4 DEF FInv, NoneAwaited
<1>6. ASSUME NEW c \in Corpus, SetRootSchema(c) PROVE FInv'
  BY <1>6 DEF SetRootSchema, FInv, OverridesOwn, NoneAwaited
<1> QED
  BY <1>1, <1>2, <1>3, <1>4, <1>5, <1>6, StepKinds

\* For all documents and all loaders: after success, a reference that is alive
\* and of this call points to an object that is alive.  Validation never reports
\* "unresolved or freed" for it: overridden or not, whoever met the target first.
THEOREM NeverFreed == Spec => []NoFreedTarget
<1>1. Init => FInv
  BY DEF Init, FInv, OverridesOwn, NoneAwaited
<1>2. IInv /\ LInv /\ FInv /\ [Next]_vars => FInv'
  BY FInvStep
<1>3. IInv /\ LInv /\ FInv => NoFreedTarget
  <2> SUFFICES ASSUME IInv, LInv, FInv, pc = "ready", NEW o \in Alive, o \in (base + 1)..Len(heap),
                      heap[o].kind = "ref"
               PROVE  heap[o].target \in Alive
    BY DEF NoFreedTarget
  <2>1. Roots \subseteq Alive /\ heap[o].owns \subseteq Alive
    BY AliveClosed DEF LInv
  <2>2. CASE heap[o].owns # {}
    <3>1. o \in 1..Len(heap)
      BY Basics
    <3> QED BY <2>1, <2>2, <3>1 DEF FInv, OverridesOwn
  <2>3. CASE heap[o].owns = {}
    <3>1. o \in References
      BY <2>3 DEF References
    <3>2. heap[o].uri \in DOMAIN schemas /\ heap[o].target = schemas[heap[o].uri]
      BY <3>1 DEF FInv, NoneAwaited, LInv, RefsFollowRegistry
    <3> QED BY <2>1, <3>2 DEF Roots
  <2> QED BY <2>2, <2>3
<1> QED
  BY <1>1, <1>2, <1>3, AlwaysRight, PTL DEF Spec

-----------------------------------------------------------------------------
(***************************************************************************)
(* The loader is asked for each document at most once.  Whether a location *)
(* is loaded is read off its schemas; a file of which no schema gets       *)
(* registered would be requested for ever.  The outermost call of make()   *)
(* is what registers one: its first URI is that of the document.           *)
(***************************************************************************)

Bottom == stack[1]

\* The location is that of a URI the outermost call has still to register.
Owed(l) == stack # <<>> /\ \E j \in 1..Len(Bottom.uris) : Bottom.uris[j].loc = l

\* A document once asked for has a schema, or is about to get one.
Requested == \A i \in 1..Len(loads) : Loaded(loads[i]) \/ Owed(loads[i])

\* While members are filed under a URI, it is registered.
Filed == stack # <<>> /\ Bottom.step = "filing" => Loaded(Head(Bottom.uris).loc)

OInv == LoadedOnce /\ (Busy => Requested) /\ Filed
-----------------------------------------------------------------------------
(***************************************************************************)
(* The outermost call.                                                     *)
(***************************************************************************)

\* The frame g has what f owed, and files only where f did.
Keeps(f, g) ==
  /\ \A j \in 1..Len(f.uris) : \E k \in 1..Len(g.uris) : g.uris[k].loc = f.uris[j].loc
  /\ g.step = "filing" => f.step = "filing" /\ g.uris = f.uris

\* The step leaves alone what is loaded and owed.
Stays ==
  /\ stack # <<>> /\ stack' # <<>> /\ Keeps(Bottom, Bottom')
  /\ UNCHANGED <<schemas, loads, pc>>

\* What is owed or loaded stays so.
LEMMA StaysRight == ASSUME OInv, Stays PROVE OInv'
<1>1. \A l : Loaded(l)' <=> Loaded(l)
  BY DEF Stays, Loaded
<1>2. \A l : Owed(l) => Owed(l)'
  BY DEF Stays, Keeps, Owed, Bottom
<1>3. Busy' <=> Busy
  BY DEF Stays, Busy
<1>4. Requested => Requested'
  BY <1>1, <1>2 DEF Stays, Requested
<1>5. Filed'
  BY <1>1 DEF OInv, Filed, Stays, Keeps, Bottom
<1>6. LoadedOnce'
  BY DEF OInv, LoadedOnce, Stays
<1> QED
  BY <1>3, <1>4, <1>5, <1>6 DEF OInv

\* The running call is on the stack; insert_unknown_keyword() is called by another.
LEMMA Running1 ==
  ASSUME IInv, stack # <<>>
  PROVE  /\ Depth \in Nat \ {0} /\ stack \in Seq(Frame) /\ Top \in Frame
         /\ Top.uris \in Seq(Uri)
         /\ Top.step \in KeepSteps => Depth > 1
<1>1. StackOK(stack, Len(heap), base, doc, unknown)
  BY DEF IInv
<1>2. Depth \in Nat \ {0} /\ stack \in Seq(Frame) /\ Top \in Frame
  BY <1>1, TopFits DEF StackOK, Depth, Top
<1>3. stack[1].step \notin KeepSteps
  BY <1>1 DEF StackOK
<1>4. Top.uris \in Seq(Uri)
  BY <1>2 DEF Frame
<1>5. Top.step \in KeepSteps => Depth > 1
  <2>1. Depth = 1 => Top = stack[1]
    BY DEF Top
  <2> QED BY <1>2, <1>3, <2>1
<1> QED
  BY <1>2, <1>4, <1>5

\* The running call goes on as f; the outermost one is that, or the same as before.
LEMMA ContinueKeeps ==
  ASSUME IInv, stack # <<>>, NEW f, Depth = 1 => Keeps(Top, f), UNCHANGED <<schemas, loads, pc>>,
         Continue(f)
  PROVE  Stays
<1>1. Depth \in Nat \ {0} /\ stack \in Seq(Frame)
  BY Running1
<1>2. stack' = [stack EXCEPT ![Depth] = f] /\ Len(stack) = Depth
  BY DEF Continue, Depth
<1>3. stack' # <<>> /\ stack'[1] = IF Depth = 1 THEN f ELSE stack[1]
  BY <1>1, <1>2
<1>4. Keeps(stack[1], stack'[1])
  <2>1. CASE Depth = 1
    BY <1>3, <2>1 DEF Top
  <2>2. CASE Depth # 1
    BY <1>3, <2>2 DEF Keeps
  <2> QED BY <2>1, <2>2
<1> QED
  BY <1>3, <1>4 DEF Stays, Bottom

\* The same when it calls another.
LEMMA CallKeeps ==
  ASSUME IInv, stack # <<>>, NEW f, NEW g, Depth = 1 => Keeps(Top, f), Call(f, g),
         UNCHANGED <<schemas, loads, pc>>
  PROVE  Stays
<1>1. Depth \in Nat \ {0} /\ stack \in Seq(Frame)
  BY Running1
<1> DEFINE s == [stack EXCEPT ![Depth] = f]
<1>2. stack' = Append(s, g) /\ Len(s) = Depth /\ s \in Seq(Frame \cup {f})
      /\ s[1] = IF Depth = 1 THEN f ELSE stack[1]
  BY <1>1 DEF Call, Depth
<1> HIDE DEF s
<1>3. stack' # <<>> /\ stack'[1] = s[1]
  <2> DEFINE S == Frame \cup {f, g}
  <2>1. s \in Seq(S) /\ g \in S
    BY <1>2
  <2> HIDE DEF S
  <2> QED BY <1>1, <1>2, <2>1
<1>4. Keeps(stack[1], stack'[1])
  <2>1. CASE Depth = 1
    BY <1>2, <1>3, <2>1 DEF Top
  <2>2. CASE Depth # 1
    BY <1>2, <1>3, <2>2 DEF Keeps
  <2> QED BY <2>1, <2>2
<1> QED
  BY <1>3, <1>4 DEF Stays, Bottom

\* The same when it changes a document: calls may lose their places, not their URIs.
LEMMA FreedKeeps ==
  ASSUME IInv, stack # <<>>, NEW f, NEW src, NEW gone, Depth = 1 => Keeps(Top, f),
         UNCHANGED <<schemas, loads, pc>>,
         stack' = [Freed(stack, src, gone) EXCEPT ![Depth] = f]
  PROVE  Stays
<1>1. Depth \in Nat \ {0} /\ stack \in Seq(Frame) /\ Len(stack) = Depth /\ DOMAIN stack = 1..Depth
  BY Running1 DEF Depth
<1> DEFINE s == Freed(stack, src, gone)
<1>2. DOMAIN s = 1..Depth /\ s[1].uris = stack[1].uris /\ s[1].step = stack[1].step
  <2>1. stack[1] \in Frame
    BY <1>1
  <2> QED BY <1>1, <2>1 DEF Freed, Frame
<1> HIDE DEF s
<1>3. stack' = [s EXCEPT ![Depth] = f]
  BY DEF s
<1>4. stack' # <<>>
  BY <1>1, <1>2, <1>3
<1>5. Keeps(stack[1], stack'[1])
  <2>1. CASE Depth = 1
    BY <1>1, <1>2, <1>3, <2>1 DEF Top
  <2>2. CASE Depth # 1
    BY <1>1, <1>2, <1>3, <2>2 DEF Keeps
  <2> QED BY <2>1, <2>2
<1> QED
  BY <1>4, <1>5 DEF Stays, Bottom
-----------------------------------------------------------------------------
(***************************************************************************)
(* The steps of make() and insert_unknown_keyword().                       *)
(***************************************************************************)

\* A frame with the same URIs owes the same.
LEMMA SameUris ==
  ASSUME NEW f, f.uris = Top.uris, f.step # "filing" \/ Top.step = "filing"
  PROVE  Keeps(Top, f)
  BY DEF Keeps

\* A $id adds a URI, and drops none but its own double.
LEMMA IdentifiedKeeps ==
  ASSUME NEW uris \in Seq(Uri), NEW id \in Reference \cup {NoRef}, NoPlain(uris),
         id # NoRef => uris # <<>>, NEW j \in 1..Len(uris)
  PROVE  \E k \in 1..Len(Identified(uris, id)) : Identified(uris, id)[k].loc = uris[j].loc
<1>1. CASE id = NoRef
  BY <1>1 DEF Identified
<1>2. CASE id # NoRef
  <2> DEFINE uri == Derive(Last(uris), id)  w == Without(uris, uri)
  <2>1. uri \in Uri /\ w \in Seq(Uri) /\ Identified(uris, id) = Append(w, uri)
    BY <1>2, DeriveType, WithoutType DEF Last, Identified
  <2>2. uris[j] = uri \/ \E k \in 1..Len(w) : w[k] = uris[j]
    <3>1. CASE ~ \E i \in 1..Len(uris) : uris[i] = uri
      BY <3>1 DEF Without
    <3>2. CASE \E i \in 1..Len(uris) : uris[i] = uri
      <4>1. PICK i \in 1..Len(uris) : i = CHOOSE n \in 1..Len(uris) : uris[n] = uri
        BY <3>2
      <4>2. uris[i] = uri
        BY <3>2, <4>1
      <4> HIDE DEF uri
      <4>3. Without(uris, uri) = SubSeq(uris, 1, i - 1) \o SubSeq(uris, i + 1, Len(uris))
        BY <3>2, <4>1 DEF Without, RemoveAt
      <4> DEFINE l == SubSeq(uris, 1, i - 1)  r == SubSeq(uris, i + 1, Len(uris))
      <4>4. /\ l \in Seq(Uri) /\ r \in Seq(Uri) /\ Len(l) = i - 1 /\ Len(r) = Len(uris) - i
            /\ \A n \in 1..(i - 1) : l[n] = uris[n]
            /\ \A n \in 1..(Len(uris) - i) : r[n] = uris[i + n]
        OBVIOUS
      <4> HIDE DEF l, r
      <4>5. Len(l \o r) = Len(uris) - 1
            /\ (\A n \in 1..Len(l) : (l \o r)[n] = l[n])
            /\ (\A n \in 1..Len(r) : (l \o r)[Len(l) + n] = r[n])
        <5>1. /\ Len(l) + Len(r) = Len(uris) - 1 /\ Len(l \o r) = Len(l) + Len(r)
              /\ (\A n \in 1..Len(l) : (l \o r)[n] = l[n])
              /\ (\A n \in 1..Len(r) : (l \o r)[Len(l) + n] = r[n])
          <6>1. l \in Seq(Uri) /\ r \in Seq(Uri)
            BY <4>4
          <6>2. Len(l) + Len(r) = Len(uris) - 1
            BY <4>4
          <6> QED BY <6>1, <6>2, ConcatIndices
        <5> QED BY <5>1
      <4>6. CASE j < i
        <5>1. j \in 1..Len(l) /\ l[j] = uris[j] /\ j \in 1..Len(l \o r)
          BY <4>4, <4>5, <4>6
        <5> QED BY <4>3, <4>5, <5>1 DEF l, r
      <4>7. CASE j = i
        BY <4>2, <4>7
      <4>8. CASE j > i
        <5>1. j - i \in 1..Len(r) /\ r[j - i] = uris[j] /\ Len(l) + (j - i) = j - 1
              /\ j - 1 \in 1..Len(l \o r)
          BY <4>4, <4>5, <4>8
        <5> QED BY <4>3, <4>5, <5>1 DEF l, r
      <4> QED BY <4>6, <4>7, <4>8
    <3> QED BY <3>1, <3>2
  <2> HIDE DEF uri, w
  <2>3. /\ Len(Append(w, uri)) = Len(w) + 1 /\ Append(w, uri)[Len(w) + 1] = uri
        /\ \A k \in 1..Len(w) : Append(w, uri)[k] = w[k]
    BY <2>1
  <2>4. CASE uris[j] = uri
    BY <2>1, <2>3, <2>4
  <2>5. CASE \E k \in 1..Len(w) : w[k] = uris[j]
    BY <2>1, <2>3, <2>5
  <2> QED BY <2>2, <2>4, <2>5
<1> QED
  BY <1>1, <1>2

\* make() processes $id.
LEMMA EnterObjectStays == ASSUME IInv, EnterObject PROVE Stays
<1> DEFINE v == Value(Top.src)
           f == [Top EXCEPT !.step = "definitions", !.uris = Identified(Top.uris, v.id),
                            !.todo = Definitions(Top.src),
                            !.was = [node |-> v, keys |-> KeysOf(Top.src)]]
           gone == {Append(Top.src.ptr, "$id")}
<1>1. /\ stack # <<>> /\ Top.src.in # "freed" /\ Top.step = "enter"
      /\ v.id # NoRef => Top.uris # <<>>
      /\ stack' = [Freed(stack, Top.src, gone) EXCEPT ![Depth] = f]
      /\ UNCHANGED <<schemas, loads, pc>>
  BY DEF EnterObject, Running, Rewrite, rest
<1>2. Top \in Frame /\ Top.uris \in Seq(Uri) /\ NoPlain(Top.uris) /\ v \in Node
  BY <1>1, ReadsNode DEF Fits, Frame
<1>3. v.id \in Reference \cup {NoRef}
  BY <1>2 DEF Node
<1>4. f.step = "definitions" /\ f.uris = Identified(Top.uris, v.id)
  BY <1>2 DEF Frame
<1> HIDE DEF v, f, gone
<1>5. Keeps(Top, f)
  BY <1>1, <1>2, <1>3, <1>4, IdentifiedKeeps DEF Keeps
<1> QED
  BY <1>1, <1>5, FreedKeeps

\* The steps of make() between its first and its last loop.
LEMMA MakingStays ==
  ASSUME IInv,
         \/ EnterBoolean \/ OpenKeyword \/ CompileSlot \/ CloseKeyword \/ StartType \/ FinishType
         \/ ReuseReference \/ CreateReference \/ Override \/ FileKeyword \/ OpenMembers
  PROVE  Stays
<1>1. stack # <<>> /\ UNCHANGED <<schemas, loads, pc>>
  BY DEF EnterBoolean, OpenKeyword, CompileSlot, CloseKeyword, StartType, FinishType, AtReference,
     ReuseReference, CreateReference, Override, FileKeyword, OpenMembers, Running, registry, rest
<1>2. Top \in Frame /\ Depth \in Nat \ {0} /\ (Top.step \in KeepSteps => Depth > 1)
  BY <1>1, Running1
<1>3. CASE EnterBoolean
  <2> DEFINE f == [Top EXCEPT !.step = "register", !.obj = New,
                              !.was = [node |-> Value(Top.src), keys |-> {}]]
  <2>1. Continue(f)
    BY <1>3 DEF EnterBoolean
  <2>2. f.uris = Top.uris /\ f.step # "filing"
    BY <1>2 DEF Frame
  <2> QED BY <1>1, <2>1, <2>2, SameUris, ContinueKeeps
<1>4. CASE OpenKeyword
  <2>1. PICK n \in 1..Len(Top.todo) :
          Continue([Top EXCEPT !.kw = Top.todo[n], !.slots = Slots(Top.src, Top.todo[n]),
                               !.todo = SubSeq(@, n + 1, Len(@))])
    BY <1>4 DEF OpenKeyword
  <2> DEFINE f == [Top EXCEPT !.kw = Top.todo[n], !.slots = Slots(Top.src, Top.todo[n]),
                              !.todo = SubSeq(@, n + 1, Len(@))]
  <2>2. f.uris = Top.uris /\ f.step = Top.step
    BY <1>2 DEF Frame
  <2> QED BY <1>1, <2>1, <2>2, SameUris, ContinueKeeps
<1>5. CASE CompileSlot
  <2>1. PICK s \in OpenSlots :
          Call([Top EXCEPT !.slots = @ \ {s}, !.held = s.at],
               MakeFrame(Child(Top.src, s.at), Top.uris, s.keys))
    BY <1>5 DEF CompileSlot
  <2> DEFINE f == [Top EXCEPT !.slots = @ \ {s}, !.held = s.at]
             g == MakeFrame(Child(Top.src, s.at), Top.uris, s.keys)
  <2>2. f.uris = Top.uris /\ f.step = Top.step
    BY <1>2 DEF Frame
  <2> HIDE DEF g
  <2>3. Call(f, g)
    BY <2>1 DEF g
  <2> HIDE DEF f
  <2> QED BY <1>1, <2>2, <2>3, SameUris, CallKeeps
<1>6. CASE CloseKeyword
  <2> DEFINE f == [Top EXCEPT !.kw = NoKey, !.slots = {}]
             gone == {Append(Top.src.ptr, k) : k \in Understood(Top.src, Top.kw)}
  <2>1. stack' = [Freed(stack, Top.src, gone) EXCEPT ![Depth] = f]
    BY <1>6 DEF CloseKeyword, Rewrite
  <2>2. f.uris = Top.uris /\ f.step = Top.step
    BY <1>2 DEF Frame
  <2> HIDE DEF f, gone
  <2> QED BY <1>1, <2>1, <2>2, SameUris, FreedKeeps
<1>7. CASE StartType
  <2> DEFINE f == [Top EXCEPT !.step = "branches", !.todo = Branches(Value(Top.src).types)]
  <2>1. Continue(f)
    BY <1>7 DEF StartType
  <2>2. f.uris = Top.uris /\ f.step # "filing"
    BY <1>2 DEF Frame
  <2> QED BY <1>1, <2>1, <2>2, SameUris, ContinueKeeps
<1>8. CASE FinishType
  <2> DEFINE f == [Top EXCEPT !.step = "register", !.obj = New]
  <2>1. stack' = [Freed(stack, Top.src, {}) EXCEPT ![Depth] = f]
    BY <1>8 DEF FinishType, Rewrite
  <2>2. f.uris = Top.uris /\ f.step # "filing"
    BY <1>2 DEF Frame
  <2> HIDE DEF f
  <2> QED BY <1>1, <2>1, <2>2, SameUris, FreedKeeps
<1>9. CASE ReuseReference
  <2> DEFINE o == IF Target \in DOMAIN schemas THEN schemas[Target] ELSE unresolved[Target]
             f == [Referring EXCEPT !.held = <<>>, !.obj = o]
  <2>1. Continue(f)
    BY <1>9 DEF ReuseReference
  <2>2. f.uris = Top.uris /\ f.step # "filing"
    BY <1>2 DEF Frame, Referring
  <2> QED BY <1>1, <2>1, <2>2, SameUris, ContinueKeeps
<1>10. CASE CreateReference
  <2> DEFINE f == [Referring EXCEPT !.held = <<>>, !.obj = New]
             g == MakeFrame([in |-> "store", loc |-> Target.loc, ptr |-> Target.ptr],
                            <<Target>>, <<>>)
  <2>1. Call(Referring, g) \/ Continue(f)
    BY <1>10 DEF CreateReference
  <2>2. f.uris = Top.uris /\ f.step # "filing"
    BY <1>2 DEF Frame, Referring
  <2>3. Referring.uris = Top.uris /\ Referring.step # "filing"
    BY <1>2 DEF Frame, Referring
  <2> HIDE DEF f, g
  <2> QED BY <1>1, <2>1, <2>2, <2>3, SameUris, ContinueKeeps, CallKeeps
<1>11. CASE Override
  <2> DEFINE done == [Top EXCEPT !.step = "register"]
             f == [done EXCEPT !.obj = IF Value(Top.src).default THEN New ELSE @]
             gone == {Append(Top.src.ptr, "$ref")}
  <2>1. stack' = [Freed(stack, Top.src, gone) EXCEPT ![Depth] = f]
    BY <1>11 DEF Override, Rewrite
  <2>2. f.uris = Top.uris /\ f.step # "filing"
    BY <1>2 DEF Frame
  <2> HIDE DEF f, gone
  <2> QED BY <1>1, <2>1, <2>2, SameUris, FreedKeeps
<1>12. CASE FileKeyword
  <2>1. PICK k \in OpenKeys :
          Call([Top EXCEPT !.keys = @ \ {k}, !.held = <<k>>],
               KeepFrame(Child(Top.src, <<k>>), Head(Top.uris), k))
    BY <1>12 DEF FileKeyword
  <2> DEFINE f == [Top EXCEPT !.keys = @ \ {k}, !.held = <<k>>]
             g == KeepFrame(Child(Top.src, <<k>>), Head(Top.uris), k)
  <2>2. f.uris = Top.uris /\ f.step = Top.step
    BY <1>2 DEF Frame
  <2> HIDE DEF g
  <2>3. Call(f, g)
    BY <2>1 DEF g
  <2> HIDE DEF f
  <2> QED BY <1>1, <2>2, <2>3, SameUris, CallKeeps
<1>13. CASE OpenMembers
  <2> DEFINE f == [Top EXCEPT !.step = "members", !.keys = KeysOf(Top.src)]
  <2>1. Continue(f)
    BY <1>13 DEF OpenMembers
  <2>2. f.uris = Top.uris /\ f.step # "filing"
    BY <1>2 DEF Frame
  <2> QED BY <1>1, <2>1, <2>2, SameUris, ContinueKeeps
<1> QED
  BY <1>3, <1>4, <1>5, <1>6, <1>7, <1>8, <1>9, <1>10, <1>11, <1>12, <1>13

\* The steps of insert_unknown_keyword(), which is never the outermost call.
LEMMA KeepingStays == ASSUME IInv, CompileKeyword \/ StoreKeyword PROVE Stays
<1>1. stack # <<>> /\ Top.step = "keep" /\ UNCHANGED <<schemas, loads, pc>>
  BY DEF CompileKeyword, StoreKeyword, Running, rest
<1>2. Depth # 1
  BY <1>1, Running1 DEF KeepSteps
<1>3. CASE CompileKeyword
  <2>1. Call(Kept, MakeFrame(Top.src, <<KeywordUri>>, <<>>))
    BY <1>3 DEF CompileKeyword
  <2> QED BY <1>1, <1>2, <2>1, CallKeeps
<1>4. CASE StoreKeyword
  <2> DEFINE below == {Append(StorePointer, k) : k \in Token}
             store == [in |-> "store", loc |-> Owner.loc, ptr |-> <<>>]
  <2>1. stack' = Freed([stack EXCEPT ![Depth] = Kept], store, below)
    BY <1>4 DEF StoreKeyword
  <2> HIDE DEF below, store
  <2>2. Depth \in Nat \ {0} /\ stack \in Seq(Frame) /\ DOMAIN stack = 1..Depth
    BY <1>1, Running1 DEF Depth
  <2> DEFINE s == [stack EXCEPT ![Depth] = Kept]
  <2>3. DOMAIN s = 1..Depth /\ s[1] = stack[1] /\ stack[1] \in Frame
    BY <1>2, <2>2
  <2> HIDE DEF s
  <2>4. stack' = Freed(s, store, below)
    BY <2>1 DEF s
  <2>5. stack' # <<>> /\ stack'[1].uris = stack[1].uris /\ stack'[1].step = stack[1].step
    <3> DEFINE freed(i) == [s[i] EXCEPT !.src.in = "freed"]
    <3>1. DOMAIN stack' = DOMAIN s /\ \A i \in DOMAIN s : stack'[i] = s[i] \/ stack'[i] = freed(i)
      BY <2>4 DEF Freed
    <3>2. 1 \in DOMAIN s
      BY <2>2, <2>3
    <3>3. freed(1).uris = s[1].uris /\ freed(1).step = s[1].step
      BY <2>3 DEF Frame
    <3> HIDE DEF freed
    <3>4. stack' # <<>>
      BY <3>1, <3>2
    <3> QED BY <2>3, <3>1, <3>2, <3>3, <3>4
  <2>6. Keeps(stack[1], stack'[1])
    BY <2>5 DEF Keeps
  <2> QED BY <1>1, <2>5, <2>6 DEF Stays, Bottom
<1> QED
  BY <1>3, <1>4

\* A call returns to another one.
LEMMA ReturnStays == ASSUME IInv, ReturnToCaller PROVE Stays
<1>1. /\ stack # <<>> /\ Depth > 1 /\ UNCHANGED <<schemas, loads, pc>>
      /\ stack' = [Front(stack) EXCEPT ![Depth - 1] = Received(@, Top.obj)]
  BY DEF ReturnToCaller, Returning, Running, registry, rest
<1>2. Depth \in Nat \ {0} /\ stack \in Seq(Frame) /\ Len(stack) = Depth
  BY <1>1, Running1 DEF Depth
<1> DEFINE s == Front(stack)
<1>3. s \in Seq(Frame) /\ Len(s) = Depth - 1 /\ DOMAIN s = 1..(Depth - 1) /\ s[1] = stack[1]
  BY <1>1, <1>2 DEF Front
<1> HIDE DEF s
<1>4. stack' = [s EXCEPT ![Depth - 1] = Received(s[Depth - 1], Top.obj)]
  BY <1>1, <1>3 DEF s
<1>5. 1 \in DOMAIN stack' /\ (stack'[1] = s[1] \/ stack'[1] = Received(s[1], Top.obj))
  BY <1>1, <1>2, <1>3, <1>4
<1>6. stack' # <<>> /\ stack'[1].uris = stack[1].uris /\ stack'[1].step = stack[1].step
  <2>1. s[1] \in Frame
    BY <1>1, <1>2, <1>3
  <2>2. stack' # <<>>
    BY <1>5
  <2> QED BY <1>3, <1>5, <2>1, <2>2, ZenonT(30) DEF Received, Frame
<1>7. Keeps(stack[1], stack'[1])
  BY <1>6 DEF Keeps
<1> QED
  BY <1>1, <1>6, <1>7 DEF Stays, Bottom

\* A URI is registered, in the outermost call or within it.
LEMMA InsertRight == ASSUME IInv, OInv, InsertSchema PROVE OInv'
<1> DEFINE f == [Top EXCEPT !.step = "filing", !.keys = KeysOf(Top.src)]
           uri == Head(Top.uris)
<1>1. /\ stack # <<>> /\ Top.uris # <<>> /\ Continue(f)
      /\ schemas' = Put(schemas, uri, Top.obj) /\ UNCHANGED <<loads, pc>>
  BY DEF InsertSchema, Inserting, Bind, Running
<1>2. /\ Depth \in Nat \ {0} /\ stack \in Seq(Frame) /\ Top \in Frame
  BY <1>1, Running1
<1>3. f.uris = Top.uris
  BY <1>2 DEF Frame
<1> HIDE DEF f
<1>4. PICK m : m = uri.loc
  OBVIOUS
<1>5. Loaded(m)' /\ \A l : Loaded(l) => Loaded(l)'
  <2>1. DOMAIN schemas' = DOMAIN schemas \cup {uri}
    BY <1>1 DEF Put
  <2> HIDE DEF uri
  <2> QED BY <1>4, <2>1 DEF Loaded
<1>6. stack' # <<>> /\ stack'[1] = IF Depth = 1 THEN f ELSE stack[1]
  BY <1>1, <1>2 DEF Continue, Depth
<1>7. stack'[1].uris = stack[1].uris
  BY <1>3, <1>6 DEF Top
<1>8. \A l : Owed(l)' <=> Owed(l)
  BY <1>1, <1>6, <1>7 DEF Owed, Bottom
<1>9. Filed'
  <2>1. CASE Depth = 1
    <3>1. Head(Bottom'.uris).loc = m
      BY <1>4, <1>7, <2>1 DEF Bottom, Top
    <3> QED BY <1>5, <3>1 DEF Filed, Loaded
  <2>2. CASE Depth # 1
    BY <1>1, <1>5, <1>6, <2>2 DEF OInv, Filed, Bottom
  <2> QED BY <2>1, <2>2
<1>10. LoadedOnce' /\ (Busy' => Busy)
  BY <1>1 DEF OInv, LoadedOnce, Busy
<1>11. Requested => Requested'
  BY <1>1, <1>5, <1>8 DEF Requested
<1> QED
  BY <1>9, <1>10, <1>11 DEF OInv

\* The URI the outermost call is done with is registered.
LEMMA FinishRight == ASSUME IInv, OInv, FinishUri PROVE OInv'
<1> DEFINE f == [Top EXCEPT !.step = "register", !.uris = Tail(@)]
<1>1. /\ stack # <<>> /\ Top.src.in # "freed" /\ Top.step = "filing" /\ Continue(f)
      /\ UNCHANGED <<schemas, loads, pc>>
  BY DEF FinishUri, Running, registry, rest
<1>2. /\ Depth \in Nat \ {0} /\ stack \in Seq(Frame) /\ Top \in Frame /\ Top.uris \in Seq(Uri)
      /\ Top.uris # <<>>
  BY <1>1, Running1, ReadsNode DEF Fits
<1>3. f.uris = Tail(Top.uris) /\ f.step = "register"
  BY <1>2 DEF Frame
<1> HIDE DEF f
<1>4. CASE Depth # 1
  BY <1>1, <1>4, ContinueKeeps, StaysRight
<1>5. CASE Depth = 1
  <2>1. stack' # <<>> /\ stack'[1] = f /\ stack[1] = Top
    BY <1>1, <1>2, <1>5 DEF Continue, Depth, Top
  <2>2. Loaded(Head(Top.uris).loc) /\ \A l : Loaded(l)' <=> Loaded(l)
    BY <1>1, <2>1 DEF OInv, Filed, Bottom, Loaded
  <2>3. ASSUME NEW l, Owed(l) PROVE Loaded(l)' \/ Owed(l)'
    <3>1. PICK j \in 1..Len(Top.uris) : Top.uris[j].loc = l
      BY <2>1, <2>3 DEF Owed, Bottom
    <3>2. CASE j = 1
      BY <1>2, <2>2, <3>1, <3>2
    <3>3. CASE j # 1
      <4>1. j - 1 \in 1..Len(Tail(Top.uris)) /\ Tail(Top.uris)[j - 1] = Top.uris[j]
        BY <1>2, <3>3
      <4>2. j - 1 \in 1..Len(f.uris) /\ f.uris[j - 1].loc = l
        BY <1>3, <3>1, <4>1
      <4> QED BY <2>1, <4>2 DEF Owed, Bottom
    <3> QED BY <3>2, <3>3
  <2>4. Filed'
    BY <1>3, <2>1 DEF Filed, Bottom
  <2>5. LoadedOnce' /\ (Busy' => Busy)
    BY <1>1 DEF OInv, LoadedOnce, Busy
  <2>6. Requested => Requested'
    BY <1>1, <2>2, <2>3 DEF Requested
  <2> QED BY <2>4, <2>5, <2>6 DEF OInv
<1> QED
  BY <1>4, <1>5

\* The outermost call has registered its URIs when it returns.
LEMMA ReturnRight == ASSUME IInv, OInv, ReturnRoot \/ ReturnLoaded PROVE OInv'
<1>1. /\ stack # <<>> /\ Depth = 1 /\ (Top.uris = <<>> \/ Top.step = "members")
      /\ stack' = <<>> /\ UNCHANGED <<schemas, loads>> /\ pc \in {"root", "load"}
  BY DEF ReturnRoot, ReturnLoaded, Returning, Running, registry, rest
<1>2. Top.uris = <<>> /\ stack[1] = Top
  BY <1>1, Running1 DEF KeepSteps, Top
<1>3. \A l : ~Owed(l)
  BY <1>2 DEF Owed, Bottom
<1>4. Requested /\ \A l : Loaded(l)' <=> Loaded(l)
  BY <1>1 DEF OInv, Busy, Loaded
<1> QED
  BY <1>1, <1>3, <1>4 DEF OInv, LoadedOnce, Requested, Filed
-----------------------------------------------------------------------------
(***************************************************************************)
(* The steps of set_root_schema().                                         *)
(***************************************************************************)

\* An exception ends the call.
LEMMA RaiseRight == ASSUME OInv, stack' = <<>>, loads' = loads, ~Busy' PROVE OInv'
  BY DEF OInv, LoadedOnce, Filed

\* make() starts with the URI of the document.
LEMMA CompileOwes ==
  ASSUME NEW l \in Location, NEW c, Compile(l, c)
  PROVE  Owed(l)' /\ stack' # <<>> /\ Bottom'.step = "enter"
<1> DEFINE u == FileUri(l)
           src == [in |-> "doc", loc |-> l, ptr |-> <<>>]
           f == MakeFrame(src, <<u>>, <<>>)
<1>1. stack' = <<f>>
  BY DEF Compile
<1>2. u \in Uri /\ u.name = NoName /\ u.loc = l
  BY FileUriType DEF FileUri
<1>3. Unnamed(<<u>>) = <<u>>
  BY <1>2 DEF Unnamed
<1>4. Extend(u, <<>>).loc = l
  BY <1>2 DEF Extend, Uri
<1> HIDE DEF u, src
<1>5. f.uris = [i \in 1..1 |-> Extend(<<u>>[i], <<>>)] /\ f.step = "enter"
  BY <1>3 DEF MakeFrame, NewFrame
<1> HIDE DEF f
<1>6. Len(f.uris) = 1 /\ f.uris[1].loc = l
  BY <1>4, <1>5
<1>7. stack' # <<>> /\ stack'[1] = f
  BY <1>1
<1>8. 1 \in 1..Len(stack'[1].uris) /\ stack'[1].uris[1].loc = l
  BY <1>6, <1>7
<1> QED
  BY <1>5, <1>7, <1>8 DEF Owed, Bottom

\* A location without a schema was not asked for yet.
LEMMA NewLoad ==
  ASSUME IInv, OInv, NEW l \in Location, NextLocation(l), ~Loaded(l), loads' = Append(loads, l)
  PROVE  LoadedOnce' /\ \A i \in 1..Len(loads) : Loaded(loads[i])
<1>1. stack = <<>> /\ pc = "load" /\ loads \in Seq(Location)
  BY DEF NextLocation, Loading, IInv, Typed
<1>2. \A i \in 1..Len(loads) : Loaded(loads[i])
  BY <1>1 DEF OInv, Busy, Requested, Owed
<1>3. Len(loads') = Len(loads) + 1 /\ loads'[Len(loads) + 1] = l
      /\ \A i \in 1..Len(loads) : loads'[i] = loads[i]
  BY <1>1
<1>4. \A i \in 1..Len(loads) : loads[i] # l
  BY <1>2
<1>5. ASSUME NEW i \in 1..Len(loads'), NEW j \in 1..Len(loads'), loads'[i] = loads'[j]
      PROVE  i = j
  <2>1. \A k \in 1..Len(loads') : k \in 1..Len(loads) \/ k = Len(loads) + 1
    BY <1>1, <1>3
  <2> QED BY <1>3, <1>4, <1>5, <2>1 DEF OInv, LoadedOnce
<1> QED
  BY <1>2, <1>5 DEF LoadedOnce

\* The loading loop.
LEMMA LoadRight == ASSUME IInv, OInv, LoadStep PROVE OInv'
<1>1. ASSUME NEW l \in Location, SkipFile(l) PROVE OInv'
  BY <1>1 DEF SkipFile, OInv, LoadedOnce, Busy, Requested, Filed, Owed, Bottom, Loaded, registry
<1>2. ASSUME NEW l \in Location, LoadFile(l) PROVE OInv'
  <2>1. /\ NextLocation(l) /\ ~Loaded(l) /\ loads' = Append(loads, l) /\ Compile(l, corpus)
        /\ schemas' = schemas /\ loads \in Seq(Location)
    BY <1>2 DEF LoadFile, registry, IInv, Typed
  <2>2. LoadedOnce' /\ \A i \in 1..Len(loads) : Loaded(loads[i])
    BY <2>1, NewLoad
  <2>3. Owed(l)' /\ Filed'
    BY <2>1, CompileOwes DEF Filed
  <2>4. Requested'
    <3> SUFFICES ASSUME NEW i \in 1..Len(loads') PROVE (Loaded(loads[i]) \/ Owed(loads[i]))'
      BY DEF Requested
    <3>1. loads'[i] = l \/ (i \in 1..Len(loads) /\ loads'[i] = loads[i])
      BY <2>1
    <3>2. CASE loads'[i] = l
      BY <2>3, <3>2 DEF Owed
    <3>3. CASE i \in 1..Len(loads) /\ loads'[i] = loads[i]
      BY <2>1, <2>2, <3>3 DEF Loaded
    <3> QED BY <3>1, <3>2, <3>3
  <2> QED BY <2>2, <2>3, <2>4 DEF OInv
<1>3. ASSUME NEW l \in Location, LoadFails(l) PROVE OInv'
  <2>1. /\ NextLocation(l) /\ ~Loaded(l) /\ stack' = <<>> /\ pc' = "thrown"
        /\ loads' = loads \/ loads' = Append(loads, l)
    BY <1>3 DEF LoadFails, Raise
  <2>2. LoadedOnce'
    BY <2>1, NewLoad DEF OInv, LoadedOnce
  <2> QED BY <2>1, <2>2 DEF OInv, Busy, Filed
<1>4. CASE NextRound
  BY <1>4 DEF NextRound, OInv, LoadedOnce, Busy, Requested, Filed, Owed, Bottom, Loaded, registry
<1>5. CASE Finish
  <2>1. stack' = <<>> /\ loads' = loads /\ pc' \in {"ready", "thrown"}
    BY <1>5 DEF Finish, Loading
  <2> QED BY <2>1, RaiseRight DEF Busy
<1> QED
  BY <1>1, <1>2, <1>3, <1>4, <1>5 DEF LoadStep

\* A new call has asked for nothing.
LEMMA SetRootRight == ASSUME NEW c \in Corpus, SetRootSchema(c) PROVE OInv'
<1>1. loads' = <<>> /\ Compile(RootLocation, c)
  BY DEF SetRootSchema
<1>2. stack' # <<>> /\ Bottom'.step = "enter"
  BY <1>1, CompileOwes, LocationAssumption
<1> QED
  BY <1>1, <1>2 DEF OInv, LoadedOnce, Requested, Filed

\* Each step keeps the invariant.
LEMMA LoadsStep == ASSUME IInv, OInv, [Next]_vars PROVE OInv'
<1>1. CASE \/ EnterBoolean \/ OpenKeyword \/ CompileSlot \/ CloseKeyword \/ StartType \/ FinishType
           \/ ReuseReference \/ CreateReference \/ Override \/ FileKeyword \/ OpenMembers
  BY <1>1, MakingStays, StaysRight
<1>2. CASE EnterObject \/ CompileKeyword \/ StoreKeyword \/ ReturnToCaller
  BY <1>2, EnterObjectStays, KeepingStays, ReturnStays, StaysRight
<1>3. CASE EnterRejected \/ InsertTwice \/ StoreFails \/ Undefined
  <2>1. stack' = <<>> /\ loads' = loads /\ pc' \in {"thrown", "undefined"}
    BY <1>3 DEF EnterRejected, InsertTwice, StoreFails, Undefined, Raise
  <2> QED BY <2>1, RaiseRight DEF Busy
<1>4. CASE InsertSchema \/ FinishUri \/ ReturnRoot \/ ReturnLoaded
  BY <1>4, InsertRight, FinishRight, ReturnRight
<1>5. CASE LoadStep \/ \E c \in Corpus : SetRootSchema(c)
  BY <1>5, LoadRight, SetRootRight
<1>6. CASE UNCHANGED vars
  BY <1>6 DEF vars, OInv, LoadedOnce, Busy, Requested, Filed, Owed, Bottom, Loaded
<1> QED
  BY <1>1, <1>2, <1>3, <1>4, <1>5, <1>6 DEF Next, Compute, Making, Stop

\* For all documents, references and loaders: no location is requested twice in a
\* call, since make() registers a document under its own location before the
\* loading loop looks at locations again, whatever $id it has.
THEOREM RequestedOnce == Spec => []LoadedOnce
<1>1. Init => OInv
  BY DEF Init, OInv, LoadedOnce, Requested, Filed
<1>2. IInv /\ OInv /\ [Next]_vars => OInv'
  BY LoadsStep
<1>3. OInv => LoadedOnce
  BY DEF OInv
<1> QED
  BY <1>1, <1>2, <1>3, AlwaysRight, PTL DEF Spec
=============================================================================
