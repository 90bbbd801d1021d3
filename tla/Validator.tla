------------------------------ MODULE Validator ------------------------------
(***************************************************************************)
(* The validation of an instance by a graph of schema objects: the         *)
(* validate() functions of json-validator.cpp, and the caller who applies  *)
(* the patch of default values they return and validates again.            *)
(*                                                                         *)
(* The recursion is a stack of frames, one per running validate() of an    *)
(* object that calls others.  What a call still has to do is its agenda, a *)
(* sequence of tasks: report errors, add a default value, call a schema.   *)
(* The agenda is known when the call starts, since neither the instance    *)
(* nor the graph change; what depends on an inner call (a condition, a     *)
(* combination, "contains") is decided when that call returns.             *)
(*                                                                         *)
(* All calls share one patch.  Each error goes to the handler the call was *)
(* given: the one of the user, or the one the nearest caller made to learn *)
(* whether an inner schema fails.                                          *)
(***************************************************************************)
EXTENDS JsonTree, Integers

CONSTANTS
  Token,       \* property names and array indices
  Rank,        \* the order of tokens in a std::map, and of indices
  Text,        \* the texts of strings
  Length,      \* Length[x]: the code points in x
  MaxInteger,  \* the largest signed integer
  NoLimit,     \* a keyword that is absent
  Corpus       \* validators, and the instances given to them

(***************************************************************************)
(* JSON values are documents (JsonTree) of these nodes.  Numbers are       *)
(* counted in halves: the odd ones are those that no integer type can      *)
(* hold.  Unsigned integers are those the parser cannot take as signed.    *)
(***************************************************************************)
Node ==
  {n \in [type : {"null", "object", "array", "string", "boolean", "binary",
                  "integer", "unsigned", "float"},
          text : Text, number : Int] :
     n.type \in {"integer", "unsigned"} => n.number % 2 = 0}

\* A value: finitely many nodes, each but the first in an object or an array.
IsDocument(t) ==
  /\ t \in [DOMAIN t -> Node] /\ DOMAIN t \subseteq Seq(Token)
  /\ IsFiniteSet(DOMAIN t) /\ <<>> \in DOMAIN t
  /\ \A p \in DOMAIN t :
       p # <<>> => Front(p) \in DOMAIN t /\ t[Front(p)].type \in {"object", "array"}

\* One operation of the patch: json_patch only ever gets "add".
Operation(op) == IsDocument(op.value) /\ op.path \in Seq(Token)

(***************************************************************************)
(* A validator: the schema objects by number, 0 being the null pointer,    *)
(* the entries of files_, and whether root_ is set.  The objects a         *)
(* type_schema is made of are the fields of one record.                    *)
(***************************************************************************)
HasLimits(s) ==
  /\ {s.maxProperties, s.minProperties, s.maxItems, s.minItems, s.maxLength, s.minLength}
       \subseteq Nat \cup {NoLimit}
  /\ {s.maximum, s.exclusiveMaximum, s.minimum, s.exclusiveMinimum, s.multipleOf}
       \subseteq Node \cup {NoLimit}
  /\ s.accepts \in BOOLEAN /\ s.uniqueItems \in BOOLEAN

IsSchema(s, G) ==
  /\ HasLimits(s)
  /\ s.kind \in {"type", "boolean", "ref"} /\ IsDocument(s.default)
  /\ {s.target, s.if, s.then, s.else, s.additionalProperties, s.propertyNames,
      s.items, s.additionalItems, s.contains} \subseteq G \cup {0}
  /\ s.logic \in Seq([role : {"not", "allOf", "anyOf", "oneOf"}, subs : Seq(G)])
  /\ \A k \in DOMAIN s.logic : s.logic[k].role = "not" => Len(s.logic[k].subs) = 1
  /\ DOMAIN s.properties \in SUBSET Token /\ IsFiniteSet(DOMAIN s.properties)
  /\ \A k \in DOMAIN s.properties : s.properties[k] \in G
  /\ s.patternProperties \in Seq([keys : SUBSET Token, schema : G])
  /\ DOMAIN s.dependencies \in SUBSET Token /\ IsFiniteSet(DOMAIN s.dependencies)
  /\ \A k \in DOMAIN s.dependencies :
       s.dependencies[k] \in [required : Seq(Token), schema : G \cup {0}]
  /\ s.required \in Seq(Token) /\ s.tuple \in Seq(G)

ASSUME CorpusAssumption ==
  /\ MaxInteger \in Nat /\ MaxInteger % 2 = 0
  /\ Rank \in [Token -> Nat] /\ \A s, t \in Token : Rank[s] = Rank[t] => s = t
  /\ Token \subseteq Text /\ Length \in [Text -> Nat]
  /\ \A c \in Corpus :
       /\ c.rooted \in BOOLEAN /\ c.handlers \subseteq BOOLEAN
       /\ \A u \in DOMAIN c.entries : c.entries[u] \in DOMAIN c.graph
       /\ IsFiniteSet(DOMAIN c.graph) /\ 0 \notin DOMAIN c.graph
       /\ \A i \in DOMAIN c.graph : IsSchema(c.graph[i], DOMAIN c.graph)
       /\ \A t \in c.instances : IsDocument(t)

VARIABLES
  validator, \* the validator, with the instances it may be given
  throwing,  \* the user's handler throws at the first error
  instance,  \* the caller's document
  stack,     \* the validate() calls that run
  patch,     \* the operations of the patch
  errors,    \* the paths of the errors the user's handler was told
  pc         \* what the caller is doing

inputs == <<validator, throwing, instance>>
vars == <<validator, throwing, instance, stack, patch, errors, pc>>

graph == validator.graph
-----------------------------------------------------------------------------
(***************************************************************************)
(* JSON values.                                                            *)
(***************************************************************************)
Kind(t) == t[<<>>].type
IsNull(t) == Kind(t) = "null"
At(t, k) == Subtree(t, <<k>>)
\* The order of a std::map, or of an array: the i-th member comes after i - 1.
Sorted(S) ==
  [i \in 1..Cardinality(S) |->
     CHOOSE k \in S : Cardinality({j \in S : Rank[j] < Rank[k]}) = i - 1]
Keys(t) == Sorted(Members(t, <<>>))
Size(t) == Cardinality(Members(t, <<>>))
TextValue(x) == [p \in {<<>>} |-> [type |-> "string", text |-> x, number |-> 0]]

\* operator== of nlohmann::json compares numbers of different types by value.
Numeric == {"integer", "unsigned", "float"}
Same(s, t) ==
  /\ DOMAIN s = DOMAIN t
  /\ \A p \in DOMAIN s :
       /\ s[p].text = t[p].text /\ s[p].number = t[p].number
       /\ s[p].type = t[p].type \/ {s[p].type, t[p].type} \subseteq Numeric

\* What get<T>() makes of a number: integers drop the fraction, and a value that
\* is too large for them wraps around.
Converted(T, n) ==
  CASE T = "number" -> n.number
    [] T = "integer" /\ n.type = "float" ->
         IF n.number >= 0 THEN n.number - (n.number % 2) ELSE n.number + (n.number % 2)
    [] OTHER -> IF n.number > MaxInteger THEN n.number - 2 * (MaxInteger + 2) ELSE n.number

\* json::patch(): an "add" needs an object to add to, or an array and an index.
Appliable(t, op) ==
  op.path # <<>> => Front(op.path) \in DOMAIN t /\ t[Front(op.path)].type = "object"
\* The document after each of the operations.
States(t, ops) ==
  LET doc[n \in 0..Len(ops)] ==
        IF n = 0 THEN t ELSE Graft(doc[n - 1], ops[n].path, ops[n].value)
  IN doc
Patched(t, ops) == States(t, ops)[Len(ops)]
AllAppliable(t, ops) == \A i \in DOMAIN ops : Appliable(States(t, ops)[i - 1], ops[i])
-----------------------------------------------------------------------------
(***************************************************************************)
(* Tasks.  A call names the role of the object that is called: a schema,   *)
(* one of the validators a type_schema is made of, or the root.            *)
(***************************************************************************)
Errors(paths) == [do |-> "errors", paths |-> paths]
Reject(fails, ptr) == IF fails THEN <<Errors(<<ptr>>)>> ELSE <<>>
Add(path, value) == [do |-> "add", path |-> path, value |-> value]
Call(via, role, subs, ptr, inst) ==
  [do |-> "call", via |-> via, role |-> role, subs |-> subs, ptr |-> ptr, inst |-> inst]
Plain(i, ptr, inst) == Call("plain", "schema", <<i>>, ptr, inst)
IfPresent(i, via, ptr, inst) == IF i = 0 THEN <<>> ELSE <<Call(via, "schema", <<i>>, ptr, inst)>>
Missing(keys, ptr, inst) ==
  FlattenSeq([i \in DOMAIN keys |-> Reject(keys[i] \notin Members(inst, <<>>), ptr)])

(***************************************************************************)
(* default_value(): a reference without one asks its target.               *)
(***************************************************************************)
Defaulting(i) ==
  LET follow[n \in 0..Cardinality(DOMAIN graph)] ==
        IF n = 0 THEN i
        ELSE LET s == graph[follow[n - 1]]
             IN IF s.kind = "ref" /\ IsNull(s.default) /\ s.target # 0
                THEN s.target ELSE follow[n - 1]
  IN graph[follow[Cardinality(DOMAIN graph)]]

DefaultTask(i, ptr, k) ==
  LET s == Defaulting(i)
  IN IF ~IsNull(s.default) THEN <<Add(Append(ptr, k), s.default)>>
     ELSE Reject(s.kind = "ref", ptr)

(***************************************************************************)
(* class object                                                            *)
(***************************************************************************)
Matching(s, k) ==
  (IF k \in DOMAIN s.properties THEN <<s.properties[k]>> ELSE <<>>)
  \o FlattenSeq([i \in DOMAIN s.patternProperties |->
       IF k \in s.patternProperties[i].keys THEN <<s.patternProperties[i].schema>> ELSE <<>>])

PropertyTasks(s, ptr, inst, k) ==
  LET m == Matching(s, k)
  IN IfPresent(s.propertyNames, "plain", ptr, TextValue(k))
     \o [i \in DOMAIN m |-> Plain(m[i], Append(ptr, k), At(inst, k))]
     \o (IF m = <<>> THEN IfPresent(s.additionalProperties, "property", Append(ptr, k), At(inst, k))
         ELSE <<>>)

\* Mutant: the defaults of all properties.
DefaultTasksOfAll(s, ptr, inst) ==
  LET all == Sorted(DOMAIN s.properties)
  IN FlattenSeq([i \in DOMAIN all |-> DefaultTask(s.properties[all[i]], ptr, all[i])])

\* "Reverse search": the defaults of the properties that are not there.
DefaultTasks(s, ptr, inst) ==
  LET absent == Sorted(DOMAIN s.properties \ Members(inst, <<>>))
  IN FlattenSeq([i \in DOMAIN absent |-> DefaultTask(s.properties[absent[i]], ptr, absent[i])])

\* A dependency gets the path of the property, and the object.
DependencyTasks(s, ptr, inst) ==
  LET on == Sorted(DOMAIN s.dependencies \cap Members(inst, <<>>))
      tasks(k) ==
        LET d == s.dependencies[k]
        IN Missing(d.required, Append(ptr, k), inst)
           \o IfPresent(d.schema, "plain", Append(ptr, k), inst)
  IN FlattenSeq([i \in DOMAIN on |-> tasks(on[i])])

ObjectTasks(s, ptr, inst) ==
  Reject(s.maxProperties # NoLimit /\ Size(inst) > s.maxProperties, ptr)
  \o Reject(s.minProperties # NoLimit /\ Size(inst) < s.minProperties, ptr)
  \o Missing(s.required, ptr, inst)
  \o FlattenSeq([i \in DOMAIN Keys(inst) |-> PropertyTasks(s, ptr, inst, Keys(inst)[i])])
  \o DefaultTasks(s, ptr, inst)
  \o DependencyTasks(s, ptr, inst)

(***************************************************************************)
(* class array.  The elements of a tuple all get the path of the first.    *)
(***************************************************************************)
\* Mutant: the index is not incremented for "items" either.
ItemTasksAtFirst(s, ptr, inst) ==
  LET keys == Keys(inst)
  IN IF s.items = 0 THEN <<>>
     ELSE [i \in DOMAIN keys |-> Plain(s.items, Append(ptr, keys[1]), At(inst, keys[i]))]

\* Mutant: elements behind the tuple are validated though no schema is there for them.
Anyway(s, i) == TRUE

\* The elements behind the tuple are validated if there is a schema for them.
HasSchema(s, i) == s.items # 0 \/ s.additionalItems # 0 \/ i <= Len(s.tuple)

ItemTasks(s, ptr, inst) ==
  LET keys == Keys(inst)
      item(i) ==
        CASE s.items # 0 -> Plain(s.items, Append(ptr, keys[i]), At(inst, keys[i]))
          [] s.items = 0 /\ i <= Len(s.tuple) ->
               Plain(s.tuple[i], Append(ptr, keys[1]), At(inst, keys[i]))
          [] OTHER -> Plain(s.additionalItems, Append(ptr, keys[1]), At(inst, keys[i]))
  IN [i \in {j \in DOMAIN keys : HasSchema(s, j)} |-> item(i)]

\* "contains" stops at the first element that fits.
ContainsTasks(s, ptr, inst) ==
  IF s.contains = 0 THEN <<>>
  ELSE [i \in DOMAIN Keys(inst) |->
          Call("contains", "schema", <<s.contains>>, ptr, At(inst, Keys(inst)[i]))]
       \o Reject(TRUE, ptr)

Duplicates(inst, ptr) ==
  LET keys == Keys(inst)
      again(i) == \E j \in DOMAIN keys : i < j /\ Same(At(inst, keys[i]), At(inst, keys[j]))
  IN FlattenSeq([i \in DOMAIN keys |-> Reject(again(i), ptr)])

ArrayTasks(s, ptr, inst) ==
  Reject(s.maxItems # NoLimit /\ Size(inst) > s.maxItems, ptr)
  \o Reject(s.minItems # NoLimit /\ Size(inst) < s.minItems, ptr)
  \o (IF s.uniqueItems THEN Duplicates(inst, ptr) ELSE <<>>)
  \o ItemTasks(s, ptr, inst)
  \o ContainsTasks(s, ptr, inst)

(***************************************************************************)
(* class string, class numeric.  Binary data has no length: get() throws.  *)
(***************************************************************************)
StringTasks(s, ptr, inst) ==
  LET x == inst[<<>>].text
  IN (IF Kind(inst) = "binary" /\ {s.minLength, s.maxLength} # {NoLimit}
      THEN <<[do |-> "raise"]>> ELSE <<>>)
     \o Reject(s.minLength # NoLimit /\ Length[x] < s.minLength, ptr)
     \o Reject(s.maxLength # NoLimit /\ Length[x] > s.maxLength, ptr)
     \o Reject(IF s.content # NoLimit THEN x \notin s.content ELSE Kind(inst) = "binary", ptr)
     \o Reject(Kind(inst) = "string" /\ s.pattern # NoLimit /\ x \notin s.pattern, ptr)
     \o Reject(Kind(inst) = "string" /\ s.format # NoLimit /\ x \notin s.format, ptr)

\* An exclusive bound is stored in the place of the other one.
Exceeds(s, T, x) ==
  IF s.exclusiveMaximum # NoLimit THEN x >= Converted(T, s.exclusiveMaximum)
  ELSE s.maximum # NoLimit /\ x > Converted(T, s.maximum)
Below(s, T, x) ==
  IF s.exclusiveMinimum # NoLimit THEN x <= Converted(T, s.exclusiveMinimum)
  ELSE s.minimum # NoLimit /\ x < Converted(T, s.minimum)
NotMultiple(s, x) == s.multipleOf # NoLimit /\ x # 0 /\ x % s.multipleOf.number # 0

NumericTasks(s, T, ptr, inst) ==
  LET x == Converted(T, inst[<<>>])
  IN Reject(NotMultiple(s, x) \/ Exceeds(s, T, x) \/ Below(s, T, x), ptr)

(***************************************************************************)
(* class type_schema: the validator for the type of the instance, then the *)
(* keywords that hold for all types.                                       *)
(***************************************************************************)
ForType(s, type) ==
  CASE type \in {"integer", "unsigned"} ->
         IF "integer" \in s.types THEN "integer"
         ELSE IF "number" \in s.types THEN "number" ELSE "none"
    [] type = "float" -> IF "number" \in s.types THEN "number" ELSE "none"
    [] type = "binary" -> IF "string" \in s.types THEN "string" ELSE "none"
    [] OTHER -> IF type \in s.types THEN type ELSE "none"

TypeTasks(s, i, ptr, inst) ==
  LET T == ForType(s, Kind(inst))
  IN CASE T \in {"object", "array"} -> <<Call("plain", T, <<i>>, ptr, inst)>>
       [] T = "string" -> StringTasks(s, ptr, inst)
       [] T \in {"integer", "number"} -> NumericTasks(s, T, ptr, inst)
       [] T \in {"null", "boolean"} -> <<>>
       [] T = "none" -> Reject(TRUE, ptr)

KeywordTasks(s, i, ptr, inst) ==
  TypeTasks(s, i, ptr, inst)
  \o Reject(s.enum # NoLimit /\ \A v \in s.enum : ~Same(v, inst), ptr)
  \o Reject(s.const # NoLimit /\ ~Same(s.const, inst), ptr)
  \o [k \in DOMAIN s.logic |-> Call("plain", s.logic[k].role, s.logic[k].subs, ptr, inst)]
  \o (IF s.then # 0 \/ s.else # 0 THEN IfPresent(s.if, "if", ptr, inst) ELSE <<>>)
  \o (IF ptr = <<>> /\ IsNull(inst) /\ ~IsNull(s.default) THEN <<Add(ptr, s.default)>> ELSE <<>>)

\* class boolean, class schema_ref.
BooleanTasks(s, ptr) == Reject(~s.accepts, ptr)
RefTasks(s, ptr, inst) ==
  IF s.target = 0 THEN Reject(TRUE, ptr) ELSE <<Plain(s.target, ptr, inst)>>

SchemaTasks(i, ptr, inst) ==
  LET s == graph[i]
  IN CASE s.kind = "boolean" -> BooleanTasks(s, ptr)
       [] s.kind = "ref" -> RefTasks(s, ptr, inst)
       [] s.kind = "type" -> KeywordTasks(s, i, ptr, inst)

\* The agenda of a call.
Agenda(role, subs, ptr, inst) ==
  CASE role = "schema" -> SchemaTasks(subs[1], ptr, inst)
    [] role = "object" -> ObjectTasks(graph[subs[1]], ptr, inst)
    [] role = "array" -> ArrayTasks(graph[subs[1]], ptr, inst)
    [] role = "not" -> <<Call("not", "schema", subs, ptr, inst)>>
    [] role \in {"allOf", "anyOf", "oneOf"} ->
         [i \in DOMAIN subs |-> Call("case", "schema", <<subs[i]>>, ptr, inst)]
         \o <<[do |-> "count"]>>
    [] role = "root" -> IF subs = <<>> THEN Reject(TRUE, ptr) ELSE <<Plain(subs[1], ptr, inst)>>
-----------------------------------------------------------------------------
(***************************************************************************)
(* Frames.  via says what the caller does with the outcome; unless it is   *)
(* "plain" the caller made a handler for this call, whose content is errs. *)
(* count and summary are the locals of a combination, mark is              *)
(* oldPatchSize.  was, the patch when the call started, is read by         *)
(* properties only.                                                        *)
(***************************************************************************)
Frame(t) ==
  [via |-> t.via, role |-> t.role, subs |-> t.subs, ptr |-> t.ptr, inst |-> t.inst,
   todo |-> Agenda(t.role, t.subs, t.ptr, t.inst),
   errs |-> <<>>, count |-> 0, summary |-> <<>>, mark |-> Len(patch), was |-> patch]

Top == Last(stack)
Task == Head(Top.todo)
Steps(do) == pc = "validating" /\ Top.todo # <<>> /\ Task.do = do
Proceed == [stack EXCEPT ![Len(stack)].todo = Tail(@)]

\* Mutant: errors skip the handlers in between.
OutermostHandler ==
  LET S == {i \in DOMAIN stack : stack[i].via # "plain"}
  IN IF S = {} THEN 0 ELSE CHOOSE i \in S : \A j \in S : i <= j

\* The handler the top frame was given: the one made for the call of frame
\* Handler, 0 for the user's.
Handler ==
  LET S == {i \in DOMAIN stack : stack[i].via # "plain"}
  IN IF S = {} THEN 0 ELSE CHOOSE i \in S : \A j \in S : j <= i

\* logical_combination_error_handler keeps all errors, first_error_handler one.
Keep(f, paths) ==
  IF f.via = "case" THEN f.errs \o paths
  ELSE IF f.errs = <<>> THEN <<Head(paths)>> ELSE f.errs

\* What the top frame reports: an error of its own, or at the end of a
\* combination in which no case holds, that and the errors of the cases.
Reports == Steps("errors") \/ (Steps("count") /\ Top.count = 0)
Reported == IF Task.do = "errors" THEN Task.paths ELSE <<Top.ptr>> \o Top.summary

ReportInside ==
  /\ Reports /\ Handler # 0
  /\ stack' = [Proceed EXCEPT ![Handler].errs = Keep(stack[Handler], Reported)]
  /\ UNCHANGED <<inputs, patch, errors, pc>>

ReportToUser ==
  /\ Reports /\ Handler = 0 /\ ~throwing
  /\ stack' = Proceed
  /\ errors' = errors \o Reported
  /\ UNCHANGED <<inputs, patch, pc>>

Throw ==
  /\ Reports /\ Handler = 0 /\ throwing
  /\ stack' = <<>> /\ patch' = <<>>
  /\ errors' = <<Head(Reported)>>
  /\ pc' = "thrown"
  /\ UNCHANGED inputs

\* An exception of the JSON library passes all handlers.
Raise ==
  /\ Steps("raise")
  /\ stack' = <<>> /\ patch' = <<>> /\ pc' = "thrown"
  /\ UNCHANGED <<inputs, errors>>

Satisfied ==
  /\ Steps("count") /\ Top.count # 0
  /\ stack' = Proceed
  /\ UNCHANGED <<inputs, patch, errors, pc>>

AddDefault ==
  /\ Steps("add")
  /\ patch' = Append(patch, [path |-> Task.path, value |-> Task.value])
  /\ stack' = Proceed
  /\ UNCHANGED <<inputs, errors, pc>>

Enter ==
  /\ Steps("call")
  /\ stack' = Append(Proceed, Frame(Task))
  /\ UNCHANGED <<inputs, patch, errors, pc>>
-----------------------------------------------------------------------------
(***************************************************************************)
(* A call returns: its caller goes on as the outcome demands.              *)
(***************************************************************************)
Returns(via) == pc = "validating" /\ Top.todo = <<>> /\ Top.via = via
Failed == Top.errs # <<>>
Caller == stack[Len(stack) - 1]
Suspended == Front(stack)
Resume(f) ==
  /\ stack' = [Suspended EXCEPT ![Len(stack) - 1] = f]
  /\ UNCHANGED <<inputs, errors, pc>>
Prepend(tasks) == Resume([Caller EXCEPT !.todo = tasks \o @])

ReturnPlain ==
  /\ Returns("plain")
  /\ stack' = Suspended
  /\ pc' = IF Len(stack) = 1 THEN "returned" ELSE pc
  /\ UNCHANGED <<inputs, patch, errors>>

ReturnNot ==
  /\ Returns("not")
  /\ Prepend(Reject(~Failed, Top.ptr))
  /\ UNCHANGED patch

\* An additional property that fails is an error of the object.
ReturnProperty ==
  /\ Returns("property")
  /\ Prepend(Reject(Failed, Caller.ptr))
  /\ UNCHANGED patch

\* The first element that fits is the last one tried.
ReturnContains ==
  /\ Returns("contains")
  /\ Resume(IF Failed THEN Caller ELSE [Caller EXCEPT !.todo = <<>>])
  /\ UNCHANGED patch

ReturnIf ==
  LET s == graph[Caller.subs[1]]
  IN /\ Returns("if")
     /\ Prepend(IfPresent(IF Failed THEN s.else ELSE s.then, "plain", Top.ptr, Top.inst))
     /\ UNCHANGED patch

\* Mutants: nothing is dropped, all since the combination started, everything.
NotRolledBack == patch
RolledBackTooFar == SubSeq(patch, 1, Caller.mark)
RolledBackToNothing == <<>>

\* resize(oldPatchSize): the default values of a failed case are dropped.
RolledBack == SubSeq(patch, 1, Top.mark)

ReturnCase ==
  LET count == IF Failed THEN Caller.count ELSE Caller.count + 1
      f == [Caller EXCEPT !.count = count, !.summary = @ \o Top.errs]
  IN /\ Returns("case")
     /\ patch' = IF Failed THEN RolledBack ELSE patch
     /\ Resume(CASE f.role = "allOf" /\ Failed ->
                      [f EXCEPT !.todo = <<Errors(<<Head(Top.errs)>> \o Top.errs)>>]
                 [] f.role = "anyOf" /\ count = 1 -> [f EXCEPT !.todo = <<>>]
                 [] f.role = "oneOf" /\ count > 1 -> [f EXCEPT !.todo = Reject(TRUE, Top.ptr)]
                 [] OTHER -> f)

Validating ==
  \/ ReportInside \/ ReportToUser \/ Throw \/ Raise \/ Satisfied \/ AddDefault \/ Enter
  \/ ReturnPlain \/ ReturnNot \/ ReturnProperty \/ ReturnContains \/ ReturnIf \/ ReturnCase
-----------------------------------------------------------------------------
(***************************************************************************)
(* The caller.                                                             *)
(***************************************************************************)

\* root_schema::validate() finds the schema of the requested URI, if any.
Entry ==
  IF validator.rooted /\ validator.initial \in DOMAIN validator.entries
  THEN <<validator.entries[validator.initial]>> ELSE <<>>

Validate ==
  /\ pc = "idle"
  /\ patch' = <<>> /\ errors' = <<>> /\ pc' = "validating"
  /\ stack' = <<[via |-> "plain", role |-> "root", subs |-> Entry, ptr |-> <<>>,
                 inst |-> instance, todo |-> Agenda("root", Entry, <<>>, instance),
                 errs |-> <<>>, count |-> 0, summary |-> <<>>, mark |-> 0, was |-> <<>>]>>
  /\ UNCHANGED inputs

\* The loop of README.md: apply the patch and validate again until it is empty.
ApplyPatch ==
  /\ pc = "returned" /\ errors = <<>> /\ patch # <<>>
  /\ IF AllAppliable(instance, patch)
     THEN instance' = Patched(instance, patch) /\ pc' = "idle"
     ELSE instance' = instance /\ pc' = "unpatchable"
  /\ UNCHANGED <<validator, throwing, stack, patch, errors>>

Finished ==
  \/ pc \in {"thrown", "unpatchable"}
  \/ pc = "returned" /\ (patch = <<>> \/ errors # <<>>)
Stop == Finished /\ UNCHANGED vars

Init ==
  /\ validator \in Corpus
  /\ throwing \in validator.handlers
  /\ instance \in validator.instances
  /\ stack = <<>> /\ patch = <<>> /\ errors = <<>>
  /\ pc = "idle"

Next == Validate \/ Validating \/ ApplyPatch \/ Stop

Spec == Init /\ [][Next]_vars

\* The thread that validates goes on, and so does the caller of the loop.  This
\* is WF_vars(Validate \/ Validating \/ ApplyPatch), written out: these actions are
\* enabled exactly until Finished, and TLC need not build the next state to know.
Fairness == []<>Finished \/ []<><<Validate \/ Validating \/ ApplyPatch>>_vars
FairSpec == Spec /\ Fairness
-----------------------------------------------------------------------------
(***************************************************************************)
(* Properties.                                                             *)
(***************************************************************************)
Vias == {"plain", "not", "if", "property", "contains", "case"}
Roles == {"root", "schema", "object", "array", "not", "allOf", "anyOf", "oneOf"}
IsCall(t, G) ==
  /\ t.via \in Vias /\ t.role \in Roles
  /\ t.subs \in Seq(G)
  /\ t.role \in {"schema", "object", "array", "not"} => Len(t.subs) = 1
  /\ t.ptr \in Seq(Token) /\ IsDocument(t.inst)
IsTask(t, G) ==
  CASE t.do = "errors" -> t.paths \in Seq(Seq(Token)) /\ t.paths # <<>>
    [] t.do = "add" -> Operation(t)
    [] t.do = "call" -> IsCall(t, G)
    [] OTHER -> t.do \in {"count", "raise"}

\* The types of the variables.
TypeOK ==
  /\ throwing \in BOOLEAN
  /\ pc \in {"idle", "validating", "returned", "thrown", "unpatchable"}
  /\ IsDocument(instance)
  /\ errors \in Seq(Seq(Token))
  /\ \A i \in DOMAIN patch : Operation(patch[i])
  /\ pc = "validating" <=> stack # <<>>
  /\ \A k \in DOMAIN stack :
       LET f == stack[k] IN
       /\ IsCall(f, DOMAIN graph) /\ f.count \in Nat /\ f.mark \in Nat
       /\ f.errs \in Seq(Seq(Token)) /\ f.summary \in Seq(Seq(Token))
       /\ \A i \in DOMAIN f.todo : IsTask(f.todo[i], DOMAIN graph)

\* The default values found before a call stay in the patch as long as the call
\* runs, whatever alternatives fail inside it: the rollback of a case, which
\* knows a size only, never reaches what others have added.
EarlierDefaultsStay == \A k \in DOMAIN stack : IsPrefix(stack[k].was, patch)

\* A case of allOf, anyOf or oneOf that fails leaves the patch exactly as it was
\* when it started, with what cases nested in it have added and dropped.
FailedCaseLeavesNothing ==
  [][Returns("case") /\ Failed /\ stack' # stack => patch' = Top.was]_vars

(***************************************************************************)
(* validate() is given the wrong path for the elements of a tuple, for     *)
(* those "contains" tries and for the schema of a dependency.  D is a set  *)
(* of schemas that has all of these and all they can call, none of which   *)
(* has a default value.                                                    *)
(***************************************************************************)
Callees(s) ==
  {s.target, s.if, s.then, s.else, s.additionalProperties, s.propertyNames,
   s.items, s.additionalItems, s.contains}
  \cup Range(s.properties) \cup Range(s.tuple)
  \cup {s.patternProperties[k].schema : k \in DOMAIN s.patternProperties}
  \cup {s.dependencies[k].schema : k \in DOMAIN s.dependencies}
  \cup UNION {Range(s.logic[k].subs) : k \in DOMAIN s.logic}
Astray(s) ==
  {s.additionalItems, s.contains} \cup Range(s.tuple)
  \cup {s.dependencies[k].schema : k \in DOMAIN s.dependencies}
Silent(c, D) ==
  /\ \A i \in DOMAIN c.graph : Astray(c.graph[i]) \subseteq D \cup {0}
  /\ \A i \in D : IsNull(c.graph[i].default) /\ Callees(c.graph[i]) \subseteq D \cup {0}
WellPlaced(c) == \E D \in SUBSET DOMAIN c.graph : Silent(c, D)

\* An "add" at p adds a property to an object of t, or replaces an empty document.
AddsMissing(p, t) ==
  IF p = <<>> THEN IsNull(t)
  ELSE Front(p) \in DOMAIN t /\ t[Front(p)].type = "object" /\ p \notin DOMAIN t

\* README.md: "A property which is present is kept", here by each operation of
\* the patch: it adds a property to an object of the instance that lacks it, or
\* replaces an empty document.
AddsOnlyMissing ==
  pc = "returned" => \A i \in DOMAIN patch : AddsMissing(patch[i].path, instance)

\* The caller who applies patches never loses a value of the document.
KeepsPresent ==
  [][IsNull(instance) \/ \A p \in DOMAIN instance :
                            p \in DOMAIN instance' /\ instance'[p] = instance[p]]_vars

\* Applying the patch until it is empty ends, with all defaults filled in.
Settles == <>Finished
=============================================================================
