# A specification of the JSON schema validator

TLA+ modules that model the program under `src/`: how it compiles schema
documents into a graph of schema objects, how that graph validates instances and
fills in their default values, how references become URIs, and how dates and
times are checked. TLC checks the models on families of documents, instances,
references and texts. TLAPS proves theorems about the compiler, the validator, the
URIs and the times, for all of them; among them that the verdict of `validate()`, and
the default values it adds, are those that the schema means.

## The system

`json_validator` (src/src/json-validator.cpp) is given a schema document, loads
the documents it refers to through a callback, and validates instances. It is a
library: one thread at a time compiles a schema, and `validate()` is const.

| Component | State | Operations | Interacts with |
|---|---|---|---|
| schema compiler: `root_schema`, `schema::make`, the constructors of the schema classes | `files_` (per location: `schemas`, `unresolved`, `unknown_keywords`), `root_`, the objects, the documents it erases keywords from | `set_root_schema`, `make`, `insert`, `insert_unknown_keyword`, `get_or_create_ref` | calls the loader, `json_uri`, edits JSON values; produces the objects `validate()` walks |
| JSON values (nlohmann::json, not under `src/`) | a tree | `contains`, `at`, `erase`, assignment, iteration in key order | edited by the compiler while it iterates over them |
| `json_uri` (json-uri.cpp) | location, pointer, plain name | `derive`, `append`, parsing, merging of paths | the keys of `files_` and of its tables |
| validator objects: `validate()` of every keyword | none of their own; the patch and the errors of one call | one `validate()` per class, `default_value` | call one another through shared and weak pointers; error handlers |
| `json_patch` (json-patch.cpp) | an array of operations | `add`, `replace`, `remove`, validation of a patch | filled by `validate()`, shortened by `anyOf` and `oneOf` |
| string formats (string-format-check.cpp) | none | `default_string_format_check` | the callback of `string::validate` |
| e-mail grammar (smtp-address-validator.cpp) | generated table | `is_address` | string formats |
| meta-schema (json-schema-draft7.json.cpp) | a constant | none | the caller's loader |
| `json_validator` | owns a `root_schema` | constructors, moves, `set_root_schema`, `validate` | delegates |

What is hard here is not concurrency, since a compilation runs in one thread,
but order and re-entrance. A reference may be met before, after or inside its
target, in the same file or in one that is not loaded yet. `make()` is called by
`get_or_create_ref()` and by `insert_unknown_keyword()`, both of which `make()`
calls; the documents it reads are the documents it erases from; targets are held
weakly; and any step may throw and leave `files_` half filled for the next call.
`hazards` in PROJECT.json lists each of these at its line.

What makes each component correct:

- compiler: every reference gets the schema its URI designates, whatever the
  order; a document is accepted exactly when its references mean something; the
  loading loop ends and asks for each file once; nothing is freed that a
  reference points to, nothing survives into the next call, nothing is undefined;
- `json_uri`: resolving is the resolving of RFC 3986 on the paths it supports, and
  a location reads back as itself;
- `validate()`: the outcome is that of the keywords, an alternative that failed
  leaves no default value in the patch, and an applied patch gives a valid
  instance; it does not change the validator;
- formats: what a clock shows is accepted in every time zone, what is accepted is
  some day and minute.

## Modules

| Module | Content |
|---|---|
| `Maps`, `JsonTree` | std::map as a function; a document as a function from JSON pointers to nodes, with the library's `erase`, assignment and copy |
| `SchemaCompiler` | the compiler: one action per step of `set_root_schema()`, `make()`, the constructors, `insert()`, `insert_unknown_keyword()`, `get_or_create_ref()` |
| `LinkTable` | the abstract specification: URIs are bound once, a reference may come before its target, every reference gets what its URI is bound to, success leaves none without |
| `SchemaMeaning` | the reference definition: what the references of a set of documents designate, read off the texts |
| `Validator` | `validate()` of every class, the error handlers, the patch, and the caller who applies it |
| `ValidationMeaning` | the reference definition: which instances are valid, which default values belong to them, as two recursive functions |
| `UriMeaning`, `JsonUri` | RFC 3986 and RFC 6901 on references taken apart; `json_uri`, which works on texts |
| `TimeFormat` | the formats `date`, `time` and `date-time`, a clock, and somebody who writes down what it shows |
| `MCNotation`, `MCDocuments`, `MCFiles`, `MCValidation`, `MCUris`, `MCTimes` | the instances TLC checks |
| `DataProofs` | lemmas the proofs share: induction, recursive functions, sequences, JSON trees |
| `SchemaCompilerTypes`, `SchemaCompilerLinks`, `LinkTableProofs` | theorems about the compiler and its abstract specification |
| `ValidatorProofs` | theorems about the validator: the patch and its marks; the calls and their places |
| `ValidationProofs` | theorems about the validator and `ValidationMeaning`: the verdict and the patch are what the schema means |
| `JsonUriProofs` | theorems about URIs |
| `TimeFormatProofs` | theorems about dates and times |

The compiler, the validator, the URIs and the times are four state machines. The
compiler's product, the graph of objects and the entries of `files_`, is the
constant `Corpus` of the validator; the compiler's `Resolve` is what `JsonUri` does
with the location of a reference; the validator's `format` is the set of texts that
`TimeFormat` accepts. They meet in values only: nothing that one machine does
depends on a step the other has not finished, except `set_root_schema()` against
`validate()`, see "Not modelled".

### How SchemaCompiler corresponds to the code

*Registry.* `schemas` and `unresolved` are the two maps of all `schema_file`s, keyed
by whole URIs; `unknown` holds one document per entry of `files_`, its
`unknown_keywords`. `WithFile` is `get_or_create_file()`.

*Objects.* `heap` is the sequence of all objects made; an object's `target` is its
weak pointer and `owns` the shared ones. Objects are never removed from `heap`:
which ones are still there is `Alive`, what the tables and `root_` reach by
shared pointers.

*Documents.* A node keeps the fields the compilation looks at (`$id`, `$ref`,
whether there is a `default`, the `type`s that have sub-schemas) and its members
are those that hold schemas or are no keywords. Keywords without sub-schemas
(`minimum`, `enum`, ...) are left out: their constructors read and erase them and
touch nothing else. `at` remembers where a value stood in the text; no action
reads it.

*Calls.* The recursion is the variable `stack`. A frame is a call of `make()`
(steps enter, definitions, branches, override, register, filing) or of
`insert_unknown_keyword()` (keep, kept, members). `src` is the place of the JSON
value the call has a reference to, in the document given or in the store of
unknown keywords, `held` the member an iterator of it points to while an inner
call runs. Erasing or overwriting a value marks the calls that hold it, or hold
something in it, `freed` (`Freed`); reading on from there is the action `Undefined`.
Members are visited in the order of a std::map (`Rank`), as the code does: the
model is deterministic between two choices of the environment, which are the
documents, the next call, and whether the loader throws.

*make()* (1351-1438): `EnterObject` drops the plain names, appends the keys and
processes `$id`; `OpenKeyword`, `CompileSlot` and `CloseKeyword` are the loops over the
keywords with sub-schemas, in the order of `findDefinitions` and of the
constructors; `ReuseReference`, `CreateReference` and `Override` are the branch of a
`$ref`, `StartType` and `FinishType` the other; `InsertSchema`, `InsertTwice`,
`FileKeyword` and `FinishUri` are the last loop. *insert_unknown_keyword()* (201-243):
`CompileKeyword`, `StoreKeyword`, `StoreFails`, `OpenMembers`. *set_root_schema()*
(276-332): `SetRootSchema`, `ReturnRoot`, `SkipFile`, `LoadFile`, `LoadFails`, `NextRound`,
`Finish`. A throw is `Raise`: it empties the stack and leaves the files, and `root_`,
as they are.

The history variables `base`, `loads` and `home` are read by properties only.

*Left out.* `Resolve` is a constant, any function from a base and a hint to a
location. That a location reads back as itself, which the loading loop relies on,
is `ReadsBack` of `JsonUri`. Throws of the JSON
library for a keyword of the wrong type (`"required": 3`) and of the constructors
that need a format or content checker are left out: they are one more way to end
in `Raise`, which every property already has to survive. `null`, which is empty to a loop
and becomes an object when a member is stored in it, is not among the kinds of values:
`scalar` stands for a number or a text. `"type"` lists each type at most once.

A keyword with several schemas whose value is no container has that value as its only
element, with an empty key (`ElementsOf`), and a combination counts its elements, even the
members of an object (`KeyIn`). Such documents are part of the model and of the theorems;
JSON schema gives them no meaning to compare with, so the families TLC compiles leave
them out.

### How Validator corresponds to the code

*Objects.* An entry of `graph` is a schema object: a `boolean`, a `schema_ref` with its
target (0 is the null pointer), or a `type_schema` together with the validators of
its `type_` array, all in one record. `ForType` is that array: an integer is given to
the validator for integers if there is one, else to that for numbers.

*Calls.* `stack` holds the running `validate()` calls. Neither the instance nor the
graph changes during a validation, so what a call will do in order, its agenda
`todo`, is known when it starts (`Agenda`, from one operator per class:
`ObjectTasks`, `ArrayTasks`, `StringTasks`, `NumericTasks`, `KeywordTasks`, ...). What
depends on an inner call is decided on its return, by one action per way of
calling: `ReturnPlain`, `ReturnNot`, `ReturnProperty` (additionalProperties),
`ReturnContains`, `ReturnIf`, `ReturnCase`. The tag `via` of a frame says which.

*Handlers.* A frame whose `via` is not `plain` is a call with an error handler of
its caller's; its `errs` are what that handler holds. `Handler` finds the innermost
one, an error goes there or to the user, whose handler collects or throws
(`throwing`). A `first_error_handler` keeps one error, the handler of a combination
all.

*Patch.* There is one `patch` for all calls. `mark` is `oldPatchSize`; `ReturnCase`
cuts the patch back to it when a case fails (`RolledBack`). `not`, `if`, `contains` and
additionalProperties do not cut, as in the code. `was` is the patch when the call
started, read by properties only.

*The caller* is the loop of README.md: `Validate`, `ApplyPatch`, until the patch is
empty. An operation that cannot be applied ends in `unpatchable`.

*Data.* Numbers are counted in halves, so that the odd ones are those with a
fraction; an integer beyond `MaxInteger` is unsigned and `Converted` wraps it around
where the code casts it. A regular expression, a format and a content encoding are
the sets of texts they accept.

### How JsonUri corresponds to the code

A text is a sequence of atoms: the characters that mean something in a URI, `"://"`,
`"urn:"`, and words without any of these; `Atom` is any set that has the first ones. So `..`
is two atoms, and what is left of a decoded `%` is looked at like any other text. `update()` is
its steps on such texts: `LocationOf`, `FragmentOf` with `Decoded` (each `%XX` once),
`Parts`, `Located`, `remove_dot_segments`, and the pointer parser of the JSON library
(`IsPointer`, `Tokens`), external. The actions are what the compilation does with URIs:
`Derive` for `$id` and `$ref`, `Sub` for a sub-schema (`append()`), `Load` for a document
read under its location. `Written` puts a reference into text; `meant` is what the
RFCs say of the same references and is never read by the code's side.

`WellFormed` is the syntax of the references the properties are about: what the RFCs' grammar takes
apart (no separators within a component), but no path with an empty segment inside, no authority without a
scheme and no host without a path. The first and the last of these three are disagreements, below;
the second, as in `//host/path`, is a path for `update()`. TLC evaluates for MCUris that its references are such.

### How TimeFormat corresponds to the code

`text` is what the groups of the regular expressions yield, `matches` whether they
matched. `rfc3339_date_check`, `rfc3339_time_check` and `rfc3339_date_time_check` are the
functions of these names, exceptions being FALSE. `Offset` has the sign the code
gets from `stoi()`. `Tick` is the clock; `Write` writes down what it shows in a zone;
`Misspell` changes a field of that; `Check` is the call of the program.

## What is checked

| Run | Instance | Shows |
|---|---|---|
| `documents` | MCDocuments: 114,182 states, one call | type invariant, the registry's invariants, refinement of `LinkTable`, verdict and bindings against `SchemaMeaning`, no undefined behaviour, termination |
| `files` | MCFiles: 10,809 states, root and up to two loaded files | the loading loop: each file asked for once, links across files, verdict and bindings |
| `retry` | MCFiles: 3,295 states, two calls, a loader that may throw at any time | nothing of an earlier call is left in the registry; each call ends |
| `validation` | MCValidation: 155,263 states, graphs of up to 13 schema objects and the instances given to them | verdict and patch against `ValidationMeaning`, the rollback, what applying the patch does to the document, and that the loop ends |
| `uris` | MCUris: 5,661 states, 146 references derived from one another | the URI against RFC 3986 and RFC 6901, keys, escapes, reading back |
| `times` | MCTimes: 147,180 states, eight dates, eight zones, 15 slips | no right text is rejected, no wrong one accepted |
| `recursion`, `dangling`, `nameless` | single documents of MCDocuments | a disagreement each, below |
| `tuple` | one schema of MCValidation | a disagreement, below |
| `offset` | MCTimes with the zone -00:30 | a disagreement, below |
| `host` | MCUris with a host that has no path | a disagreement, below |

**Bounds.** TLC does not enumerate all documents but five families, each of which
varies one way of referring in full: (1) two definitions and a property, each a
schema, `true`, or a reference to any of the others, the root or nothing, with
or without a `default`: every order and every cycle of three; (2) a definition with an
`$id`, of a location or a plain name, and references to it and into it from
inside and outside; (3) members that are no keywords, below a definition (filed
before the references) or at the root (filed after), referred to at three depths;
(4) each keyword with sub-schemas, under each `type` that asks for it or not, with
an object, a boolean, a number or an array as its value; (5) documents at the
edges: an `$id` that is the pointer of a stored member, an `$id` given twice, and
members that are compiled under one URI of their schema and stored under the other. Three schemas that refer to one another are the smallest with a reference
met before, inside and after its target; two loaded files are the smallest number
in which a loaded file names one that precedes or follows it. `MaxCalls` is 1 where
the property is about one compilation and 2 in `retry`, where the first call may
succeed, fail in any file, meet a loader that throws, or end in the undefined behaviour
of `nameless`, caused by a file, after which there is no second call.

`validation` has six families: (1) every bound from -1.5 to 2, `multipleOf`, and numbers on, between
and beside them, as integers, floats and unsigned integers that are too large
for signed ones; (2) lengths, contents, patterns, formats, every set of up to two
types, `enum` and `const`; (3) `allOf`, `anyOf`, `oneOf` of up to three cases, `not`, `if`, `then`,
`else`, with cases that add default values and then fail or hold, and that are
combinations themselves; (4) all keywords of objects; (5) those of arrays; (6)
references, chains of default values that need several rounds, the root's default
value, entries that are missing. Two levels of combinations and two sources of
default values are the least in which an inner rollback could reach an outer
one's values. Its size limits are 0 to 2 and its arrays have up to three elements,
which crosses each limit. Left out are the cases the section on
disagreements lists, references that form a cycle without a schema in between
(`validate()` recurses for ever) and default values that contain their own schema's missing
properties (the loop of README.md need not end).

`uris` derives from URIs with up to `MaxPath` = 2 segments and appends `MaxPointer` = 2
keys: `..` then leaves the path, meets its beginning and goes above it, which the code
documents to keep (json-uri.cpp:18). The proofs below cover paths, pointers and words of any length. `times` watches three minutes around midnight at the ends of months
in common, leap and century years; the proofs below cover all other days.

**Fairness.** `WF_vars(Compute)`: the thread that called `set_root_schema()` keeps
running. Nothing is assumed of the caller, who need not call again. The loader is
assumed to return or throw; a callback that blocks blocks the call. `Fairness` of
`Validator` is weak fairness of `Validate \/ Validating \/ ApplyPatch`, written out since
TLC would otherwise build each next state twice: the validating thread goes on, and
a caller who runs the loop of README.md goes on with it. `JsonUri` and `TimeFormat`
assume none.

**Deadlock** is checked in all runs; `Stop` is the self-loop of a caller that calls no
more. A caller whose document is settled, rejected or cannot be patched stops in
the same way; the clock, the writer and the derivation of URIs never do.

**Properties.** `RegisteredXorAwaited`, `RefsFollowRegistry` and `BoundForGood` are the
linking of references in the concrete state, `KeepsLinks` the same as an
implementation of `LinkTable`. `OwnershipAcyclic` and `NoFreedTarget` are the two
sides of the choice between shared and weak pointers: no cycle that is never
freed, no target that is freed while referred to. `RejectsOnlyMeaningless`,
`AcceptsOnlyMeaningful` and `BoundToDesignated` compare the compiler with
`SchemaMeaning`: the exception, the success, and for each URI the value it is bound
to, with all the members it had in the text. `LoadedOnce`, `Terminates` and
`CurrentGeneration` are about the loading loop and repeated calls. `NeverUndefined`
says that no iterator of a value that is gone is used, and no URI of a schema that
has none.

`VerdictIsMeaning` and `PatchIsMeaning` compare the validator with `ValidationMeaning`,
a definition by recursion over schemas without stack, handlers or rollback: an
error is reported exactly when the instance is invalid, and the patch holds the default values that
belong to the instance, at their paths, and none of an alternative that failed.
`FailedCaseLeavesNothing` and `EarlierDefaultsStay` are the two sides of
`resize(oldPatchSize)`: all of a failed case goes, nothing of others does.
`AddsOnlyMissing` and `KeepsPresent` are the promise of README.md:376 for a patch and for
a document; `Settles` is that repeating ends. `DesignatesMeant` compares chains of
references with the RFCs; `ReadsBack`, `EqualMeansSameKeys` and
`EscapedKeysLeadToThemselves` are what `root_schema` relies on when it files schemas
under texts. `NoFalseNegatives` and `AcceptsOnlyMoments` are the two directions of the
check of a time against the clock.

### Disagreements

Each of these runs checks one property on an instance that the passing runs leave
out, and TLC shows the property violated. The entry under "findings" in
PROJECT.json quotes what the repository says instead.

| Run | The code | Line |
|---|---|---|
| `recursion` | filing a member of a definition creates objects for its pointer, which a reference to the definition from inside takes for a stored keyword: a recursive definition with e.g. `readOnly` in a property before it is rejected | json-validator.cpp:233 |
| `dangling` | `make()` erases `$ref` through an iterator after `get_or_create_ref()` compiled, and emptied, the same value | json-validator.cpp:1408 |
| `nameless` | an unknown member beside a plain-name `$id` is taken for the root of the file when a reference to the root waits, and compiled without any URI: `uris[0]`, or `back()`, of an empty vector | json-validator.cpp:1427 |
| `tuple` | the elements of a tuple are all validated under the path of the first: default values of others are added there | json-validator.cpp:1245 |
| `offset` | `stoi("-00")` has no sign: an offset of less than an hour behind UTC is taken for one ahead | string-format-check.cpp:94 |
| `host` | a URL of a host without a path keeps the authority of the base | json-uri.cpp:110 |

Reading and modelling showed more, for which there is no run; the passing runs
leave these cases out, except where the model has the code's own behaviour in its
reference definition.

- The sub-schemas of `patternProperties` are registered as `#/<pattern>`, without the keyword:
  references to `#/patternProperties/<pattern>` are undefined (1153).
- A schema with two URIs, its pointer and an `$id`, files its unknown members once for each (1430-1435). If a
  reference awaits a member under the first URI, the member is compiled, and what is left of it is stored
  under the second: a later reference by the second URI compiles that. In
  `{definitions: {a: {$ref: #/definitions/b/u}, b: {$id: n, u: {properties: {r: {type: string}}}}}, properties: {p: {$ref: n#/u}}}`
  the property `p` may be anything.
- A reference into an unknown keyword, met before a reference to the keyword
  itself, compiles the inner schema twice: "already inserted" (json-validator.cpp:271).
- The elements of an array that is no keyword are found only by references met
  after the array was stored (240).
- An unknown keyword beside a plain-name `$id` is stored at the root of the file,
  where a reference that designates nothing finds it (204). What `nameless` shows has the same cause.
- `numeric` casts: an unsigned integer beyond the largest signed one wraps around for
  the validator of integers (897), and a bound with a fraction loses it there (931).
- `exclusiveMaximum` beside `maximum` replaces it, so `{maximum: 5, exclusiveMaximum: 10}`
  accepts 9 (943); likewise `exclusiveMinimum`.
- A float that is a whole number, 1.0, is no "integer": each type of the JSON library has its own entry of
  `type_`, and "integer" only fills those of the integers (617, 669).
- Binary data have no length: `minLength` and `maxLength` throw an exception of the JSON library for them, past all
  error handlers (758).
- `contains` validates under the path of the array (1252) and a schema of `dependencies` under that of
  the property (1108): default values found there have paths that lead elsewhere.
- `additionalItems`, like a tuple's schemas, is given the path of the first element (1245).
- A missing property whose schema is an unresolved reference is an error, though
  nothing requires it; `Defaulted` has this.
- An empty segment stops `..`: "/a//../b" stays as it is (json-uri.cpp:18).

## What is proved

### The compiler

All from `TokenAssumption`, `LocationAssumption`, `CorpusAssumption` and
`OptionAssumption` of SchemaCompiler, which say that the constants have the types
their comments give, that tokens and locations are ordered, and that documents
are trees. TLC evaluates them in every run. Nothing bounds the documents, their
depth, the files or the calls.

`TypeCorrect` (SchemaCompilerTypes): `Spec => []TypeOK`. It is not a formality here:
a frame's place must exist in a document that this call and others keep cutting
down. The inductive invariant is `IInv == Typed /\ Phases /\ StackOK`: `Typed` are the
types, `Phases` ties `pc` to the stack and the document being read, and `StackOK` says
of every frame, unless it is `freed`, that its place is in its document, that
its objects are of this call, that only its last URI is a plain name (so
dropping the last one drops all, which is how `Unnamed` models the loop at 1356),
and which frames may be on top of which. The induction goes through since an
action that removes a value marks every frame that holds something in it
(`FreedFits`, `RewriteFits`), which is what makes `Undefined` the only way to lose
a place.

`NeverBoth`, `AlwaysFollowing`, `NeverCyclic`, `NothingStale` and `NeverRebound`
(SchemaCompilerLinks) are the linking properties. `LInv` adds to them that an awaited
object is an empty reference made for the very URI it is filed under (`Awaited`);
without it `insert()` could turn the wrong object's pointer. `StepKinds` shows that
only three kinds of steps matter: those that leave registry and objects alone,
those that add an object which is no awaited reference, and `CreateReference` and
`InsertSchema`, each of which gets its own lemma.

`PromiseKept`: `Spec => KeepsLinks`, the compiler implements `LinkTable` under the
mapping in SchemaCompiler (`bound` are the schemas, `names` and `target` the URIs and
targets of this call's references, `outcome` follows `pc`). Each step is a `Refer`, a
`Bind`, a `Begin`, an end, or a stutter. `AlwaysLinked` and `AcceptedIsComplete`
(LinkTableProofs) are what that promises: references and bindings agree, and
success leaves nothing dangling.

`RequestedOnce` (SchemaCompilerLinks): `Spec => []LoadedOnce`. The loading loop takes a
location for loaded when some schema is registered under it, so the question is whether
each file that was requested gets one. `OInv` says that every requested location is loaded, or
`Owed`: the outermost call of `make()` still has a URI of it to register (`Requested`), and
that while this call files the other members, its first URI is registered (`Filed`). That
call starts with the document's own URI; an `$id` adds one to the list, only plain names
are dropped from it, and a call that throws ends the loop.

`NeverFreed` (SchemaCompilerLinks): `Spec => []NoFreedTarget`, no live reference of
a successful call points to a freed schema. `FInv` says that a reference made for a default value
owns the one it overrides, and that success leaves no reference waiting; the
other references follow the registry by `LInv`, and the registry is among the `Roots`. What
remains is that `Alive` is closed under ownership, which holds since objects own earlier
ones only: what is found first in step n was made before n others (`Descends`), so the steps run
out. The two inductions, for this and for the existence of the recursive function `Reached`,
are done by a least counterexample (`Least` of DataProofs), which is the form the provers can use.

### The validator

`EarlierStay` and `FailedLeavesNothing` (ValidatorProofs): `Spec => []EarlierDefaultsStay` and
`Spec => FailedCaseLeavesNothing`, with no assumption at all on graph or instance,
which may even be cyclic. A case remembers only the size of the patch, and any
case inside it may cut the patch on its own. The inductive invariant says why that is
enough: `Nested(stack, patch)`, each running call's `was` is the prefix of the patch
of length `mark`, and the marks grow from the outermost call to the innermost. Cutting to the
mark of the topmost frame then leaves what all frames below it remember (`CutPatch`,
`CaseKeeps`). One lemma per kind of change of the stack (`EditFrame`, `PushFrame`, `PopFrame`) and
of the patch (`GrowPatch`, `CutPatch`) carries the induction over the actions.

`TypeCorrect` (ValidatorProofs): `Spec => []TypeOK`, from `CorpusAssumption` of Validator, which
says that a graph consists of schema objects that refer to one another and that
instances are JSON documents; it does not say that references are acyclic. What makes it more than a
formality is the agenda: `validate()` decides what to call from the keywords and from the
members of an instance, and every such call must be given a part of the document that exists, or
the text of a key. `TInv` says of every running call, and of everything left on its agenda (`CallOK`,
`TaskOK`), which schema it may be and where it is; one lemma for each operator that
builds an agenda (`ObjectTasksOK`, `ItemTasksOK`, `LogicTasksOK`, ... up to `AgendaOK`), and one for each
action. `PatchedDocument` is the other half: what a patch makes of a document is a document.

`OnlyMissingAdded`: `Spec /\ WellPlaced(validator) => []AddsOnlyMissing`, and `PresentKept`:
`Spec /\ WellPlaced(validator) => KeepsPresent`, the promise of README.md:376 for every
instance and any number of rounds. The hypothesis is there because the code breaks the promise
without it: a schema of `contains` (1252), of `dependencies` (1108), of a tuple or of `additionalItems` (1245) is given a path
that is not its instance's (`Astray`). `WellPlaced` says that some set of schemas contains all of those and
all that they call, and that none of its members has a default value. It is a condition on the schema alone,
every schema without these four keywords satisfies it (with the empty set), and so do all schemas of
the run `validation`: MCValidation has it as an assumption, which TLC evaluates, though it uses
each of the four keywords. The run `tuple` is a schema that does not satisfy it, and there the
property fails. Under it, `TInv` splits the calls: one outside the
set (`Quiet`) has the value at its path for its instance (`Somewhere`), so that what `Defaulting` adds
below it is missing there (`AbsentPlace`); one inside it adds nothing.
`PatchedKeeps` then shows that a patch of such operations keeps each node, where the
order of the operations, and two of them with the same path, need the invariant that nothing of the
document so far lies below what is added (`Above`).

`VerdictMeant` and `PatchMeant` (ValidationProofs) say that the validator computes what
the schema means:

- `Spec => [](Grounded(validator) /\ Undisputed => VerdictIsMeaning)`: an error is
  reported, or an exception thrown, exactly when the instance is not valid;
- `Spec => [](WellPlaced(validator) /\ Grounded(validator) /\ Undisputed => PatchIsMeaning)`: the
  patch has exactly the default values that belong to the instance.

The hypotheses are the conditions under which these are true, and each is about the schema and the document alone.

- `Grounded`: no schema asks itself, by way of others, about the same value. Without it
  draft-7 gives no meaning, and `validate()` does not end. References may still form
  cycles, as long as one of them leads through a property or an element.
- `Undisputed` excludes the instances and schemas for which the section on disagreements lists another
  verdict of the code: two bounds on one side, an integer that wraps around, a float
  that is a whole number given to "integer", the length of binary data; and a
  `multipleOf` that is not positive, which draft-7 does not allow.
- `WellPlaced`: as above; the paths of the patch are wrong without it.

MCValidation states as assumptions, which TLC evaluates, that all of its schemas are `Grounded` and `WellPlaced` and
that all of its cases are `Undisputed`, except for those of `TextCases` that give
lengths to binary data.

The argument has three parts.

- *There is a meaning.* `Valid` and `DefaultsOf` are functions that ask themselves about lower pairs of a schema and a
  value: smaller values, or the same value and a schema that is asked beside (`Lower`).
  `PairsGrounded` shows that there is always a lowest pair, and so `ValidRule`, `DefaultsRule` and `HolderRule`
  that the equations of `ValidationMeaning` have a solution and hold.
- *What a call decides to do is what it means.* `AgendaMeans`: for each class of schema, the agenda of a
  call finds no error exactly when the call should hold, given that its inner calls
  do what they mean, and brings the default values that it should bring. There is one lemma for each operator that builds an agenda
  (`ObjectMeans`, `ArrayMeans`, `TypeMeans`, `LogicMeans`, `ConditionMeans`, `CombinationMeans`, ...). Agendas
  without `contains` and combinations do not depend on their order (`Steady`). With `contains` the first hit ends
  the agenda (`PrefixMeans`), and a combination depends on what was counted so far (`Decides`, `Used`).
- *A run does what its calls decided.* The invariant is `MInv`: under the hypotheses on schema and document, every state of
  a validation `Runs`. `Judged`: a call with a handler of its own holds exactly
  when nothing was reported to that handler, and what pends in it and in the calls below that report
  to the same handler finds no error. `Gathered`: what was in the patch when a call began, and what that call
  brings, is the patch together with what still comes. `Shapes`: which tasks are left of a
  combination. These are statements about the whole stack at once, since an
  error that is reported deep inside is an error of each call up to the next handler and of none above it,
  and a case that fails takes from the patch what it gathered. One
  lemma for each action shows that the step keeps them (`ReportInsideMeans`, `EnterMeans`, `ReturnCaseMeans`, ...). A
  throwing user handler ends the run only if the whole is not valid (`ThrowMeans`), and the exception for
  binary data is never raised under `Undisputed` (`RaiseNever`). When the
  stack is empty, `Judged` and `Gathered` of its last call are the two theorems (`RootMeans`).

Agendas are built by folds over sequences, and patches are applied one after another. The provers know neither
folds nor induction over a formula, so DataProofs has both in another form: a
property is the set of the numbers that have it (`UpTo`, `Least`), and a recursive function is one that
satisfies its equation (`Recursion`). `States` and `Sorted` of Validator are written as functions for this reason.

### URIs

From `AtomAssumption` and `KeyAssumption`, the types of the constants, and `GivenWellFormed`, which says that the
references at hand are `WellFormed`. It is a hypothesis of the theorems and not an assumption of the module because the
run `host` is about references that are not. Nothing bounds the texts, the paths, the pointers or the number of steps.

`Designated` (JsonUriProofs): `Spec => []DesignatesMeant`, the steps of `update()` compute what the RFCs define.
`ReadingBack`, `SameKeys` and `EscapedKeys` are `Spec => []ReadsBack`, `Spec => []EqualMeansSameKeys` and
`Spec => []EscapedKeysLeadToThemselves`: what `root_schema` relies on when it files schemas under texts. The invariant is
`uri = Represented(meant) /\ Canonical(meant)`: the json_uri is the one of the components it
should have, and no segment of their path can be removed any more. It is inductive by `Derivation`, one
statement for `$id`, `$ref` and a location that is loaded: from such a URI, `update()` throws exactly when the reference is to
be rejected, and otherwise gives the URI of what it resolves to. Two arguments carry it.

- *Texts are read back.* A pointer's tokens are found again in its text (`TokensOfText`: `Unescaped` for one token,
  `SplitSlashed` for the slashes), and a fragment in its encoded form, be it encoded carefully or
  carelessly (`DecodedCareful`, `DecodedCareless`). `DecodedCareless` is where it matters that each `%XX` is decoded once.
- *Dots.* `Normal` takes the first segment that can be taken out, again and again; `remove_dot_segments()` reads
  the segments once and keeps a stack. `DotSegmentsRemoved` shows that they agree: what has been kept
  is a path of which nothing can be removed (`Settled`), and the kept segments followed by
  those still to read always have the same `Normal` (`ReadKeeps`). A `..` at the end, the slash it leaves, and one that goes
  above the beginning are cases of the same step.

`ReadingBack` follows from the invariant by `Derivation` once more, from the empty URI: the text of canonical components is a
well-formed reference, and resolving it changes nothing since its path is normal already. `SameKeys` follows
from `ReadingBack` for both URIs.

`Split`, `UnescapedToken`, `DecodedOnce` and `Normal` are written as recursive functions on texts or paths. That their
equations have a solution at all is `SizeRecursion` and `Unrolled` of DataProofs: each step goes to a shorter argument.

### Times

From `TimeAssumption`, the types of the constants. `NeverFalselyRejected`
(TimeFormatProofs): `SignedZones => (Spec => []NoFalseNegatives)`, for every date from
year 1 to `LastYear` and all zones but those that lose their sign, the case of
the run `offset`. `OnlyMomentsAccepted`: `Spec => []AcceptsOnlyMoments`, for every slip and every text but
those with an offset of less than an hour behind UTC, which the property leaves out. The
invariant says that the clock shows a moment of the calendar and that the verdict is
that of the text. The rest is arithmetic: `SameDays`, the code's rule of odd and even months is the
calendar; `Neighbours`, the days before and after a day are days; `WrittenRight`,
what is written in a zone passes the checks; `SecondsAllowed`, `last_second()` allows 60
exactly in the last minute of UTC, for offsets across midnight on either side;
`HasMinute`, an accepted time is shown by some minute.

### Only model-checked

- `Terminates` and `Settles`: fairness and ENABLED are beyond the prover.
- `NeverUndefined`, of which `dangling` and `nameless` are the exceptions.
- `RejectsOnlyMeaningless`, `AcceptsOnlyMeaningful` and `BoundToDesignated`: `SchemaMeaning` collects the schemas of a
  document by a RECURSIVE operator, which takes the SMT prover away. They are also not true of every document: those
  of the disagreements (`recursion`, `dangling`, `nameless`) and the ones listed after them violate
  them, and what sets these apart is a condition on the order in which a whole document is compiled.
- `VerdictIsMeaning` for binary data with a length, the only cases of MCValidation that are not `Undisputed`.

## Not modelled

- The regular expressions of the other formats and the generated e-mail grammar:
  tables, with no state and no logic to check. `hostname`, `ipv4` and the like are one
  regular expression each.
- The meta-schema, a constant.
- `json_patch::replace()`, `remove()` and the check of a patch against a schema: nothing in
  `validate()` calls them.
- `to_string()` and the output operators, which format; the texts of error messages.
- The constructors' reading of keywords without sub-schemas (`minimum`, `enum`, `required`, ...), whose
  values are fields of the validator's objects, and the throws of the JSON library for one of the wrong type.
- A composition of compiler and validator. A `validate()` after `set_root_schema()` starts from
  `root_` and `files_` as the call left them, whether it succeeded or threw:
  `MCValidation` has the entries that can be missing then (a root that is not set, a URI that is not registered), and
  references without a target. What it does with any such graph does not depend on how it was made, and the product
  of both corpora would be checked for nothing new.
- `validate()` called from within the loader or a format checker while `set_root_schema()` runs.
- An `$id` that claims the location of a file the loader serves, or one that is
  resolved to both a location and a plain name: JSON schema gives two documents of
  one name no meaning to compare with.
- Rounding: `multipleOf` tests the remainder against an epsilon of the floating-point type, and the
  halves of the model are exact.
- References that form a cycle without a schema in between: the recursion of `validate()` on them does not end.
- Threads: `validate()` is const and the objects have no mutable members;
  `set_root_schema()` is not meant to run beside anything.
