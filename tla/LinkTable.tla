----------------------------- MODULE LinkTable ------------------------------
(***************************************************************************)
(* What root_schema promises to the schemas it compiles: a reference may   *)
(* be handed out before its target exists, every reference to a URI gets   *)
(* the schema bound to it in the moment it is bound, a URI is bound once,  *)
(* and a compilation that succeeds leaves no reference without target.     *)
(***************************************************************************)
EXTENDS Integers, Maps

VARIABLES
  bound,    \* URI -> schema
  names,    \* reference -> the URI it was made for
  target,   \* reference -> its schema, 0 while it has none
  outcome   \* "none", "compiling", "accepted" or "rejected"

vars == <<bound, names, target, outcome>>

Init == bound = NoEntries /\ names = NoEntries /\ target = NoEntries /\ outcome = "none"

Begin ==
  /\ outcome # "compiling"
  /\ outcome' = "compiling"
  /\ bound' = NoEntries /\ names' = NoEntries /\ target' = NoEntries

Refer(r, u) ==
  /\ outcome = "compiling"
  /\ u \notin DOMAIN bound
  /\ r \notin DOMAIN names
  /\ names' = Put(names, r, u) /\ target' = Put(target, r, 0)
  /\ UNCHANGED <<bound, outcome>>

Bind(u, s) ==
  /\ outcome = "compiling"
  /\ u \notin DOMAIN bound /\ s # 0
  /\ bound' = Put(bound, u, s)
  /\ target' = [r \in DOMAIN target |-> IF names[r] = u THEN s ELSE target[r]]
  /\ UNCHANGED <<names, outcome>>

Accept ==
  /\ outcome = "compiling"
  /\ \A r \in DOMAIN target : target[r] # 0
  /\ outcome' = "accepted"
  /\ UNCHANGED <<bound, names, target>>

Reject ==
  /\ outcome = "compiling"
  /\ outcome' = "rejected"
  /\ UNCHANGED <<bound, names, target>>

\* The schemas and the references that come are those of the implementation:
\* the quantifiers pick them from the next state.
Next ==
  \/ Begin \/ Accept \/ Reject
  \/ \E r \in DOMAIN names' : Refer(r, names'[r])
  \/ \E u \in DOMAIN bound' : Bind(u, bound'[u])

Spec == Init /\ [][Next]_vars

\* A reference has a target exactly when its URI is bound, and it is that schema.
Linked ==
  /\ DOMAIN target = DOMAIN names
  /\ \A r \in DOMAIN names :
       target[r] = IF names[r] \in DOMAIN bound THEN bound[names[r]] ELSE 0

\* After a compilation that succeeded, every URI some reference was made for is
\* bound: get_or_create_ref() left nothing for validation to find missing.
NothingDangles == outcome = "accepted" => \A r \in DOMAIN names : names[r] \in DOMAIN bound
=============================================================================
