-------------------------- MODULE LinkTableProofs ---------------------------
(***************************************************************************)
(* The promise of LinkTable implies what a user of the compiled schemas    *)
(* relies on.                                                              *)
(***************************************************************************)
EXTENDS LinkTable, TLAPS

\* References are linked from the first to the last step.
LEMMA LinkedStep == Linked /\ [Next]_vars => Linked'
<1> SUFFICES ASSUME Linked, [Next]_vars PROVE Linked'
  OBVIOUS
<1>1. CASE Begin
  BY <1>1 DEF Begin, Linked, NoEntries
<1>2. ASSUME NEW r \in DOMAIN names', Refer(r, names'[r]) PROVE Linked'
  BY <1>2 DEF Refer, Linked, Put
<1>3. ASSUME NEW u \in DOMAIN bound', Bind(u, bound'[u]) PROVE Linked'
  BY <1>3 DEF Bind, Linked, Put
<1>4. CASE Accept \/ Reject
  BY <1>4 DEF Accept, Reject, Linked
<1>5. CASE UNCHANGED vars
  BY <1>5 DEF vars, Linked
<1> QED
  BY <1>1, <1>2, <1>3, <1>4, <1>5 DEF Next

\* A reference has a target exactly when its URI is bound, and it is that
\* schema: for every order of the calls of get_or_create_ref() and insert().
THEOREM AlwaysLinked == Spec => []Linked
<1>1. Init => Linked
  BY DEF Init, Linked, NoEntries
<1> QED
  BY <1>1, LinkedStep, PTL DEF Spec

\* A compilation with a reference whose URI is never bound does not succeed: the
\* check for undefined references of set_root_schema().
THEOREM AcceptedIsComplete == Spec => []NothingDangles
<1> DEFINE IInv == Linked /\ NothingDangles
<1>1. Init => IInv
  BY DEF Init, Linked, NothingDangles, NoEntries
<1>2. IInv /\ [Next]_vars => NothingDangles'
  <2> SUFFICES ASSUME IInv, [Next]_vars PROVE NothingDangles'
    OBVIOUS
  <2>1. CASE Accept
    BY <2>1 DEF Accept, Linked, NothingDangles
  <2>2. CASE Begin \/ Reject
    BY <2>2 DEF Begin, Reject, NothingDangles
  <2>3. ASSUME NEW r \in DOMAIN names', Refer(r, names'[r]) PROVE NothingDangles'
    BY <2>3 DEF Refer, NothingDangles
  <2>4. ASSUME NEW u \in DOMAIN bound', Bind(u, bound'[u]) PROVE NothingDangles'
    BY <2>4 DEF Bind, NothingDangles
  <2>5. CASE UNCHANGED vars
    BY <2>5 DEF vars, NothingDangles
  <2> QED
    BY <2>1, <2>2, <2>3, <2>4, <2>5 DEF Next
<1> QED
  BY <1>1, <1>2, LinkedStep, PTL DEF Spec
=============================================================================
