------------------------------ MODULE MCFiles -------------------------------
(***************************************************************************)
(* A root document that refers to a file x, which may refer to a file y    *)
(* and back; x may carry an $id of its own, or the one of another file;    *)
(* y may not be served.                                                    *)
(***************************************************************************)
EXTENDS MCNotation

D == <<"definitions", "a">>
E == <<"definitions", "b">>

\* An $id that claims the location of a served file makes two documents of one
\* name: which one wins is then a matter of load order, and left out here.
MCCorpus == {c \in
  [p : {To("x", <<>>), To("x", D)}, q : {NoRef, To("y", D)},
   xId : {NoRef, To("x", <<>>), To("n", <<>>), To("y", <<>>)},
   xd : {NoRef, To("y", <<>>), To("y", D), To("", E)},
   y : {{}, {""}, {"x"}}] :
  c.xId # To("y", <<>>) \/ c.y = {}}

\* A plain name in x, beside a member that is no keyword: with a reference to x
\* waiting, the program is undefined (MCDocuments, Nameless).
Nameless ==
  [p |-> To("x", <<>>), q |-> NoRef, xId |-> NoRef, xd |-> Named("foo"), y |-> {}]
InX(xd) ==
  IF xd = Nameless.xd THEN D :> Id(xd) @@ Append(D, "v") :> Scalar ELSE D :> Ref(xd)

MCText ==
  [c \in MCCorpus \cup {Nameless} |->
     ("" :> Document(<<"properties", "p">> :> Ref(c.p) @@ <<"properties", "q">> :> Ref(c.q)))
     @@ ("x" :> Document(<<>> :> Id(c.xId) @@ InX(c.xd) @@ <<"properties", "p">> :> Empty))
     @@ [l \in {"y" : k \in c.y} |->
           Document(D :> Empty @@ <<"properties", "p">> :>
                      (IF "x" \in c.y THEN Ref(To("x", D)) ELSE Empty))]]

\* Documents for several calls in a row: one that needs both files, one that needs
\* a file nobody serves, one with an undefined reference, and one that ends it all.
RetryCorpus ==
  {c \in MCCorpus : /\ c.p = To("x", D) /\ c.xId = NoRef /\ c.y # {""}
                    /\ c.xd \in {To("y", D), To("", E)}
                    /\ c.xd = To("", E) => c.y = {} /\ c.q = NoRef}
  \cup {Nameless}
=============================================================================
