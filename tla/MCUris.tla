------------------------------- MODULE MCUris -------------------------------
(***************************************************************************)
(* References of every form, with dots wherever a path can have them and   *)
(* keys of the characters that are escaped in pointers and in URIs.  No    *)
(* path has an empty segment within it, and no authority goes without a    *)
(* scheme.                                                                 *)
(***************************************************************************)
EXTENDS JsonUri

Atoms == {"/", "#", "://", "urn:", ".", "~", "%", "0", "1", "2", "5", "7", "E", "other",
          "a", "b", "g", "h", "m", "n", "x", "http", "ftp", "file"}

Segment == {<<"a">>, <<"b">>, Dot, DotDot}
ShortPaths == [1..1 -> Segment] \cup [1..2 -> Segment]
SomePaths == ShortPaths \cup {Append(p, Nil) : p \in ShortPaths}
             \cup {<<DotDot, DotDot, <<"a">>>>, <<<<"a">>, DotDot, DotDot>>}

Keys == {<<"x">>, <<"~">>, <<"/">>, <<"%", "2", "5">>, <<"~", "1">>, <<"%">>, Nil}

SubKeys == {<<"~">>, <<"/">>, <<"%", "2", "5">>}

Fragment(kind, tokens, name, coding) ==
  [kind |-> kind, tokens |-> tokens, name |-> name, coding |-> coding]
Pointers == {Fragment("pointer", tokens, None, coding) :
               tokens \in {<<k>> : k \in Keys} \cup {<<<<"x">>, <<"/">>>>, <<>>},
               coding \in {"careful", "careless"}}
Names == {Fragment("name", <<>>, <<"x", "%">>, "careless"),
          Fragment("name", <<>>, <<"x", "/", "x">>, "careful")}
Malformed == {Fragment("malformed", <<>>, <<"/", "~">>, "careless")}

Reference(urn, scheme, authority, absolute, path, fragment) ==
  [urn |-> urn, scheme |-> scheme, authority |-> authority, absolute |-> absolute,
   path |-> path, fragment |-> fragment]
Relative == {Reference(None, None, None, FALSE, p, Root) : p \in SomePaths}
Absolute == {Reference(None, None, None, TRUE, p, Root) : p \in SomePaths \cup {<<Nil>>}}
Urls == {Reference(None, s, a, TRUE, p, Root) :
           s \in {<<"http">>, <<"ftp">>}, a \in {<<"h">>, <<"g">>},
           p \in {<<Nil>>, <<<<"a">>>>, <<<<"b">>, DotDot, <<"a">>>>}}
        \cup {Reference(None, <<"file">>, None, TRUE, <<<<"a">>>>, Root)}
Urns == {Reference(<<"urn:", n>>, None, None, FALSE, <<>>, f) : n \in {"m", "n"}, f \in {Root} \cup Names}
Fragments == {Reference(None, None, None, FALSE, p, f) :
                p \in {<<>>, <<<<"b">>>>}, f \in Pointers \cup Names \cup Malformed}

AnyReference == Relative \cup Absolute \cup Urls \cup Urns \cup Fragments
ASSUME MCWellFormed == \A r \in AnyReference : WellFormed(r)

\* A URL of a host, without a path.
HostOnly == {Reference(None, <<"http">>, <<"h">>, FALSE, <<>>, Root)} \cup Absolute
=============================================================================
