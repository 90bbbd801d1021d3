------------------------------ MODULE JsonUri ------------------------------
(***************************************************************************)
(* json_uri: how references are resolved against the URI of a schema, and  *)
(* how URIs become the keys under which root_schema files its schemas.     *)
(*                                                                         *)
(* The machine derives URIs from URIs, appends keys to them and reads      *)
(* locations again, as the compilation of nested schemas and of loaded     *)
(* files does, while `meant` keeps what UriMeaning makes of the same       *)
(* references.                                                             *)
(***************************************************************************)
EXTENDS UriMeaning

CONSTANTS
  Given,      \* the references a schema may contain, as RFC 3986 takes them apart
  Key,        \* the keys of sub-schemas
  MaxPath,    \* bound: the segments of a path from which URIs are derived
  MaxPointer  \* bound: the keys appended to a URI

ASSUME KeyAssumption == Key \subseteq Texts

VARIABLES
  uri,   \* the json_uri at hand
  meant  \* what it should be: the components of a URI

vars == <<uri, meant>>
-----------------------------------------------------------------------------
\* Two hexadecimal digits and the character they encode.
HexDigit == {"0", "1", "2", "3", "4", "5", "6", "7", "8", "9",
             "A", "B", "C", "D", "E", "F", "a", "b", "c", "d", "e", "f"}
Encoded == [hex : {<<"2", "5">>}, atom : {"%"}]
           \cup [hex : {<<"7", "E">>, <<"7", "e">>}, atom : {"~"}]
           \cup [hex : {<<"2", "F">>, <<"2", "f">>}, atom : {"/"}]
Byte(high, low) ==
  IF \E e \in Encoded : e.hex = <<high, low>>
  THEN (CHOOSE e \in Encoded : e.hex = <<high, low>>).atom ELSE "other"
-----------------------------------------------------------------------------
(***************************************************************************)
(* The parser of json_pointer, of the JSON library.                        *)
(***************************************************************************)
\* It throws if a "~" is not followed by 0 or 1.
IsPointer(text) ==
  \A i \in DOMAIN text :
    text[i] = "~" => i < Len(text) /\ text[i + 1] \in {"0", "1"}
UnescapedToken[part \in Texts] ==
  CASE part = <<>> -> <<>>
    [] part # <<>> /\ Head(part) = "~" ->
         <<IF part[2] = "0" THEN "~" ELSE "/">> \o UnescapedToken[After(part, 2)]
    [] OTHER -> <<Head(part)>> \o UnescapedToken[Tail(part)]
Tokens(text) ==
  LET parts == Tail(Split[text]) IN [i \in DOMAIN parts |-> UnescapedToken[parts[i]]]
-----------------------------------------------------------------------------
(***************************************************************************)
(* json_uri.                                                               *)
(***************************************************************************)
Blank == [urn |-> None, scheme |-> None, authority |-> None, path |-> None,
          pointer |-> <<>>, identifier |-> None]

\* Mutant: any segment can.
any_can_be_popped(kept) == kept # <<>>

\* The segment before a ".." can be taken back.
can_be_popped(kept) == kept # <<>> /\ Last(kept) \notin {<<".", ".">>, <<>>}

\* The loop body: what is kept of the segments up to number i.
Reads(segments, kept, i) ==
  LET slash == IF i = Len(segments) THEN <<(<<>>)>> ELSE <<>>
  IN CASE segments[i] = <<".">> -> kept \o slash
       [] segments[i] = <<".", ".">> /\ can_be_popped(kept) -> Front(kept) \o slash
       [] OTHER -> Append(kept, segments[i])
remove_dot_segments(path) ==
  LET segments == Split[path]
      Kept[i \in 0..Len(segments)] ==
        IF i = 0 THEN <<>> ELSE Reads(segments, Kept[i - 1], i)
  IN IF Kept[Len(segments)] = <<>> THEN <<>> ELSE Join(Kept[Len(segments)])

\* A %XX starts at position i.
IsEscape(text, i) ==
  /\ i \in DOMAIN text /\ text[i] = "%"
  /\ i + 2 <= Len(text) /\ text[i + 1] \in HexDigit /\ text[i + 2] \in HexDigit

\* Each %XX is decoded once: what it becomes is not looked at again.
DecodedOnce[text \in Texts] ==
  CASE text = <<>> -> <<>>
    [] IsEscape(text, 1) -> <<Byte(text[2], text[3])>> \o DecodedOnce[After(text, 3)]
    [] OTHER -> <<Head(text)>> \o DecodedOnce[Tail(text)]

\* Mutant: what has been decoded is decoded again.
DecodedTwice(text) == DecodedOnce[DecodedOnce[text]]

Decoded(text) == DecodedOnce[text]

\* The location and the fragment of a reference.
LocationOf(text) == IF Find(text, "#") = 0 THEN text ELSE Before(text, Find(text, "#"))
FragmentOf(text) ==
  IF Find(text, "#") = 0 THEN <<>> ELSE Decoded(After(text, Find(text, "#")))
StartsWith(text, atom) == text # <<>> /\ Head(text) = atom

\* The path without its last segment.
Directory(path) ==
  LET slash == SelectLastInSeq(path, LAMBDA a : a = "/")
  IN IF slash = 0 THEN path ELSE Before(path, slash)

\* A URL sets the scheme, and the authority if a path follows it.
Parts(u, location) ==
  LET proto == Find(location, "://")
      rest == After(location, proto)
      slash == Find(rest, "/")
  IN IF proto = 0 THEN [u EXCEPT !.path = location]
     ELSE [u EXCEPT !.urn = None, !.scheme = Before(location, proto),
                    !.authority = IF slash = 0 THEN @ ELSE Before(rest, slash),
                    !.path = IF slash = 0 THEN rest ELSE SubSeq(rest, slash, Len(rest))]

Located(u, location) ==
  LET parts == Parts(u, location)
      path == CASE StartsWith(parts.path, "/") -> parts.path
                [] ~StartsWith(parts.path, "/") /\ Find(location, "://") = 0 ->
                     Directory(u.path) \o <<"/">> \o parts.path
                [] OTHER -> u.path \o parts.path
  IN CASE location = <<>> -> u
       [] StartsWith(location, "urn:") -> [Blank EXCEPT !.urn = location]
       [] OTHER -> [parts EXCEPT !.path = remove_dot_segments(path)]

\* update() throws.
Throws(u, text) ==
  LET location == LocationOf(text)
      parts == Parts(u, location)
  IN \/ location # <<>> /\ ~StartsWith(location, "urn:") /\ parts.urn # None /\ parts.path # <<>>
     \/ StartsWith(FragmentOf(text), "/") /\ ~IsPointer(FragmentOf(text))

update(u, text) ==
  LET fragment == FragmentOf(text)
      isPointer == StartsWith(fragment, "/")
  IN [Located(u, LocationOf(text)) EXCEPT
        !.pointer = IF isPointer THEN Tokens(fragment) ELSE <<>>,
        !.identifier = IF isPointer THEN None ELSE fragment]

json_uri(text) == update(Blank, text)
derive(u, text) == update(u, text)
append(u, field) ==
  IF u.identifier # None THEN u ELSE [u EXCEPT !.pointer = Append(@, field)]

fragment_(u) == IF u.identifier = None THEN PointerText(u.pointer) ELSE u.identifier

\* Mutant: the scheme is left out.
location_without_scheme(u) == IF u.urn # None THEN u.urn ELSE u.authority \o u.path

location_(u) ==
  IF u.urn # None THEN u.urn
  ELSE (IF u.scheme = None THEN <<>> ELSE u.scheme \o <<"://">>) \o u.authority \o u.path

as_tuple(u) == <<u.urn, u.scheme, u.authority, u.path, fragment_(u)>>

\* Mutant: the characters are replaced in the other order.
escape_slash_first(token) == Replace(Replace(token, "/", <<"~", "1">>), "~", <<"~", "0">>)

escape(token) == Replace(Replace(token, "~", <<"~", "0">>), "/", <<"~", "1">>)
-----------------------------------------------------------------------------
(***************************************************************************)
(* How references are written: a careful writer encodes all that may be    *)
(* taken for something else, a careless one a "%" only before two digits.  *)
(***************************************************************************)
Careful(text) == Replace(Replace(text, "%", <<"%", "2", "5">>), "~", <<"%", "7", "E">>)
Careless(text) ==
  FlattenSeq([i \in DOMAIN text |-> IF IsEscape(text, i) THEN <<"%", "2", "5">> ELSE <<text[i]>>])

FragmentText(f) == IF f.kind = "pointer" THEN PointerText(f.tokens) ELSE f.name
Written(r) ==
  (CASE r.urn # None -> r.urn
     [] r.urn = None /\ (r.absolute \/ r.scheme # None) -> Recomposed(r)
     [] OTHER -> IF r.path = <<>> THEN <<>> ELSE Join(r.path))
  \o (CASE r.fragment.coding = "careful" -> <<"#">> \o Careful(FragmentText(r.fragment))
        [] r.fragment.coding = "careless" -> <<"#">> \o Careless(FragmentText(r.fragment))
        [] OTHER -> <<>>)

\* $id and $ref.
Derive(r) ==
  /\ Len(meant.path) <= MaxPath
  /\ uri' = IF Throws(uri, Written(r)) THEN uri ELSE derive(uri, Written(r))
  /\ meant' = IF Rejected(meant, r) THEN meant ELSE Resolved(meant, r)

\* A sub-schema.  Plain names have none.
Sub(key) ==
  /\ Len(uri.pointer) < MaxPointer
  /\ uri' = append(uri, key)
  /\ meant' = IF meant.fragment.kind = "name" THEN meant
              ELSE [meant EXCEPT !.fragment.tokens = Append(@, key)]

\* The document at this location is loaded: its URI is the text of the location.
Load ==
  /\ uri' = json_uri(location_(uri))
  /\ meant' = [meant EXCEPT !.fragment = Root]

Init ==
  /\ uri = json_uri(<<>>)
  /\ meant = [urn |-> None, scheme |-> None, authority |-> None, path |-> <<>>, fragment |-> Root]

Next == (\E r \in Given : Derive(r)) \/ (\E key \in Key : Sub(key)) \/ Load
Spec == Init /\ [][Next]_vars
-----------------------------------------------------------------------------
(***************************************************************************)
(* Properties.                                                             *)
(***************************************************************************)

\* The syntax of references: their parts contain no separators, only the last segment
\* of a path may be empty, an authority has a scheme, and a path after it.
IsWord(text) == text \in Texts /\ Range(text) \cap {"/", "#", "://", "urn:"} = {}
IsPath(path) ==
  /\ path \in Seq(Texts) /\ \A i \in DOMAIN path : IsWord(path[i])
  /\ \A i \in 1..(Len(path) - 1) : path[i] # Nil
IsFragment(f) ==
  /\ f \in [kind : {"pointer", "name", "malformed"}, tokens : Seq(Texts), name : Texts,
            coding : {"none", "careful", "careless"}]
  /\ CASE f.kind = "pointer" -> f.name = None /\ (f.coding = "none" => f.tokens = <<>>)
       [] f.kind = "name" -> /\ f.tokens = <<>> /\ f.coding # "none"
                             /\ f.name # None /\ ~StartsWith(f.name, "/")
       [] OTHER -> f.coding # "none" /\ StartsWith(f.name, "/") /\ ~IsPointer(f.name)
WellFormed(r) ==
  /\ r \in [urn : Texts, scheme : Texts, authority : Texts, absolute : BOOLEAN,
            path : Seq(Texts), fragment : {r.fragment}]
  /\ IsFragment(r.fragment)
  /\ IF r.urn # None
     THEN /\ StartsWith(r.urn, "urn:") /\ "#" \notin Range(r.urn)
          /\ r.scheme = None /\ r.authority = None /\ r.path = <<>> /\ ~r.absolute
     ELSE /\ IsWord(r.scheme) /\ IsWord(r.authority) /\ IsPath(r.path)
          /\ IF r.scheme = None THEN r.authority = None ELSE r.absolute
          /\ IF r.absolute THEN r.path # <<>> ELSE r.path # <<>> => r.path[1] # Nil
GivenWellFormed == \A r \in Given : WellFormed(r)

\* A chain of references leads where RFC 3986 and RFC 6901 say: derive() "resolves
\* relative changes (pathes or pointers) and resets part if proto or hostname changes"
\* (json-schema.hpp:94), and a reference that is rejected changes nothing.
DesignatesMeant ==
  /\ location_(uri) = Recomposed(meant)
  /\ fragment_(uri) = FragmentText(meant.fragment)

\* A URI is read back from its location and its fragment: root_schema keeps only these
\* two, and gives the first one to the loader.
ReadsBack == json_uri(location_(uri) \o <<"#">> \o Careful(fragment_(uri))) = uri

\* URIs that compare equal are filed under the same keys, and no others are.
EqualMeansSameKeys ==
  \A r \in Given :
    LET u == json_uri(Written(r))
    IN ~Throws(Blank, Written(r)) =>
         (as_tuple(u) = as_tuple(uri)
            <=> location_(u) = location_(uri) /\ fragment_(u) = fragment_(uri))

\* insert_unknown_keyword() files a value under the keys of its URI by pointers made of
\* single escaped keys: each leads to this key, whatever characters are in it.
EscapedKeysLeadToThemselves ==
  \A i \in DOMAIN uri.pointer :
    LET text == <<"/">> \o escape(uri.pointer[i])
    IN IsPointer(text) /\ Tokens(text) = <<uri.pointer[i]>>
=============================================================================
