---------------------------- MODULE UriMeaning -----------------------------
(***************************************************************************)
(* What a reference denotes: the resolution of RFC 3986 and the pointers   *)
(* of RFC 6901, on references taken apart into their components.           *)
(*                                                                         *)
(* A text is a sequence of atoms: the characters that mean something in a  *)
(* URI, "://", "urn:", and words without any of these.  A path is a        *)
(* sequence of segments, which are texts; the last one is empty after a    *)
(* trailing slash.                                                         *)
(***************************************************************************)
EXTENDS Naturals, SequencesExt

CONSTANT Atom  \* the atoms of texts

ASSUME AtomAssumption ==
  {"/", "#", "://", "urn:", ".", "~", "%", "0", "1", "2", "5", "7", "E", "other"} \subseteq Atom

Texts == Seq(Atom)
None == <<>>
Root == [kind |-> "pointer", tokens |-> <<>>, name |-> None, coding |-> "none"]
-----------------------------------------------------------------------------
(***************************************************************************)
(* Texts.                                                                  *)
(***************************************************************************)

\* std::string::find() of a character, and the text before and after it.
Find(text, atom) == SelectInSeq(text, LAMBDA a : a = atom)
Before(text, n) == SubSeq(text, 1, n - 1)
After(text, n) == SubSeq(text, n + 1, Len(text))
Replace(text, atom, by) ==
  FlattenSeq([i \in DOMAIN text |-> IF text[i] = atom THEN by ELSE <<text[i]>>])

\* The parts of a text between slashes, and the text of such parts.
Split[text \in Texts] ==
  LET slash == Find(text, "/")
  IN IF slash = 0 THEN <<text>> ELSE <<Before(text, slash)>> \o Split[After(text, slash)]
Slashed(parts) == FlattenSeq([i \in DOMAIN parts |-> <<"/">> \o parts[i]])
Join(parts) == Head(parts) \o Slashed(Tail(parts))

\* RFC 6901: the text of a pointer, a "~" and a "/" of its tokens escaped.
EscapedToken(token) == Replace(Replace(token, "~", <<"~", "0">>), "/", <<"~", "1">>)
PointerText(tokens) == Slashed([i \in DOMAIN tokens |-> EscapedToken(tokens[i])])
-----------------------------------------------------------------------------
(***************************************************************************)
(* RFC 3986: references by their components, and what they denote.         *)
(***************************************************************************)
Dot == <<".">>
DotDot == <<".", ".">>
Nil == <<>>

\* A "." is taken out, a ".." with the segment before it; one that goes above the
\* beginning of the path stays.
Removable(path) ==
  {i \in DOMAIN path :
     path[i] = Dot \/ (path[i] = DotDot /\ i > 1 /\ path[i - 1] \notin {Dot, DotDot})}
Removed(path, i) ==
  SubSeq(path, 1, IF path[i] = Dot THEN i - 1 ELSE i - 2)
  \o (IF i = Len(path) THEN <<Nil>> ELSE After(path, i))
Normal[path \in Seq(Texts)] ==
  IF Removable(path) = {} THEN path
  ELSE Normal[Removed(path, CHOOSE i \in Removable(path) : \A j \in Removable(path) : i <= j)]

\* Section 5.2.3: a relative path replaces the last segment.
Merged(base, path) == (IF base = <<>> THEN <<>> ELSE Front(base)) \o path

\* A URN has no path, and a pointer has no stray "~".
Rejected(m, r) ==
  \/ m.urn # None /\ r.urn = None /\ r.scheme = None /\ (r.absolute \/ r.path # <<>>)
  \/ r.fragment.kind = "malformed"

\* Section 5.2.2.
Resolved(m, r) ==
  LET base == [m EXCEPT !.fragment = [r.fragment EXCEPT !.coding = "none"]]
  IN CASE r.urn # None ->
            [base EXCEPT !.urn = r.urn, !.scheme = None, !.authority = None, !.path = <<>>]
       [] r.scheme # None ->
            [base EXCEPT !.urn = None, !.scheme = r.scheme, !.authority = r.authority,
                         !.path = Normal[r.path]]
       [] r.urn = None /\ r.scheme = None /\ r.absolute -> [base EXCEPT !.path = Normal[r.path]]
       [] r.urn = None /\ r.scheme = None /\ ~r.absolute /\ r.path # <<>> ->
            [base EXCEPT !.path = Normal[Merged(@, r.path)]]
       [] OTHER -> base

\* Section 5.3.
Recomposed(m) ==
  IF m.urn # None THEN m.urn
  ELSE (IF m.scheme = None THEN <<>> ELSE m.scheme \o <<"://">>) \o m.authority \o Slashed(m.path)
=============================================================================
