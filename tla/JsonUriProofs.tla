--------------------------- MODULE JsonUriProofs ---------------------------
(***************************************************************************)
(* json_uri resolves references as the RFCs say, for all references.       *)
(***************************************************************************)
EXTENDS JsonUri, DataProofs

(***************************************************************************)
(* Texts.                                                                  *)
(***************************************************************************)

\* Texts are sequences.
LEMMA TextAtoms == Texts = Seq(Atom)
  BY DEF Texts

\* A character that is not in a text is not found.
LEMMA FindNone ==
  ASSUME NEW t \in Texts, NEW a, a \notin Range(t) PROVE Find(t, a) = 0
<1>1. t \in Seq(Atom)
  BY TextAtoms
<1>2. \A i \in 1..Len(t) : t[i] # a
  BY <1>1 DEF Range
<1> QED
  BY <1>2 DEF Find, SelectInSeq

\* The first occurrence of a character is found.
LEMMA FindFirst ==
  ASSUME NEW t \in Texts, NEW a, NEW n \in 1..Len(t), t[n] = a, \A i \in 1..(n - 1) : t[i] # a
  PROVE  Find(t, a) = n
<1>1. t \in Seq(Atom) /\ Len(t) \in Nat
  BY TextAtoms
<1> DEFINE I == {i \in 1..Len(t) : t[i] = a}
<1>2. n \in I /\ \A i \in I : n <= i
  BY <1>1
<1>3. Find(t, a) = Min(I)
  BY <1>2 DEF Find, SelectInSeq
<1>4. \A m \in I : m \in Nat
  BY <1>1
<1> HIDE DEF I
<1>5. Min(I) = n
  <2> DEFINE m == CHOOSE x \in I : \A y \in I : x <= y
  <2>1. m \in I /\ \A y \in I : m <= y
    BY <1>2
  <2>2. Min(I) = m
    BY DEF Min
  <2> HIDE DEF m
  <2>3. m <= n /\ n <= m /\ m \in Nat /\ n \in Nat
    BY <1>2, <1>4, <2>1
  <2> QED BY <2>2, <2>3
<1> QED
  BY <1>3, <1>5

\* What is found is there.
LEMMA FindRange ==
  ASSUME NEW t \in Texts, NEW a
  PROVE  /\ Find(t, a) \in 0..Len(t) /\ Len(t) \in Nat
         /\ Find(t, a) = 0 <=> a \notin Range(t)
<1>1. t \in Seq(Atom) /\ Len(t) \in Nat /\ DOMAIN t = 1..Len(t)
  BY TextAtoms
<1>2. CASE a \notin Range(t)
  BY <1>1, <1>2, FindNone
<1>3. CASE a \in Range(t)
  <2> DEFINE I == {i \in 1..Len(t) : t[i] = a}
  <2>1. I \in SUBSET Nat /\ I # {}
    BY <1>1, <1>3 DEF Range
  <2>2. PICK n \in I : \A i \in I : n <= i
    <3> HIDE DEF I
    <3> QED BY <2>1, Least
  <2>3. Find(t, a) = n
    <3>1. n \in 1..Len(t) /\ t[n] = a
      BY <2>2
    <3>2. \A i \in 1..(n - 1) : t[i] # a
      BY <1>1, <2>2
    <3> QED BY <3>1, <3>2, FindFirst
  <2> QED BY <1>1, <1>3, <2>2, <2>3
<1> QED
  BY <1>2, <1>3

\* A text cut at the first occurrence of a character.
LEMMA FindConcat ==
  ASSUME NEW s \in Texts, NEW u \in Texts, NEW a \in Atom, a \notin Range(s)
  PROVE  LET t == s \o (<<a>> \o u)
         IN /\ t \in Texts /\ Find(t, a) = Len(s) + 1
            /\ Before(t, Len(s) + 1) = s /\ After(t, Len(s) + 1) = u
<1> DEFINE t == s \o (<<a>> \o u)
<1>1. s \in Seq(Atom) /\ u \in Seq(Atom)
  BY TextAtoms
<1>2. Surrounds(s, a, u, Atom)
  BY <1>1, Middle, Zenon
<1>3. /\ t \in Seq(Atom) /\ Len(s) \in Nat /\ Len(t) = Len(s) + Len(u) + 1 /\ Len(u) \in Nat
      /\ t[Len(s) + 1] = a /\ \A i \in 1..Len(s) : t[i] = s[i]
      /\ SubSeq(t, 1, Len(s)) = s /\ SubSeq(t, Len(s) + 2, Len(t)) = u
  BY <1>2 DEF Surrounds
<1> HIDE DEF t
<1>4. t \in Texts /\ Len(s) + 1 \in 1..Len(t)
  BY <1>3, TextAtoms
<1>5. Find(t, a) = Len(s) + 1
  <2>1. \A i \in 1..Len(s) : s[i] # a
    BY <1>1 DEF Range
  <2> DEFINE m == Len(s) + 1
  <2>2. m \in 1..Len(t) /\ t[m] = a /\ \A i \in 1..(m - 1) : t[i] # a
    BY <1>3, <1>4, <2>1
  <2> HIDE DEF m
  <2>3. Find(t, a) = m
    BY <1>4, <2>2, FindFirst
  <2> QED BY <2>3 DEF m
<1>6. (Len(s) + 1) - 1 = Len(s) /\ (Len(s) + 1) + 1 = Len(s) + 2
  BY <1>3
<1> QED
  BY <1>3, <1>4, <1>5, <1>6 DEF t, Before, After

-----------------------------------------------------------------------------
\* A text has a first character and others.
LEMMA FirstOfText ==
  ASSUME NEW t \in Texts, t # <<>>
  PROVE  /\ Head(t) \in Atom /\ Tail(t) \in Texts /\ Len(Tail(t)) = Len(t) - 1 /\ Len(t) \in Nat \ {0}
         /\ t = <<Head(t)>> \o Tail(t) /\ Head(t) = t[1]
  BY TextAtoms

\* Texts without their first characters.
LEMMA Later ==
  ASSUME NEW t \in Texts, NEW n \in 1..Len(t)
  PROVE  After(t, n) \in Texts /\ Len(After(t, n)) = Len(t) - n /\ Len(t) \in Nat
         /\ Before(t, n) \in Texts
<1>1. t \in Seq(Atom) /\ Len(t) \in Nat
  BY TextAtoms
<1>2. SubSeq(t, n + 1, Len(t)) \in Seq(Atom) /\ Len(SubSeq(t, n + 1, Len(t))) = Len(t) - n
      /\ SubSeq(t, 1, n - 1) \in Seq(Atom)
  BY <1>1
<1> QED
  BY <1>1, <1>2, TextAtoms DEF After, Before

-----------------------------------------------------------------------------
(***************************************************************************)
(* Slashes.                                                                *)
(***************************************************************************)
IsSplit(f) ==
  f = [text \in Texts |->
         LET slash == Find(text, "/")
         IN IF slash = 0 THEN <<text>> ELSE <<Before(text, slash)>> \o f[After(text, slash)]]

\* The equation of Split has a solution.
LEMMA SplitRule ==
  /\ Split \in [Texts -> Seq(Texts)]
  /\ \A t \in Texts : Split[t] = IF Find(t, "/") = 0 THEN <<t>>
                                 ELSE <<Before(t, Find(t, "/"))>> \o Split[After(t, Find(t, "/"))]
<1> DEFINE cut(t) == Find(t, "/")
           Stop == {t \in Texts : cut(t) = 0}
           size == [t \in Texts |-> Len(t)]
           base == [t \in Texts |-> <<t>>]
           pre == [t \in Texts |-> IF t \in Stop THEN <<>> ELSE <<Before(t, cut(t))>>]
           rest == [t \in Texts |-> After(t, cut(t))]
<1>1. ASSUME NEW t \in Texts
      PROVE  Len(t) \in Nat /\ cut(t) \in Nat
             /\ (cut(t) # 0 => After(t, cut(t)) \in Texts /\ Before(t, cut(t)) \in Texts
                              /\ Len(After(t, cut(t))) < Len(t))
  <2>1. cut(t) \in 0..Len(t) /\ Len(t) \in Nat
    BY FindRange
  <2> HIDE DEF cut
  <2>2. CASE cut(t) # 0
    <3>1. cut(t) \in 1..Len(t)
      BY <2>1, <2>2
    <3>2. After(t, cut(t)) \in Texts /\ Before(t, cut(t)) \in Texts
          /\ Len(After(t, cut(t))) = Len(t) - cut(t)
      BY <3>1, Later
    <3> QED BY <2>1, <3>1, <3>2
  <2> QED BY <2>1, <2>2
<1> HIDE DEF cut
<1>2. size \in [Texts -> Nat] /\ base \in [Texts -> Seq(Texts)] /\ pre \in [Texts -> Seq(Texts)]
      /\ Shrinks(Texts, Stop, rest, size)
  BY <1>1 DEF Shrinks
<1>3. \A f : Unrolls(f, Texts, Stop, base, pre, rest) <=> IsSplit(f)
  <2> SUFFICES ASSUME NEW f
               PROVE  [t \in Texts |-> IF t \in Stop THEN base[t] ELSE pre[t] \o f[rest[t]]]
                      = [t \in Texts |-> IF cut(t) = 0 THEN <<t>>
                                         ELSE <<Before(t, cut(t))>> \o f[After(t, cut(t))]]
    BY DEF Unrolls, IsSplit, cut
  <2> QED OBVIOUS
<1>4. (\E f : IsSplit(f)) /\ \A f : IsSplit(f) => f \in [Texts -> Seq(Texts)]
  <2> HIDE DEF Stop, size, base, pre, rest
  <2>1. HasUnrolling(Texts, Seq(Texts), Stop, base, pre, rest)
    BY <1>2, Unrolled, Zenon
  <2> QED BY <1>3, <2>1 DEF HasUnrolling
<1>5. Split = CHOOSE f : IsSplit(f)
  BY DEF Split, IsSplit
<1>6. IsSplit(Split) /\ Split \in [Texts -> Seq(Texts)]
  BY <1>4, <1>5
<1> QED
  BY <1>6 DEF IsSplit

Plain == {t \in Texts : "/" \notin Range(t)}

\* A text without slashes is one part.
LEMMA SplitPart == ASSUME NEW t \in Plain PROVE Split[t] = <<t>>
<1>1. t \in Texts /\ Find(t, "/") = 0
  BY FindNone DEF Plain
<1> QED
  BY <1>1, SplitRule

\* The part before the first slash.
LEMMA SplitSlash ==
  ASSUME NEW s \in Plain, NEW u \in Texts
  PROVE  s \o (<<"/">> \o u) \in Texts /\ Split[s \o (<<"/">> \o u)] = <<s>> \o Split[u]
<1> DEFINE t == s \o (<<"/">> \o u)
<1>1. s \in Texts /\ "/" \notin Range(s) /\ "/" \in Atom
  BY AtomAssumption DEF Plain
<1>2. t \in Texts /\ Find(t, "/") = Len(s) + 1
      /\ Before(t, Len(s) + 1) = s /\ After(t, Len(s) + 1) = u
  BY <1>1, FindConcat
<1>3. Len(s) + 1 # 0
  BY <1>1, TextAtoms
<1> HIDE DEF t
<1>4. Split[t] = <<s>> \o Split[u]
  BY <1>2, <1>3, SplitRule
<1> QED
  BY <1>2, <1>4 DEF t

\* Parts with slashes before them, the first and the others.
LEMMA SlashedHead ==
  ASSUME NEW p \in Seq(Texts), NEW x \in Texts
  PROVE  Slashed(p) \in Texts /\ Slashed(<<x>> \o p) = <<"/">> \o (x \o Slashed(p))
<1> DEFINE c == [y \in Texts |-> <<"/">> \o y]
           m == Mapped(c, p)
           q == <<x>> \o p
<1>1. \A y \in Texts : <<"/">> \o y \in Texts
  BY TextAtoms, AtomAssumption
<1>2. c \in [Texts -> Texts] /\ c[x] = <<"/">> \o x
  BY <1>1
<1>3. \A i \in DOMAIN p : p[i] \in Texts
  OBVIOUS
<1>4. q \in Seq(Texts) /\ \A i \in DOMAIN q : q[i] \in Texts
  OBVIOUS
<1> HIDE DEF q
<1>5. Slashed(p) = FlattenSeq(m)
  <2>1. m = [i \in DOMAIN p |-> <<"/">> \o p[i]]
    BY <1>3 DEF Mapped
  <2> QED BY <2>1 DEF Slashed
<1>6. Slashed(q) = FlattenSeq(Mapped(c, q))
  <2>1. Mapped(c, q) = [i \in DOMAIN q |-> <<"/">> \o q[i]]
    BY <1>4 DEF Mapped
  <2> QED BY <2>1 DEF Slashed
<1> HIDE DEF c
<1>7. m \in Seq(Texts) /\ c[x] \in Texts /\ Mapped(c, q) = <<c[x]>> \o m
  <2>1. c \in [Texts -> Texts]
    BY <1>2
  <2>2. MapsFirst(c, x, p, Texts)
    BY <2>1, MapHead, Zenon
  <2> QED BY <2>2 DEF q, MapsFirst
<1> HIDE DEF m
<1>8. FlattenSeq(m) \in Texts /\ FlattenSeq(<<c[x]>> \o m) = c[x] \o FlattenSeq(m)
  BY <1>7, TextAtoms, FlattenAppend, FlattenHead
<1>9. (<<"/">> \o x) \o FlattenSeq(m) = <<"/">> \o (x \o FlattenSeq(m))
  BY <1>8, TextAtoms, AtomAssumption, ConcatAssociative
<1> QED
  BY <1>2, <1>5, <1>6, <1>7, <1>8, <1>9 DEF q

\* The text of parts.
LEMMA SlashedText == ASSUME NEW p \in Seq(Texts) PROVE Slashed(p) \in Texts
<1>1. <<>> \in Texts
  BY TextAtoms
<1> QED
  BY <1>1, SlashedHead

\* No parts.
LEMMA SlashedNone == Slashed(<<>>) = <<>>
  BY DEF Slashed, FlattenSeq

\* Parts without slashes are found again.
LEMMA SplitSlashed ==
  ASSUME NEW p \in Seq(Plain), NEW s \in Plain
  PROVE  s \o Slashed(p) \in Texts /\ Split[s \o Slashed(p)] = <<s>> \o p
<1> DEFINE P == {q \in Seq(Plain) : \A x \in Plain : Split[x \o Slashed(q)] = <<x>> \o q}
<1>1. Plain \subseteq Texts /\ Seq(Plain) \subseteq Seq(Texts)
  BY DEF Plain
<1>2. <<>> \in P
  <2> SUFFICES ASSUME NEW x \in Plain PROVE Split[x \o Slashed(<<>>)] = <<x>> \o <<>>
    OBVIOUS
  <2>1. x \o <<>> = x /\ <<x>> \o <<>> = <<x>>
    BY <1>1, TextAtoms
  <2> QED BY <2>1, SlashedNone, SplitPart
<1>3. ASSUME NEW x \in Plain, NEW q \in P PROVE <<x>> \o q \in P
  <2>1. q \in Seq(Plain) /\ q \in Seq(Texts) /\ x \in Texts /\ <<x>> \o q \in Seq(Plain)
    BY <1>1
  <2> SUFFICES ASSUME NEW y \in Plain PROVE Split[y \o Slashed(<<x>> \o q)] = <<y>> \o (<<x>> \o q)
    BY <2>1
  <2>2. Slashed(q) \in Texts /\ Slashed(<<x>> \o q) = <<"/">> \o (x \o Slashed(q))
    BY <2>1, SlashedHead
  <2>3. x \o Slashed(q) \in Texts
    BY <2>1, <2>2, TextAtoms
  <2>4. Split[y \o (<<"/">> \o (x \o Slashed(q)))] = <<y>> \o Split[x \o Slashed(q)]
    BY <2>3, SplitSlash
  <2>5. Split[x \o Slashed(q)] = <<x>> \o q
    BY <1>3
  <2> QED BY <2>2, <2>4, <2>5
<1> HIDE DEF P
<1>4. P = Seq(Plain)
  <2>1. P \in SUBSET Seq(Plain)
    BY DEF P
  <2> QED BY <1>2, <1>3, <2>1, HeadInduction
<1>5. Split[s \o Slashed(p)] = <<s>> \o p
  BY <1>4 DEF P
<1>6. Slashed(p) \in Texts
  BY <1>1, SlashedHead, TextAtoms
<1>7. s \o Slashed(p) \in Texts
  BY <1>1, <1>6, TextAtoms
<1> QED
  BY <1>5, <1>7

-----------------------------------------------------------------------------
(***************************************************************************)
(* Escapes.                                                                *)
(***************************************************************************)

ReplacesFirst(a, t, x, by) ==
  /\ Replace(t, x, by) \in Texts
  /\ Replace(<<a>> \o t, x, by) = (IF a = x THEN by ELSE <<a>>) \o Replace(t, x, by)

\* Replacing a character, in the first place and in the others.
LEMMA ReplaceHead ==
  ASSUME NEW t \in Texts, NEW a \in Atom, NEW x, NEW by \in Texts
  PROVE  ReplacesFirst(a, t, x, by)
<1> DEFINE c == [b \in Atom |-> IF b = x THEN by ELSE <<b>>]
           m == Mapped(c, t)
           u == <<a>> \o t
<1>1. \A b \in Atom : <<b>> \in Texts
  BY TextAtoms
<1>2. c \in [Atom -> Texts] /\ c[a] = IF a = x THEN by ELSE <<a>>
  BY <1>1
<1>3. t \in Seq(Atom) /\ \A i \in DOMAIN t : t[i] \in Atom
  BY TextAtoms
<1>4. \A i \in DOMAIN u : u[i] \in Atom
  BY <1>3
<1> HIDE DEF u
<1>5. Replace(t, x, by) = FlattenSeq(m)
  <2>1. m = [i \in DOMAIN t |-> IF t[i] = x THEN by ELSE <<t[i]>>]
    BY <1>3 DEF Mapped
  <2> QED BY <2>1 DEF Replace
<1>6. Replace(u, x, by) = FlattenSeq(Mapped(c, u))
  <2>1. Mapped(c, u) = [i \in DOMAIN u |-> IF u[i] = x THEN by ELSE <<u[i]>>]
    BY <1>4 DEF Mapped
  <2> QED BY <2>1 DEF Replace
<1> HIDE DEF c
<1>7. m \in Seq(Texts) /\ c[a] \in Texts /\ Mapped(c, u) = <<c[a]>> \o m
  <2>1. c \in [Atom -> Texts] /\ t \in Seq(Atom)
    BY <1>2, <1>3
  <2>2. MapsFirst(c, a, t, Texts)
    BY <2>1, MapHead, Zenon
  <2> QED BY <2>2 DEF u, MapsFirst
<1> HIDE DEF m
<1>8. FlattenSeq(m) \in Texts /\ FlattenSeq(<<c[a]>> \o m) = c[a] \o FlattenSeq(m)
  BY <1>7, TextAtoms, FlattenAppend, FlattenHead
<1> QED
  BY <1>2, <1>5, <1>6, <1>7, <1>8 DEF u, ReplacesFirst

\* The text without characters.
LEMMA ReplaceNone == \A x, by : Replace(<<>>, x, by) = <<>>
  BY DEF Replace, FlattenSeq

\* How a character of a token is written in a pointer.
Escaping(a) == IF a = "~" THEN <<"~", "0">> ELSE IF a = "/" THEN <<"~", "1">> ELSE <<a>>

\* Two characters and a text.
IsPair(a, b, t) ==
  /\ <<a>> \in Texts /\ <<b>> \in Texts /\ <<a, b>> \in Texts /\ <<b>> \o t \in Texts
  /\ <<a>> \o (<<b>> \o t) \in Texts /\ <<a, b>> \o t = <<a>> \o (<<b>> \o t)
LEMMA PairOfText == ASSUME NEW a \in Atom, NEW b \in Atom, NEW t \in Texts PROVE IsPair(a, b, t)
<1>1. t \in Seq(Atom) /\ <<a>> \in Seq(Atom) /\ <<b>> \in Seq(Atom) /\ <<a, b>> \in Seq(Atom)
  BY TextAtoms
<1>2. <<a, b>> = <<a>> \o <<b>>
  <2> DEFINE u == <<a>>
             v == <<b>>
             w == <<a, b>>
  <2>1. u \in Seq(Atom) /\ v \in Seq(Atom) /\ w \in Seq(Atom)
    BY <1>1
  <2>2. Len(u) = 1 /\ Len(v) = 1 /\ Len(w) = 2 /\ u[1] = a /\ v[1] = b /\ w[1] = a /\ w[2] = b
    OBVIOUS
  <2> HIDE DEF u, v, w
  <2>3. u \o v \in Seq(Atom) /\ Len(u \o v) = 2 /\ (u \o v)[1] = a /\ (u \o v)[2] = b
    BY <2>1, <2>2, ConcatProperties
  <2>4. Len(w) = Len(u \o v) /\ \A i \in 1..Len(w) : w[i] = (u \o v)[i]
    BY <2>2, <2>3
  <2>5. w = u \o v
    BY <2>1, <2>3, <2>4, SeqEqual
  <2> QED BY <2>5 DEF u, v, w
<1>3. (<<a>> \o <<b>>) \o t = <<a>> \o (<<b>> \o t)
  BY <1>1, ConcatAssociative
<1>4. <<b>> \o t \in Seq(Atom)
  BY <1>1
<1>5. <<a>> \o (<<b>> \o t) \in Seq(Atom)
  BY <1>1, <1>4
<1> QED
  BY <1>1, <1>2, <1>3, <1>4, <1>5, TextAtoms DEF IsPair

\* Escaping a token, the first character and the others.
LEMMA EscapedHead ==
  ASSUME NEW t \in Texts, NEW a \in Atom
  PROVE  EscapedToken(t) \in Texts /\ EscapedToken(<<a>> \o t) = Escaping(a) \o EscapedToken(t)
<1> DEFINE zero == <<"~", "0">>
           one == <<"~", "1">>
           r == Replace(t, "~", zero)
           e == Replace(r, "/", one)
<1>1. zero \in Texts /\ one \in Texts /\ "~" \in Atom /\ "0" \in Atom /\ "1" \in Atom
  BY AtomAssumption, TextAtoms
<1> HIDE DEF zero, one
<1>2. ReplacesFirst(a, t, "~", zero)
  BY <1>1, ReplaceHead, Zenon
<1>3. r \in Texts /\ Replace(<<a>> \o t, "~", zero) = (IF a = "~" THEN zero ELSE <<a>>) \o r
  BY <1>2 DEF ReplacesFirst
<1>4. e = EscapedToken(t)
      /\ EscapedToken(<<a>> \o t) = Replace((IF a = "~" THEN zero ELSE <<a>>) \o r, "/", one)
  BY <1>3 DEF EscapedToken, zero, one
<1> HIDE DEF r
<1>5. ReplacesFirst(a, r, "/", one) /\ ReplacesFirst("0", r, "/", one)
  BY <1>1, <1>3, ReplaceHead, Zenon
<1>6. e \in Texts
  BY <1>5 DEF ReplacesFirst
<1>7. CASE a = "~"
  <2>1. zero \o r = <<"~">> \o (<<"0">> \o r) /\ <<"0">> \o r \in Texts
    <3>1. IsPair("~", "0", r)
      BY <1>1, <1>3, PairOfText, Zenon
    <3> QED BY <3>1 DEF IsPair, zero
  <2>2. Replace(<<"0">> \o r, "/", one) = <<"0">> \o e
    BY <1>5 DEF ReplacesFirst
  <2>3. ReplacesFirst("~", <<"0">> \o r, "/", one)
    BY <1>1, <2>1, ReplaceHead, Zenon
  <2>4. Replace(<<"~">> \o (<<"0">> \o r), "/", one) = <<"~">> \o (<<"0">> \o e)
    BY <2>2, <2>3 DEF ReplacesFirst
  <2> HIDE DEF e
  <2>5. zero \o e = <<"~">> \o (<<"0">> \o e)
    <3>1. IsPair("~", "0", e)
      BY <1>1, <1>6, PairOfText, Zenon
    <3> QED BY <3>1 DEF IsPair, zero
  <2> QED BY <1>4, <1>6, <1>7, <2>1, <2>4, <2>5 DEF Escaping, zero
<1>8. CASE a # "~"
  <2>1. Replace(<<a>> \o r, "/", one) = (IF a = "/" THEN one ELSE <<a>>) \o e
    BY <1>5 DEF ReplacesFirst
  <2> QED BY <1>4, <1>6, <1>8, <2>1 DEF Escaping, one
<1> QED
  BY <1>7, <1>8

\* Escaping no text.
LEMMA EscapedNone == EscapedToken(<<>>) = <<>>
  BY ReplaceNone DEF EscapedToken

IsUnescaping(f) ==
  f = [part \in Texts |->
         CASE part = <<>> -> <<>>
           [] part # <<>> /\ Head(part) = "~" ->
                <<IF part[2] = "0" THEN "~" ELSE "/">> \o f[After(part, 2)]
           [] OTHER -> <<Head(part)>> \o f[Tail(part)]]

\* The equation of UnescapedToken has a solution.
LEMMA UnescapedRule ==
  UnescapedToken \in [Texts -> Texts] /\ IsUnescaping(UnescapedToken)
<1> DEFINE Tilde(t) == Head(t) = "~"
           Stop == {t \in Texts : t = <<>>}
           size == [t \in Texts |-> Len(t)]
           base == [t \in Texts |-> <<>>]
           pre == [t \in Texts |->
                     IF t \in Stop THEN <<>>
                     ELSE IF Tilde(t) THEN <<IF t[2] = "0" THEN "~" ELSE "/">> ELSE <<Head(t)>>]
           rest == [t \in Texts |-> IF Tilde(t) THEN After(t, 2) ELSE Tail(t)]
<1>1. ASSUME NEW t \in Texts
      PROVE  /\ Len(t) \in Nat
             /\ t # <<>> => /\ Head(t) \in Atom /\ Tail(t) \in Texts /\ Len(Tail(t)) < Len(t)
                            /\ After(t, 2) \in Texts /\ Len(After(t, 2)) < Len(t)
  <2>1. t \in Seq(Atom) /\ Len(t) \in Nat
    BY TextAtoms
  <2>2. t # <<>> => /\ Head(t) \in Atom /\ Tail(t) \in Seq(Atom) /\ Len(Tail(t)) < Len(t)
    BY <2>1
  <2>3. t # <<>> => SubSeq(t, 2 + 1, Len(t)) \in Seq(Atom) /\ Len(SubSeq(t, 2 + 1, Len(t))) < Len(t)
    BY <2>1
  <2> QED BY <2>1, <2>2, <2>3, TextAtoms DEF After
<1>2. <<>> \in Texts /\ <<"~">> \in Texts /\ <<"/">> \in Texts /\ \A a \in Atom : <<a>> \in Texts
  BY AtomAssumption, TextAtoms
<1> HIDE DEF Tilde
<1>3. size \in [Texts -> Nat] /\ base \in [Texts -> Texts]
      /\ Shrinks(Texts, Stop, rest, size)
  BY <1>1, <1>2 DEF Shrinks
<1>4. pre \in [Texts -> Texts]
  <2> SUFFICES ASSUME NEW t \in Texts, t # <<>> PROVE pre[t] \in Texts
    BY <1>2
  <2>1. CASE Tilde(t)
    BY <1>2, <2>1
  <2>2. CASE ~Tilde(t)
    BY <1>1, <1>2, <2>2
  <2> QED BY <2>1, <2>2
<1>5. \A f : Unrolls(f, Texts, Stop, base, pre, rest) <=> IsUnescaping(f)
  <2> SUFFICES ASSUME NEW f
               PROVE  [t \in Texts |-> IF t \in Stop THEN base[t] ELSE pre[t] \o f[rest[t]]]
                      = [t \in Texts |->
                           CASE t = <<>> -> <<>>
                             [] t # <<>> /\ Tilde(t) ->
                                  <<IF t[2] = "0" THEN "~" ELSE "/">> \o f[After(t, 2)]
                             [] OTHER -> <<Head(t)>> \o f[Tail(t)]]
    BY DEF Unrolls, IsUnescaping, Tilde
  <2> SUFFICES ASSUME NEW t \in Texts
               PROVE  (IF t \in Stop THEN base[t] ELSE pre[t] \o f[rest[t]])
                      = CASE t = <<>> -> <<>>
                          [] t # <<>> /\ Tilde(t) ->
                               <<IF t[2] = "0" THEN "~" ELSE "/">> \o f[After(t, 2)]
                          [] OTHER -> <<Head(t)>> \o f[Tail(t)]
    OBVIOUS
  <2>1. CASE t = <<>>
    BY <2>1
  <2>2. CASE t # <<>> /\ Tilde(t)
    BY <2>2
  <2>3. CASE t # <<>> /\ ~Tilde(t)
    BY <2>3
  <2> QED BY <2>1, <2>2, <2>3
<1>6. (\E f : IsUnescaping(f)) /\ \A f : IsUnescaping(f) => f \in [Texts -> Texts]
  <2> HIDE DEF Stop, size, base, pre, rest
  <2>0. base \in [Texts -> Seq(Atom)] /\ pre \in [Texts -> Seq(Atom)]
    BY <1>3, <1>4, TextAtoms
  <2>1. HasUnrolling(Texts, Seq(Atom), Stop, base, pre, rest)
    BY <1>3, <2>0, Unrolled, Zenon
  <2> QED BY <1>5, <2>1, TextAtoms DEF HasUnrolling
<1>7. UnescapedToken = CHOOSE f : IsUnescaping(f)
  BY DEF UnescapedToken, IsUnescaping
<1> QED
  BY <1>6, <1>7

\* The first of the characters, and the others.
IsFirst(a, t) ==
  <<a>> \o t \in Texts /\ <<a>> \o t # <<>> /\ Head(<<a>> \o t) = a /\ Tail(<<a>> \o t) = t
LEMMA FirstOf == ASSUME NEW a \in Atom, NEW t \in Texts PROVE IsFirst(a, t)
<1>1. t \in Seq(Atom)
  BY TextAtoms
<1>2. <<a>> \o t \in Seq(Atom) /\ <<a>> \o t # <<>> /\ Head(<<a>> \o t) = a /\ Tail(<<a>> \o t) = t
  BY <1>1
<1> QED
  BY <1>2, TextAtoms DEF IsFirst

\* What follows the first two.
AreFirst(a, b, t) ==
  LET u == <<a>> \o (<<b>> \o t)
  IN u \in Texts /\ u # <<>> /\ Head(u) = a /\ u[1] = a /\ u[2] = b /\ After(u, 2) = t /\ Len(u) = Len(t) + 2
LEMMA FirstTwoOf == ASSUME NEW a \in Atom, NEW b \in Atom, NEW t \in Texts PROVE AreFirst(a, b, t)
<1> DEFINE v == <<b>> \o t
           u == <<a>> \o v
<1>1. t \in Seq(Atom) /\ Len(t) \in Nat
  BY TextAtoms
<1>2. v \in Seq(Atom) /\ Len(v) = Len(t) + 1 /\ v[1] = b /\ SubSeq(v, 2, Len(v)) = t
  BY <1>1
<1> HIDE DEF v
<1>3. u \in Seq(Atom) /\ u # <<>> /\ Len(u) = Len(v) + 1 /\ Head(u) = a /\ u[1] = a /\ u[2] = v[1]
      /\ SubSeq(u, 3, Len(u)) = SubSeq(v, 2, Len(v))
  BY <1>1, <1>2
<1> QED
  BY <1>1, <1>2, <1>3, TextAtoms DEF AreFirst, After, u, v

\* Reading a pointer: a character, and an escape.
LEMMA UnescapedHead ==
  /\ UnescapedToken[<<>>] = <<>>
  /\ \A a \in Atom : \A t \in Texts : a # "~" => UnescapedToken[<<a>> \o t] = <<a>> \o UnescapedToken[t]
  /\ \A b \in Atom : \A t \in Texts :
       UnescapedToken[<<"~">> \o (<<b>> \o t)] = <<IF b = "0" THEN "~" ELSE "/">> \o UnescapedToken[t]
<1>1. \A part \in Texts :
        UnescapedToken[part] =
          CASE part = <<>> -> <<>>
            [] part # <<>> /\ Head(part) = "~" ->
                 <<IF part[2] = "0" THEN "~" ELSE "/">> \o UnescapedToken[After(part, 2)]
            [] OTHER -> <<Head(part)>> \o UnescapedToken[Tail(part)]
  BY UnescapedRule DEF IsUnescaping
<1>2. UnescapedToken[<<>>] = <<>>
  <2>1. <<>> \in Texts
    BY TextAtoms
  <2> QED BY <1>1, <2>1
<1>3. ASSUME NEW a \in Atom, NEW t \in Texts, a # "~"
      PROVE  UnescapedToken[<<a>> \o t] = <<a>> \o UnescapedToken[t]
  <2> DEFINE u == <<a>> \o t
  <2>1. u \in Texts /\ u # <<>> /\ Head(u) = a /\ Tail(u) = t
    <3>1. IsFirst(a, t)
      BY FirstOf, Zenon
    <3> QED BY <3>1 DEF IsFirst
  <2> HIDE DEF u
  <2>2. UnescapedToken[u] = <<a>> \o UnescapedToken[t]
    BY <1>1, <1>3, <2>1
  <2> QED BY <2>2 DEF u
<1>4. ASSUME NEW b \in Atom, NEW t \in Texts
      PROVE  UnescapedToken[<<"~">> \o (<<b>> \o t)] = <<IF b = "0" THEN "~" ELSE "/">> \o UnescapedToken[t]
  <2> DEFINE u == <<"~">> \o (<<b>> \o t)
  <2>1. u \in Texts /\ u # <<>> /\ Head(u) = "~" /\ u[2] = b /\ After(u, 2) = t
    <3>0. "~" \in Atom
      BY AtomAssumption
    <3>1. AreFirst("~", b, t)
      BY <3>0, FirstTwoOf, Zenon
    <3> QED BY <3>1 DEF AreFirst
  <2> HIDE DEF u
  <2>2. UnescapedToken[u] = <<IF b = "0" THEN "~" ELSE "/">> \o UnescapedToken[t]
    BY <1>1, <2>1
  <2> QED BY <2>2 DEF u
<1> QED
  BY <1>2, <1>3, <1>4

\* The characters of two texts in a row.
AreJoined(s, t) == s \o t \in Texts /\ Range(s \o t) = Range(s) \cup Range(t)
LEMMA TextsJoined == ASSUME NEW s \in Texts, NEW t \in Texts PROVE AreJoined(s, t)
<1>1. s \in Seq(Atom) /\ t \in Seq(Atom)
  BY TextAtoms
<1>2. Sequence(s) /\ Sequence(t)
  BY <1>1, IsSequence
<1>3. Range(s \o t) = Range(s) \cup Range(t)
  BY <1>2, Joined
<1> QED
  BY <1>1, <1>3, TextAtoms DEF AreJoined

\* The text of one character.
LEMMA OneAtom == ASSUME NEW a \in Atom PROVE <<a>> \in Texts /\ Range(<<a>>) = {a}
  BY TextAtoms DEF Range

\* How an escaped character is written.
LEMMA EscapingText ==
  ASSUME NEW a \in Atom
  PROVE  /\ Escaping(a) \in Plain
         /\ \A t \in Texts :
              /\ UnescapedToken[Escaping(a) \o t] = <<a>> \o UnescapedToken[t]
              /\ IF a \in {"~", "/"}
                 THEN \E b \in {"0", "1"} : Escaping(a) \o t = <<"~">> \o (<<b>> \o t)
                 ELSE Escaping(a) \o t = <<a>> \o t
<1>1. "~" \in Atom /\ "0" \in Atom /\ "1" \in Atom
  BY AtomAssumption
<1>2. ASSUME NEW b \in {"0", "1"}
      PROVE  /\ <<"~", b>> \in Plain
             /\ \A t \in Texts : /\ <<"~", b>> \o t = <<"~">> \o (<<b>> \o t)
                                 /\ UnescapedToken[<<"~", b>> \o t] = <<IF b = "0" THEN "~" ELSE "/">> \o UnescapedToken[t]
  <2>1. b \in Atom
    BY <1>1
  <2>2. <<"~", b>> \in Texts
    BY <1>1, <2>1, TextAtoms
  <2>3. "/" \notin Range(<<"~", b>>)
    BY DEF Range
  <2>4. ASSUME NEW t \in Texts
        PROVE  /\ <<"~", b>> \o t = <<"~">> \o (<<b>> \o t)
               /\ UnescapedToken[<<"~", b>> \o t] = <<IF b = "0" THEN "~" ELSE "/">> \o UnescapedToken[t]
    <3>1. IsPair("~", b, t)
      BY <1>1, <2>1, PairOfText, Zenon
    <3>2. <<"~", b>> \o t = <<"~">> \o (<<b>> \o t)
      BY <3>1 DEF IsPair
    <3>3. UnescapedToken[<<"~">> \o (<<b>> \o t)] = <<IF b = "0" THEN "~" ELSE "/">> \o UnescapedToken[t]
      BY <2>1, UnescapedHead
    <3> QED BY <3>2, <3>3
  <2> QED BY <2>2, <2>3, <2>4 DEF Plain
<1>3. CASE a = "~"
  BY <1>2, <1>3 DEF Escaping
<1>4. CASE a = "/"
  BY <1>2, <1>4 DEF Escaping
<1>5. CASE a # "~" /\ a # "/"
  <2>1. Escaping(a) = <<a>> /\ <<a>> \in Plain
    BY <1>5, OneAtom DEF Escaping, Plain
  <2>2. \A t \in Texts : UnescapedToken[<<a>> \o t] = <<a>> \o UnescapedToken[t]
    BY <1>5, UnescapedHead
  <2> QED BY <1>5, <2>1, <2>2
<1> QED
  BY <1>3, <1>4, <1>5

\* A token is read back as it was before it was escaped.
LEMMA Unescaped ==
  ASSUME NEW k \in Texts PROVE EscapedToken(k) \in Plain /\ UnescapedToken[EscapedToken(k)] = k
<1> DEFINE P == {t \in Texts : EscapedToken(t) \in Plain /\ UnescapedToken[EscapedToken(t)] = t}
<1>1. <<>> \in P
  <2>1. <<>> \in Texts /\ "/" \notin Range(<<>>)
    BY TextAtoms DEF Range
  <2> QED BY <2>1, EscapedNone, UnescapedHead DEF Plain
<1>2. ASSUME NEW a \in Atom, NEW t \in P PROVE <<a>> \o t \in P
  <2>1. t \in Texts /\ EscapedToken(t) \in Plain /\ UnescapedToken[EscapedToken(t)] = t
    OBVIOUS
  <2>2. EscapedToken(<<a>> \o t) = Escaping(a) \o EscapedToken(t)
    BY <2>1, EscapedHead
  <2>3. EscapedToken(t) \in Texts /\ Escaping(a) \in Plain /\ Escaping(a) \in Texts
    BY <2>1, EscapingText DEF Plain
  <2>4. UnescapedToken[Escaping(a) \o EscapedToken(t)] = <<a>> \o t
    BY <2>1, <2>3, EscapingText
  <2>5. AreJoined(Escaping(a), EscapedToken(t))
    BY <2>3, TextsJoined, Zenon
  <2>6. Escaping(a) \o EscapedToken(t) \in Plain
    BY <2>1, <2>3, <2>5 DEF AreJoined, Plain
  <2>7. <<a>> \o t \in Texts
    BY <2>1, TextAtoms
  <2> QED BY <2>2, <2>4, <2>6, <2>7
<1> HIDE DEF P
<1>3. P = Texts
  <2>1. P \in SUBSET Seq(Atom)
    BY TextAtoms DEF P
  <2>2. P = Seq(Atom)
    BY <1>1, <1>2, <2>1, HeadInduction
  <2> QED BY <2>2, TextAtoms
<1> QED
  BY <1>3 DEF P

\* A pointer goes on after a character, and after an escape.
LEMMA IsPointerHead ==
  ASSUME NEW t \in Texts, IsPointer(t)
  PROVE  /\ \A a \in Atom : a # "~" => IsPointer(<<a>> \o t)
         /\ \A b \in {"0", "1"} : IsPointer(<<"~">> \o (<<b>> \o t))
<1>0. t \in Seq(Atom) /\ Len(t) \in Nat /\ DOMAIN t = 1..Len(t)
  BY TextAtoms
<1>1. ASSUME NEW a \in Atom, NEW u \in Texts, a # "~" \/ (u # <<>> /\ Head(u) \in {"0", "1"}), IsPointer(u)
      PROVE  IsPointer(<<a>> \o u)
  <2> DEFINE v == <<a>> \o u
  <2>1. u \in Seq(Atom) /\ Len(u) \in Nat /\ DOMAIN u = 1..Len(u) /\ (u # <<>> => Head(u) = u[1] /\ 1 <= Len(u))
    BY TextAtoms
  <2>2. DOMAIN v = 1..(Len(u) + 1) /\ Len(v) = Len(u) + 1 /\ v[1] = a /\ \A i \in 2..(Len(u) + 1) : v[i] = u[i - 1]
    BY <2>1
  <2> HIDE DEF v
  <2>3. ASSUME NEW i \in DOMAIN v, v[i] = "~" PROVE i < Len(v) /\ v[i + 1] \in {"0", "1"}
    <3>1. CASE i = 1
      <4>1. u # <<>> /\ u[1] \in {"0", "1"} /\ 1 <= Len(u)
        BY <1>1, <2>1, <2>2, <2>3, <3>1
      <4>2. 2 \in 2..(Len(u) + 1) /\ 2 - 1 = 1
        BY <2>1, <4>1
      <4>3. v[2] = u[1]
        BY <2>2, <4>2
      <4> QED BY <2>1, <2>2, <3>1, <4>1, <4>3
    <3>2. CASE i # 1
      <4>1. i - 1 \in DOMAIN u /\ i \in 2..(Len(u) + 1) /\ u[i - 1] = "~"
        BY <2>1, <2>2, <2>3, <3>2
      <4>2. i - 1 < Len(u) /\ u[(i - 1) + 1] \in {"0", "1"}
        BY <1>1, <4>1 DEF IsPointer
      <4>3. (i - 1) + 1 = i /\ i + 1 \in 2..(Len(u) + 1) /\ (i + 1) - 1 = i /\ i < Len(v)
        BY <2>1, <2>2, <4>1, <4>2
      <4> QED BY <2>2, <4>2, <4>3
    <3> QED BY <3>1, <3>2
  <2>4. IsPointer(v)
    BY <2>3 DEF IsPointer
  <2> QED BY <2>4 DEF v
<1>2. \A a \in Atom : a # "~" => IsPointer(<<a>> \o t)
  BY <1>1
<1>3. ASSUME NEW b \in {"0", "1"} PROVE IsPointer(<<"~">> \o (<<b>> \o t))
  <2>1. "~" \in Atom /\ b \in Atom /\ b # "~"
    BY AtomAssumption
  <2>2. IsFirst(b, t)
    BY <2>1, FirstOf, Zenon
  <2>3. <<b>> \o t \in Texts /\ <<b>> \o t # <<>> /\ Head(<<b>> \o t) = b
    BY <2>2 DEF IsFirst
  <2> QED BY <1>1, <1>2, <2>1, <2>3
<1> QED
  BY <1>2, <1>3

\* Three texts in a row.
InARow(s, t, u) ==
  s \o t \in Texts /\ t \o u \in Texts /\ (s \o t) \o u = s \o (t \o u) /\ s \o (t \o u) \in Texts
LEMMA TextsInARow == ASSUME NEW s \in Texts, NEW t \in Texts, NEW u \in Texts PROVE InARow(s, t, u)
<1>1. s \in Seq(Atom) /\ t \in Seq(Atom) /\ u \in Seq(Atom)
  BY TextAtoms
<1>2. (s \o t) \o u = s \o (t \o u)
  BY <1>1, ConcatAssociative
<1>3. s \o t \in Seq(Atom) /\ t \o u \in Seq(Atom)
  BY <1>1
<1>4. s \o (t \o u) \in Seq(Atom)
  BY <1>1, <1>3
<1> QED
  BY <1>2, <1>3, <1>4, TextAtoms DEF InARow

\* An escaped token can stand in a pointer.
LEMMA IsPointerToken ==
  ASSUME NEW k \in Texts, NEW u \in Texts, IsPointer(u) PROVE IsPointer(EscapedToken(k) \o u)
<1> DEFINE P == {t \in Texts : IsPointer(EscapedToken(t) \o u)}
<1>1. <<>> \in P
  <2>1. <<>> \in Texts /\ <<>> \o u = u
    BY TextAtoms
  <2> QED BY <2>1, EscapedNone
<1>2. ASSUME NEW a \in Atom, NEW t \in P PROVE <<a>> \o t \in P
  <2>1. t \in Texts /\ IsPointer(EscapedToken(t) \o u)
    OBVIOUS
  <2>2. EscapedToken(t) \in Texts /\ EscapedToken(<<a>> \o t) = Escaping(a) \o EscapedToken(t)
    BY <2>1, EscapedHead
  <2>3. Escaping(a) \in Texts
    BY EscapingText DEF Plain
  <2>4. InARow(Escaping(a), EscapedToken(t), u)
    BY <2>2, <2>3, TextsInARow, Zenon
  <2> DEFINE v == EscapedToken(t) \o u
  <2>5. v \in Texts /\ EscapedToken(<<a>> \o t) \o u = Escaping(a) \o v /\ IsPointer(v)
    BY <2>1, <2>2, <2>4 DEF InARow
  <2> HIDE DEF v
  <2>6. IsPointer(Escaping(a) \o v)
    <3>1. CASE a \in {"~", "/"}
      BY <2>5, <3>1, EscapingText, IsPointerHead, ZenonT(30)
    <3>2. CASE a \notin {"~", "/"}
      BY <2>5, <3>2, EscapingText, IsPointerHead
    <3> QED BY <3>1, <3>2
  <2>7. <<a>> \o t \in Texts
    BY <2>1, TextAtoms
  <2> QED BY <2>5, <2>6, <2>7
<1> HIDE DEF P
<1>3. P = Texts
  <2>1. P \in SUBSET Seq(Atom)
    BY TextAtoms DEF P
  <2>2. P = Seq(Atom)
    BY <1>1, <1>2, <2>1, HeadInduction
  <2> QED BY <2>2, TextAtoms
<1> QED
  BY <1>3 DEF P

\* The text of a pointer, its first token and the others.
LEMMA PointerHead ==
  ASSUME NEW p \in Seq(Texts), NEW x \in Texts
  PROVE  PointerText(p) \in Texts /\ PointerText(<<x>> \o p) = <<"/">> \o (EscapedToken(x) \o PointerText(p))
<1> DEFINE c == [t \in Texts |-> EscapedToken(t)]
<1>1. \A t \in Texts : EscapedToken(t) \in Texts
  BY Unescaped DEF Plain
<1>2. c \in [Texts -> Texts] /\ c[x] = EscapedToken(x)
  BY <1>1
<1>3. ASSUME NEW q \in Seq(Texts) PROVE PointerText(q) = Slashed(Mapped(c, q))
  <2>1. \A i \in DOMAIN q : q[i] \in Texts
    OBVIOUS
  <2>2. Mapped(c, q) = [i \in DOMAIN q |-> EscapedToken(q[i])]
    BY <2>1 DEF Mapped
  <2> QED BY <2>2 DEF PointerText
<1> HIDE DEF c
<1>4. MapsFirst(c, x, p, Texts)
  <2>1. c \in [Texts -> Texts]
    BY <1>2
  <2> QED BY <2>1, MapHead, Zenon
<1>5. <<x>> \o p \in Seq(Texts)
  OBVIOUS
<1> DEFINE m == Mapped(c, p)
<1>6. m \in Seq(Texts) /\ Mapped(c, <<x>> \o p) = <<c[x]>> \o m
  BY <1>4 DEF MapsFirst
<1>7. PointerText(p) = Slashed(m) /\ PointerText(<<x>> \o p) = Slashed(<<c[x]>> \o m)
  BY <1>3, <1>5, <1>6
<1> HIDE DEF m
<1>8. Slashed(m) \in Texts /\ Slashed(<<c[x]>> \o m) = <<"/">> \o (c[x] \o Slashed(m))
  BY <1>2, <1>6, SlashedHead
<1> QED
  BY <1>2, <1>7, <1>8

\* No tokens.
LEMMA PointerNone == PointerText(<<>>) = <<>>
  BY DEF PointerText, Slashed, FlattenSeq

\* The text of a pointer is one.
LEMMA PointerTextIsPointer ==
  ASSUME NEW tokens \in Seq(Texts)
  PROVE  PointerText(tokens) \in Texts /\ IsPointer(PointerText(tokens))
<1> DEFINE P == {q \in Seq(Texts) : PointerText(q) \in Texts /\ IsPointer(PointerText(q))}
<1>1. <<>> \in P
  <2>1. <<>> \in Texts /\ IsPointer(<<>>) /\ <<>> \in Seq(Texts)
    BY TextAtoms DEF IsPointer
  <2> QED BY <2>1, PointerNone
<1>2. ASSUME NEW x \in Texts, NEW q \in P PROVE <<x>> \o q \in P
  <2>1. q \in Seq(Texts) /\ PointerText(q) \in Texts /\ IsPointer(PointerText(q)) /\ <<x>> \o q \in Seq(Texts)
    OBVIOUS
  <2>2. PointerText(<<x>> \o q) = <<"/">> \o (EscapedToken(x) \o PointerText(q))
    BY <2>1, PointerHead
  <2> DEFINE u == EscapedToken(x) \o PointerText(q)
  <2>3. IsPointer(u)
    BY <2>1, IsPointerToken
  <2>4. u \in Texts
    <3>1. EscapedToken(x) \in Texts
      BY Unescaped DEF Plain
    <3>2. AreJoined(EscapedToken(x), PointerText(q))
      BY <2>1, <3>1, TextsJoined, Zenon
    <3> QED BY <3>2 DEF AreJoined
  <2> HIDE DEF u
  <2>5. "/" \in Atom /\ "/" # "~"
    BY AtomAssumption
  <2>6. IsPointer(<<"/">> \o u)
    BY <2>3, <2>4, <2>5, IsPointerHead
  <2>7. <<"/">> \o u \in Texts
    BY <2>4, <2>5, TextAtoms
  <2> QED BY <2>1, <2>2, <2>6, <2>7 DEF u
<1> HIDE DEF P
<1>3. P = Seq(Texts)
  <2>1. P \in SUBSET Seq(Texts)
    BY DEF P
  <2> QED BY <1>1, <1>2, <2>1, HeadInduction
<1> QED
  BY <1>3 DEF P

\* The tokens of a pointer are read back from its text.
LEMMA TokensOfText ==
  ASSUME NEW tokens \in Seq(Texts) PROVE Tokens(PointerText(tokens)) = tokens
<1> DEFINE m == [i \in DOMAIN tokens |-> EscapedToken(tokens[i])]
<1>1. \A i \in DOMAIN tokens :
        tokens[i] \in Texts /\ EscapedToken(tokens[i]) \in Plain
        /\ UnescapedToken[EscapedToken(tokens[i])] = tokens[i]
  BY Unescaped
<1>2. m \in Seq(Plain) /\ DOMAIN m = DOMAIN tokens
  BY <1>1
<1>3. PointerText(tokens) = Slashed(m)
  BY DEF PointerText
<1>4. \A i \in DOMAIN m : UnescapedToken[m[i]] = tokens[i]
  BY <1>1
<1> HIDE DEF m
<1>5. <<>> \in Plain /\ <<>> \in Texts
  BY TextAtoms DEF Plain, Range
<1>6. Slashed(m) \in Texts /\ Split[<<>> \o Slashed(m)] = <<(<<>>)>> \o m
  <2>1. m \in Seq(Texts)
    BY <1>2 DEF Plain
  <2> QED BY <1>2, <1>5, <2>1, SplitSlashed, SlashedHead
<1>7. <<>> \o Slashed(m) = Slashed(m)
  BY <1>6, TextAtoms
<1>8. Tail(Split[Slashed(m)]) = m
  BY <1>2, <1>5, <1>6, <1>7
<1>9. Tokens(Slashed(m)) = [i \in DOMAIN m |-> UnescapedToken[m[i]]]
  BY <1>8 DEF Tokens
<1>10. tokens = [i \in DOMAIN tokens |-> tokens[i]]
  OBVIOUS
<1>11. Tokens(Slashed(m)) = [i \in DOMAIN tokens |-> tokens[i]]
  BY <1>2, <1>4, <1>9
<1> QED
  BY <1>3, <1>10, <1>11

-----------------------------------------------------------------------------
(***************************************************************************)
(* Percent-encoding.                                                       *)
(***************************************************************************)
IsDecoding(f) ==
  f = [text \in Texts |->
         CASE text = <<>> -> <<>>
           [] IsEscape(text, 1) -> <<Byte(text[2], text[3])>> \o f[After(text, 3)]
           [] OTHER -> <<Head(text)>> \o f[Tail(text)]]

\* What an escape stands for.
LEMMA Bytes ==
  /\ Byte("2", "5") = "%" /\ Byte("7", "E") = "~"
  /\ \A high, low : Byte(high, low) \in Atom
<1> DEFINE Is(e, high, low) == e \in Encoded /\ e.hex = <<high, low>>
<1>1. \A e \in Encoded : \/ e.hex = <<"2", "5">> /\ e.atom = "%"
                         \/ (e.hex = <<"7", "E">> \/ e.hex = <<"7", "e">>) /\ e.atom = "~"
                         \/ (e.hex = <<"2", "F">> \/ e.hex = <<"2", "f">>) /\ e.atom = "/"
  BY DEF Encoded
<1>2. [hex |-> <<"2", "5">>, atom |-> "%"] \in Encoded /\ [hex |-> <<"7", "E">>, atom |-> "~"] \in Encoded
  BY DEF Encoded
<1>3. \E e \in Encoded : e.hex = <<"2", "5">>
  BY <1>2
<1>4. \E e \in Encoded : e.hex = <<"7", "E">>
  BY <1>2
<1>5. ASSUME NEW e \in Encoded, e.hex = <<"2", "5">> PROVE e.atom = "%"
  <2>1. e.hex[1] = "2" /\ e.hex[2] = "5"
    BY <1>5
  <2>2. ~(e.hex = <<"7", "E">>) /\ ~(e.hex = <<"7", "e">>) /\ ~(e.hex = <<"2", "F">>) /\ ~(e.hex = <<"2", "f">>)
    BY <2>1
  <2> QED BY <1>1, <2>2
<1>6. ASSUME NEW e \in Encoded, e.hex = <<"7", "E">> PROVE e.atom = "~"
  <2>1. e.hex[1] = "7"
    BY <1>6
  <2>2. ~(e.hex = <<"2", "5">>) /\ ~(e.hex = <<"2", "F">>) /\ ~(e.hex = <<"2", "f">>)
    BY <2>1
  <2> QED BY <1>1, <2>2
<1>7. Byte("2", "5") = "%" /\ Byte("7", "E") = "~"
  BY <1>3, <1>4, <1>5, <1>6 DEF Byte
<1>8. ASSUME NEW high, NEW low PROVE Byte(high, low) \in Atom
  <2>1. CASE \E e \in Encoded : e.hex = <<high, low>>
    <3> DEFINE d == CHOOSE e \in Encoded : e.hex = <<high, low>>
    <3>1. d \in Encoded /\ Byte(high, low) = d.atom
      BY <2>1 DEF Byte
    <3>2. d.atom \in {"%", "~", "/"}
      BY <1>1, <3>1
    <3> QED BY <3>1, <3>2, AtomAssumption
  <2>2. CASE ~ \E e \in Encoded : e.hex = <<high, low>>
    BY <2>2, AtomAssumption DEF Byte
  <2> QED BY <2>1, <2>2
<1> QED
  BY <1>7, <1>8

\* The equation of DecodedOnce has a solution.
LEMMA DecodedRule == DecodedOnce \in [Texts -> Texts] /\ IsDecoding(DecodedOnce)
<1> DEFINE Escape(t) == IsEscape(t, 1)
           Stop == {t \in Texts : t = <<>>}
           size == [t \in Texts |-> Len(t)]
           base == [t \in Texts |-> <<>>]
           pre == [t \in Texts |->
                     IF t \in Stop THEN <<>> ELSE IF Escape(t) THEN <<Byte(t[2], t[3])>> ELSE <<Head(t)>>]
           rest == [t \in Texts |-> IF Escape(t) THEN After(t, 3) ELSE Tail(t)]
<1>1. ASSUME NEW t \in Texts
      PROVE  /\ Len(t) \in Nat
             /\ t # <<>> => /\ Head(t) \in Atom /\ Tail(t) \in Texts /\ Len(Tail(t)) < Len(t)
                            /\ After(t, 3) \in Texts /\ Len(After(t, 3)) < Len(t)
  <2>1. t \in Seq(Atom) /\ Len(t) \in Nat
    BY TextAtoms
  <2>2. t # <<>> => /\ Head(t) \in Atom /\ Tail(t) \in Seq(Atom) /\ Len(Tail(t)) < Len(t)
    BY <2>1
  <2>3. t # <<>> => SubSeq(t, 3 + 1, Len(t)) \in Seq(Atom) /\ Len(SubSeq(t, 3 + 1, Len(t))) < Len(t)
    BY <2>1
  <2> QED BY <2>1, <2>2, <2>3, TextAtoms DEF After
<1>2. <<>> \in Texts /\ \A a \in Atom : <<a>> \in Texts
  BY TextAtoms
<1>0. ~Escape(<<>>)
  BY DEF IsEscape
<1> HIDE DEF Escape
<1>3. size \in [Texts -> Nat] /\ base \in [Texts -> Texts] /\ Shrinks(Texts, Stop, rest, size)
  BY <1>1, <1>2 DEF Shrinks
<1>4. pre \in [Texts -> Texts]
  <2> SUFFICES ASSUME NEW t \in Texts, t # <<>> PROVE pre[t] \in Texts
    BY <1>2
  <2>1. CASE Escape(t)
    BY <1>2, <2>1, Bytes
  <2>2. CASE ~Escape(t)
    BY <1>1, <1>2, <2>2
  <2> QED BY <2>1, <2>2
<1>5. \A f : Unrolls(f, Texts, Stop, base, pre, rest) <=> IsDecoding(f)
  <2> SUFFICES ASSUME NEW f
               PROVE  [t \in Texts |-> IF t \in Stop THEN base[t] ELSE pre[t] \o f[rest[t]]]
                      = [t \in Texts |->
                           CASE t = <<>> -> <<>>
                             [] Escape(t) -> <<Byte(t[2], t[3])>> \o f[After(t, 3)]
                             [] OTHER -> <<Head(t)>> \o f[Tail(t)]]
    BY DEF Unrolls, IsDecoding, Escape
  <2> SUFFICES ASSUME NEW t \in Texts
               PROVE  (IF t \in Stop THEN base[t] ELSE pre[t] \o f[rest[t]])
                      = CASE t = <<>> -> <<>>
                          [] Escape(t) -> <<Byte(t[2], t[3])>> \o f[After(t, 3)]
                          [] OTHER -> <<Head(t)>> \o f[Tail(t)]
    OBVIOUS
  <2>1. CASE t = <<>>
    BY <1>0, <2>1
  <2>2. CASE t # <<>> /\ Escape(t)
    BY <2>2
  <2>3. CASE t # <<>> /\ ~Escape(t)
    BY <2>3
  <2> QED BY <2>1, <2>2, <2>3
<1>6. (\E f : IsDecoding(f)) /\ \A f : IsDecoding(f) => f \in [Texts -> Texts]
  <2> HIDE DEF Stop, size, base, pre, rest
  <2>0. base \in [Texts -> Seq(Atom)] /\ pre \in [Texts -> Seq(Atom)]
    BY <1>3, <1>4, TextAtoms
  <2>1. HasUnrolling(Texts, Seq(Atom), Stop, base, pre, rest)
    BY <1>3, <2>0, Unrolled, Zenon
  <2> QED BY <1>5, <2>1, TextAtoms DEF HasUnrolling
<1>7. DecodedOnce = CHOOSE f : IsDecoding(f)
  BY DEF DecodedOnce, IsDecoding
<1> QED
  BY <1>6, <1>7

\* Decoding a text, the first character and the others.
LEMMA DecodedHead ==
  /\ DecodedOnce[<<>>] = <<>>
  /\ \A a \in Atom : \A t \in Texts :
       ~IsEscape(<<a>> \o t, 1) => DecodedOnce[<<a>> \o t] = <<a>> \o DecodedOnce[t]
  /\ \A h \in Atom \cap HexDigit : \A l \in Atom \cap HexDigit : \A t \in Texts :
       DecodedOnce[<<"%">> \o (<<h>> \o (<<l>> \o t))] = <<Byte(h, l)>> \o DecodedOnce[t]
<1>1. \A t \in Texts :
        DecodedOnce[t] = CASE t = <<>> -> <<>>
                           [] IsEscape(t, 1) -> <<Byte(t[2], t[3])>> \o DecodedOnce[After(t, 3)]
                           [] OTHER -> <<Head(t)>> \o DecodedOnce[Tail(t)]
  BY DecodedRule DEF IsDecoding
<1>2. DecodedOnce[<<>>] = <<>>
  <2>1. <<>> \in Texts /\ ~IsEscape(<<>>, 1)
    BY TextAtoms DEF IsEscape
  <2> QED BY <1>1, <2>1
<1>3. ASSUME NEW a \in Atom, NEW t \in Texts, ~IsEscape(<<a>> \o t, 1)
      PROVE  DecodedOnce[<<a>> \o t] = <<a>> \o DecodedOnce[t]
  <2> DEFINE u == <<a>> \o t
  <2>1. u \in Texts /\ u # <<>> /\ Head(u) = a /\ Tail(u) = t /\ ~IsEscape(u, 1)
    <3>1. IsFirst(a, t)
      BY FirstOf, Zenon
    <3> QED BY <1>3, <3>1 DEF IsFirst
  <2> HIDE DEF u
  <2>2. DecodedOnce[u] = <<a>> \o DecodedOnce[t]
    BY <1>1, <2>1
  <2> QED BY <2>2 DEF u
<1>4. ASSUME NEW h \in Atom \cap HexDigit, NEW l \in Atom \cap HexDigit, NEW t \in Texts
      PROVE  DecodedOnce[<<"%">> \o (<<h>> \o (<<l>> \o t))] = <<Byte(h, l)>> \o DecodedOnce[t]
  <2> DEFINE v == <<h>> \o (<<l>> \o t)
             u == <<"%">> \o v
  <2>1. "%" \in Atom /\ h \in Atom /\ l \in Atom
    BY AtomAssumption
  <2>2. AreFirst(h, l, t)
    BY <2>1, FirstTwoOf, Zenon
  <2>3. v \in Seq(Atom) /\ Len(v) = Len(t) + 2 /\ v[1] = h /\ v[2] = l /\ SubSeq(v, 3, Len(v)) = t
        /\ Len(t) \in Nat
    BY <2>2, TextAtoms DEF AreFirst, After
  <2> HIDE DEF v
  <2>4. u \in Seq(Atom) /\ Len(u) = Len(v) + 1 /\ u # <<>> /\ u[1] = "%" /\ u[2] = v[1] /\ u[3] = v[2]
        /\ SubSeq(u, 4, Len(u)) = SubSeq(v, 3, Len(v)) /\ DOMAIN u = 1..Len(u)
    BY <2>1, <2>3
  <2> HIDE DEF u
  <2>5. u \in Texts /\ u # <<>> /\ IsEscape(u, 1) /\ u[2] = h /\ u[3] = l /\ After(u, 3) = t
    <3>1. 1 \in DOMAIN u /\ 1 + 2 <= Len(u) /\ u[1 + 1] \in HexDigit /\ u[1 + 2] \in HexDigit
      BY <2>3, <2>4
    <3>2. IsEscape(u, 1)
      BY <2>4, <3>1 DEF IsEscape
    <3>3. After(u, 3) = t
      <4>1. SubSeq(u, 3 + 1, Len(u)) = SubSeq(u, 4, Len(u))
        OBVIOUS
      <4> QED BY <2>3, <2>4, <4>1 DEF After
    <3> QED BY <2>3, <2>4, <3>2, <3>3, TextAtoms
  <2>6. DecodedOnce[u] = <<Byte(h, l)>> \o DecodedOnce[t]
    BY <1>1, <2>5
  <2> QED BY <2>6 DEF u, v
<1> QED
  BY <1>2, <1>3, <1>4

\* Three characters and a text.
IsTriple(a, b, c, t) ==
  LET u == <<a>> \o (<<b>> \o (<<c>> \o t))
  IN <<a, b, c>> \in Texts /\ u \in Texts /\ <<a, b, c>> \o t = u /\ <<b>> \o (<<c>> \o t) \in Texts
     /\ <<c>> \o t \in Texts
LEMMA TripleOfText ==
  ASSUME NEW a \in Atom, NEW b \in Atom, NEW c \in Atom, NEW t \in Texts PROVE IsTriple(a, b, c, t)
<1> DEFINE w == <<a, b, c>>
           v == <<c>> \o t
           u == <<b>> \o v
           s == <<a>> \o u
           r == w \o t
<1>1. t \in Seq(Atom) /\ w \in Seq(Atom) /\ Len(w) = 3 /\ w[1] = a /\ w[2] = b /\ w[3] = c /\ Len(t) \in Nat
  BY TextAtoms
<1>2. v \in Seq(Atom) /\ Len(v) = Len(t) + 1 /\ v[1] = c /\ \A i \in 1..Len(t) : v[i + 1] = t[i]
  BY <1>1
<1> HIDE DEF v, w
<1>3. u \in Seq(Atom) /\ Len(u) = Len(t) + 2 /\ u[1] = b /\ \A i \in 1..(Len(t) + 1) : u[i + 1] = v[i]
  BY <1>1, <1>2
<1> HIDE DEF u
<1>4. s \in Seq(Atom) /\ Len(s) = Len(t) + 3 /\ s[1] = a /\ \A i \in 1..(Len(t) + 2) : s[i + 1] = u[i]
  BY <1>1, <1>3
<1>5. r \in Seq(Atom) /\ Len(r) = Len(t) + 3
      /\ \A i \in 1..(Len(t) + 3) : r[i] = IF i <= 3 THEN w[i] ELSE t[i - 3]
  <2>0. t \in Seq(Atom) /\ w \in Seq(Atom)
    BY <1>1
  <2>1. r \in Seq(Atom) /\ Len(r) = Len(w) + Len(t)
        /\ \A i \in 1..(Len(w) + Len(t)) : r[i] = IF i <= Len(w) THEN w[i] ELSE t[i - Len(w)]
    BY <2>0, ConcatProperties
  <2> HIDE DEF r
  <2>2. Len(w) + Len(t) = Len(t) + 3 /\ Len(w) = 3
    BY <1>1
  <2> QED BY <2>1, <2>2
<1> HIDE DEF s, r
<1>6. ASSUME NEW i \in 1..(Len(t) + 3) PROVE r[i] = s[i]
  <2>1. CASE i \in 1..3
    <3>1. s[2] = u[1] /\ s[3] = u[2] /\ u[2] = v[1]
      <4>1. 1 \in 1..(Len(t) + 2) /\ 2 \in 1..(Len(t) + 2) /\ 1 \in 1..(Len(t) + 1) /\ 1 + 1 = 2 /\ 2 + 1 = 3
        BY <1>1
      <4> QED BY <1>3, <1>4, <4>1
    <3> QED BY <1>1, <1>2, <1>3, <1>4, <1>5, <2>1, <3>1
  <2>2. CASE i \notin 1..3
    <3>1. i - 1 \in 1..(Len(t) + 2) /\ i - 2 \in 1..(Len(t) + 1) /\ i - 3 \in 1..Len(t) /\ ~(i <= 3)
          /\ (i - 1) + 1 = i /\ (i - 2) + 1 = i - 1 /\ (i - 3) + 1 = i - 2
      BY <1>1, <2>2
    <3>2. s[i] = u[i - 1] /\ u[i - 1] = v[i - 2] /\ v[i - 2] = t[i - 3]
      <4>1. s[i] = u[i - 1]
        BY <1>4, <3>1
      <4>2. u[i - 1] = v[i - 2]
        BY <1>3, <3>1
      <4>3. v[i - 2] = t[i - 3]
        BY <1>2, <3>1
      <4> QED BY <4>1, <4>2, <4>3
    <3> QED BY <1>5, <3>1, <3>2
  <2> QED BY <2>1, <2>2
<1>7. r = s
  BY <1>4, <1>5, <1>6, SeqEqual
<1> QED
  BY <1>1, <1>2, <1>3, <1>4, <1>7, TextAtoms DEF IsTriple, r, s, u, v, w

\* How a careful writer writes a character.
Caring(a) == IF a = "%" THEN <<"%", "2", "5">> ELSE IF a = "~" THEN <<"%", "7", "E">> ELSE <<a>>

\* A careful text, the first character and the others.
LEMMA CarefulHead ==
  ASSUME NEW t \in Texts, NEW a \in Atom
  PROVE  Careful(t) \in Texts /\ Careful(<<a>> \o t) = Caring(a) \o Careful(t)
<1> DEFINE p == <<"%", "2", "5">>
           q == <<"%", "7", "E">>
           r == Replace(t, "%", p)
           e == Replace(r, "~", q)
<1>0. "%" \in Atom /\ "2" \in Atom /\ "5" \in Atom
  BY AtomAssumption
<1>1. p \in Texts /\ q \in Texts
  BY AtomAssumption, TextAtoms
<1> HIDE DEF p, q
<1>2. ReplacesFirst(a, t, "%", p)
  BY <1>1, ReplaceHead, Zenon
<1>3. r \in Texts /\ Replace(<<a>> \o t, "%", p) = (IF a = "%" THEN p ELSE <<a>>) \o r
  BY <1>2 DEF ReplacesFirst
<1>4. e = Careful(t) /\ Careful(<<a>> \o t) = Replace((IF a = "%" THEN p ELSE <<a>>) \o r, "~", q)
  BY <1>3 DEF Careful, p, q
<1> HIDE DEF r
<1>5. ReplacesFirst(a, r, "~", q) /\ ReplacesFirst("5", r, "~", q)
  BY <1>0, <1>1, <1>3, ReplaceHead, Zenon
<1>6. e \in Texts
  BY <1>5 DEF ReplacesFirst
<1>7. CASE a = "%"
  <2> DEFINE r5 == <<"5">> \o r
             r2 == <<"2">> \o r5
  <2>1. IsTriple("%", "2", "5", r)
    BY <1>0, <1>3, TripleOfText, Zenon
  <2>2. p \o r = <<"%">> \o r2 /\ r5 \in Texts /\ r2 \in Texts
    BY <2>1 DEF IsTriple, p
  <2>3. Replace(r5, "~", q) = <<"5">> \o e
    BY <1>5 DEF ReplacesFirst
  <2> HIDE DEF r5
  <2>4. ReplacesFirst("2", r5, "~", q)
    BY <1>0, <1>1, <2>2, ReplaceHead, Zenon
  <2>5. Replace(r2, "~", q) = <<"2">> \o (<<"5">> \o e)
    BY <2>3, <2>4 DEF ReplacesFirst
  <2> HIDE DEF r2
  <2>6. ReplacesFirst("%", r2, "~", q)
    BY <1>0, <1>1, <2>2, ReplaceHead, Zenon
  <2>7. Replace(<<"%">> \o r2, "~", q) = <<"%">> \o (<<"2">> \o (<<"5">> \o e))
    BY <2>5, <2>6 DEF ReplacesFirst
  <2> HIDE DEF e
  <2>8. IsTriple("%", "2", "5", e)
    BY <1>0, <1>6, TripleOfText, Zenon
  <2>9. p \o e = <<"%">> \o (<<"2">> \o (<<"5">> \o e))
    BY <2>8 DEF IsTriple, p
  <2>10. Caring(a) = p
    BY <1>7 DEF Caring, p
  <2> QED BY <1>4, <1>6, <1>7, <2>2, <2>7, <2>9, <2>10
<1>8. CASE a # "%"
  <2>1. Replace(<<a>> \o r, "~", q) = (IF a = "~" THEN q ELSE <<a>>) \o e
    BY <1>5 DEF ReplacesFirst
  <2>2. Caring(a) = IF a = "~" THEN q ELSE <<a>>
    BY <1>8 DEF Caring, q
  <2> QED BY <1>4, <1>6, <1>8, <2>1, <2>2
<1> QED
  BY <1>7, <1>8

\* An escape before a text is decoded.
LEMMA DecodedEscape ==
  ASSUME NEW h \in Atom \cap HexDigit, NEW l \in Atom \cap HexDigit, NEW u \in Texts
  PROVE  <<"%", h, l>> \o u \in Texts /\ DecodedOnce[<<"%", h, l>> \o u] = <<Byte(h, l)>> \o DecodedOnce[u]
<1>1. "%" \in Atom /\ h \in Atom /\ l \in Atom
  BY AtomAssumption
<1>2. IsTriple("%", h, l, u)
  BY <1>1, TripleOfText, Zenon
<1>3. <<"%", h, l>> \o u = <<"%">> \o (<<h>> \o (<<l>> \o u)) /\ <<"%", h, l>> \o u \in Texts
  BY <1>2 DEF IsTriple
<1>4. DecodedOnce[<<"%">> \o (<<h>> \o (<<l>> \o u))] = <<Byte(h, l)>> \o DecodedOnce[u]
  BY DecodedHead
<1> QED
  BY <1>3, <1>4

\* What a careful writer encodes is decoded.
LEMMA DecodedCareful == ASSUME NEW text \in Texts PROVE Careful(text) \in Texts /\ Decoded(Careful(text)) = text
<1> DEFINE P == {t \in Texts : Careful(t) \in Texts /\ DecodedOnce[Careful(t)] = t}
<1>1. <<>> \in P
  <2>1. <<>> \in Texts /\ Careful(<<>>) = <<>>
    BY TextAtoms, ReplaceNone DEF Careful
  <2> QED BY <2>1, DecodedHead
<1>2. ASSUME NEW a \in Atom, NEW t \in P PROVE <<a>> \o t \in P
  <2> DEFINE u == Careful(t)
  <2>1. t \in Texts /\ u \in Texts /\ DecodedOnce[u] = t /\ <<a>> \o t \in Texts
    BY TextAtoms
  <2>2. Careful(<<a>> \o t) = Caring(a) \o u
    BY <2>1, CarefulHead
  <2> HIDE DEF u
  <2>3. ASSUME NEW h \in Atom \cap HexDigit, NEW l \in Atom \cap HexDigit
        PROVE  <<"%", h, l>> \o u \in Texts /\ DecodedOnce[<<"%", h, l>> \o u] = <<Byte(h, l)>> \o t
    BY <2>1, DecodedEscape
  <2>4. /\ "2" \in Atom \cap HexDigit /\ "5" \in Atom \cap HexDigit
        /\ "7" \in Atom \cap HexDigit /\ "E" \in Atom \cap HexDigit
    BY AtomAssumption DEF HexDigit
  <2>5. CASE a = "%"
    <3>1. Caring(a) = <<"%", "2", "5">>
      BY <2>5 DEF Caring
    <3>2. <<"%", "2", "5">> \o u \in Texts /\ DecodedOnce[<<"%", "2", "5">> \o u] = <<"%">> \o t
      BY <2>3, <2>4, Bytes
    <3> QED BY <2>1, <2>2, <2>5, <3>1, <3>2
  <2>6. CASE a = "~"
    <3>1. Caring(a) = <<"%", "7", "E">>
      BY <2>6 DEF Caring
    <3>2. <<"%", "7", "E">> \o u \in Texts /\ DecodedOnce[<<"%", "7", "E">> \o u] = <<"~">> \o t
      BY <2>3, <2>4, Bytes
    <3> QED BY <2>1, <2>2, <2>6, <3>1, <3>2
  <2>7. CASE a # "%" /\ a # "~"
    <3>1. Caring(a) = <<a>>
      BY <2>7 DEF Caring
    <3>2. ~IsEscape(<<a>> \o u, 1)
      <4>1. (<<a>> \o u)[1] = a
        BY <2>1, TextAtoms
      <4> QED BY <2>7, <4>1 DEF IsEscape
    <3>3. DecodedOnce[<<a>> \o u] = <<a>> \o t
      BY <2>1, <3>2, DecodedHead
    <3>4. <<a>> \o u \in Texts
      BY <2>1, TextAtoms
    <3> QED BY <2>1, <2>2, <3>1, <3>3, <3>4
  <2> QED BY <2>5, <2>6, <2>7
<1> HIDE DEF P
<1>3. P = Texts
  <2>1. P \in SUBSET Seq(Atom)
    BY TextAtoms DEF P
  <2>2. P = Seq(Atom)
    BY <1>1, <1>2, <2>1, HeadInduction
  <2> QED BY <2>2, TextAtoms
<1> QED
  BY <1>3 DEF P, Decoded

\* What a careless writer makes of a character.
CarelessPart(t, i) == IF IsEscape(t, i) THEN <<"%", "2", "5">> ELSE <<t[i]>>

\* A careless text, the first character and the others.
LEMMA CarelessHead ==
  ASSUME NEW t \in Texts, NEW a \in Atom
  PROVE  /\ Careless(t) \in Texts
         /\ Careless(<<a>> \o t) = CarelessPart(<<a>> \o t, 1) \o Careless(t)
<1> DEFINE u == <<a>> \o t
           n == Len(t)
           mt == [i \in DOMAIN t |-> CarelessPart(t, i)]
           mu == [i \in DOMAIN u |-> CarelessPart(u, i)]
           w == <<CarelessPart(u, 1)>> \o mt
<1>1. t \in Seq(Atom) /\ n \in Nat /\ DOMAIN t = 1..n
  BY TextAtoms
<1>2. u \in Seq(Atom) /\ Len(u) = n + 1 /\ DOMAIN u = 1..(n + 1) /\ \A i \in 1..n : u[i + 1] = t[i]
  BY <1>1
<1> HIDE DEF u, n
<1>3. Careless(t) = FlattenSeq(mt) /\ Careless(u) = FlattenSeq(mu)
  BY DEF Careless, CarelessPart
<1>4. ASSUME NEW v \in Seq(Atom), NEW i \in 1..Len(v) PROVE CarelessPart(v, i) \in Texts
  <2>1. <<"%", "2", "5">> \in Texts /\ <<v[i]>> \in Texts
    BY AtomAssumption, TextAtoms
  <2> QED BY <2>1 DEF CarelessPart
<1>5. mt \in Seq(Texts) /\ Len(mt) = n /\ \A i \in 1..n : mt[i] = CarelessPart(t, i)
  <2>1. \A i \in 1..n : CarelessPart(t, i) \in Texts
    BY <1>1, <1>4 DEF n
  <2> QED BY <1>1, <2>1
<1>6. mu \in Seq(Texts) /\ Len(mu) = n + 1 /\ CarelessPart(u, 1) \in Texts
      /\ \A i \in 1..(n + 1) : mu[i] = CarelessPart(u, i)
  <2>1. \A i \in 1..(n + 1) : CarelessPart(u, i) \in Texts
    BY <1>2, <1>4
  <2> QED BY <1>1, <1>2, <2>1
<1>7. ASSUME NEW i \in 1..n PROVE CarelessPart(u, i + 1) = CarelessPart(t, i)
  <2>1. u[i + 1] = t[i] /\ i + 1 \in 1..(n + 1)
    BY <1>1, <1>2
  <2>2. i + 2 <= n => u[(i + 1) + 1] = t[i + 1] /\ u[(i + 1) + 2] = t[i + 2]
    <3> SUFFICES ASSUME i + 2 <= n PROVE u[(i + 1) + 1] = t[i + 1] /\ u[(i + 1) + 2] = t[i + 2]
      OBVIOUS
    <3>1. i + 1 \in 1..n /\ i + 2 \in 1..n /\ (i + 1) + 2 = (i + 2) + 1
      BY <1>1
    <3> QED BY <1>2, <3>1
  <2>3. (i + 1) + 2 <= n + 1 <=> i + 2 <= n
    BY <1>1
  <2>4. IsEscape(u, i + 1) <=> IsEscape(t, i)
    BY <1>1, <1>2, <2>1, <2>2, <2>3 DEF IsEscape, n
  <2> QED BY <2>1, <2>4 DEF CarelessPart
<1> HIDE DEF mt, mu
<1> DEFINE first == CarelessPart(u, 1)
<1>8. first \in Texts
  BY <1>6
<1> HIDE DEF first
<1>9. mu = <<first>> \o mt
  <2> DEFINE x == <<first>> \o mt
  <2>1. x \in Seq(Texts) /\ Len(x) = n + 1 /\ x[1] = first /\ \A i \in 1..n : x[i + 1] = mt[i]
    BY <1>1, <1>5, <1>8
  <2> HIDE DEF x
  <2>2. ASSUME NEW i \in 1..(n + 1) PROVE mu[i] = x[i]
    <3>1. CASE i = 1
      BY <1>6, <2>1, <3>1 DEF first
    <3>2. CASE i # 1
      <4>1. i - 1 \in 1..n /\ (i - 1) + 1 = i
        BY <1>1, <3>2
      <4> QED BY <1>5, <1>6, <1>7, <2>1, <4>1
    <3> QED BY <3>1, <3>2
  <2>3. mu = x
    BY <1>6, <2>1, <2>2, SeqEqual
  <2> QED BY <2>3 DEF x
<1>10. FlattenSeq(mt) \in Texts /\ FlattenSeq(<<first>> \o mt) = first \o FlattenSeq(mt)
  BY <1>5, <1>8, TextAtoms, FlattenAppend, FlattenHead
<1> QED
  BY <1>3, <1>9, <1>10 DEF u, first

\* A careless text begins as the text does.
LEMMA CarelessFirst ==
  /\ Careless(<<>>) = <<>>
  /\ \A a \in Atom : \A t \in Texts :
       LET u == Careless(<<a>> \o t) IN u \in Texts /\ u # <<>> /\ Head(u) = a
<1>1. Careless(<<>>) = <<>>
  BY DEF Careless, FlattenSeq
<1>2. ASSUME NEW a \in Atom, NEW t \in Texts
      PROVE LET u == Careless(<<a>> \o t) IN u \in Texts /\ u # <<>> /\ Head(u) = a
  <2> DEFINE v == Careless(t)
             p == CarelessPart(<<a>> \o t, 1)
  <2>1. v \in Texts /\ Careless(<<a>> \o t) = p \o v
    BY CarelessHead
  <2>2. (<<a>> \o t)[1] = a
    BY TextAtoms
  <2>3. p \in Texts /\ p # <<>> /\ Head(p) = a
    <3>1. CASE IsEscape(<<a>> \o t, 1)
      <4>1. p = <<"%", "2", "5">> /\ a = "%"
        BY <2>2, <3>1 DEF CarelessPart, IsEscape
      <4>2. <<"%", "2", "5">> \in Texts /\ <<"%", "2", "5">> # <<>> /\ Head(<<"%", "2", "5">>) = "%"
        BY AtomAssumption, TextAtoms
      <4> QED BY <4>1, <4>2
    <3>2. CASE ~IsEscape(<<a>> \o t, 1)
      <4>1. p = <<a>>
        BY <2>2, <3>2 DEF CarelessPart
      <4>2. <<a>> \in Texts /\ <<a>> # <<>> /\ Head(<<a>>) = a
        BY TextAtoms
      <4> QED BY <4>1, <4>2
    <3> QED BY <3>1, <3>2
  <2> HIDE DEF v, p
  <2>4. p \o v \in Texts /\ p \o v # <<>> /\ Head(p \o v) = Head(p)
    BY <2>1, <2>3, TextAtoms
  <2> QED BY <2>1, <2>3, <2>4
<1> QED
  BY <1>1, <1>2

\* A text that is not empty has a first character and others.
LEMMA Unfolded == ASSUME NEW t \in Texts, t # <<>> PROVE \E a \in Atom : \E u \in Texts : t = <<a>> \o u
  BY FirstOfText

\* An escape in a careless text was in the text.
LEMMA CarelessEscape ==
  ASSUME NEW a \in Atom, NEW t \in Texts, IsEscape(<<a>> \o Careless(t), 1)
  PROVE  IsEscape(<<a>> \o t, 1)
<1> DEFINE v == Careless(t)
           w == <<a>> \o v
<1>0. v \in Texts
  BY CarelessHead
<1>1. v \in Seq(Atom) /\ Len(v) \in Nat /\ Len(w) = Len(v) + 1 /\ w[1] = a
      /\ \A i \in 1..Len(v) : w[i + 1] = v[i]
  <2> HIDE DEF v
  <2> QED BY <1>0, TextAtoms
<1>2. a = "%" /\ 1 + 2 <= Len(w) /\ w[1 + 1] \in HexDigit /\ w[1 + 2] \in HexDigit
  BY <1>1 DEF IsEscape
<1>3. 2 <= Len(v) /\ v[1] \in HexDigit /\ v[2] \in HexDigit
  <2> HIDE DEF v, w
  <2>1. 2 <= Len(v)
    BY <1>1, <1>2
  <2>2. 1 \in 1..Len(v) /\ 2 \in 1..Len(v)
    BY <1>1, <2>1
  <2> QED BY <1>1, <1>2, <2>1, <2>2
<1>4. t # <<>>
  <2>1. <<>> \in Texts /\ Len(<<>>) = 0
    BY TextAtoms
  <2> QED BY <1>3, <2>1, CarelessFirst
<1>5. PICK b \in Atom : \E u \in Texts : t = <<b>> \o u
  BY <1>4, Unfolded
<1>6. PICK t2 \in Texts : t = <<b>> \o t2
  BY <1>5
<1> DEFINE v2 == Careless(t2)
<1>7. v2 \in Texts /\ v = CarelessPart(t, 1) \o v2 /\ Head(v) = b
  BY <1>6, CarelessHead, CarelessFirst
<1> HIDE DEF v, w
<1>8. v[1] = b /\ b \in HexDigit
  BY <1>1, <1>3, <1>7
<1>9. t[1] = b /\ b # "%"
  <2>1. (<<b>> \o t2)[1] = b
    BY TextAtoms
  <2>2. "%" \notin HexDigit
    BY DEF HexDigit
  <2> QED BY <1>6, <1>8, <2>1, <2>2
<1>10. v = <<b>> \o v2
  BY <1>7, <1>9 DEF CarelessPart, IsEscape
<1>11. v2 # <<>> /\ v[2] = v2[1] /\ Head(v2) = v2[1]
  <2> HIDE DEF v2
  <2>1. v2 \in Seq(Atom) /\ Len(v2) \in Nat
    BY <1>7, TextAtoms
  <2>2. Len(v) = Len(v2) + 1 /\ \A i \in 1..Len(v2) : v[i + 1] = v2[i]
    BY <1>10, <2>1
  <2>3. 1 \in 1..Len(v2)
    BY <1>3, <2>1, <2>2
  <2>4. v[1 + 1] = v2[1]
    BY <2>2, <2>3
  <2> QED BY <2>1, <2>3, <2>4
<1>12. t2 # <<>>
  BY <1>11, CarelessFirst
<1>13. PICK c \in Atom : \E u \in Texts : t2 = <<c>> \o u
  BY <1>12, Unfolded
<1>14. PICK t3 \in Texts : t2 = <<c>> \o t3
  BY <1>13
<1>15. Head(v2) = c
  BY <1>14, CarelessFirst
<1>16. c \in HexDigit
  BY <1>3, <1>11, <1>15
<1>17. <<a>> \o t = <<"%">> \o (<<b>> \o (<<c>> \o t3))
  BY <1>2, <1>6, <1>14
<1> DEFINE x == <<c>> \o t3
           y == <<b>> \o x
           z == <<"%">> \o y
<1>18. x \in Seq(Atom) /\ Len(x) = Len(t3) + 1 /\ Len(t3) \in Nat /\ x[1] = c
  BY TextAtoms
<1> HIDE DEF x
<1>19. y \in Seq(Atom) /\ Len(y) = Len(x) + 1 /\ y[1] = b /\ y[2] = x[1]
  BY <1>18
<1> HIDE DEF y
<1>20. "%" \in Atom
  BY AtomAssumption
<1>21. z \in Seq(Atom) /\ Len(z) = Len(y) + 1 /\ z[1] = "%" /\ z[2] = y[1] /\ z[3] = y[2] /\ DOMAIN z = 1..Len(z)
  BY <1>18, <1>19, <1>20
<1> HIDE DEF z
<1>22. 1 \in DOMAIN z /\ 1 + 2 <= Len(z) /\ z[1 + 1] \in HexDigit /\ z[1 + 2] \in HexDigit
  BY <1>8, <1>16, <1>18, <1>19, <1>21
<1>23. IsEscape(z, 1)
  BY <1>21, <1>22 DEF IsEscape
<1> QED
  BY <1>17, <1>23 DEF z, y, x

\* What a careless writer leaves and encodes is decoded.
LEMMA DecodedCareless == ASSUME NEW text \in Texts PROVE Careless(text) \in Texts /\ Decoded(Careless(text)) = text
<1> DEFINE P == {t \in Texts : Careless(t) \in Texts /\ DecodedOnce[Careless(t)] = t}
<1>1. <<>> \in P
  <2>1. <<>> \in Texts
    BY TextAtoms
  <2> QED BY <2>1, CarelessFirst, DecodedHead
<1>2. ASSUME NEW a \in Atom, NEW t \in P PROVE <<a>> \o t \in P
  <2> DEFINE v == Careless(t)
             u == <<a>> \o t
  <2>1. t \in Texts /\ v \in Texts /\ DecodedOnce[v] = t /\ u \in Texts
    BY TextAtoms
  <2>2. Careless(u) = CarelessPart(u, 1) \o v
    BY <2>1, CarelessHead
  <2>3. IsEscape(<<a>> \o v, 1) => IsEscape(u, 1)
    BY <2>1, CarelessEscape
  <2>4. u[1] = a
    BY <2>1, TextAtoms
  <2> HIDE DEF v
  <2>5. CASE IsEscape(u, 1)
    <3>1. CarelessPart(u, 1) = <<"%", "2", "5">> /\ a = "%"
      BY <2>4, <2>5 DEF CarelessPart, IsEscape
    <3>2. "2" \in Atom \cap HexDigit /\ "5" \in Atom \cap HexDigit
      BY AtomAssumption DEF HexDigit
    <3>3. <<"%", "2", "5">> \o v \in Texts /\ DecodedOnce[<<"%", "2", "5">> \o v] = <<Byte("2", "5")>> \o t
      BY <2>1, <3>2, DecodedEscape
    <3> QED BY <2>1, <2>2, <3>1, <3>3, Bytes DEF v
  <2>6. CASE ~IsEscape(u, 1)
    <3>1. CarelessPart(u, 1) = <<a>>
      BY <2>4, <2>6 DEF CarelessPart
    <3>2. DecodedOnce[<<a>> \o v] = <<a>> \o t
      BY <2>1, <2>3, <2>6, DecodedHead
    <3>3. <<a>> \o v \in Texts
      BY <2>1, TextAtoms
    <3> QED BY <2>1, <2>2, <3>1, <3>2, <3>3 DEF v
  <2> QED BY <2>5, <2>6
<1> HIDE DEF P
<1>3. P = Texts
  <2>1. P \in SUBSET Seq(Atom)
    BY TextAtoms DEF P
  <2>2. P = Seq(Atom)
    BY <1>1, <1>2, <2>1, HeadInduction
  <2> QED BY <2>2, TextAtoms
<1> QED
  BY <1>3 DEF P, Decoded

-----------------------------------------------------------------------------
(***************************************************************************)
(* Dot segments.                                                           *)
(***************************************************************************)
Words == {t \in Texts : IsWord(t)}
Named == Words \ {Nil}

\* The segments with a meaning are words, and differ.
LEMMA DotSegments ==
  /\ Dot \in Named /\ DotDot \in Named /\ Nil \in Words /\ Dot # DotDot
  /\ Words \subseteq Plain /\ Plain \subseteq Texts /\ Named \subseteq Words /\ Nil \notin Named
<1>1. Dot \in Texts /\ DotDot \in Texts /\ Nil \in Texts
  BY AtomAssumption, TextAtoms DEF Dot, DotDot, Nil
<1>2. Range(Dot) = {"."} /\ Range(DotDot) = {"."} /\ Range(Nil) = {}
  BY DEF Dot, DotDot, Nil, Range
<1>3. Dot # DotDot /\ Dot # Nil /\ DotDot # Nil
  <2>1. Len(Dot) = 1 /\ Len(DotDot) = 2 /\ Len(Nil) = 0
    BY DEF Dot, DotDot, Nil
  <2> QED BY <2>1
<1>4. Dot \in Words /\ DotDot \in Words /\ Nil \in Words
  BY <1>1, <1>2 DEF Words, IsWord
<1>5. Words \subseteq Plain /\ Plain \subseteq Texts
  BY DEF Words, Plain, IsWord
<1> QED
  BY <1>3, <1>4, <1>5 DEF Named

\* What can be removed are places in the path.
LEMMA RemovableType == ASSUME NEW p \in Seq(Texts) PROVE Removable(p) \in SUBSET Nat /\ Removable(p) \subseteq 1..Len(p)
  BY DEF Removable

\* Removing a segment leaves a smaller path.
Smaller(p, q) ==
  /\ Len(p) \in Nat /\ Len(q) \in Nat
  /\ Len(q) < Len(p) \/ (Len(q) = Len(p) /\ Len(p) > 0 /\ p[Len(p)] # Nil /\ q[Len(q)] = Nil)
LEMMA RemovedSmaller ==
  ASSUME NEW p \in Seq(Texts), NEW k \in Removable(p)
  PROVE  Removed(p, k) \in Seq(Texts) /\ Smaller(p, Removed(p, k))
<1> DEFINE n == IF p[k] = Dot THEN k - 1 ELSE k - 2
           front == SubSeq(p, 1, n)
           back == IF k = Len(p) THEN <<Nil>> ELSE After(p, k)
           q == front \o back
<1>1. Len(p) \in Nat /\ k \in 1..Len(p) /\ n \in 0..(k - 1) /\ p[k] \in {Dot, DotDot}
  BY DEF Removable
<1> HIDE DEF n
<1>2. Nil \in Texts /\ p[k] # Nil
  BY <1>1, DotSegments
<1>3. front \in Seq(Texts) /\ Len(front) = n
  BY <1>1
<1>4. back \in Seq(Texts) /\ Len(back) = IF k = Len(p) THEN 1 ELSE Len(p) - k
  <2>1. CASE k = Len(p)
    BY <1>2, <2>1
  <2>2. CASE k # Len(p)
    <3>1. SubSeq(p, k + 1, Len(p)) \in Seq(Texts) /\ Len(SubSeq(p, k + 1, Len(p))) = Len(p) - k
      BY <1>1, <2>2
    <3> QED BY <2>2, <3>1 DEF After
  <2> QED BY <2>1, <2>2
<1>5. k = Len(p) => Len(back) = 1 /\ back[1] = Nil
  OBVIOUS
<1>6. q = Removed(p, k)
  BY DEF Removed, n
<1> HIDE DEF front, back
<1>7. q \in Seq(Texts) /\ Len(q) = n + Len(back) /\ (Len(back) = 1 => q[n + 1] = back[1])
  <2>1. q \in Seq(Texts) /\ Len(q) = Len(front) + Len(back)
        /\ \A i \in 1..(Len(front) + Len(back)) : q[i] = IF i <= Len(front) THEN front[i] ELSE back[i - Len(front)]
    BY <1>3, <1>4, ConcatProperties
  <2> HIDE DEF q
  <2>2. Len(back) = 1 => n + 1 \in 1..(Len(front) + Len(back)) /\ ~(n + 1 <= Len(front)) /\ (n + 1) - Len(front) = 1
    BY <1>1, <1>3
  <2>3. Len(back) = 1 => q[n + 1] = back[1]
    BY <2>1, <2>2
  <2> QED BY <1>3, <2>1, <2>3
<1> HIDE DEF q
<1>8. CASE k = Len(p)
  <2>1. Len(q) = n + 1 /\ q[Len(q)] = Nil
    BY <1>1, <1>5, <1>7, <1>8
  <2>2. Len(q) < Len(p) \/ Len(q) = Len(p)
    BY <1>1, <1>8, <2>1
  <2> QED BY <1>1, <1>2, <1>6, <1>7, <1>8, <2>1, <2>2 DEF Smaller
<1>9. CASE k # Len(p)
  <2>1. Len(q) = n + (Len(p) - k) /\ Len(q) < Len(p) /\ Len(q) \in Nat
    BY <1>1, <1>4, <1>7, <1>9
  <2> QED BY <1>1, <1>6, <1>7, <2>1 DEF Smaller
<1> QED
  BY <1>8, <1>9

Least1(T) == CHOOSE i \in T : \A j \in T : i <= j
IsNormal(f) ==
  f = [path \in Seq(Texts) |->
         IF Removable(path) = {} THEN path ELSE f[Removed(path, Least1(Removable(path)))]]

\* The least member of a set of numbers.
LEMMA LeastIs ==
  ASSUME NEW T \in SUBSET Nat, NEW k \in T, \A j \in T : k <= j PROVE Least1(T) = k
<1> DEFINE m == Least1(T)
<1>1. m \in T /\ \A j \in T : m <= j
  BY DEF Least1
<1> HIDE DEF m
<1>2. m \in Nat /\ k \in Nat /\ m <= k /\ k <= m
  BY <1>1
<1> QED
  BY <1>2 DEF m

\* The equation of Normal has a solution.
LEMMA NormalRule == IsNormal(Normal)
<1> DEFINE D == Seq(Texts)
           Stop == {p \in D : Removable(p) = {}}
           size == [p \in D |-> 2 * Len(p) + (IF Len(p) > 0 /\ p[Len(p)] # Nil THEN 1 ELSE 0)]
           base == [p \in D |-> p]
           pre == [p \in D |-> <<>>]
           rest == [p \in D |-> Removed(p, Least1(Removable(p)))]
<1>1. \A p \in D : Len(p) \in Nat
  OBVIOUS
<1>2. <<>> \in D
  OBVIOUS
<1>3. ASSUME NEW p \in D, p \notin Stop
      PROVE  rest[p] \in D /\ Smaller(p, rest[p])
  <2>1. Removable(p) \in SUBSET Nat /\ Removable(p) # {}
    BY <1>3, RemovableType
  <2>2. PICK k \in Removable(p) : \A j \in Removable(p) : k <= j
    BY <2>1, Least
  <2>3. Least1(Removable(p)) = k
    BY <2>1, <2>2, LeastIs
  <2>4. Removed(p, k) \in Seq(Texts) /\ Smaller(p, Removed(p, k))
    BY RemovedSmaller
  <2> QED BY <2>3, <2>4
<1> HIDE DEF D, Stop, rest
<1>4. size \in [D -> Nat] /\ base \in [D -> D] /\ pre \in [D -> D]
  BY <1>1, <1>2
<1>5. Shrinks(D, Stop, rest, size)
  <2> SUFFICES ASSUME NEW p \in D, p \notin Stop PROVE rest[p] \in D /\ size[rest[p]] < size[p]
    BY DEF Shrinks
  <2> DEFINE q == rest[p]
  <2>1. q \in D /\ Smaller(p, q)
    BY <1>3
  <2> HIDE DEF q
  <2>2. size[q] < size[p]
    <3> DEFINE a == Len(p)
               b == Len(q)
    <3>1. size[q] = 2 * b + (IF b > 0 /\ q[b] # Nil THEN 1 ELSE 0)
      BY <2>1
    <3>2. size[p] = 2 * a + (IF a > 0 /\ p[a] # Nil THEN 1 ELSE 0)
      OBVIOUS
    <3>3. a \in Nat /\ b \in Nat /\ (b < a \/ (b = a /\ a > 0 /\ p[a] # Nil /\ q[b] = Nil))
      BY <2>1 DEF Smaller
    <3> HIDE DEF a, b, size
    <3>4. CASE b < a
      BY <3>1, <3>2, <3>3, <3>4
    <3>5. CASE b = a /\ a > 0 /\ p[a] # Nil /\ q[b] = Nil
      <4>1. size[q] = 2 * b /\ size[p] = 2 * a + 1
        BY <3>1, <3>2, <3>3, <3>5
      <4> QED BY <3>3, <3>5, <4>1
    <3> QED BY <3>3, <3>4, <3>5
  <2> QED BY <2>1, <2>2 DEF q
<1>6. \E f : IsNormal(f)
  <2> HIDE DEF size, base, pre
  <2>1. base \in [D -> Seq(Texts)] /\ pre \in [D -> Seq(Texts)]
    BY <1>4 DEF D
  <2>2. HasUnrolling(D, Seq(Texts), Stop, base, pre, rest)
    BY <1>4, <1>5, <2>1, Unrolled, Zenon
  <2>3. PICK f : Unrolls(f, D, Stop, base, pre, rest) /\ f \in [D -> Seq(Texts)]
    BY <2>2 DEF HasUnrolling
  <2>4. ASSUME NEW p \in D
        PROVE  (IF p \in Stop THEN base[p] ELSE pre[p] \o f[rest[p]])
               = IF Removable(p) = {} THEN p ELSE f[Removed(p, Least1(Removable(p)))]
    <3>1. CASE p \in Stop
      BY <3>1 DEF Stop, base
    <3>2. CASE p \notin Stop
      <4>1. rest[p] \in D /\ rest[p] = Removed(p, Least1(Removable(p))) /\ Removable(p) # {}
        BY <1>3, <3>2 DEF Stop, rest
      <4>2. f[rest[p]] \in Seq(Texts)
        BY <2>3, <4>1
      <4>3. pre[p] \o f[rest[p]] = f[rest[p]]
        BY <4>2 DEF pre
      <4> QED BY <3>2, <4>1, <4>3
    <3> QED BY <3>1, <3>2
  <2>5. f = [p \in D |-> IF Removable(p) = {} THEN p ELSE f[Removed(p, Least1(Removable(p)))]]
    BY <2>3, <2>4 DEF Unrolls
  <2> QED BY <2>5 DEF IsNormal, D
<1>7. Normal = CHOOSE f : IsNormal(f)
  BY DEF Normal, IsNormal, Least1
<1> QED
  BY <1>6, <1>7

\* Normal takes out the first segment that can be removed.
LEMMA NormalStep ==
  ASSUME NEW p \in Seq(Texts)
  PROVE  /\ Removable(p) = {} => Normal[p] = p
         /\ \A k \in Removable(p) : (\A j \in Removable(p) : k <= j) => Normal[p] = Normal[Removed(p, k)]
<1>1. Normal[p] = IF Removable(p) = {} THEN p ELSE Normal[Removed(p, Least1(Removable(p)))]
  BY NormalRule DEF IsNormal
<1>2. ASSUME NEW k \in Removable(p), \A j \in Removable(p) : k <= j PROVE Least1(Removable(p)) = k
  <2>1. Removable(p) \in SUBSET Nat
    BY RemovableType
  <2> QED BY <1>2, <2>1, LeastIs
<1> QED
  BY <1>1, <1>2

Settled(kept) == kept \in Seq(Named) /\ Removable(kept) = {}

\* A segment behind others that cannot be removed.
LEMMA SettledAppend ==
  ASSUME NEW N, Settled(N), NEW x \in Words, x # Dot, x = DotDot => N = <<>> \/ N[Len(N)] = DotDot
  PROVE  /\ Append(N, x) \in Seq(Words) /\ Removable(Append(N, x)) = {}
         /\ x # Nil => Settled(Append(N, x))
<1> DEFINE n == Len(N)
           q == Append(N, x)
<1>1. N \in Seq(Named) /\ Named \subseteq Words /\ Removable(N) = {}
  BY DotSegments DEF Settled
<1>2. N \in Seq(Words) /\ n \in Nat /\ DOMAIN N = 1..n
  BY <1>1
<1>3. q \in Seq(Words) /\ Len(q) = n + 1 /\ DOMAIN q = 1..(n + 1) /\ q[n + 1] = x /\ \A i \in 1..n : q[i] = N[i]
  BY <1>2
<1>4. x # Nil => q \in Seq(Named)
  BY <1>1 DEF Named
<1> HIDE DEF q
<1>5. ASSUME NEW i \in Removable(q) PROVE FALSE
  <2>1. i \in 1..(n + 1) /\ (q[i] = Dot \/ (q[i] = DotDot /\ i > 1 /\ q[i - 1] \notin {Dot, DotDot}))
    BY <1>3 DEF Removable
  <2>2. CASE i <= n
    <3>1. i \in 1..n /\ (i > 1 => i - 1 \in 1..n)
      BY <1>2, <2>1, <2>2
    <3>2. i \in Removable(N)
      BY <1>2, <1>3, <2>1, <3>1 DEF Removable
    <3> QED BY <1>1, <3>2
  <2>3. CASE i = n + 1
    <3>1. x = DotDot /\ n >= 1 /\ q[n] # DotDot
      BY <1>2, <1>3, <2>1, <2>3
    <3>2. n \in 1..n /\ N # <<>>
      BY <1>2, <3>1
    <3> QED BY <1>3, <3>1, <3>2
  <2> QED BY <1>2, <2>1, <2>2, <2>3
<1>6. Removable(q) = {}
  BY <1>5
<1> QED
  BY <1>3, <1>4, <1>6 DEF q, Settled

\* What is kept of a path, without its last segment.
LEMMA SettledFront ==
  ASSUME NEW N, Settled(N), N # <<>>
  PROVE  Settled(Front(N)) /\ Front(N) = SubSeq(N, 1, Len(N) - 1)
<1> DEFINE n == Len(N)
           q == SubSeq(N, 1, n - 1)
<1>1. N \in Seq(Named) /\ n \in Nat /\ DOMAIN N = 1..n /\ n > 0 /\ Removable(N) = {}
  BY DEF Settled
<1>2. q \in Seq(Named) /\ Len(q) = n - 1 /\ DOMAIN q = 1..(n - 1) /\ \A i \in 1..(n - 1) : q[i] = N[i]
  BY <1>1
<1>3. Front(N) = q
  BY DEF Front
<1> HIDE DEF q
<1>4. ASSUME NEW i \in Removable(q) PROVE FALSE
  <2>1. i \in 1..(n - 1) /\ (q[i] = Dot \/ (q[i] = DotDot /\ i > 1 /\ q[i - 1] \notin {Dot, DotDot}))
    BY <1>2 DEF Removable
  <2>2. i \in 1..n /\ (i > 1 => i - 1 \in 1..(n - 1))
    BY <1>1, <2>1
  <2>3. i \in Removable(N)
    BY <1>1, <1>2, <2>1, <2>2 DEF Removable
  <2> QED BY <1>1, <2>3
<1>5. Removable(q) = {}
  BY <1>4
<1> QED
  BY <1>2, <1>3, <1>5 DEF q, Settled

\* What is kept of a path when one more segment is read.
ReadOne(kept, segment, last) ==
  CASE segment = Dot -> IF last THEN Append(kept, Nil) ELSE kept
    [] segment = DotDot /\ kept # <<>> /\ kept[Len(kept)] # DotDot ->
         IF last THEN Append(Front(kept), Nil) ELSE Front(kept)
    [] OTHER -> Append(kept, segment)

\* Reading a segment keeps what the path denotes.
LEMMA ReadKeeps ==
  ASSUME NEW N, Settled(N), NEW x \in Words, NEW r \in Seq(Words), x = Nil => r = <<>>
  PROVE  LET M == ReadOne(N, x, r = <<>>)
         IN /\ Normal[N \o (<<x>> \o r)] = Normal[M \o r]
            /\ Removable(M) = {} /\ M \in Seq(Words)
            /\ IF r = <<>> THEN M # <<>> /\ Front(M) \in Seq(Named) ELSE Settled(M)
<1> DEFINE n == Len(N)
           q == N \o (<<x>> \o r)
           M == ReadOne(N, x, r = <<>>)
<1>0. Words \subseteq Texts /\ Named \subseteq Texts
  BY DotSegments
<1>1. N \in Seq(Named) /\ Removable(N) = {} /\ N \in Seq(Texts) /\ x \in Texts /\ r \in Seq(Texts)
      /\ DOMAIN N = 1..n /\ n \in Nat
  BY <1>0 DEF Settled
<1>2. Surrounds(N, x, r, Texts)
  BY <1>1, Middle, Zenon
<1>3. /\ q \in Seq(Texts) /\ Len(q) = n + Len(r) + 1 /\ q[n + 1] = x
      /\ n \in Nat /\ Len(r) \in Nat /\ \A i \in 1..n : q[i] = N[i]
      /\ SubSeq(q, 1, n) = N /\ SubSeq(q, n + 2, Len(q)) = r
      /\ DOMAIN q = 1..(n + Len(r) + 1)
  <2>1. /\ q \in Seq(Texts) /\ Len(q) = n + Len(r) + 1 /\ q[n + 1] = x
        /\ n \in Nat /\ Len(r) \in Nat /\ \A i \in 1..n : q[i] = N[i]
        /\ SubSeq(q, 1, n) = N /\ SubSeq(q, n + 2, Len(q)) = r
    BY <1>2 DEF Surrounds
  <2>2. DOMAIN q = 1..Len(q)
    BY <2>1
  <2> QED BY <2>1, <2>2
<1>4. (N \o <<x>>) \o r = q /\ Append(N, x) = N \o <<x>>
  <2>1. <<x>> \in Seq(Texts)
    BY <1>1
  <2>2. (N \o <<x>>) \o r = N \o (<<x>> \o r)
    BY <1>1, <2>1, ConcatAssociative
  <2>3. Append(N, x) = N \o <<x>>
    BY <1>1, AppendIsConcat
  <2> QED BY <2>2, <2>3
<1> HIDE DEF q, n
<1>5. \A j \in Removable(q) : n + 1 <= j
  <2> SUFFICES ASSUME NEW j \in Removable(q), j <= n PROVE FALSE
    BY <1>3, RemovableType
  <2>1. j \in 1..n /\ (j > 1 => j - 1 \in 1..n)
        /\ (q[j] = Dot \/ (q[j] = DotDot /\ j > 1 /\ q[j - 1] \notin {Dot, DotDot}))
    BY <1>3 DEF Removable
  <2>2. j \in Removable(N)
    BY <1>1, <1>3, <2>1 DEF Removable
  <2> QED BY <1>1, <2>2
<1>6. r = <<>> <=> n + 1 = Len(q)
  BY <1>1, <1>3
<1>7. After(q, n + 1) = r
  <2>1. (n + 1) + 1 = n + 2
    BY <1>3
  <2> QED BY <1>3, <2>1 DEF After
<1>8. ASSUME NEW k, Settled(k)
      PROVE  /\ Append(k, Nil) = k \o <<Nil>> /\ Removable(Append(k, Nil)) = {} /\ Append(k, Nil) \in Seq(Words)
             /\ Append(k, Nil) # <<>> /\ Front(Append(k, Nil)) \in Seq(Named)
             /\ k \in Seq(Words) /\ Append(k, Nil) \o <<>> = Append(k, Nil)
  <2>1. k \in Seq(Named) /\ Nil \in Words /\ Nil # Dot /\ Nil # DotDot /\ Named \subseteq Words
    BY <1>8, DotSegments DEF Settled
  <2>2. Removable(Append(k, Nil)) = {} /\ Append(k, Nil) \in Seq(Words)
    BY <1>8, <2>1, SettledAppend
  <2>3. k \in Seq(Words)
    BY <2>1
  <2>4. Append(k, Nil) = k \o <<Nil>>
    BY <2>1, <2>3, AppendIsConcat
  <2>5. Append(k, Nil) # <<>> /\ Front(Append(k, Nil)) = k
    BY <2>1, <2>3 DEF Front
  <2>6. Append(k, Nil) \o <<>> = Append(k, Nil)
    BY <2>2
  <2> QED BY <2>1, <2>2, <2>3, <2>4, <2>5, <2>6
<1>9. ASSUME NEW k, Settled(k), n + 1 \in Removable(q),
             Removed(q, n + 1) = k \o (IF n + 1 = Len(q) THEN <<Nil>> ELSE After(q, n + 1)),
             M = IF r = <<>> THEN Append(k, Nil) ELSE k
      PROVE  /\ Normal[q] = Normal[M \o r] /\ Removable(M) = {} /\ M \in Seq(Words)
             /\ IF r = <<>> THEN M # <<>> /\ Front(M) \in Seq(Named) ELSE Settled(M)
  <2> HIDE DEF M
  <2>1. Normal[q] = Normal[Removed(q, n + 1)]
    BY <1>3, <1>5, <1>9, NormalStep
  <2>2. CASE r = <<>>
    BY <1>6, <1>8, <1>9, <2>1, <2>2
  <2>3. CASE r # <<>>
    BY <1>6, <1>7, <1>8, <1>9, <2>1, <2>3 DEF Settled
  <2> QED BY <2>2, <2>3
<1>10. CASE x = Dot
  <2>1. n + 1 \in Removable(q)
    BY <1>3, <1>10 DEF Removable
  <2>2. Removed(q, n + 1) = N \o (IF n + 1 = Len(q) THEN <<Nil>> ELSE After(q, n + 1))
    <3>1. (n + 1) - 1 = n
      BY <1>3
    <3> QED BY <1>3, <1>10, <3>1 DEF Removed
  <2>3. M = IF r = <<>> THEN Append(N, Nil) ELSE N
    BY <1>10, DotSegments DEF ReadOne
  <2> HIDE DEF M
  <2>4. /\ Normal[q] = Normal[M \o r] /\ Removable(M) = {} /\ M \in Seq(Words)
        /\ IF r = <<>> THEN M # <<>> /\ Front(M) \in Seq(Named) ELSE Settled(M)
    BY <1>9, <2>1, <2>2, <2>3
  <2> QED BY <2>4 DEF q, M
<1>11. CASE x = DotDot /\ N # <<>> /\ N[n] # DotDot
  <2>0. n >= 1 /\ n \in 1..n
    BY <1>1, <1>11
  <2>1. N[n] # Dot
    BY <1>1, <2>0 DEF Removable
  <2>2. n + 1 \in Removable(q)
    <3>1. (n + 1) - 1 = n /\ n + 1 > 1
      BY <1>3, <2>0
    <3> QED BY <1>3, <1>11, <2>0, <2>1, <3>1 DEF Removable
  <2>3. Settled(Front(N)) /\ Front(N) = SubSeq(N, 1, n - 1)
    BY <1>11, SettledFront DEF n
  <2>4. SubSeq(q, 1, n - 1) = SubSeq(N, 1, n - 1)
    <3>1. Sequence(q) /\ n \in 0..Len(q) /\ n - 1 \in 0..n
      BY <1>3, <2>0, IsSequence
    <3>2. SubSeq(SubSeq(q, 1, n), 1, n - 1) = SubSeq(q, 1, n - 1)
      BY <3>1, CutTwice
    <3> QED BY <1>3, <3>2
  <2>5. Removed(q, n + 1) = Front(N) \o (IF n + 1 = Len(q) THEN <<Nil>> ELSE After(q, n + 1))
    <3>1. (n + 1) - 2 = n - 1 /\ q[n + 1] # Dot
      BY <1>3, <1>11, DotSegments
    <3> QED BY <2>3, <2>4, <3>1 DEF Removed
  <2>6. M = IF r = <<>> THEN Append(Front(N), Nil) ELSE Front(N)
    BY <1>11, DotSegments DEF ReadOne, n
  <2> DEFINE k == Front(N)
  <2> HIDE DEF M, k
  <2>7. /\ Normal[q] = Normal[M \o r] /\ Removable(M) = {} /\ M \in Seq(Words)
        /\ IF r = <<>> THEN M # <<>> /\ Front(M) \in Seq(Named) ELSE Settled(M)
    BY <1>9, <2>2, <2>3, <2>5, <2>6 DEF k
  <2> QED BY <2>7 DEF q, M
<1>12. CASE x # Dot /\ ~(x = DotDot /\ N # <<>> /\ N[n] # DotDot)
  <2>1. M = Append(N, x)
    BY <1>12 DEF ReadOne, n
  <2> HIDE DEF M
  <2>2. M \in Seq(Words) /\ Removable(M) = {} /\ (x # Nil => Settled(M))
    BY <1>12, <2>1, SettledAppend DEF n
  <2>3. M # <<>> /\ Front(M) = N
    BY <1>1, <2>1 DEF Front
  <2>4. M \o r = q
    BY <1>4, <2>1
  <2> QED BY <1>1, <2>2, <2>3, <2>4 DEF q, M
<1> QED
  BY <1>10, <1>11, <1>12 DEF n

IsKept(f, segments) ==
  f = [i \in 0..Len(segments) |-> IF i = 0 THEN <<>> ELSE Reads(segments, f[i - 1], i)]

\* The loop of remove_dot_segments() comes to an end.
LEMMA KeptRule ==
  ASSUME NEW segments \in Seq(Texts)
  PROVE  \E f : IsKept(f, segments)
<1> DEFINE X == Seq(Texts)
           n == Len(segments)
           step == [i \in (0 + 1)..n |-> [k \in X |-> Reads(segments, k, i)]]
<1>1. n \in Nat /\ 0 <= n /\ 0 \in Nat /\ <<>> \in X
  OBVIOUS
<1>2. ASSUME NEW k \in X, NEW i \in 1..n PROVE Reads(segments, k, i) \in X
  <2> DEFINE slash == IF i = n THEN <<(<<>>)>> ELSE <<>>
  <2>1. slash \in X /\ segments[i] \in Texts
    <3>1. <<>> \in Texts
      BY TextAtoms
    <3> QED BY <3>1
  <2> HIDE DEF slash
  <2>2. k \o slash \in X /\ Append(k, segments[i]) \in X
    BY <2>1
  <2>3. ASSUME can_be_popped(k) PROVE Front(k) \o slash \in X
    <3>1. k # <<>>
      BY <2>3 DEF can_be_popped
    <3>2. Front(k) \in X
      BY <3>1 DEF Front
    <3> QED BY <2>1, <3>2
  <2>4. Reads(segments, k, i) = CASE segments[i] = <<".">> -> k \o slash
                                  [] segments[i] = <<".", ".">> /\ can_be_popped(k) -> Front(k) \o slash
                                  [] OTHER -> Append(k, segments[i])
    BY DEF Reads, slash, n
  <2>5. <<".">> # <<".", ".">>
    BY DotSegments DEF Dot, DotDot
  <2> QED BY <2>2, <2>3, <2>4, <2>5
<1> HIDE DEF X, n
<1>3. step \in [(0 + 1)..n -> [X -> X]]
  <2> SUFFICES ASSUME NEW i \in (0 + 1)..n PROVE [k \in X |-> Reads(segments, k, i)] \in [X -> X]
    OBVIOUS
  <2>1. i \in 1..n
    OBVIOUS
  <2> QED BY <1>2, <2>1
<1>4. PICK f \in [0..n -> X] : Recursive(f, 0, n, <<>>, step)
  <2> HIDE DEF step
  <2> QED BY <1>1, <1>3, Recursion
<1>5. \A i \in 0..n : f[i] = IF i = 0 THEN <<>> ELSE step[i][f[i - 1]]
  BY <1>4 DEF Recursive
<1>6. ASSUME NEW i \in 0..n PROVE f[i] = IF i = 0 THEN <<>> ELSE Reads(segments, f[i - 1], i)
  <2>1. CASE i = 0
    BY <1>5, <2>1
  <2>2. CASE i # 0
    <3>1. i \in (0 + 1)..n /\ i - 1 \in 0..n
      BY <1>1, <2>2
    <3>2. f[i - 1] \in X
      BY <1>4, <3>1
    <3>3. step[i][f[i - 1]] = Reads(segments, f[i - 1], i)
      BY <3>1, <3>2
    <3> QED BY <1>5, <2>2, <3>3
  <2> QED BY <2>1, <2>2
<1>7. f = [i \in 0..n |-> f[i]]
  BY <1>4
<1>8. IsKept(f, segments)
  BY <1>6, <1>7 DEF IsKept, n
<1> QED
  BY <1>8

\* An empty segment before what is kept, as a path begins with a slash.
LEMMA ReadsOne ==
  ASSUME NEW segments \in Seq(Texts), NEW i \in 1..Len(segments), NEW N, Settled(N)
  PROVE  Reads(segments, <<Nil>> \o N, i) = <<Nil>> \o ReadOne(N, segments[i], i = Len(segments))
<1> DEFINE kept == <<Nil>> \o N
           n == Len(N)
           x == segments[i]
           last == i = Len(segments)
           slash == IF last THEN <<(<<>>)>> ELSE <<>>
<1>1. N \in Seq(Named) /\ Named \subseteq Texts /\ Nil \in Texts /\ Nil \notin Named /\ Dot # DotDot
      /\ DotDot # Nil
  BY DotSegments DEF Settled
<1>2. N \in Seq(Texts) /\ n \in Nat /\ \A j \in 1..n : N[j] \in Named
  BY <1>1
<1>3. x \in Texts
  OBVIOUS
<1>4. kept \in Seq(Texts) /\ kept # <<>> /\ Len(kept) = n + 1 /\ kept[1] = Nil /\ \A j \in 1..n : kept[j + 1] = N[j]
  BY <1>1, <1>2
<1>5. slash \in Seq(Texts) /\ slash = IF last THEN <<Nil>> ELSE <<>>
  <2>1. <<>> = Nil
    BY DEF Nil
  <2> QED BY <1>1, <2>1
<1>6. can_be_popped(kept) <=> N # <<>> /\ N[n] # DotDot
  <2>1. Last(kept) = kept[n + 1]
    BY <1>4 DEF Last
  <2>2. CASE N = <<>>
    <3>1. n = 0 /\ kept[n + 1] = Nil
      BY <1>4, <2>2
    <3> QED BY <2>1, <2>2, <3>1 DEF can_be_popped, Nil
  <2>3. CASE N # <<>>
    <3>1. n \in 1..n /\ kept[n + 1] = N[n] /\ N[n] # Nil
      BY <1>1, <1>2, <1>4, <2>3
    <3> QED BY <1>4, <2>1, <2>3, <3>1 DEF can_be_popped, DotDot, Nil
  <2> QED BY <2>2, <2>3
<1>7. ASSUME N # <<>> PROVE Front(kept) = <<Nil>> \o Front(N) /\ Front(N) \in Seq(Texts)
  <2> DEFINE a == Front(kept)
             f == Front(N)
             b == <<Nil>> \o f
  <2>1. n > 0 /\ f \in Seq(Texts) /\ Len(f) = n - 1 /\ \A j \in 1..(n - 1) : f[j] = N[j]
    BY <1>2, <1>7, FrontOf
  <2> HIDE DEF kept
  <2>2. a \in Seq(Texts) /\ Len(a) = n /\ \A j \in 1..n : a[j] = kept[j]
    <3>1. a \in Seq(Texts) /\ Len(a) = Len(kept) - 1 /\ \A j \in 1..(Len(kept) - 1) : a[j] = kept[j]
      BY <1>4, FrontOf
    <3>2. Len(kept) - 1 = n
      BY <1>2, <1>4
    <3> HIDE DEF a, n
    <3> QED BY <3>1, <3>2
  <2> HIDE DEF a, f
  <2>3. b \in Seq(Texts) /\ Len(b) = n /\ b[1] = Nil /\ \A j \in 1..(n - 1) : b[j + 1] = f[j]
    BY <1>1, <1>2, <2>1
  <2> HIDE DEF b, n
  <2>4. ASSUME NEW j \in 1..n PROVE a[j] = b[j]
    <3>1. CASE j = 1
      BY <1>4, <2>2, <2>3, <3>1
    <3>2. CASE j # 1
      <4>1. j - 1 \in 1..(n - 1) /\ j - 1 \in 1..n /\ (j - 1) + 1 = j
        BY <1>2, <3>2
      <4>2. kept[j] = N[j - 1]
        BY <1>4, <4>1
      <4>3. b[j] = f[j - 1] /\ f[j - 1] = N[j - 1]
        BY <2>1, <2>3, <4>1
      <4> QED BY <2>2, <4>2, <4>3
    <3> QED BY <3>1, <3>2
  <2>5. a = b
    BY <2>2, <2>3, <2>4, SeqEqual
  <2> QED BY <2>1, <2>5 DEF a, b, f
<1>8. ASSUME NEW k \in Seq(Texts)
      PROVE  /\ (<<Nil>> \o k) \o slash = <<Nil>> \o (IF last THEN Append(k, Nil) ELSE k)
             /\ Append(<<Nil>> \o k, x) = <<Nil>> \o Append(k, x)
  <2> HIDE DEF x, last, slash
  <2>1. <<Nil>> \in Seq(Texts)
    BY <1>1
  <2>2. (<<Nil>> \o k) \o slash = <<Nil>> \o (k \o slash)
    BY <1>5, <2>1, ConcatAssociative
  <2>3. last => k \o slash = Append(k, Nil)
    BY <1>1, <1>5, AppendIsConcat
  <2>4. ~last => k \o slash = k
    BY <1>5
  <2>5. <<Nil>> \o Append(k, x) = Append(<<Nil>> \o k, x)
    BY <1>3, <2>1, ConcatAppend
  <2> QED BY <2>2, <2>3, <2>4, <2>5
<1>9. Reads(segments, kept, i) = CASE x = Dot -> kept \o slash
                                   [] x = DotDot /\ can_be_popped(kept) -> Front(kept) \o slash
                                   [] OTHER -> Append(kept, x)
  BY DEF Reads, Dot, DotDot
<1>10. ReadOne(N, x, last) = CASE x = Dot -> IF last THEN Append(N, Nil) ELSE N
                              [] x = DotDot /\ N # <<>> /\ N[n] # DotDot ->
                                   IF last THEN Append(Front(N), Nil) ELSE Front(N)
                              [] OTHER -> Append(N, x)
  BY DEF ReadOne
<1>11. /\ kept \o slash = <<Nil>> \o (IF last THEN Append(N, Nil) ELSE N)
       /\ Append(kept, x) = <<Nil>> \o Append(N, x)
  BY <1>2, <1>8
<1>12. N # <<>> => Front(kept) \o slash = <<Nil>> \o (IF last THEN Append(Front(N), Nil) ELSE Front(N))
  BY <1>7, <1>8
<1> HIDE DEF kept, n, x, last, slash
<1>13. Reads(segments, kept, i) = <<Nil>> \o ReadOne(N, x, last)
  <2>1. CASE x = Dot
    BY <1>1, <1>9, <1>10, <1>11, <2>1
  <2>2. CASE x # Dot /\ x = DotDot /\ N # <<>> /\ N[n] # DotDot
    BY <1>6, <1>9, <1>10, <1>12, <2>2
  <2>3. CASE x # Dot /\ ~(x = DotDot /\ N # <<>> /\ N[n] # DotDot)
    BY <1>6, <1>9, <1>10, <1>11, <2>3
  <2> QED BY <2>1, <2>2, <2>3
<1> QED
  BY <1>13 DEF kept, x, last

\* Paths are made of words, and all but the last are not empty.
LEMMA PathWords ==
  ASSUME NEW p PROVE IsPath(p) <=> p \in Seq(Words) /\ \A i \in 1..(Len(p) - 1) : p[i] # Nil
<1>1. ASSUME IsPath(p) PROVE p \in Seq(Words)
  <2>1. p \in Seq(Texts) /\ \A i \in 1..Len(p) : p[i] \in Words
    BY <1>1 DEF IsPath, Words
  <2>2. p = [i \in 1..Len(p) |-> p[i]] /\ Len(p) \in Nat
    BY <2>1
  <2> QED BY <2>1, <2>2
<1>2. ASSUME p \in Seq(Words) PROVE p \in Seq(Texts) /\ \A i \in DOMAIN p : IsWord(p[i])
  <2>1. Words \subseteq Texts
    BY DotSegments
  <2>2. \A i \in DOMAIN p : p[i] \in Words
    BY <1>2
  <2> QED BY <1>2, <2>1, <2>2 DEF Words
<1> QED
  BY <1>1, <1>2 DEF IsPath

Loop(segments) == CHOOSE f : IsKept(f, segments)

\* What is kept at the end of the loop.
LEMMA LoopOf ==
  ASSUME NEW path, NEW segments, segments = Split[path]
  PROVE  remove_dot_segments(path)
         = LET kept == Loop(segments)[Len(segments)] IN IF kept = <<>> THEN <<>> ELSE Join(kept)
  BY DEF remove_dot_segments, Loop, IsKept

\* remove_dot_segments() makes of a path what it denotes.
LEMMA DotSegmentsRemoved ==
  ASSUME NEW p, IsPath(p)
  PROVE  /\ remove_dot_segments(Slashed(p)) = Slashed(Normal[p])
         /\ IsPath(Normal[p]) /\ Removable(Normal[p]) = {} /\ (p # <<>> => Normal[p] # <<>>)
<1> DEFINE n == Len(p)
           segments == <<Nil>> \o p
           Kept == Loop(segments)
<1>1. p \in Seq(Words) /\ p \in Seq(Texts) /\ p \in Seq(Plain) /\ n \in Nat /\ \A i \in 1..(n - 1) : p[i] # Nil
  <2>1. Words \subseteq Texts /\ Words \subseteq Plain
    BY DotSegments
  <2> QED BY <2>1, PathWords
<1>2. Nil \in Texts /\ Nil \in Plain /\ Nil \in Words /\ Nil # Dot /\ Nil # DotDot
  BY DotSegments DEF Named
<1>3. segments \in Seq(Texts) /\ Len(segments) = n + 1 /\ segments[1] = Nil /\ \A i \in 1..n : segments[i + 1] = p[i]
  BY <1>1, <1>2
<1>4. Split[Slashed(p)] = segments
  <2>1. Slashed(p) \in Texts /\ Split[Nil \o Slashed(p)] = <<Nil>> \o p
    <3>1. Slashed(p) \in Texts
      BY <1>1, <1>2, SlashedHead
    <3> QED BY <1>1, <1>2, <3>1, SplitSlashed
  <2>2. Nil \o Slashed(p) = Slashed(p)
    BY <2>1, TextAtoms DEF Nil
  <2> QED BY <2>1, <2>2
<1> HIDE DEF segments, n
<1>5. IsKept(Kept, segments)
  BY <1>3, KeptRule DEF Loop
<1>6. remove_dot_segments(Slashed(p)) = IF Kept[n + 1] = <<>> THEN <<>> ELSE Join(Kept[n + 1])
  BY <1>3, <1>4, LoopOf
<1> HIDE DEF Kept
<1>7. \A i \in 0..(n + 1) : Kept[i] = IF i = 0 THEN <<>> ELSE Reads(segments, Kept[i - 1], i)
  BY <1>3, <1>5 DEF IsKept
<1> DEFINE Keeps(i, N) ==
             /\ Kept[i + 1] = <<Nil>> \o N /\ Normal[p] = Normal[N \o After(p, i)]
             /\ Removable(N) = {} /\ N \in Seq(Words)
             /\ IF i = n /\ n > 0 THEN N # <<>> /\ Front(N) \in Seq(Named) ELSE Settled(N)
           T == {i \in 0..n : \E N : Keeps(i, N)}
<1>8. 0 \in T
  <2>1. Kept[0] = <<>> /\ Kept[1] = Reads(segments, <<>>, 1)
    BY <1>1, <1>7
  <2>2. Kept[1] = Append(<<>>, Nil)
    BY <1>2, <1>3, <2>1 DEF Reads, Dot, DotDot
  <2>3. Append(<<>>, Nil) = <<Nil>> \o <<>>
    BY <1>2
  <2>4. After(p, 0) = p /\ <<>> \o p = p
    BY <1>1, SubSeqFull DEF After, n
  <2>5. Settled(<<>>) /\ <<>> \in Seq(Words)
    BY DEF Settled, Removable
  <2>6. Keeps(0, <<>>)
    BY <1>1, <2>2, <2>3, <2>4, <2>5 DEF Settled
  <2> HIDE DEF Keeps
  <2> QED BY <1>1, <2>6
<1>9. ASSUME NEW i \in 0..(n - 1), i \in T PROVE i + 1 \in T
  <2>1. PICK N : Keeps(i, N)
    BY <1>9
  <2>2. Settled(N) /\ Kept[i + 1] = <<Nil>> \o N /\ Normal[p] = Normal[N \o After(p, i)]
    BY <1>1, <1>9, <2>1
  <2> DEFINE x == p[i + 1]
             r == After(p, i + 1)
             M == ReadOne(N, x, r = <<>>)
             last == i + 2 = Len(segments)
  <2>3. x \in Words /\ r \in Seq(Words) /\ After(p, i) = <<x>> \o r /\ (r = <<>> <=> i + 1 = n)
    BY <1>1, RestOf DEF After, n
  <2>4. x = Nil => r = <<>>
    <3>1. i + 1 # n => i + 1 \in 1..(n - 1)
      BY <1>1
    <3> QED BY <1>1, <2>3, <3>1
  <2>5. segments[i + 2] = x /\ i + 2 \in 1..Len(segments) /\ (r = <<>> <=> last) /\ i + 2 \in 0..(n + 1)
        /\ (i + 2) - 1 = i + 1 /\ i + 2 # 0
    <3>1. i + 1 \in 1..n /\ (i + 1) + 1 = i + 2
      BY <1>1
    <3> QED BY <1>1, <1>3, <2>3, <3>1
  <2> HIDE DEF x, r, last
  <2>6. Kept[i + 2] = <<Nil>> \o ReadOne(N, x, last)
    <3>1. Kept[i + 2] = Reads(segments, <<Nil>> \o N, i + 2)
      BY <1>7, <2>2, <2>5
    <3> QED BY <1>3, <2>2, <2>5, <3>1, ReadsOne DEF last
  <2>7. ReadOne(N, x, last) = M
    BY <2>5 DEF ReadOne
  <2>8. /\ Normal[N \o (<<x>> \o r)] = Normal[M \o r] /\ Removable(M) = {} /\ M \in Seq(Words)
        /\ IF r = <<>> THEN M # <<>> /\ Front(M) \in Seq(Named) ELSE Settled(M)
    BY <2>2, <2>3, <2>4, ReadKeeps, ZenonT(30)
  <2> HIDE DEF M
  <2>9. i + 1 \in 0..n /\ (i + 1) + 1 = i + 2 /\ (i + 1 = n => n > 0)
    BY <1>1
  <2>10. Keeps(i + 1, M)
    BY <2>2, <2>3, <2>6, <2>7, <2>8, <2>9 DEF r
  <2> QED BY <2>9, <2>10
<1> HIDE DEF T
<1>10. 0..n \subseteq T
  BY <1>1, <1>8, <1>9, UpTo
<1>11. PICK N : Keeps(n, N)
  <2>1. n \in T
    BY <1>1, <1>10
  <2> QED BY <2>1 DEF T
<1>12. N \in Seq(Words) /\ N \in Seq(Texts) /\ Removable(N) = {} /\ Kept[n + 1] = <<Nil>> \o N
       /\ (n > 0 => N # <<>>)
  <2>1. Words \subseteq Texts
    BY DotSegments
  <2> QED BY <1>11, <2>1
<1>13. Normal[p] = N
  <2>1. After(p, n) = <<>>
    BY <1>1, SubSeqEmpty DEF After, n
  <2>2. N \o <<>> = N
    BY <1>12
  <2> QED BY <1>11, <1>12, <2>1, <2>2, NormalStep
<1>14. IsPath(N)
  <2>1. ASSUME NEW i \in 1..(Len(N) - 1) PROVE N[i] # Nil
    <3>1. CASE Settled(N)
      <4>1. N \in Seq(Named) /\ i \in 1..Len(N)
        BY <1>12, <3>1 DEF Settled
      <4> QED BY <4>1, DotSegments
    <3>2. CASE ~Settled(N)
      <4>1. N # <<>> /\ Front(N) \in Seq(Named)
        BY <1>11, <3>2
      <4>2. Front(N)[i] = N[i] /\ i \in 1..Len(Front(N))
        BY <1>12, <4>1, FrontOf
      <4>3. Front(N)[i] \in Named
        BY <4>1, <4>2
      <4> QED BY <4>2, <4>3, DotSegments
    <3> QED BY <3>1, <3>2
  <2> QED BY <1>12, <2>1, PathWords
<1>15. remove_dot_segments(Slashed(p)) = Slashed(N)
  <2> DEFINE k == <<Nil>> \o N
  <2>1. k # <<>> /\ Head(k) = Nil /\ Tail(k) = N
    BY <1>2, <1>12
  <2>2. Join(k) = Nil \o Slashed(N)
    BY <2>1 DEF Join
  <2>3. Nil \o Slashed(N) = Slashed(N)
    <3>1. Slashed(N) \in Texts
      BY <1>2, <1>12, SlashedHead
    <3> QED BY <3>1, TextAtoms DEF Nil
  <2> HIDE DEF k
  <2> QED BY <1>6, <1>12, <2>1, <2>2, <2>3 DEF k
<1> QED
  <2>1. p # <<>> => n > 0
    BY <1>1 DEF n
  <2> QED BY <1>12, <1>13, <1>14, <1>15, <2>1

-----------------------------------------------------------------------------
(***************************************************************************)
(* Locations.                                                              *)
(***************************************************************************)

\* Paths in a row.
LEMMA SlashedConcat ==
  ASSUME NEW p \in Seq(Texts), NEW q \in Seq(Texts)
  PROVE  Slashed(p \o q) = Slashed(p) \o Slashed(q) /\ Slashed(p) \in Texts /\ Slashed(q) \in Texts
<1> DEFINE P == {k \in Seq(Texts) : Slashed(k \o q) = Slashed(k) \o Slashed(q)}
<1>0. \A k \in Seq(Texts) : Slashed(k) \in Texts
  BY SlashedText
<1>1. <<>> \in P
  <2>1. Slashed(q) \in Seq(Atom)
    BY <1>0, TextAtoms
  <2>2. <<>> \o q = q /\ <<>> \o Slashed(q) = Slashed(q) /\ <<>> \in Seq(Texts)
    BY <2>1
  <2> QED BY <2>2, SlashedNone
<1>2. ASSUME NEW x \in Texts, NEW k \in P PROVE <<x>> \o k \in P
  <2>1. k \in Seq(Texts) /\ Slashed(k \o q) = Slashed(k) \o Slashed(q) /\ <<x>> \o k \in Seq(Texts)
        /\ k \o q \in Seq(Texts) /\ <<x>> \in Seq(Texts)
    OBVIOUS
  <2>2. (<<x>> \o k) \o q = <<x>> \o (k \o q)
    BY <2>1, ConcatAssociative
  <2>3. /\ Slashed(<<x>> \o (k \o q)) = <<"/">> \o (x \o Slashed(k \o q))
        /\ Slashed(<<x>> \o k) = <<"/">> \o (x \o Slashed(k))
    BY <2>1, SlashedHead
  <2> DEFINE s == <<"/">>
             a == Slashed(k)
             b == Slashed(q)
             xa == x \o a
  <2>4. s \in Texts /\ a \in Texts /\ b \in Texts
    BY <1>0, <2>1, AtomAssumption, TextAtoms
  <2> HIDE DEF s, a, b
  <2>5. InARow(x, a, b)
    BY <2>4, TextsInARow, Zenon
  <2>6. xa \in Texts /\ x \o (a \o b) = xa \o b
    BY <2>5 DEF InARow
  <2> HIDE DEF xa
  <2>7. InARow(s, xa, b)
    BY <2>4, <2>6, TextsInARow, Zenon
  <2>8. s \o (x \o (a \o b)) = (s \o xa) \o b
    BY <2>6, <2>7 DEF InARow
  <2> QED BY <2>1, <2>2, <2>3, <2>8 DEF s, a, b, xa
<1> HIDE DEF P
<1>3. P = Seq(Texts)
  <2>1. P \in SUBSET Seq(Texts)
    BY DEF P
  <2> QED BY <1>1, <1>2, <2>1, HeadInduction
<1> QED
  BY <1>0, <1>3 DEF P

\* A path of one segment.
LEMMA SlashedOne == ASSUME NEW x \in Texts PROVE Slashed(<<x>>) = <<"/">> \o x
<1>1. <<>> \in Seq(Texts) /\ <<x>> \o <<>> = <<x>> /\ x \o <<>> = x
  BY TextAtoms
<1>2. Slashed(<<x>> \o <<>>) = <<"/">> \o (x \o Slashed(<<>>))
  BY <1>1, SlashedHead
<1> QED
  BY <1>1, <1>2, SlashedNone

\* Texts without what takes a location apart.
Clean == {t \in Texts : Range(t) \cap {"#", "://", "urn:"} = {}}

\* Words and slashes are such texts, and such texts in a row.
LEMMA CleanTexts ==
  /\ Words \subseteq Clean /\ <<"/">> \in Clean /\ <<>> \in Clean /\ Clean \subseteq Texts
  /\ \A s, t \in Clean : s \o t \in Clean
<1>1. Words \subseteq Clean /\ Clean \subseteq Texts
  BY DEF Words, Clean, IsWord
<1>2. "/" \in Atom
  BY AtomAssumption
<1>3. <<"/">> \in Texts /\ Range(<<"/">>) = {"/"}
  BY <1>2, OneAtom
<1>4. <<>> \in Texts /\ Range(<<>>) = {}
  BY TextAtoms DEF Range
<1>5. <<"/">> \in Clean /\ <<>> \in Clean
  BY <1>3, <1>4 DEF Clean
<1>6. ASSUME NEW s \in Clean, NEW t \in Clean PROVE s \o t \in Clean
  <2>1. s \in Texts /\ t \in Texts
    BY <1>1
  <2>2. AreJoined(s, t)
    BY <2>1, TextsJoined, Zenon
  <2> QED BY <2>2 DEF AreJoined, Clean
<1> QED
  BY <1>1, <1>5, <1>6

\* Paths are such texts.
LEMMA SlashedClean == ASSUME NEW p \in Seq(Words) PROVE Slashed(p) \in Clean
<1> DEFINE P == {k \in Seq(Words) : Slashed(k) \in Clean}
<1>1. <<>> \in P
  BY SlashedNone, CleanTexts
<1>2. ASSUME NEW x \in Words, NEW k \in P PROVE <<x>> \o k \in P
  <2>1. k \in Seq(Words) /\ Slashed(k) \in Clean /\ <<x>> \o k \in Seq(Words) /\ x \in Texts /\ x \in Clean
    BY DotSegments, CleanTexts
  <2>2. k \in Seq(Texts)
    <3>1. Words \subseteq Texts
      BY DotSegments
    <3> QED BY <2>1, <3>1
  <2>3. Slashed(<<x>> \o k) = <<"/">> \o (x \o Slashed(k))
    BY <2>1, <2>2, SlashedHead
  <2>4. <<"/">> \o (x \o Slashed(k)) \in Clean
    BY <2>1, CleanTexts
  <2> QED BY <2>1, <2>3, <2>4
<1> HIDE DEF P
<1>3. P = Seq(Words)
  <2>1. P \in SUBSET Seq(Words)
    BY DEF P
  <2> QED BY <1>1, <1>2, <2>1, HeadInduction
<1> QED
  BY <1>3 DEF P

\* A path that is not empty begins with a slash.
LEMMA SlashedStarts ==
  ASSUME NEW p \in Seq(Texts), p # <<>>
  PROVE  /\ Slashed(p) = <<"/">> \o Join(p) /\ Join(p) \in Texts /\ Slashed(p) \in Texts
         /\ Slashed(p) # <<>> /\ StartsWith(Slashed(p), "/")
<1>1. Head(p) \in Texts /\ Tail(p) \in Seq(Texts) /\ p = <<Head(p)>> \o Tail(p)
  OBVIOUS
<1> DEFINE x == Head(p)
           k == Tail(p)
<1> HIDE DEF x, k
<1>2. Slashed(<<x>> \o k) = <<"/">> \o (x \o Slashed(k)) /\ Slashed(k) \in Texts
  BY <1>1, SlashedHead DEF x, k
<1>3. Join(p) = x \o Slashed(k)
  BY DEF Join, x, k
<1>4. AreJoined(x, Slashed(k))
  BY <1>1, <1>2, TextsJoined, Zenon DEF x
<1>5. Join(p) \in Texts /\ Slashed(p) = <<"/">> \o Join(p)
  BY <1>1, <1>2, <1>3, <1>4 DEF AreJoined, x, k
<1> DEFINE j == Join(p)
<1> HIDE DEF j
<1>6. "/" \in Atom
  BY AtomAssumption
<1>7. IsFirst("/", j)
  BY <1>5, <1>6, FirstOf, Zenon DEF j
<1> QED
  BY <1>5, <1>7 DEF IsFirst, StartsWith, j

\* The directory of a path is the path without its last segment.
LEMMA DirectoryOf ==
  ASSUME NEW p \in Seq(Words)
  PROVE  Directory(Slashed(p)) = IF p = <<>> THEN <<>> ELSE Slashed(Front(p))
<1> DEFINE path == Slashed(p)
           I == {i \in 1..Len(path) : path[i] = "/"}
<1>0. Words \subseteq Texts
  BY DotSegments
<1>1. Directory(path) = LET slash == IF I # {} THEN Max(I) ELSE 0 IN IF slash = 0 THEN path ELSE Before(path, slash)
  BY DEF Directory, SelectLastInSeq
<1>2. CASE p = <<>>
  <2>1. path = <<>>
    BY <1>2, SlashedNone
  <2>2. I = {}
    BY <2>1
  <2> QED BY <1>1, <1>2, <2>1, <2>2
<1>3. CASE p # <<>>
  <2> DEFINE f == Front(p)
             x == p[Len(p)]
             s == Slashed(f)
  <2>1. f \in Seq(Words) /\ x \in Words /\ p = Append(f, x)
    BY <1>3, FrontOf
  <2> HIDE DEF f, x
  <2>2. f \in Seq(Texts) /\ x \in Texts /\ <<x>> \in Seq(Texts) /\ p = f \o <<x>>
    <3>1. f \in Seq(Texts) /\ x \in Texts
      BY <1>0, <2>1
    <3> QED BY <2>1, <3>1, AppendIsConcat
  <2>3. path = s \o (<<"/">> \o x) /\ s \in Texts
    BY <2>2, SlashedConcat, SlashedOne
  <2> HIDE DEF path, s
  <2>4. s \in Seq(Atom) /\ x \in Seq(Atom) /\ "/" \in Atom
    BY <2>2, <2>3, AtomAssumption, TextAtoms
  <2>5. Surrounds(s, "/", x, Atom)
    BY <2>4, Middle, Zenon
  <2>6. /\ Len(path) = Len(s) + Len(x) + 1 /\ path[Len(s) + 1] = "/" /\ Len(s) \in Nat /\ Len(x) \in Nat
        /\ \A i \in 1..Len(x) : path[Len(s) + 1 + i] = x[i]
        /\ SubSeq(path, 1, Len(s)) = s
    BY <2>3, <2>5 DEF Surrounds
  <2>7. \A i \in 1..Len(x) : x[i] # "/"
    <3>1. "/" \notin Range(x) /\ DOMAIN x = 1..Len(x)
      BY <2>1, <2>4 DEF Words, IsWord
    <3> HIDE DEF I
    <3> QED BY <3>1 DEF Range
  <2> DEFINE m == Len(s) + 1
  <2>8. m \in I
    BY <2>6
  <2>9. ASSUME NEW i \in I PROVE m >= i
    <3> SUFFICES ASSUME i > m PROVE FALSE
      BY <2>6
    <3>1. i - m \in 1..Len(x) /\ Len(s) + 1 + (i - m) = i
      BY <2>6
    <3>2. path[i] = x[i - m]
      BY <2>6, <3>1
    <3> QED BY <2>7, <3>1, <3>2
  <2>10. m \in Nat /\ \A i \in I : i \in Nat
    BY <2>6
  <2> HIDE DEF I, m
  <2>11. Max(I) = m
    <3> DEFINE k == CHOOSE i \in I : \A j \in I : i >= j
    <3>1. k \in I /\ \A j \in I : k >= j
      BY <2>8, <2>9
    <3>2. Max(I) = k
      BY DEF Max
    <3> HIDE DEF k
    <3>3. k \in Nat /\ k >= m /\ m >= k
      BY <2>8, <2>9, <2>10, <3>1
    <3> QED BY <2>10, <3>2, <3>3
  <2>12. m # 0 /\ m - 1 = Len(s) /\ I # {}
    BY <2>6, <2>8 DEF m
  <2>13. Before(path, m) = s
    BY <2>6, <2>12 DEF Before
  <2>14. Directory(path) = s
    BY <1>1, <2>11, <2>12, <2>13
  <2> QED BY <1>3, <2>14 DEF s, f, path
<1> QED
  BY <1>2, <1>3

\* A relative path behind the directory of another is the path that they make together.
LEMMA MergedPath ==
  ASSUME NEW base, IsPath(base), NEW path, IsPath(path), path # <<>>
  PROVE  /\ IsPath(Merged(base, path)) /\ Merged(base, path) # <<>>
         /\ Directory(Slashed(base)) \o <<"/">> \o Join(path) = Slashed(Merged(base, path))
<1> DEFINE f == IF base = <<>> THEN <<>> ELSE Front(base)
<1>1. /\ base \in Seq(Words) /\ (\A i \in 1..(Len(base) - 1) : base[i] # Nil)
      /\ path \in Seq(Words) /\ (\A i \in 1..(Len(path) - 1) : path[i] # Nil)
      /\ base \in Seq(Texts) /\ path \in Seq(Texts)
  BY PathWords DEF IsPath
<1>2. f \in Seq(Words) /\ \A i \in 1..Len(f) : f[i] # Nil
  <2>1. CASE base = <<>>
    BY <2>1
  <2>2. CASE base # <<>>
    BY <1>1, <2>2, FrontOf
  <2> QED BY <2>1, <2>2
<1>3. Words \subseteq Texts
  BY DotSegments
<1>4. f \in Seq(Texts)
  <2> HIDE DEF f
  <2> QED BY <1>2, <1>3
<1>5. Directory(Slashed(base)) = Slashed(f)
  BY <1>1, DirectoryOf, SlashedNone
<1>6. Merged(base, path) = f \o path
  BY DEF Merged
<1> HIDE DEF f
<1>7. /\ f \o path \in Seq(Words) /\ Len(f \o path) = Len(f) + Len(path) /\ Len(f) \in Nat /\ Len(path) \in Nat \ {0}
      /\ \A i \in 1..(Len(f) + Len(path)) : (f \o path)[i] = IF i <= Len(f) THEN f[i] ELSE path[i - Len(f)]
  BY <1>1, <1>2, ConcatProperties
<1>8. \A i \in 1..(Len(f \o path) - 1) : (f \o path)[i] # Nil
  <2> SUFFICES ASSUME NEW i \in 1..(Len(f) + Len(path) - 1) PROVE (f \o path)[i] # Nil
    BY <1>7
  <2>1. CASE i <= Len(f)
    <3>1. i \in 1..Len(f) /\ (f \o path)[i] = f[i]
      BY <1>7, <2>1
    <3> QED BY <1>2, <3>1
  <2>2. CASE i > Len(f)
    <3>1. i - Len(f) \in 1..(Len(path) - 1) /\ (f \o path)[i] = path[i - Len(f)]
      BY <1>7, <2>2
    <3> QED BY <1>1, <3>1
  <2> QED BY <1>7, <2>1, <2>2
<1>9. f \o path # <<>>
  BY <1>7
<1>10. IsPath(f \o path)
  BY <1>7, <1>8, PathWords
<1>11. /\ Slashed(f \o path) = Slashed(f) \o Slashed(path) /\ Slashed(f) \in Texts
       /\ Slashed(path) = <<"/">> \o Join(path) /\ Join(path) \in Texts
  BY <1>1, <1>4, SlashedConcat, SlashedStarts
<1> DEFINE d == Slashed(f)
           j == Join(path)
           s == <<"/">>
<1>12. d \in Texts /\ s \in Texts /\ j \in Texts
  BY <1>11, AtomAssumption, OneAtom
<1> HIDE DEF d, j, s
<1>13. InARow(d, s, j)
  BY <1>12, TextsInARow, Zenon
<1>14. (d \o s) \o j = d \o (s \o j)
  BY <1>13 DEF InARow
<1> QED
  BY <1>5, <1>6, <1>9, <1>10, <1>11, <1>14 DEF d, j, s

-----------------------------------------------------------------------------
(***************************************************************************)
(* Fragments.                                                              *)
(***************************************************************************)

LocationWritten(r) ==
  CASE r.urn # None -> r.urn
    [] r.urn = None /\ (r.absolute \/ r.scheme # None) -> Recomposed(r)
    [] OTHER -> IF r.path = <<>> THEN <<>> ELSE Join(r.path)
FragmentWritten(f) ==
  CASE f.coding = "careful" -> <<"#">> \o Careful(FragmentText(f))
    [] f.coding = "careless" -> <<"#">> \o Careless(FragmentText(f))
    [] OTHER -> <<>>

\* The two parts of a reference.
LEMMA WrittenParts == ASSUME NEW r PROVE Written(r) = LocationWritten(r) \o FragmentWritten(r.fragment)
  BY DEF Written, LocationWritten, FragmentWritten

\* The types of a fragment.
LEMMA FragmentType ==
  ASSUME NEW f, IsFragment(f)
  PROVE  /\ f = [kind |-> f.kind, tokens |-> f.tokens, name |-> f.name, coding |-> f.coding]
         /\ f.kind \in {"pointer", "name", "malformed"} /\ f.coding \in {"none", "careful", "careless"}
         /\ f.tokens \in Seq(Texts) /\ f.name \in Texts /\ FragmentText(f) \in Texts
         /\ f.kind = "pointer" => f.name = None /\ (f.coding = "none" => f.tokens = <<>>)
         /\ f.kind = "name" => /\ f.tokens = <<>> /\ f.coding # "none"
                               /\ f.name # None /\ ~StartsWith(f.name, "/")
         /\ f.kind = "malformed" => f.coding # "none" /\ StartsWith(f.name, "/") /\ ~IsPointer(f.name)
<1>1. f \in [kind : {"pointer", "name", "malformed"}, tokens : Seq(Texts), name : Texts,
             coding : {"none", "careful", "careless"}]
  BY DEF IsFragment
<1>2. /\ f = [kind |-> f.kind, tokens |-> f.tokens, name |-> f.name, coding |-> f.coding]
      /\ f.kind \in {"pointer", "name", "malformed"} /\ f.coding \in {"none", "careful", "careless"}
      /\ f.tokens \in Seq(Texts) /\ f.name \in Texts
  BY <1>1
<1>3. PointerText(f.tokens) \in Texts
  BY <1>2, PointerTextIsPointer
<1>4. FragmentText(f) \in Texts
  BY <1>2, <1>3 DEF FragmentText
<1> QED
  BY <1>2, <1>4 DEF IsFragment

\* The location and the fragment of a reference are found in its text.
LEMMA FragmentRead ==
  ASSUME NEW l \in Texts, "#" \notin Range(l), NEW f, IsFragment(f)
  PROVE  /\ LocationOf(l \o FragmentWritten(f)) = l
         /\ FragmentOf(l \o FragmentWritten(f)) = FragmentText(f)
<1> DEFINE x == FragmentText(f)
<1>1. x \in Texts /\ f.coding \in {"none", "careful", "careless"}
  BY FragmentType
<1>2. ASSUME NEW y \in Texts, Decoded(y) = x, FragmentWritten(f) = <<"#">> \o y
      PROVE  LocationOf(l \o FragmentWritten(f)) = l /\ FragmentOf(l \o FragmentWritten(f)) = x
  <2> DEFINE t == l \o (<<"#">> \o y)
             n == Len(l) + 1
  <2>1. "#" \in Atom
    BY AtomAssumption
  <2>2. Find(t, "#") = n /\ Before(t, n) = l /\ After(t, n) = y
    BY <2>1, FindConcat
  <2>3. n # 0
    BY TextAtoms
  <2> HIDE DEF t, n, x
  <2>4. LocationOf(t) = l /\ FragmentOf(t) = x
    BY <1>2, <2>2, <2>3 DEF LocationOf, FragmentOf
  <2>5. l \o FragmentWritten(f) = t
    BY <1>2 DEF t
  <2> QED BY <2>4, <2>5
<1>3. CASE f.coding = "careful"
  <2>1. Careful(x) \in Texts /\ Decoded(Careful(x)) = x /\ FragmentWritten(f) = <<"#">> \o Careful(x)
    BY <1>1, <1>3, DecodedCareful DEF FragmentWritten
  <2> HIDE DEF x
  <2> QED BY <1>2, <2>1 DEF x
<1>4. CASE f.coding = "careless"
  <2>1. Careless(x) \in Texts /\ Decoded(Careless(x)) = x
    BY <1>1, DecodedCareless
  <2>2. FragmentWritten(f) = <<"#">> \o Careless(x)
    BY <1>4 DEF FragmentWritten
  <2> HIDE DEF x
  <2> QED BY <1>2, <2>1, <2>2 DEF x
<1>5. CASE f.coding = "none"
  <2>1. f.kind = "pointer" /\ f.tokens = <<>>
    BY <1>5, FragmentType
  <2>2. x = <<>>
    BY <2>1, PointerNone DEF FragmentText
  <2>3. FragmentWritten(f) = <<>>
    BY <1>5 DEF FragmentWritten
  <2>4. l \o <<>> = l
    BY TextAtoms
  <2>5. Find(l, "#") = 0
    BY FindNone
  <2> QED BY <2>2, <2>3, <2>4, <2>5 DEF LocationOf, FragmentOf
<1> QED
  BY <1>1, <1>3, <1>4, <1>5

\* What update() makes of the text of a fragment.
LEMMA FragmentMeans ==
  ASSUME NEW f, IsFragment(f)
  PROVE  LET x == FragmentText(f)
         IN /\ (StartsWith(x, "/") /\ ~IsPointer(x)) <=> f.kind = "malformed"
            /\ f.kind # "malformed" =>
                 /\ f.tokens = IF StartsWith(x, "/") THEN Tokens(x) ELSE <<>>
                 /\ f.name = IF StartsWith(x, "/") THEN None ELSE x
<1>1. f.tokens \in Seq(Texts) /\ f.name \in Texts /\ f.kind \in {"pointer", "name", "malformed"}
  BY FragmentType
<1>2. CASE f.kind = "pointer"
  <2> DEFINE x == PointerText(f.tokens)
  <2>1. FragmentText(f) = x /\ f.name = None
    BY <1>2, FragmentType DEF FragmentText
  <2>2. x \in Texts /\ IsPointer(x) /\ Tokens(x) = f.tokens
    BY <1>1, PointerTextIsPointer, TokensOfText
  <2>3. CASE f.tokens = <<>>
    <3>1. x = <<>>
      BY <2>3, PointerNone
    <3> QED BY <1>2, <2>1, <2>2, <2>3, <3>1 DEF StartsWith, None
  <2>4. CASE f.tokens # <<>>
    <3> DEFINE a == Head(f.tokens)
               q == Tail(f.tokens)
    <3>1. a \in Texts /\ q \in Seq(Texts) /\ f.tokens = <<a>> \o q
      BY <1>1, <2>4
    <3> HIDE DEF a, q
    <3> DEFINE u == EscapedToken(a) \o PointerText(q)
    <3>2. x = <<"/">> \o u
      BY <3>1, PointerHead
    <3>3. u \in Texts
      <4>1. EscapedToken(a) \in Texts /\ PointerText(q) \in Texts
        BY <3>1, Unescaped, PointerTextIsPointer DEF Plain
      <4>2. AreJoined(EscapedToken(a), PointerText(q))
        BY <4>1, TextsJoined, Zenon
      <4> QED BY <4>2 DEF AreJoined
    <3> HIDE DEF u
    <3>4. "/" \in Atom
      BY AtomAssumption
    <3>5. IsFirst("/", u)
      BY <3>3, <3>4, FirstOf, Zenon
    <3>6. StartsWith(x, "/")
      BY <3>2, <3>5 DEF IsFirst, StartsWith
    <3> HIDE DEF x
    <3> QED BY <1>2, <2>1, <2>2, <3>6
  <2> QED BY <2>3, <2>4
<1>3. CASE f.kind = "name"
  <2>1. FragmentText(f) = f.name /\ f.tokens = <<>> /\ ~StartsWith(f.name, "/")
    BY <1>3, FragmentType DEF FragmentText
  <2> QED BY <1>3, <2>1
<1>4. CASE f.kind = "malformed"
  <2>1. FragmentText(f) = f.name /\ StartsWith(f.name, "/") /\ ~IsPointer(f.name)
    BY <1>4, FragmentType DEF FragmentText
  <2> QED BY <1>4, <2>1
<1> QED
  BY <1>1, <1>2, <1>3, <1>4

-----------------------------------------------------------------------------
(***************************************************************************)
(* The location of a reference.                                            *)
(***************************************************************************)

\* The first character of two texts in a row.
BeginsWith(s, t) == s \o t # <<>> /\ Head(s \o t) = Head(s) /\ Head(s) = s[1] /\ 1 \in DOMAIN s
LEMMA BeginsWithFirst == ASSUME NEW s \in Texts, NEW t \in Texts, s # <<>> PROVE BeginsWith(s, t)
<1>1. s \in Seq(Atom) /\ t \in Seq(Atom)
  BY TextAtoms
<1>2. s \o t # <<>> /\ Head(s \o t) = Head(s) /\ Head(s) = s[1] /\ 1 \in DOMAIN s
  BY <1>1
<1> QED
  BY <1>2 DEF BeginsWith

\* The types of a reference.
LEMMA ReferenceType ==
  ASSUME NEW r, WellFormed(r)
  PROVE  /\ r.urn \in Texts /\ r.scheme \in Texts /\ r.authority \in Texts /\ r.absolute \in BOOLEAN
         /\ r.path \in Seq(Texts) /\ IsFragment(r.fragment)
         /\ r.urn # None => /\ StartsWith(r.urn, "urn:") /\ "#" \notin Range(r.urn)
                            /\ r.scheme = None /\ r.authority = None /\ r.path = <<>> /\ ~r.absolute
         /\ r.urn = None => /\ r.scheme \in Words /\ r.authority \in Words
                            /\ IsPath(r.path) /\ r.path \in Seq(Words)
                            /\ (r.scheme = None => r.authority = None)
                            /\ (r.scheme # None => r.absolute)
                            /\ (r.absolute => r.path # <<>>)
                            /\ (~r.absolute /\ r.path # <<>> => r.path[1] # Nil)
<1>1. /\ r.urn \in Texts /\ r.scheme \in Texts /\ r.authority \in Texts /\ r.absolute \in BOOLEAN
      /\ r.path \in Seq(Texts) /\ IsFragment(r.fragment)
  BY DEF WellFormed
<1>2. ASSUME r.urn = None
      PROVE  /\ IsWord(r.scheme) /\ IsWord(r.authority) /\ IsPath(r.path)
             /\ (r.scheme = None => r.authority = None)
             /\ (r.scheme # None => r.absolute)
             /\ (r.absolute => r.path # <<>>)
             /\ (~r.absolute /\ r.path # <<>> => r.path[1] # Nil)
  BY <1>2 DEF WellFormed
<1>3. ASSUME r.urn # None
      PROVE  /\ StartsWith(r.urn, "urn:") /\ "#" \notin Range(r.urn)
             /\ r.scheme = None /\ r.authority = None /\ r.path = <<>> /\ ~r.absolute
  BY <1>3 DEF WellFormed
<1>4. IsPath(r.path) => r.path \in Seq(Words)
  BY PathWords
<1> QED
  BY <1>1, <1>2, <1>3, <1>4 DEF Words

\* A relative path is such a text too, and does not begin with a slash.
LEMMA JoinStarts ==
  ASSUME NEW p \in Seq(Words), p # <<>>
  PROVE  /\ Join(p) \in Clean
         /\ p[1] # Nil => Join(p) # <<>> /\ ~StartsWith(Join(p), "/")
<1> DEFINE x == Head(p)
           k == Tail(p)
           s == Slashed(k)
<1>1. x \in Words /\ k \in Seq(Words) /\ x = p[1]
  OBVIOUS
<1>2. Join(p) = x \o s
  BY DEF Join
<1> HIDE DEF x, k
<1>3. s \in Clean
  BY <1>1, SlashedClean
<1>4. x \in Clean /\ x \in Texts /\ s \in Texts
  BY <1>1, <1>3, CleanTexts
<1>5. x \o s \in Clean
  BY <1>3, <1>4, CleanTexts
<1> HIDE DEF s
<1>6. ASSUME p[1] # Nil PROVE Join(p) # <<>> /\ ~StartsWith(Join(p), "/")
  <2>1. x # <<>>
    BY <1>1, <1>6 DEF Nil
  <2>2. BeginsWith(x, s)
    BY <1>4, <2>1, BeginsWithFirst, Zenon
  <2>3. Head(x \o s) \in Range(x) /\ x \o s # <<>>
    BY <2>2 DEF BeginsWith, Range
  <2>4. "/" \notin Range(x)
    BY <1>1 DEF Words, IsWord
  <2> QED BY <1>2, <2>3, <2>4 DEF StartsWith
<1> QED
  BY <1>2, <1>5, <1>6

\* A location that is only a path.
LEMMA ReadPath ==
  ASSUME NEW l \in Clean, l # <<>>, NEW u
  PROVE  /\ l \in Texts /\ "#" \notin Range(l) /\ ~StartsWith(l, "urn:")
         /\ Find(l, "://") = 0 /\ Parts(u, l) = [u EXCEPT !.path = l]
<1>1. l \in Texts /\ l \in Seq(Atom) /\ Range(l) \cap {"#", "://", "urn:"} = {}
  BY TextAtoms DEF Clean
<1>2. Find(l, "://") = 0
  BY <1>1, FindNone
<1>3. Head(l) \in Range(l)
  BY <1>1 DEF Range
<1> QED
  BY <1>1, <1>2, <1>3 DEF StartsWith, Parts

\* The parts of a URL.
UrlParts(scheme, authority, path, u) ==
  LET l == scheme \o <<"://">> \o authority \o Slashed(path)
  IN /\ l \in Texts /\ l # <<>> /\ "#" \notin Range(l) /\ ~StartsWith(l, "urn:")
     /\ Parts(u, l) = [u EXCEPT !.urn = None, !.scheme = scheme,
                                !.authority = authority, !.path = Slashed(path)]

\* A URL is taken apart into its scheme, its authority and its path.
LEMMA ReadUrl ==
  ASSUME NEW scheme \in Words, scheme # <<>>, NEW authority \in Words, NEW path \in Seq(Words), path # <<>>, NEW u
  PROVE  UrlParts(scheme, authority, path, u)
<1> DEFINE p == Slashed(path)
           rest == authority \o p
           s == <<"://">>
           l == scheme \o (s \o rest)
           n == Len(scheme) + 1
           m == Len(authority) + 1
<1>1. /\ scheme \in Texts /\ authority \in Texts /\ path \in Seq(Texts) /\ s \in Texts /\ "://" \in Atom /\ "/" \in Atom
      /\ Range(s) = {"://"}
  <2>1. Words \subseteq Texts
    BY DotSegments
  <2> QED BY <2>1, AtomAssumption, OneAtom
<1>2. p \in Clean /\ p \in Texts /\ p = <<"/">> \o Join(path) /\ Join(path) \in Texts
  BY <1>1, SlashedClean, SlashedStarts
<1>3. /\ "/" \notin Range(authority) /\ "://" \notin Range(scheme) /\ "#" \notin Range(scheme)
      /\ "#" \notin Range(authority) /\ "#" \notin Range(p) /\ "urn:" \notin Range(scheme)
  BY <1>2 DEF Words, IsWord, Clean
<1>4. rest \in Texts /\ Find(rest, "/") = m /\ Before(rest, m) = authority /\ After(rest, m) = Join(path)
  BY <1>1, <1>2, <1>3, FindConcat
<1>5. SubSeq(rest, m, Len(rest)) = p /\ m # 0
  <2> DEFINE j == Join(path)
             k == Len(authority)
  <2>1. authority \in Seq(Atom) /\ j \in Seq(Atom) /\ rest \in Seq(Atom) /\ rest = authority \o (<<"/">> \o j)
    BY <1>1, <1>2, <1>4, TextAtoms
  <2> HIDE DEF j
  <2>2. Surrounds(authority, "/", j, Atom)
    BY <1>1, <2>1, Middle, Zenon
  <2> HIDE DEF rest
  <2>3. /\ Len(rest) = k + Len(j) + 1 /\ k \in Nat /\ Len(j) \in Nat /\ rest[k + 1] = "/"
        /\ SubSeq(rest, k + 2, Len(rest)) = j
    BY <2>1, <2>2 DEF Surrounds
  <2>4. k \in 0..(Len(rest) - 1) /\ (k + 1) + 1 = k + 2
    BY <2>3
  <2> HIDE DEF k
  <2>5. SubSeq(rest, k + 1, Len(rest)) = <<rest[k + 1]>> \o SubSeq(rest, (k + 1) + 1, Len(rest))
    BY <2>1, <2>4, RestOf
  <2>6. SubSeq(rest, k + 1, Len(rest)) = p
    BY <1>2, <2>3, <2>4, <2>5 DEF j
  <2>7. m = k + 1 /\ k + 1 # 0
    BY <2>3 DEF k
  <2> QED BY <2>6, <2>7
<1> HIDE DEF p, rest, m
<1>6. l \in Texts /\ Find(l, "://") = n /\ Before(l, n) = scheme /\ After(l, n) = rest
  BY <1>1, <1>3, <1>4, FindConcat
<1>7. n # 0
  BY <1>1, TextAtoms
<1>8. l = scheme \o s \o authority \o p
  <2> DEFINE a == scheme \o s
  <2>1. InARow(scheme, s, rest)
    BY <1>1, <1>4, TextsInARow, Zenon
  <2>2. a \in Texts
    BY <2>1 DEF InARow
  <2> HIDE DEF a
  <2>3. InARow(a, authority, p)
    BY <1>1, <1>2, <2>2, TextsInARow, Zenon
  <2>4. (a \o authority) \o p = a \o rest
    BY <2>3 DEF InARow, rest
  <2>5. a \o rest = l
    BY <2>1 DEF InARow, a
  <2> QED BY <2>4, <2>5 DEF a
<1>9. l # <<>> /\ ~StartsWith(l, "urn:") /\ "#" \notin Range(l)
  <2> DEFINE v == s \o rest
  <2>1. AreJoined(s, rest) /\ AreJoined(authority, p)
    BY <1>1, <1>2, <1>4, TextsJoined, Zenon
  <2>2. v \in Texts /\ "#" \notin Range(v)
    BY <1>1, <1>3, <2>1 DEF AreJoined, rest
  <2> HIDE DEF v
  <2>3. AreJoined(scheme, v)
    BY <1>1, <2>2, TextsJoined, Zenon
  <2>4. "#" \notin Range(scheme \o v)
    BY <1>3, <2>2, <2>3 DEF AreJoined
  <2>5. BeginsWith(scheme, v)
    BY <1>1, <2>2, BeginsWithFirst, Zenon
  <2>6. scheme \o v # <<>> /\ Head(scheme \o v) # "urn:"
    BY <1>3, <2>5 DEF BeginsWith, Range
  <2>7. l = scheme \o v
    BY DEF v
  <2> HIDE DEF l
  <2> QED BY <2>4, <2>6, <2>7 DEF StartsWith
<1> HIDE DEF l, n
<1>10. Parts(u, l) = [u EXCEPT !.urn = None, !.scheme = scheme, !.authority = authority, !.path = p]
  BY <1>4, <1>5, <1>6, <1>7 DEF Parts
<1> QED
  BY <1>6, <1>8, <1>9, <1>10 DEF p, UrlParts

-----------------------------------------------------------------------------
(***************************************************************************)
(* URIs and what they mean.                                                *)
(***************************************************************************)

\* The json_uri of the components of a URI.
Represented(m) ==
  [urn |-> m.urn, scheme |-> m.scheme, authority |-> m.authority, path |-> Slashed(m.path),
   pointer |-> m.fragment.tokens, identifier |-> m.fragment.name]

\* The reference that a URI is when it is written as a whole.
Again(m) ==
  [urn |-> m.urn, scheme |-> m.scheme, authority |-> m.authority, absolute |-> m.path # <<>>,
   path |-> m.path, fragment |-> [m.fragment EXCEPT !.coding = "careful"]]

\* The components that references lead to: such a reference is well-formed, and no
\* segment of the path can be removed.
KeptFragment(f) ==
  /\ f = [kind |-> f.kind, tokens |-> f.tokens, name |-> f.name, coding |-> "none"]
  /\ f.kind # "malformed" /\ IsFragment([f EXCEPT !.coding = "careful"])
Canonical(m) ==
  /\ m = [urn |-> m.urn, scheme |-> m.scheme, authority |-> m.authority, path |-> m.path,
          fragment |-> m.fragment]
  /\ WellFormed(Again(m)) /\ Removable(m.path) = {} /\ KeptFragment(m.fragment)

\* The fragment of a reference, once its coding is forgotten.
LEMMA FragmentKept ==
  ASSUME NEW f, IsFragment(f), f.kind # "malformed"
  PROVE  LET g == [f EXCEPT !.coding = "none"]
         IN KeptFragment(g) /\ g.tokens = f.tokens /\ g.name = f.name /\ g.kind = f.kind
<1> DEFINE g == [f EXCEPT !.coding = "none"]
           h == [g EXCEPT !.coding = "careful"]
<1>1. /\ f = [kind |-> f.kind, tokens |-> f.tokens, name |-> f.name, coding |-> f.coding]
      /\ f.kind \in {"pointer", "name", "malformed"} /\ f.tokens \in Seq(Texts) /\ f.name \in Texts
      /\ f.kind = "pointer" => f.name = None
      /\ f.kind = "name" => f.tokens = <<>> /\ f.name # None /\ ~StartsWith(f.name, "/")
  BY FragmentType
<1>2. g = [kind |-> f.kind, tokens |-> f.tokens, name |-> f.name, coding |-> "none"]
  BY <1>1
<1> HIDE DEF g
<1>3. h = [kind |-> f.kind, tokens |-> f.tokens, name |-> f.name, coding |-> "careful"]
  BY <1>2
<1> HIDE DEF h
<1>4. h.kind = f.kind /\ h.tokens = f.tokens /\ h.name = f.name /\ h.coding = "careful"
  BY <1>3
<1>5. h \in [kind : {"pointer", "name", "malformed"}, tokens : Seq(Texts), name : Texts,
             coding : {"none", "careful", "careless"}]
  BY <1>1, <1>3
<1>6. IsFragment(h)
  BY <1>1, <1>4, <1>5 DEF IsFragment
<1>7. g.kind = f.kind /\ g.tokens = f.tokens /\ g.name = f.name
  BY <1>2
<1>8. KeptFragment(g)
  BY <1>2, <1>6, <1>7 DEF KeptFragment, h
<1> QED
  BY <1>7, <1>8 DEF g

\* What is known of the components that references lead to.
LEMMA CanonicalType ==
  ASSUME NEW m, Canonical(m)
  PROVE  /\ m.urn \in Texts /\ m.scheme \in Texts /\ m.authority \in Texts /\ m.path \in Seq(Texts)
         /\ Removable(m.path) = {} /\ KeptFragment(m.fragment)
         /\ m = [urn |-> m.urn, scheme |-> m.scheme, authority |-> m.authority, path |-> m.path,
                 fragment |-> m.fragment]
         /\ m.urn # None => /\ StartsWith(m.urn, "urn:") /\ "#" \notin Range(m.urn)
                            /\ m.scheme = None /\ m.authority = None /\ m.path = <<>>
         /\ m.urn = None => /\ m.scheme \in Words /\ m.authority \in Words /\ IsPath(m.path)
                            /\ (m.scheme = None => m.authority = None)
                            /\ (m.scheme # None => m.path # <<>>)
<1>1. WellFormed(Again(m))
  BY DEF Canonical
<1> DEFINE r == Again(m)
<1>2. /\ r.urn = m.urn /\ r.scheme = m.scheme /\ r.authority = m.authority /\ r.path = m.path
      /\ r.absolute = (m.path # <<>>)
  BY DEF Again
<1> HIDE DEF r
<1>3. WellFormed(r)
  BY <1>1 DEF r
<1>4. /\ r.urn \in Texts /\ r.scheme \in Texts /\ r.authority \in Texts
      /\ r.path \in Seq(Texts) /\ IsFragment(r.fragment)
      /\ r.urn # None => /\ StartsWith(r.urn, "urn:") /\ "#" \notin Range(r.urn)
                         /\ r.scheme = None /\ r.authority = None /\ r.path = <<>>
      /\ r.urn = None => /\ r.scheme \in Words /\ r.authority \in Words
                         /\ IsPath(r.path)
                         /\ (r.scheme = None => r.authority = None)
                         /\ (r.scheme # None => r.absolute)
  BY <1>3, ReferenceType
<1> QED
  BY <1>2, <1>4 DEF Canonical

\* Components that are such.
LEMMA CanonicalOf ==
  ASSUME NEW m, m = [urn |-> m.urn, scheme |-> m.scheme, authority |-> m.authority, path |-> m.path,
                     fragment |-> m.fragment],
         m.urn \in Texts, m.scheme \in Texts, m.authority \in Texts, m.path \in Seq(Texts),
         Removable(m.path) = {}, KeptFragment(m.fragment),
         m.urn # None => /\ StartsWith(m.urn, "urn:") /\ "#" \notin Range(m.urn)
                         /\ m.scheme = None /\ m.authority = None /\ m.path = <<>>,
         m.urn = None => /\ m.scheme \in Words /\ m.authority \in Words /\ IsPath(m.path)
                         /\ (m.scheme = None => m.authority = None)
                         /\ (m.scheme # None => m.path # <<>>)
  PROVE  Canonical(m)
<1> DEFINE g == [m.fragment EXCEPT !.coding = "careful"]
           r == Again(m)
<1>1. IsFragment(g)
  BY DEF KeptFragment
<1> HIDE DEF g
<1>2. r = [urn |-> m.urn, scheme |-> m.scheme, authority |-> m.authority, absolute |-> m.path # <<>>,
           path |-> m.path, fragment |-> g]
  BY DEF Again, g
<1> HIDE DEF r
<1>3. /\ r.urn = m.urn /\ r.scheme = m.scheme /\ r.authority = m.authority /\ r.path = m.path
      /\ r.absolute = (m.path # <<>>) /\ r.fragment = g
  BY <1>2
<1>4. r \in [urn : Texts, scheme : Texts, authority : Texts, absolute : BOOLEAN,
             path : Seq(Texts), fragment : {g}]
  BY <1>2
<1>5. WellFormed(r)
  BY <1>1, <1>3, <1>4 DEF WellFormed, Words
<1> QED
  BY <1>5 DEF Canonical, r

-----------------------------------------------------------------------------
(***************************************************************************)
(* References that are resolved.                                           *)
(***************************************************************************)

\* A record of the fields of a json_uri is as the components say, but for the fragment.
Placed(u, n) ==
  \A p, i : [u EXCEPT !.pointer = p, !.identifier = i]
            = [urn |-> n.urn, scheme |-> n.scheme, authority |-> n.authority, path |-> Slashed(n.path),
               pointer |-> p, identifier |-> i]

\* What derive() makes of a location: it is rejected, or leads where the components say.
Relocates(m, r) ==
  LET u == Represented(m)
      l == LocationWritten(r)
      parts == Parts(u, l)
      n == Resolved(m, r)
  IN /\ l \in Texts /\ "#" \notin Range(l)
     /\ (l # <<>> /\ ~StartsWith(l, "urn:") /\ parts.urn # None /\ parts.path # <<>>)
        <=> (m.urn # None /\ r.urn = None /\ r.scheme = None /\ (r.absolute \/ r.path # <<>>))
     /\ ~(m.urn # None /\ r.urn = None /\ r.scheme = None /\ (r.absolute \/ r.path # <<>>))
        => Placed(Located(u, l), n)

\* The fields of the components.
LEMMA ResolvedFields ==
  ASSUME NEW m, m = [urn |-> m.urn, scheme |-> m.scheme, authority |-> m.authority, path |-> m.path,
                     fragment |-> m.fragment], NEW r, WellFormed(r)
  PROVE  LET n == Resolved(m, r)
         IN /\ n.fragment = [r.fragment EXCEPT !.coding = "none"]
            /\ n = [urn |-> n.urn, scheme |-> n.scheme, authority |-> n.authority, path |-> n.path,
                    fragment |-> n.fragment]
            /\ r.urn # None => n.urn = r.urn /\ n.scheme = None /\ n.authority = None /\ n.path = <<>>
            /\ r.urn = None /\ r.scheme # None =>
                 n.urn = None /\ n.scheme = r.scheme /\ n.authority = r.authority /\ n.path = Normal[r.path]
            /\ r.urn = None /\ r.scheme = None =>
                 /\ n.urn = m.urn /\ n.scheme = m.scheme /\ n.authority = m.authority
                 /\ n.path = CASE r.absolute -> Normal[r.path]
                               [] ~r.absolute /\ r.path # <<>> -> Normal[Merged(m.path, r.path)]
                               [] OTHER -> m.path
<1> DEFINE f == [r.fragment EXCEPT !.coding = "none"]
           base == [m EXCEPT !.fragment = f]
           n == Resolved(m, r)
<1> HIDE DEF f
<1>1. base = [urn |-> m.urn, scheme |-> m.scheme, authority |-> m.authority, path |-> m.path, fragment |-> f]
  OBVIOUS
<1> HIDE DEF base
<1>2. n = CASE r.urn # None ->
                 [base EXCEPT !.urn = r.urn, !.scheme = None, !.authority = None, !.path = <<>>]
            [] r.scheme # None ->
                 [base EXCEPT !.urn = None, !.scheme = r.scheme, !.authority = r.authority,
                              !.path = Normal[r.path]]
            [] r.urn = None /\ r.scheme = None /\ r.absolute -> [base EXCEPT !.path = Normal[r.path]]
            [] r.urn = None /\ r.scheme = None /\ ~r.absolute /\ r.path # <<>> ->
                 [base EXCEPT !.path = Normal[Merged(@, r.path)]]
            [] OTHER -> base
  BY DEF Resolved, base, f
<1>3. r.urn # None => r.scheme = None
  BY ReferenceType
<1> HIDE DEF n
<1>4. CASE r.urn # None
  <2>1. n = [base EXCEPT !.urn = r.urn, !.scheme = None, !.authority = None, !.path = <<>>]
    BY <1>2, <1>3, <1>4
  <2> QED BY <1>1, <1>4, <2>1 DEF n, f
<1>5. CASE r.urn = None /\ r.scheme # None
  <2>1. n = [base EXCEPT !.urn = None, !.scheme = r.scheme, !.authority = r.authority, !.path = Normal[r.path]]
    BY <1>2, <1>5
  <2> QED BY <1>1, <1>5, <2>1 DEF n, f
<1>6. CASE r.urn = None /\ r.scheme = None /\ r.absolute
  <2>1. n = [base EXCEPT !.path = Normal[r.path]]
    BY <1>2, <1>6
  <2> QED BY <1>1, <1>6, <2>1 DEF n, f
<1>7. CASE r.urn = None /\ r.scheme = None /\ ~r.absolute /\ r.path # <<>>
  <2>1. n = [base EXCEPT !.path = Normal[Merged(m.path, r.path)]]
    BY <1>1, <1>2, <1>7
  <2> QED BY <1>1, <1>7, <2>1 DEF n, f
<1>8. CASE r.urn = None /\ r.scheme = None /\ ~r.absolute /\ r.path = <<>>
  <2>1. n = base
    BY <1>2, <1>8
  <2> QED BY <1>1, <1>8, <2>1 DEF n, f
<1>9. r.absolute \in BOOLEAN
  BY ReferenceType
<1> QED
  BY <1>4, <1>5, <1>6, <1>7, <1>8, <1>9

\* The components that a reference leads to, from such components.
LEMMA ResolvedCanonical ==
  ASSUME NEW m, Canonical(m), NEW r, WellFormed(r), ~Rejected(m, r)
  PROVE  Canonical(Resolved(m, r))
<1> DEFINE n == Resolved(m, r)
<1>1. /\ n.fragment = [r.fragment EXCEPT !.coding = "none"]
      /\ n = [urn |-> n.urn, scheme |-> n.scheme, authority |-> n.authority, path |-> n.path,
              fragment |-> n.fragment]
      /\ r.urn # None => n.urn = r.urn /\ n.scheme = None /\ n.authority = None /\ n.path = <<>>
      /\ r.urn = None /\ r.scheme # None =>
           n.urn = None /\ n.scheme = r.scheme /\ n.authority = r.authority /\ n.path = Normal[r.path]
      /\ r.urn = None /\ r.scheme = None =>
           /\ n.urn = m.urn /\ n.scheme = m.scheme /\ n.authority = m.authority
           /\ n.path = CASE r.absolute -> Normal[r.path]
                         [] ~r.absolute /\ r.path # <<>> -> Normal[Merged(m.path, r.path)]
                         [] OTHER -> m.path
  BY CanonicalType, ResolvedFields
<1> SUFFICES Canonical(n)
  OBVIOUS
<1> HIDE DEF n
<1>2. /\ IsFragment(r.fragment) /\ r.fragment.kind # "malformed" /\ r.absolute \in BOOLEAN
      /\ r.urn \in Texts /\ <<>> \in Texts /\ <<>> \in Seq(Texts) /\ Words \subseteq Texts
  BY ReferenceType, TextAtoms, DotSegments DEF Rejected
<1>3. KeptFragment(n.fragment)
  BY <1>1, <1>2, FragmentKept
<1>4. Removable(<<>>) = {} /\ IsPath(<<>>)
  BY DEF Removable, IsPath
<1>5. CASE r.urn # None
  <2>1. /\ n.urn = r.urn /\ n.scheme = <<>> /\ n.authority = <<>> /\ n.path = <<>>
        /\ StartsWith(n.urn, "urn:") /\ "#" \notin Range(n.urn) /\ n.urn # None
    BY <1>1, <1>5, ReferenceType DEF None
  <2> QED BY <1>1, <1>2, <1>3, <1>4, <2>1, CanonicalOf DEF None
<1>6. ASSUME NEW p, IsPath(p), n.path = Normal[p], n.urn = None, p # <<>>
      PROVE  /\ n.path \in Seq(Texts) /\ Removable(n.path) = {} /\ IsPath(n.path) /\ n.path # <<>>
  <2>1. IsPath(n.path) /\ Removable(n.path) = {} /\ n.path # <<>>
    BY <1>6, DotSegmentsRemoved
  <2> QED BY <2>1 DEF IsPath
<1>7. CASE r.urn = None /\ r.scheme # None
  <2>1. /\ n.urn = None /\ n.scheme = r.scheme /\ n.authority = r.authority /\ n.path = Normal[r.path]
        /\ r.scheme \in Words /\ r.authority \in Words /\ IsPath(r.path) /\ r.path # <<>>
    BY <1>1, <1>7, ReferenceType
  <2>2. n.path \in Seq(Texts) /\ Removable(n.path) = {} /\ IsPath(n.path) /\ n.path # <<>>
    BY <1>6, <2>1
  <2>3. n.urn \in Texts /\ n.scheme \in Texts /\ n.authority \in Texts
    BY <1>2, <2>1 DEF None
  <2> QED BY <1>1, <1>3, <1>7, <2>1, <2>2, <2>3, CanonicalOf
<1>8. ASSUME r.urn = None, r.scheme = None, NEW p, IsPath(p), p # <<>>, n.path = Normal[p], r.absolute \/ r.path # <<>>
      PROVE  Canonical(n)
  <2>1. m.urn = None
    BY <1>8 DEF Rejected
  <2>2. /\ n.urn = None /\ n.scheme = m.scheme /\ n.authority = m.authority
        /\ m.scheme \in Words /\ m.authority \in Words /\ (m.scheme = None => m.authority = None)
    BY <1>1, <1>8, <2>1, CanonicalType
  <2>3. n.path \in Seq(Texts) /\ Removable(n.path) = {} /\ IsPath(n.path) /\ n.path # <<>>
    BY <1>6, <1>8, <2>2
  <2>4. n.urn \in Texts /\ n.scheme \in Texts /\ n.authority \in Texts
    BY <1>2, <2>2 DEF None
  <2> QED BY <1>1, <1>3, <2>2, <2>3, <2>4, CanonicalOf
<1>9. CASE r.urn = None /\ r.scheme = None /\ r.absolute
  <2>1. n.path = Normal[r.path] /\ IsPath(r.path) /\ r.path # <<>>
    BY <1>1, <1>9, ReferenceType
  <2> QED BY <1>8, <1>9, <2>1
<1>10. CASE r.urn = None /\ r.scheme = None /\ ~r.absolute /\ r.path # <<>>
  <2>1. n.path = Normal[Merged(m.path, r.path)]
    BY <1>1, <1>10
  <2>2. m.urn = None
    BY <1>10 DEF Rejected
  <2>3. IsPath(m.path) /\ IsPath(r.path)
    BY <1>10, <2>2, CanonicalType, ReferenceType
  <2>4. IsPath(Merged(m.path, r.path)) /\ Merged(m.path, r.path) # <<>>
    BY <1>10, <2>3, MergedPath
  <2> QED BY <1>8, <1>10, <2>1, <2>4
<1>11. CASE r.urn = None /\ r.scheme = None /\ ~r.absolute /\ r.path = <<>>
  <2>1. n.urn = m.urn /\ n.scheme = m.scheme /\ n.authority = m.authority /\ n.path = m.path
    BY <1>1, <1>11
  <2>2. /\ m.urn \in Texts /\ m.scheme \in Texts /\ m.authority \in Texts /\ m.path \in Seq(Texts)
        /\ Removable(m.path) = {}
        /\ m.urn # None => /\ StartsWith(m.urn, "urn:") /\ "#" \notin Range(m.urn)
                           /\ m.scheme = None /\ m.authority = None /\ m.path = <<>>
        /\ m.urn = None => /\ m.scheme \in Words /\ m.authority \in Words /\ IsPath(m.path)
                           /\ (m.scheme = None => m.authority = None)
                           /\ (m.scheme # None => m.path # <<>>)
    BY CanonicalType
  <2> QED BY <1>1, <1>3, <2>1, <2>2, CanonicalOf
<1> QED
  BY <1>2, <1>5, <1>7, <1>9, <1>10, <1>11

\* A location that is rejected or resolved as a path: absolute, or behind the directory.
LEMMA PathRelocates ==
  ASSUME NEW m, Canonical(m), NEW l \in Clean, l # <<>>
  PROVE  LET u == Represented(m)
         IN /\ Parts(u, l).urn = m.urn /\ Parts(u, l).path = l
            /\ Located(u, l)
               = [u EXCEPT !.path = remove_dot_segments(
                    IF StartsWith(l, "/") THEN l ELSE Directory(Slashed(m.path)) \o <<"/">> \o l)]
<1> DEFINE u == Represented(m)
           parts == [u EXCEPT !.path = l]
           path == IF StartsWith(l, "/") THEN l ELSE Directory(Slashed(m.path)) \o <<"/">> \o l
<1>1. ~StartsWith(l, "urn:") /\ Find(l, "://") = 0 /\ Parts(u, l) = parts
  BY ReadPath
<1>2. u = [urn |-> m.urn, scheme |-> m.scheme, authority |-> m.authority, path |-> Slashed(m.path),
           pointer |-> m.fragment.tokens, identifier |-> m.fragment.name]
  BY DEF Represented
<1> HIDE DEF u
<1>3. parts.urn = m.urn /\ parts.path = l /\ u.path = Slashed(m.path)
  BY <1>2
<1>4. \A x : [parts EXCEPT !.path = x] = [u EXCEPT !.path = x]
  BY <1>2
<1> HIDE DEF parts
<1>5. path = CASE StartsWith(parts.path, "/") -> parts.path
                [] ~StartsWith(parts.path, "/") /\ Find(l, "://") = 0 ->
                     Directory(u.path) \o <<"/">> \o parts.path
                [] OTHER -> u.path \o parts.path
  BY <1>1, <1>3 DEF StartsWith
<1> HIDE DEF path
<1>6. Located(u, l) = [parts EXCEPT !.path = remove_dot_segments(path)]
  BY <1>1, <1>5 DEF Located
<1> QED
  BY <1>1, <1>3, <1>4, <1>6 DEF u, path

\* Fields of a json_uri that are placed.
LEMMA PlacedFields ==
  ASSUME NEW u, NEW n, NEW p, NEW i,
         u = [urn |-> n.urn, scheme |-> n.scheme, authority |-> n.authority, path |-> Slashed(n.path),
              pointer |-> p, identifier |-> i]
  PROVE  Placed(u, n)
<1> DEFINE a == n.urn
           b == n.scheme
           c == n.authority
           d == Slashed(n.path)
<1>1. u = [urn |-> a, scheme |-> b, authority |-> c, path |-> d, pointer |-> p, identifier |-> i]
  OBVIOUS
<1> HIDE DEF a, b, c, d
<1>2. ASSUME NEW x, NEW y
      PROVE  [u EXCEPT !.pointer = x, !.identifier = y]
             = [urn |-> a, scheme |-> b, authority |-> c, path |-> d, pointer |-> x, identifier |-> y]
  <2> DEFINE v == [u EXCEPT !.pointer = x]
             w == [v EXCEPT !.identifier = y]
  <2>1. v = [urn |-> a, scheme |-> b, authority |-> c, path |-> d, pointer |-> x, identifier |-> i]
    BY <1>1
  <2> HIDE DEF v
  <2>2. w = [urn |-> a, scheme |-> b, authority |-> c, path |-> d, pointer |-> x, identifier |-> y]
    BY <2>1
  <2>3. [u EXCEPT !.pointer = x, !.identifier = y] = w
    BY Zenon DEF v
  <2> QED BY <2>2, <2>3
<1> QED
  BY <1>2, Zenon DEF Placed, a, b, c, d

\* derive() relocates a URI as its reference says.
LEMMA Relocation ==
  ASSUME NEW m, Canonical(m), NEW r, WellFormed(r)
  PROVE  Relocates(m, r)
<1> DEFINE u == Represented(m)
           l == LocationWritten(r)
           n == Resolved(m, r)
           parts == Parts(u, l)
           wrong == m.urn # None /\ r.urn = None /\ r.scheme = None /\ (r.absolute \/ r.path # <<>>)
           throws == l # <<>> /\ ~StartsWith(l, "urn:") /\ parts.urn # None /\ parts.path # <<>>
<1>1. u = [urn |-> m.urn, scheme |-> m.scheme, authority |-> m.authority, path |-> Slashed(m.path),
           pointer |-> m.fragment.tokens, identifier |-> m.fragment.name]
  BY DEF Represented
<1>2. /\ n.fragment = [r.fragment EXCEPT !.coding = "none"]
      /\ n = [urn |-> n.urn, scheme |-> n.scheme, authority |-> n.authority, path |-> n.path,
              fragment |-> n.fragment]
      /\ r.urn # None => n.urn = r.urn /\ n.scheme = None /\ n.authority = None /\ n.path = <<>>
      /\ r.urn = None /\ r.scheme # None =>
           n.urn = None /\ n.scheme = r.scheme /\ n.authority = r.authority /\ n.path = Normal[r.path]
      /\ r.urn = None /\ r.scheme = None =>
           /\ n.urn = m.urn /\ n.scheme = m.scheme /\ n.authority = m.authority
           /\ n.path = CASE r.absolute -> Normal[r.path]
                         [] ~r.absolute /\ r.path # <<>> -> Normal[Merged(m.path, r.path)]
                         [] OTHER -> m.path
  BY CanonicalType, ResolvedFields
<1> SUFFICES l \in Texts /\ "#" \notin Range(l) /\ (throws <=> wrong) /\ (~wrong => Placed(Located(u, l), n))
  BY DEF Relocates
<1> HIDE DEF u, n
<1>3. CASE r.urn # None
  <2>1. l = r.urn /\ StartsWith(l, "urn:") /\ l \in Texts /\ "#" \notin Range(l)
    BY <1>3, ReferenceType DEF LocationWritten
  <2>2. Located(u, l) = [Blank EXCEPT !.urn = l]
    <3> HIDE DEF l
    <3> QED BY <2>1 DEF Located, StartsWith
  <2>3. Located(u, l) = [urn |-> n.urn, scheme |-> n.scheme, authority |-> n.authority, path |-> Slashed(n.path),
                         pointer |-> <<>>, identifier |-> None]
    BY <1>2, <1>3, <2>1, <2>2, SlashedNone DEF Blank, None
  <2>4. Placed(Located(u, l), n)
    BY <2>3, PlacedFields
  <2> QED BY <1>3, <2>1, <2>4
<1>4. CASE r.urn = None /\ r.scheme # None
  <2>1. /\ r.scheme \in Words /\ r.authority \in Words /\ r.path \in Seq(Words) /\ r.path # <<>> /\ IsPath(r.path)
        /\ r.scheme # <<>>
    BY <1>4, ReferenceType DEF None
  <2> DEFINE s == r.scheme
             a == r.authority
             p == r.path
             t == s \o <<"://">> \o a \o Slashed(p)
  <2>2. l = t
    BY <1>4 DEF LocationWritten, Recomposed
  <2>10. s \in Words /\ s # <<>> /\ a \in Words /\ p \in Seq(Words) /\ p # <<>>
    BY <2>1
  <2> HIDE DEF s, a, p
  <2>3. /\ t \in Texts /\ t # <<>> /\ "#" \notin Range(t) /\ ~StartsWith(t, "urn:")
        /\ Parts(u, t) = [u EXCEPT !.urn = None, !.scheme = s, !.authority = a, !.path = Slashed(p)]
    <3>1. UrlParts(s, a, p, u)
      BY <2>10, ReadUrl, Zenon
    <3> QED BY <3>1 DEF UrlParts
  <2> HIDE DEF t, l
  <2> DEFINE w == Slashed(p)
  <2>4. StartsWith(w, "/") /\ remove_dot_segments(w) = Slashed(Normal[p])
    <3>1. p \in Seq(Texts) /\ p # <<>> /\ IsPath(p)
      BY <2>1 DEF p, IsPath
    <3> QED BY <3>1, SlashedStarts, DotSegmentsRemoved
  <2> HIDE DEF w
  <2>5. parts = [urn |-> None, scheme |-> s, authority |-> a, path |-> w,
                 pointer |-> m.fragment.tokens, identifier |-> m.fragment.name]
    BY <1>1, <2>2, <2>3 DEF w
  <2> HIDE DEF parts
  <2>6. parts.urn = None /\ parts.path = w
    BY <2>5
  <2>7. Located(u, l) = [parts EXCEPT !.path = remove_dot_segments(w)]
    <3>1. l # <<>> /\ ~StartsWith(l, "urn:") /\ Parts(u, l) = parts
      BY <2>2, <2>3 DEF parts
    <3> QED BY <2>4, <2>6, <3>1 DEF Located
  <2>8. Located(u, l) = [urn |-> n.urn, scheme |-> n.scheme, authority |-> n.authority, path |-> Slashed(n.path),
                         pointer |-> m.fragment.tokens, identifier |-> m.fragment.name]
    BY <1>2, <1>4, <2>4, <2>5, <2>7 DEF s, a, p
  <2>9. Placed(Located(u, l), n)
    BY <2>8, PlacedFields
  <2> QED BY <1>4, <2>2, <2>3, <2>6, <2>9
<1>5. CASE r.urn = None /\ r.scheme = None /\ r.absolute
  <2> DEFINE p == r.path
  <2>1. p \in Seq(Words) /\ p \in Seq(Texts) /\ p # <<>> /\ IsPath(p) /\ r.authority = <<>>
    BY <1>5, ReferenceType DEF None
  <2>2. Slashed(p) \in Clean /\ Slashed(p) \in Texts /\ StartsWith(Slashed(p), "/") /\ Slashed(p) # <<>>
    BY <2>1, SlashedClean, SlashedStarts
  <2>3. l = Slashed(p)
    <3>1. <<>> \o <<>> \o Slashed(p) = Slashed(p)
      BY <2>2, TextAtoms
    <3>2. l = <<>> \o r.authority \o Slashed(p)
      BY <1>5 DEF LocationWritten, Recomposed
    <3> QED BY <2>1, <3>1, <3>2
  <2> HIDE DEF l, p
  <2>4. l \in Clean /\ l # <<>> /\ StartsWith(l, "/")
    BY <2>2, <2>3
  <2>5. Parts(u, l).urn = m.urn /\ Parts(u, l).path = l /\ Located(u, l) = [u EXCEPT !.path = remove_dot_segments(l)]
    BY <2>4, PathRelocates DEF u
  <2>6. remove_dot_segments(l) = Slashed(Normal[p])
    BY <2>1, <2>3, DotSegmentsRemoved
  <2>7. l \in Texts /\ "#" \notin Range(l) /\ ~StartsWith(l, "urn:")
    BY <2>4, ReadPath
  <2>8. Located(u, l) = [urn |-> n.urn, scheme |-> n.scheme, authority |-> n.authority, path |-> Slashed(n.path),
                         pointer |-> m.fragment.tokens, identifier |-> m.fragment.name]
    BY <1>1, <1>2, <1>5, <2>5, <2>6 DEF p
  <2>9. Placed(Located(u, l), n)
    BY <2>8, PlacedFields
  <2> QED BY <1>5, <2>4, <2>5, <2>7, <2>9
<1>6. CASE r.urn = None /\ r.scheme = None /\ ~r.absolute /\ r.path # <<>>
  <2> DEFINE p == r.path
  <2>1. p \in Seq(Words) /\ p # <<>> /\ IsPath(p) /\ p[1] # Nil
    BY <1>6, ReferenceType
  <2>2. l = Join(p)
    BY <1>6 DEF LocationWritten
  <2> HIDE DEF l, p
  <2>3. l \in Clean /\ l # <<>> /\ ~StartsWith(l, "/")
    BY <2>1, <2>2, JoinStarts
  <2>4. /\ Parts(u, l).urn = m.urn /\ Parts(u, l).path = l
        /\ Located(u, l) = [u EXCEPT !.path = remove_dot_segments(Directory(Slashed(m.path)) \o <<"/">> \o l)]
    BY <2>3, PathRelocates DEF u
  <2>5. l \in Texts /\ "#" \notin Range(l) /\ ~StartsWith(l, "urn:")
    BY <2>3, ReadPath
  <2>6. ASSUME m.urn = None PROVE Placed(Located(u, l), n)
    <3>1. IsPath(m.path)
      BY <2>6, CanonicalType
    <3> DEFINE q == Merged(m.path, p)
    <3>2. IsPath(q) /\ Directory(Slashed(m.path)) \o <<"/">> \o l = Slashed(q)
      BY <2>1, <2>2, <3>1, MergedPath
    <3> HIDE DEF q
    <3>3. remove_dot_segments(Slashed(q)) = Slashed(Normal[q])
      BY <3>2, DotSegmentsRemoved
    <3>4. n.path = Normal[q]
      BY <1>2, <1>6 DEF q, p
    <3>5. Located(u, l) = [urn |-> n.urn, scheme |-> n.scheme, authority |-> n.authority, path |-> Slashed(n.path),
                           pointer |-> m.fragment.tokens, identifier |-> m.fragment.name]
      BY <1>1, <1>2, <1>6, <2>4, <3>2, <3>3, <3>4, ZenonT(30)
    <3> QED BY <3>5, PlacedFields
  <2> QED BY <1>6, <2>3, <2>4, <2>5, <2>6
<1>7. CASE r.urn = None /\ r.scheme = None /\ ~r.absolute /\ r.path = <<>>
  <2>1. l = <<>> /\ <<>> \in Texts /\ Range(<<>>) = {}
    BY <1>7, TextAtoms DEF LocationWritten, Range
  <2>2. n.urn = m.urn /\ n.scheme = m.scheme /\ n.authority = m.authority /\ n.path = m.path
    BY <1>2, <1>7
  <2>3. Located(u, l) = u
    <3> HIDE DEF l
    <3> QED BY <2>1 DEF Located, StartsWith
  <2>4. Placed(Located(u, l), n)
    BY <1>1, <2>2, <2>3, PlacedFields
  <2> QED BY <1>7, <2>1, <2>4
<1>8. r.absolute \in BOOLEAN
  BY ReferenceType
<1> QED
  BY <1>3, <1>4, <1>5, <1>6, <1>7, <1>8

\* derive() rejects and resolves references as they mean, from any URI.
LEMMA Derivation ==
  ASSUME NEW m, Canonical(m), NEW r, WellFormed(r)
  PROVE  /\ Throws(Represented(m), Written(r)) <=> Rejected(m, r)
         /\ ~Rejected(m, r) => /\ derive(Represented(m), Written(r)) = Represented(Resolved(m, r))
                               /\ Canonical(Resolved(m, r))
<1> DEFINE u == Represented(m)
           l == LocationWritten(r)
           n == Resolved(m, r)
           f == r.fragment
           x == FragmentText(f)
           t == Written(r)
           parts == Parts(u, l)
           wrong == m.urn # None /\ r.urn = None /\ r.scheme = None /\ (r.absolute \/ r.path # <<>>)
<1>1. Relocates(m, r)
  BY Relocation
<1>2. /\ l \in Texts /\ "#" \notin Range(l)
      /\ (l # <<>> /\ ~StartsWith(l, "urn:") /\ parts.urn # None /\ parts.path # <<>>) <=> wrong
      /\ ~wrong => Placed(Located(u, l), n)
  BY <1>1 DEF Relocates
<1>3. IsFragment(f)
  BY ReferenceType
<1>4. Rejected(m, r) <=> wrong \/ f.kind = "malformed"
  BY DEF Rejected
<1>5. n.fragment = [f EXCEPT !.coding = "none"]
  BY CanonicalType, ResolvedFields
<1>6. t = l \o FragmentWritten(f)
  BY WrittenParts
<1> HIDE DEF l, f, t, n, u
<1>7. LocationOf(t) = l /\ FragmentOf(t) = x
  BY <1>2, <1>3, <1>6, FragmentRead
<1>8. /\ (StartsWith(x, "/") /\ ~IsPointer(x)) <=> f.kind = "malformed"
      /\ f.kind # "malformed" =>
           /\ f.tokens = IF StartsWith(x, "/") THEN Tokens(x) ELSE <<>>
           /\ f.name = IF StartsWith(x, "/") THEN None ELSE x
  BY <1>3, FragmentMeans
<1> HIDE DEF x
<1>9. Throws(u, t) <=> (l # <<>> /\ ~StartsWith(l, "urn:") /\ parts.urn # None /\ parts.path # <<>>)
                       \/ (StartsWith(x, "/") /\ ~IsPointer(x))
  BY <1>7 DEF Throws
<1> HIDE DEF wrong, parts
<1>10. Throws(u, t) <=> Rejected(m, r)
  BY <1>2, <1>4, <1>8, <1>9
<1>11. ASSUME ~Rejected(m, r) PROVE derive(u, t) = Represented(n) /\ Canonical(n)
  <2>1. f.kind # "malformed" /\ Placed(Located(u, l), n)
    BY <1>2, <1>4, <1>11
  <2> DEFINE p == IF StartsWith(x, "/") THEN Tokens(x) ELSE <<>>
             i == IF StartsWith(x, "/") THEN None ELSE x
  <2>2. f.tokens = p /\ f.name = i
    BY <1>8, <2>1
  <2>3. derive(u, t) = [Located(u, l) EXCEPT !.pointer = p, !.identifier = i]
    BY <1>7 DEF derive, update
  <2> HIDE DEF p, i
  <2>4. derive(u, t) = [urn |-> n.urn, scheme |-> n.scheme, authority |-> n.authority,
                        path |-> Slashed(n.path), pointer |-> p, identifier |-> i]
    BY <2>1, <2>3 DEF Placed
  <2>5. n.fragment.tokens = p /\ n.fragment.name = i
    BY <1>3, <1>5, <2>1, <2>2, FragmentKept
  <2>6. derive(u, t) = Represented(n)
    BY <2>4, <2>5 DEF Represented
  <2>7. Canonical(n)
    BY <1>11, ResolvedCanonical DEF n
  <2> QED BY <2>6, <2>7
<1> QED
  BY <1>10, <1>11 DEF u, t, n

-----------------------------------------------------------------------------
(***************************************************************************)
(* URIs that are read again.                                               *)
(***************************************************************************)

\* The components of the empty URI.
Nowhere == [urn |-> None, scheme |-> None, authority |-> None, path |-> <<>>, fragment |-> Root]

\* It is the base of URIs that are read from a text.
LEMMA Reading ==
  /\ Canonical(Nowhere) /\ Represented(Nowhere) = Blank
  /\ \A text : json_uri(text) = derive(Represented(Nowhere), text)
<1> DEFINE g == [Root EXCEPT !.coding = "careful"]
<1>1. g = [kind |-> "pointer", tokens |-> <<>>, name |-> <<>>, coding |-> "careful"]
  BY DEF Root, None
<1> HIDE DEF g
<1>2. <<>> \in Texts /\ <<>> \in Seq(Texts) /\ IsWord(<<>>) /\ IsPath(<<>>) /\ Removable(<<>>) = {}
  BY TextAtoms DEF IsWord, IsPath, Removable, Range
<1>3. IsFragment(g)
  BY <1>1, <1>2 DEF IsFragment, None
<1>4. KeptFragment(Root)
  BY <1>3 DEF KeptFragment, Root, g
<1>5. /\ Nowhere.urn = <<>> /\ Nowhere.scheme = <<>> /\ Nowhere.authority = <<>> /\ Nowhere.path = <<>>
      /\ Nowhere.fragment = Root
      /\ Nowhere = [urn |-> Nowhere.urn, scheme |-> Nowhere.scheme, authority |-> Nowhere.authority,
                    path |-> Nowhere.path, fragment |-> Nowhere.fragment]
  BY DEF Nowhere, None
<1>6. Canonical(Nowhere)
  BY <1>2, <1>4, <1>5, CanonicalOf DEF None, Words
<1>7. Root.tokens = <<>> /\ Root.name = None
  BY DEF Root
<1>8. Represented(Nowhere) = Blank
  BY <1>5, <1>7, SlashedNone DEF Represented, Blank, None
<1> QED
  BY <1>6, <1>8 DEF json_uri, derive

\* The URI of components is read from the text that they make together.
ReadAgain(m, f, text) ==
  /\ Recomposed(m) \in Texts
  /\ ~Throws(Blank, text)
  /\ json_uri(text) = Represented([m EXCEPT !.fragment = [f EXCEPT !.coding = "none"]])
  /\ Canonical([m EXCEPT !.fragment = [f EXCEPT !.coding = "none"]])
LEMMA Rereading ==
  ASSUME NEW m, Canonical(m), NEW f, IsFragment(f), f.kind # "malformed"
  PROVE  ReadAgain(m, f, Recomposed(m) \o FragmentWritten(f))
<1> DEFINE r == [Again(m) EXCEPT !.fragment = f]
           g == [f EXCEPT !.coding = "none"]
           n == Resolved(Nowhere, r)
<1>1. r = [urn |-> m.urn, scheme |-> m.scheme, authority |-> m.authority, absolute |-> m.path # <<>>,
           path |-> m.path, fragment |-> f]
  BY DEF Again
<1> HIDE DEF r
<1>2. /\ r.urn = m.urn /\ r.scheme = m.scheme /\ r.authority = m.authority /\ r.path = m.path
      /\ r.absolute = (m.path # <<>>) /\ r.fragment = f
  BY <1>1
<1>3. /\ m.urn \in Texts /\ m.scheme \in Texts /\ m.authority \in Texts /\ m.path \in Seq(Texts)
      /\ Removable(m.path) = {}
      /\ m = [urn |-> m.urn, scheme |-> m.scheme, authority |-> m.authority, path |-> m.path,
              fragment |-> m.fragment]
      /\ m.urn # None => /\ StartsWith(m.urn, "urn:") /\ "#" \notin Range(m.urn)
                         /\ m.scheme = None /\ m.authority = None /\ m.path = <<>>
      /\ m.urn = None => /\ m.scheme \in Words /\ m.authority \in Words /\ IsPath(m.path)
                         /\ (m.scheme = None => m.authority = None)
                         /\ (m.scheme # None => m.path # <<>>)
  BY CanonicalType
<1>4. r \in [urn : Texts, scheme : Texts, authority : Texts, absolute : BOOLEAN,
             path : Seq(Texts), fragment : {r.fragment}]
  BY <1>1, <1>2, <1>3
<1>5. WellFormed(r)
  BY <1>2, <1>3, <1>4 DEF WellFormed, Words
<1>6. Nowhere.urn = None /\ Nowhere.scheme = None /\ Nowhere.authority = None /\ Nowhere.path = <<>>
  BY DEF Nowhere
<1>7. ~Rejected(Nowhere, r)
  BY <1>2, <1>6 DEF Rejected
<1>8. LocationWritten(r) = Recomposed(m)
  <2>1. CASE m.urn # None
    BY <1>2, <2>1 DEF LocationWritten, Recomposed
  <2>2. CASE m.urn = None /\ (m.path # <<>> \/ m.scheme # None)
    BY <1>2, <2>2 DEF LocationWritten, Recomposed
  <2>3. CASE m.urn = None /\ m.path = <<>> /\ m.scheme = None
    <3>1. LocationWritten(r) = <<>>
      BY <1>2, <2>3 DEF LocationWritten
    <3>2. Recomposed(m) = <<>> \o <<>> \o <<>>
      BY <1>3, <2>3, SlashedNone DEF Recomposed, None
    <3>3. <<>> \o <<>> = <<>>
      BY TextAtoms
    <3> QED BY <3>1, <3>2, <3>3
  <2> QED BY <2>1, <2>2, <2>3
<1>9. Written(r) = Recomposed(m) \o FragmentWritten(f)
  BY <1>2, <1>8, WrittenParts
<1>10. n = [m EXCEPT !.fragment = g]
  <2> HIDE DEF g
  <2>1. /\ n.fragment = g
        /\ n = [urn |-> n.urn, scheme |-> n.scheme, authority |-> n.authority, path |-> n.path,
                fragment |-> n.fragment]
        /\ r.urn # None => n.urn = r.urn /\ n.scheme = None /\ n.authority = None /\ n.path = <<>>
        /\ r.urn = None /\ r.scheme # None =>
             n.urn = None /\ n.scheme = r.scheme /\ n.authority = r.authority /\ n.path = Normal[r.path]
        /\ r.urn = None /\ r.scheme = None =>
             /\ n.urn = Nowhere.urn /\ n.scheme = Nowhere.scheme /\ n.authority = Nowhere.authority
             /\ n.path = CASE r.absolute -> Normal[r.path]
                           [] ~r.absolute /\ r.path # <<>> -> Normal[Merged(Nowhere.path, r.path)]
                           [] OTHER -> Nowhere.path
    BY <1>2, <1>5, Reading, CanonicalType, ResolvedFields DEF g
  <2> HIDE DEF n
  <2>2. Normal[r.path] = m.path
    BY <1>2, <1>3, NormalStep
  <2>3. n.urn = m.urn /\ n.scheme = m.scheme /\ n.authority = m.authority /\ n.path = m.path
    <3>1. CASE m.urn # None
      BY <1>2, <1>3, <2>1, <3>1
    <3>2. CASE m.urn = None /\ m.scheme # None
      BY <1>2, <2>1, <2>2, <3>2
    <3>3. CASE m.urn = None /\ m.scheme = None
      <4>1. n.urn = m.urn /\ n.scheme = m.scheme /\ n.authority = m.authority
        BY <1>2, <1>3, <1>6, <2>1, <3>3
      <4>2. n.path = m.path
        BY <1>2, <1>6, <2>1, <2>2, <3>3
      <4> QED BY <4>1, <4>2
    <3> QED BY <3>1, <3>2, <3>3
  <2>4. n = [urn |-> m.urn, scheme |-> m.scheme, authority |-> m.authority, path |-> m.path, fragment |-> g]
    BY <2>1, <2>3
  <2>5. [m EXCEPT !.fragment = g]
        = [urn |-> m.urn, scheme |-> m.scheme, authority |-> m.authority, path |-> m.path, fragment |-> g]
    BY <1>3
  <2> QED BY <2>4, <2>5
<1>12. Recomposed(m) \in Texts
  <2>1. Relocates(Nowhere, r)
    BY <1>5, Reading, Relocation
  <2> QED BY <1>8, <2>1 DEF Relocates
<1> DEFINE t == Recomposed(m) \o FragmentWritten(f)
<1> HIDE DEF g, n, t
<1>11. ~Throws(Blank, t) /\ json_uri(t) = Represented(n) /\ Canonical(n)
  BY <1>5, <1>7, <1>9, Reading, Derivation DEF n, t
<1> QED
  BY <1>10, <1>11, <1>12 DEF ReadAgain, g, t

\* A fragment that is kept, and the same fragment as it is written.
LEMMA FragmentAgain ==
  ASSUME NEW f, KeptFragment(f)
  PROVE  /\ f.kind \in {"pointer", "name"} /\ f.tokens \in Seq(Texts) /\ f.name \in Texts
         /\ (f.kind = "pointer" <=> f.name = None)
         /\ FragmentText(f) = IF f.name = None THEN PointerText(f.tokens) ELSE f.name
         /\ FragmentText(f) \in Texts
         /\ LET g == [f EXCEPT !.coding = "careful"]
            IN /\ IsFragment(g) /\ g.kind # "malformed" /\ [g EXCEPT !.coding = "none"] = f
               /\ FragmentWritten(g) = <<"#">> \o Careful(FragmentText(f))
<1> DEFINE g == [f EXCEPT !.coding = "careful"]
<1>1. /\ f = [kind |-> f.kind, tokens |-> f.tokens, name |-> f.name, coding |-> "none"]
      /\ f.kind # "malformed" /\ IsFragment(g)
  BY DEF KeptFragment
<1>2. g = [kind |-> f.kind, tokens |-> f.tokens, name |-> f.name, coding |-> "careful"]
  BY <1>1
<1> HIDE DEF g
<1>3. g.kind = f.kind /\ g.tokens = f.tokens /\ g.name = f.name /\ g.coding = "careful"
  BY <1>2
<1>4. [g EXCEPT !.coding = "none"] = f
  BY <1>1, <1>2
<1>5. /\ g.kind \in {"pointer", "name", "malformed"} /\ g.tokens \in Seq(Texts) /\ g.name \in Texts
      /\ FragmentText(g) \in Texts
      /\ (g.kind = "pointer" => g.name = None) /\ (g.kind = "name" => g.name # None)
  BY <1>1, FragmentType
<1>6. FragmentText(g) = FragmentText(f)
  BY <1>3 DEF FragmentText
<1>7. FragmentWritten(g) = <<"#">> \o Careful(FragmentText(f))
  BY <1>3, <1>6 DEF FragmentWritten
<1>8. FragmentText(f) = IF f.name = None THEN PointerText(f.tokens) ELSE f.name
  BY <1>1, <1>3, <1>5 DEF FragmentText
<1> QED
  BY <1>1, <1>3, <1>4, <1>5, <1>6, <1>7, <1>8 DEF g

\* The location and the fragment of the json_uri of components.
LEMMA Designation ==
  ASSUME NEW m, Canonical(m)
  PROVE  /\ location_(Represented(m)) = Recomposed(m)
         /\ fragment_(Represented(m)) = FragmentText(m.fragment)
<1> DEFINE u == Represented(m)
<1>1. /\ u.urn = m.urn /\ u.scheme = m.scheme /\ u.authority = m.authority /\ u.path = Slashed(m.path)
      /\ u.pointer = m.fragment.tokens /\ u.identifier = m.fragment.name
  BY DEF Represented
<1>2. KeptFragment(m.fragment)
  BY DEF Canonical
<1>3. FragmentText(m.fragment)
      = IF m.fragment.name = None THEN PointerText(m.fragment.tokens) ELSE m.fragment.name
  BY <1>2, FragmentAgain
<1> QED
  BY <1>1, <1>3 DEF location_, fragment_, Recomposed

\* A URI is read from its location and its fragment.
LEMMA ReadFromKeys ==
  ASSUME NEW m, Canonical(m)
  PROVE  json_uri(location_(Represented(m)) \o <<"#">> \o Careful(fragment_(Represented(m)))) = Represented(m)
<1> DEFINE f == m.fragment
           g == [f EXCEPT !.coding = "careful"]
           x == FragmentText(f)
           l == Recomposed(m)
           c == Careful(x)
           s == <<"#">>
<1>1. /\ IsFragment(g) /\ g.kind # "malformed" /\ [g EXCEPT !.coding = "none"] = f /\ x \in Texts
      /\ FragmentWritten(g) = s \o c
  <2>1. KeptFragment(f)
    BY DEF Canonical
  <2> HIDE DEF f
  <2> QED BY <2>1, FragmentAgain
<1>2. [m EXCEPT !.fragment = f] = m
  BY CanonicalType
<1> HIDE DEF f, g, x, l
<1>3. ReadAgain(m, g, l \o FragmentWritten(g))
  BY <1>1, Rereading DEF l
<1>4. l \in Texts /\ json_uri(l \o (s \o c)) = Represented(m)
  <2> HIDE DEF c, s
  <2> QED BY <1>1, <1>2, <1>3 DEF ReadAgain, l
<1>5. c \in Texts /\ s \in Texts
  BY <1>1, DecodedCareful, AtomAssumption, OneAtom
<1> HIDE DEF c, s
<1>6. InARow(l, s, c)
  BY <1>4, <1>5, TextsInARow, Zenon
<1>7. json_uri((l \o s) \o c) = Represented(m)
  BY <1>4, <1>6 DEF InARow
<1> QED
  BY <1>7, Designation DEF l, s, c, x, f

-----------------------------------------------------------------------------
(***************************************************************************)
(* The invariant: the URI at hand is that of the components it should      *)
(* have, and these are such as references lead to.                         *)
(***************************************************************************)
IInv == uri = Represented(meant) /\ Canonical(meant)

\* The empty URI.
LEMMA InitialUri == Init => IInv
<1> SUFFICES ASSUME Init PROVE IInv
  OBVIOUS
<1>1. meant = Nowhere /\ uri = json_uri(<<>>)
  BY DEF Init, Nowhere
<1>2. Find(<<>>, "#") = 0
  <2>1. <<>> \in Texts /\ "#" \notin Range(<<>>)
    BY TextAtoms DEF Range
  <2> QED BY <2>1, FindNone
<1>3. LocationOf(<<>>) = <<>> /\ FragmentOf(<<>>) = <<>>
  BY <1>2 DEF LocationOf, FragmentOf
<1>4. Located(Blank, <<>>) = Blank
  BY DEF Located, StartsWith
<1>5. json_uri(<<>>) = [Blank EXCEPT !.pointer = <<>>, !.identifier = <<>>]
  BY <1>3, <1>4 DEF json_uri, update, StartsWith
<1>6. Blank = [urn |-> <<>>, scheme |-> <<>>, authority |-> <<>>, path |-> <<>>, pointer |-> <<>>, identifier |-> <<>>]
  BY DEF Blank, None
<1>7. json_uri(<<>>) = Blank
  BY <1>5, <1>6
<1> QED
  BY <1>1, <1>7, Reading DEF IInv

\* A reference.
LEMMA DeriveKeeps ==
  ASSUME GivenWellFormed, IInv, NEW r \in Given, Derive(r) PROVE IInv'
<1>1. WellFormed(r) /\ Canonical(meant) /\ uri = Represented(meant)
  BY DEF GivenWellFormed, IInv
<1>2. /\ Throws(uri, Written(r)) <=> Rejected(meant, r)
      /\ ~Rejected(meant, r) => /\ derive(uri, Written(r)) = Represented(Resolved(meant, r))
                                /\ Canonical(Resolved(meant, r))
  BY <1>1, Derivation
<1>3. /\ uri' = IF Throws(uri, Written(r)) THEN uri ELSE derive(uri, Written(r))
      /\ meant' = IF Rejected(meant, r) THEN meant ELSE Resolved(meant, r)
  BY DEF Derive
<1>4. uri' = Represented(meant') /\ Canonical(meant')
  BY <1>1, <1>2, <1>3
<1> QED
  BY <1>4 DEF IInv, Represented, Canonical, Again, KeptFragment

\* A fragment with another token.
LEMMA FragmentLonger ==
  ASSUME NEW f, KeptFragment(f), f.kind # "name", NEW key \in Texts
  PROVE  LET g == [f EXCEPT !.tokens = Append(@, key)]
         IN KeptFragment(g) /\ g.tokens = Append(f.tokens, key) /\ g.name = f.name /\ f.name = None
<1> DEFINE q == Append(f.tokens, key)
           g == [f EXCEPT !.tokens = q]
           h == [g EXCEPT !.coding = "careful"]
<1>1. /\ f = [kind |-> f.kind, tokens |-> f.tokens, name |-> f.name, coding |-> "none"]
      /\ f.kind = "pointer" /\ f.tokens \in Seq(Texts) /\ f.name = None /\ None \in Texts
  BY FragmentAgain, TextAtoms DEF KeptFragment, None
<1>2. q \in Seq(Texts)
  BY <1>1
<1> HIDE DEF q
<1>3. g = [kind |-> "pointer", tokens |-> q, name |-> None, coding |-> "none"]
  BY <1>1
<1> HIDE DEF g
<1>4. h = [kind |-> "pointer", tokens |-> q, name |-> None, coding |-> "careful"]
  BY <1>3
<1> HIDE DEF h
<1>5. h.kind = "pointer" /\ h.name = None /\ h.coding = "careful"
  BY <1>4
<1>6. h \in [kind : {"pointer", "name", "malformed"}, tokens : Seq(Texts), name : Texts,
             coding : {"none", "careful", "careless"}]
  BY <1>1, <1>2, <1>4
<1>7. IsFragment(h)
  BY <1>5, <1>6 DEF IsFragment
<1>8. g.kind = "pointer" /\ g.tokens = q /\ g.name = None
  BY <1>3
<1>9. KeptFragment(g)
  BY <1>3, <1>7, <1>8 DEF KeptFragment, h
<1> QED
  BY <1>1, <1>8, <1>9 DEF g, q

\* Other fragments of the same components.
LEMMA OtherFragment ==
  ASSUME NEW m, Canonical(m), NEW f, KeptFragment(f)
  PROVE  LET n == [m EXCEPT !.fragment = f]
         IN /\ Canonical(n)
            /\ Represented(n) = [Represented(m) EXCEPT !.pointer = f.tokens, !.identifier = f.name]
<1> DEFINE n == [m EXCEPT !.fragment = f]
           w == Slashed(m.path)
<1>1. /\ m.urn \in Texts /\ m.scheme \in Texts /\ m.authority \in Texts /\ m.path \in Seq(Texts)
      /\ Removable(m.path) = {}
      /\ m = [urn |-> m.urn, scheme |-> m.scheme, authority |-> m.authority, path |-> m.path,
              fragment |-> m.fragment]
      /\ m.urn # None => /\ StartsWith(m.urn, "urn:") /\ "#" \notin Range(m.urn)
                         /\ m.scheme = None /\ m.authority = None /\ m.path = <<>>
      /\ m.urn = None => /\ m.scheme \in Words /\ m.authority \in Words /\ IsPath(m.path)
                         /\ (m.scheme = None => m.authority = None)
                         /\ (m.scheme # None => m.path # <<>>)
  BY CanonicalType
<1>2. n = [urn |-> m.urn, scheme |-> m.scheme, authority |-> m.authority, path |-> m.path, fragment |-> f]
  BY <1>1
<1> HIDE DEF n
<1>3. /\ n.urn = m.urn /\ n.scheme = m.scheme /\ n.authority = m.authority /\ n.path = m.path
      /\ n.fragment = f
  BY <1>2
<1>4. n = [urn |-> n.urn, scheme |-> n.scheme, authority |-> n.authority, path |-> n.path,
           fragment |-> n.fragment]
  BY <1>2, <1>3
<1>5. Canonical(n)
  BY <1>1, <1>3, <1>4, CanonicalOf
<1>6. Placed(Represented(m), m)
  BY PlacedFields DEF Represented
<1>7. [Represented(m) EXCEPT !.pointer = f.tokens, !.identifier = f.name] = Represented(n)
  <2> DEFINE u == Represented(m)
  <2> HIDE DEF u, w
  <2>1. [u EXCEPT !.pointer = f.tokens, !.identifier = f.name]
        = [urn |-> m.urn, scheme |-> m.scheme, authority |-> m.authority, path |-> w,
           pointer |-> f.tokens, identifier |-> f.name]
    BY <1>6, Zenon DEF Placed, u, w
  <2>2. Represented(n) = [urn |-> m.urn, scheme |-> m.scheme, authority |-> m.authority, path |-> w,
                          pointer |-> f.tokens, identifier |-> f.name]
    BY <1>3 DEF Represented, w
  <2> QED BY <2>1, <2>2 DEF u
<1> QED
  BY <1>5, <1>7 DEF n

\* A sub-schema.
LEMMA SubKeeps == ASSUME IInv, NEW key \in Key, Sub(key) PROVE IInv'
<1> DEFINE f == meant.fragment
           g == [f EXCEPT !.tokens = Append(@, key)]
           u == Represented(meant)
           n == [meant EXCEPT !.fragment = g]
<1>1. key \in Texts /\ Canonical(meant) /\ uri = u /\ KeptFragment(f)
  BY KeyAssumption DEF IInv, Canonical
<1>2. uri' = append(uri, key) /\ meant' = IF f.kind = "name" THEN meant ELSE n
  BY DEF Sub
<1>3. u.identifier = f.name /\ u.pointer = f.tokens
  BY DEF Represented
<1>4. f.kind \in {"pointer", "name"} /\ (f.kind = "pointer" <=> f.name = None)
  BY <1>1, FragmentAgain
<1>5. CASE f.kind = "name"
  <2>1. uri' = u /\ meant' = meant
    BY <1>1, <1>2, <1>3, <1>4, <1>5 DEF append
  <2>2. uri' = Represented(meant') /\ Canonical(meant')
    BY <1>1, <2>1
  <2> QED BY <2>2 DEF IInv, Represented, Canonical, Again, KeptFragment
<1>6. CASE f.kind # "name"
  <2>1. KeptFragment(g) /\ g.tokens = Append(f.tokens, key) /\ g.name = None
    BY <1>1, <1>6, FragmentLonger
  <2>2. uri' = [u EXCEPT !.pointer = g.tokens]
    BY <1>1, <1>2, <1>3, <1>4, <1>6, <2>1 DEF append
  <2>3. f.name = None
    BY <1>4, <1>6
  <2> HIDE DEF g
  <2>4. Canonical(n) /\ Represented(n) = [u EXCEPT !.pointer = g.tokens, !.identifier = g.name]
    BY <1>1, <2>1, OtherFragment
  <2>5. [u EXCEPT !.pointer = g.tokens, !.identifier = g.name] = [u EXCEPT !.pointer = g.tokens]
    <3> DEFINE v == [u EXCEPT !.pointer = g.tokens]
    <3>1. u = [urn |-> meant.urn, scheme |-> meant.scheme, authority |-> meant.authority,
               path |-> Slashed(meant.path), pointer |-> f.tokens, identifier |-> None]
      BY <2>3 DEF Represented
    <3> HIDE DEF u, f
    <3>2. v = [urn |-> meant.urn, scheme |-> meant.scheme, authority |-> meant.authority,
               path |-> Slashed(meant.path), pointer |-> g.tokens, identifier |-> None]
      BY <3>1
    <3>3. [u EXCEPT !.pointer = g.tokens, !.identifier = g.name] = [v EXCEPT !.identifier = g.name]
      BY Zenon
    <3> HIDE DEF v
    <3>4. [v EXCEPT !.identifier = None] = v
      BY <3>2
    <3> QED BY <2>1, <3>3, <3>4 DEF v
  <2>6. uri' = Represented(meant') /\ Canonical(meant')
    BY <1>2, <1>6, <2>2, <2>4, <2>5
  <2> QED BY <2>6 DEF IInv, Represented, Canonical, Again, KeptFragment
<1> QED
  BY <1>5, <1>6

\* A document that is loaded.
LEMMA LoadKeeps == ASSUME IInv, Load PROVE IInv'
<1> DEFINE l == Recomposed(meant)
           n == [meant EXCEPT !.fragment = [Root EXCEPT !.coding = "none"]]
<1>1. Canonical(meant) /\ uri = Represented(meant)
  BY DEF IInv
<1>2. location_(uri) = l
  BY <1>1, Designation
<1>3. Root = [kind |-> "pointer", tokens |-> <<>>, name |-> <<>>, coding |-> "none"]
  BY DEF Root, None
<1>4. IsFragment(Root) /\ Root.kind # "malformed" /\ FragmentWritten(Root) = <<>>
  <2>1. <<>> \in Texts /\ <<>> \in Seq(Texts)
    BY TextAtoms
  <2> QED BY <1>3, <2>1 DEF IsFragment, FragmentWritten, None
<1>5. [Root EXCEPT !.coding = "none"] = Root
  BY <1>3
<1>6. ReadAgain(meant, Root, l \o FragmentWritten(Root))
  BY <1>1, <1>4, Rereading
<1>7. l \in Texts /\ json_uri(l \o <<>>) = Represented(n) /\ Canonical(n)
  BY <1>4, <1>6 DEF ReadAgain
<1>8. l \o <<>> = l
  BY <1>7, TextAtoms
<1>9. uri' = json_uri(l) /\ meant' = n
  BY <1>2, <1>5 DEF Load
<1>10. uri' = Represented(meant') /\ Canonical(meant')
  BY <1>7, <1>8, <1>9
<1> QED
  BY <1>10 DEF IInv, Represented, Canonical, Again, KeptFragment

\* The invariant holds in every reachable state.
LEMMA IInvHolds == ASSUME GivenWellFormed PROVE Spec => []IInv
<1>1. ASSUME IInv, [Next]_vars PROVE IInv'
  <2>1. CASE \E r \in Given : Derive(r)
    BY <1>1, <2>1, DeriveKeeps
  <2>2. CASE \E key \in Key : Sub(key)
    BY <1>1, <2>2, SubKeeps
  <2>3. CASE Load
    BY <1>1, <2>3, LoadKeeps
  <2>4. CASE UNCHANGED vars
    <3>1. uri' = uri /\ meant' = meant
      BY <2>4 DEF vars
    <3>2. uri' = Represented(meant') /\ Canonical(meant')
      BY <1>1, <3>1 DEF IInv
    <3> QED BY <3>2 DEF IInv, Represented, Canonical, Again, KeptFragment
  <2> QED BY <1>1, <2>1, <2>2, <2>3, <2>4 DEF Next
<1> QED
  BY <1>1, InitialUri, PTL DEF Spec

-----------------------------------------------------------------------------
(***************************************************************************)
(* Theorems.                                                               *)
(***************************************************************************)

\* A chain of any well-formed references, keys and loads leads where the RFCs say, and a
\* rejected reference changes nothing: derive() with remove_dot_segments(), append(), and
\* the json_uri of a location.
THEOREM Designated == ASSUME GivenWellFormed PROVE Spec => []DesignatesMeant
<1>1. IInv => DesignatesMeant
  BY Designation DEF IInv, DesignatesMeant
<1> QED
  BY <1>1, IInvHolds, PTL

\* A URI is read back from its location and its fragment, which are all that root_schema
\* keeps of it.
THEOREM ReadingBack == ASSUME GivenWellFormed PROVE Spec => []ReadsBack
<1>1. IInv => ReadsBack
  BY ReadFromKeys DEF IInv, ReadsBack
<1> QED
  BY <1>1, IInvHolds, PTL

\* URIs that compare equal are filed under the same location and fragment, and no others.
THEOREM SameKeys == ASSUME GivenWellFormed PROVE Spec => []EqualMeansSameKeys
<1>1. ASSUME IInv, NEW r \in Given, ~Throws(Blank, Written(r))
      PROVE  LET u == json_uri(Written(r))
             IN as_tuple(u) = as_tuple(uri)
                <=> location_(u) = location_(uri) /\ fragment_(u) = fragment_(uri)
  <2> DEFINE u == json_uri(Written(r))
             n == Resolved(Nowhere, r)
  <2>1. WellFormed(r) /\ Canonical(meant) /\ uri = Represented(meant)
    BY <1>1 DEF GivenWellFormed, IInv
  <2>2. u = Represented(n) /\ Canonical(n)
    BY <1>1, <2>1, Reading, Derivation
  <2> HIDE DEF u, n
  <2>3. /\ json_uri(location_(u) \o <<"#">> \o Careful(fragment_(u))) = u
        /\ json_uri(location_(uri) \o <<"#">> \o Careful(fragment_(uri))) = uri
    BY <2>1, <2>2, ReadFromKeys
  <2>4. location_(u) = location_(uri) /\ fragment_(u) = fragment_(uri) => u = uri
    BY <2>3
  <2>5. as_tuple(u) = as_tuple(uri)
        => location_(u) = location_(uri) /\ fragment_(u) = fragment_(uri)
    BY DEF as_tuple, location_
  <2>6. u = uri => as_tuple(u) = as_tuple(uri)
    OBVIOUS
  <2>7. as_tuple(u) = as_tuple(uri)
        <=> location_(u) = location_(uri) /\ fragment_(u) = fragment_(uri)
    BY <2>4, <2>5, <2>6
  <2> QED BY <2>7 DEF u
<1>2. IInv => EqualMeansSameKeys
  BY <1>1 DEF EqualMeansSameKeys
<1> QED
  BY <1>2, IInvHolds, PTL

\* The keys of unknown keywords, escaped one by one, lead to themselves.
THEOREM EscapedKeys == ASSUME GivenWellFormed PROVE Spec => []EscapedKeysLeadToThemselves
<1>1. ASSUME NEW key \in Texts
      PROVE  LET text == <<"/">> \o escape(key) IN IsPointer(text) /\ Tokens(text) = <<key>>
  <2>1. escape(key) = EscapedToken(key)
    BY DEF escape, EscapedToken
  <2>2. <<>> \in Seq(Texts) /\ <<key>> \o <<>> = <<key>> /\ <<key>> \in Seq(Texts)
    OBVIOUS
  <2>3. PointerText(<<key>> \o <<>>) = <<"/">> \o (EscapedToken(key) \o PointerText(<<>>))
    BY <2>2, PointerHead
  <2>4. EscapedToken(key) \in Seq(Atom)
    BY Unescaped, TextAtoms DEF Plain
  <2>5. EscapedToken(key) \o <<>> = EscapedToken(key)
    <3> DEFINE e == EscapedToken(key)
    <3> HIDE DEF e
    <3>1. e \in Seq(Atom)
      BY <2>4 DEF e
    <3>2. e \o <<>> = e
      BY <3>1
    <3> QED BY <3>2 DEF e
  <2>6. PointerText(<<key>>) = <<"/">> \o escape(key)
    BY <2>1, <2>2, <2>3, <2>5, PointerNone
  <2> QED BY <2>2, <2>6, PointerTextIsPointer, TokensOfText
<1>2. IInv => EscapedKeysLeadToThemselves
  <2> SUFFICES ASSUME IInv, NEW i \in DOMAIN uri.pointer PROVE uri.pointer[i] \in Texts
    BY <1>1 DEF EscapedKeysLeadToThemselves
  <2>1. uri.pointer = meant.fragment.tokens /\ KeptFragment(meant.fragment)
    BY DEF IInv, Represented, Canonical
  <2>2. uri.pointer \in Seq(Texts)
    BY <2>1, FragmentAgain
  <2> QED BY <2>2
<1> QED
  BY <1>2, IInvHolds, PTL
=============================================================================
