----------------------------- MODULE DataProofs -----------------------------
(***************************************************************************)
(* Facts about numbers, sequences and JSON trees that the proofs about     *)
(* several components rest on.  The induction theorems of the library take *)
(* an operator; here the property is a set, and a recursive function is    *)
(* known by the equation it satisfies.                                     *)
(***************************************************************************)
EXTENDS JsonTree, SequenceTheorems, FiniteSetTheorems, WellFoundedInduction, TLAPS

(***************************************************************************)
(* Induction and recursion on numbers.                                     *)
(***************************************************************************)

\* A set of numbers that is not empty has a least member.
LEMMA Least ==
  ASSUME NEW T \in SUBSET Nat, T # {} PROVE \E m \in T : \A n \in T : m <= n
<1> DEFINE Less == {ss \in Nat \X Nat : ss[1] < ss[2]}
<1>1. IsWellFoundedOn(Less, Nat)
  BY NatLessThanWellFounded, SMT DEF OpToRel
<1>2. PICK m \in T : \A n \in Nat : <<n, m>> \in Less => n \notin T
  <2> HIDE DEF Less
  <2>1. PICK x : x \in T
    OBVIOUS
  <2> QED BY <1>1, <2>1, WFMin
<1>3. \A n \in T : ~(n < m)
  BY <1>2
<1> QED
  BY <1>3

\* A set that has a, and with each number the next, has all of them up to b.
LEMMA UpTo ==
  ASSUME NEW S, NEW a \in Nat, NEW b \in Nat, a \in S,
         \A n \in a..(b - 1) : n \in S => n + 1 \in S
  PROVE  a..b \subseteq S
<1> DEFINE T == {n \in a..b : n \notin S}
<1> SUFFICES ASSUME T # {} PROVE FALSE
  OBVIOUS
<1>1. PICK m \in T : \A n \in T : m <= n
  <2>1. T \in SUBSET Nat
    OBVIOUS
  <2> HIDE DEF T
  <2> QED BY <2>1, Least
<1>2. m - 1 \in a..(b - 1) /\ m - 1 \notin T
  BY <1>1
<1> QED
  BY <1>1, <1>2

\* x is the first value, at a; step gives the value at n from n and the one before.
Recursive(f, a, b, x, step) ==
  f = [n \in a..b |-> IF n = a THEN x ELSE step[n][f[n - 1]]]

\* There is such a function, and its values stay in a set closed under step.
LEMMA Recursion ==
  ASSUME NEW a \in Nat, NEW b \in Nat, a <= b, NEW X, NEW x \in X,
         NEW step \in [(a + 1)..b -> [X -> X]]
  PROVE  \E f \in [a..b -> X] : Recursive(f, a, b, x, step)
<1> DEFINE S == {m \in a..b : \E f \in [a..m -> X] : Recursive(f, a, m, x, step)}
<1>1. a \in S
  <2> DEFINE f == [n \in a..a |-> x]
  <2>1. f \in [a..a -> X] /\ f = [n \in a..a |-> IF n = a THEN x ELSE step[n][f[n - 1]]]
    OBVIOUS
  <2>2. Recursive(f, a, a, x, step)
    BY <2>1 DEF Recursive
  <2> HIDE DEF f
  <2> QED BY <2>1, <2>2
<1>2. ASSUME NEW m \in a..(b - 1), m \in S PROVE m + 1 \in S
  <2>1. PICK f \in [a..m -> X] : Recursive(f, a, m, x, step)
    BY <1>2
  <2>2. \A n \in a..m : f[n] = IF n = a THEN x ELSE step[n][f[n - 1]]
    BY <2>1 DEF Recursive
  <2> DEFINE last == step[m + 1][f[m]]
             g == [n \in a..(m + 1) |-> IF n = m + 1 THEN last ELSE f[n]]
  <2>3. last \in X
    <3>1. step[m + 1] \in [X -> X] /\ f[m] \in X
      OBVIOUS
    <3> QED BY <3>1
  <2> HIDE DEF last
  <2>4. g \in [a..(m + 1) -> X]
    BY <2>3
  <2>5. ASSUME NEW n \in a..(m + 1) PROVE g[n] = IF n = a THEN x ELSE step[n][g[n - 1]]
    <3>1. CASE n = m + 1
      <4>1. n # a /\ n - 1 = m /\ m \in a..(m + 1) /\ m # m + 1
        BY <3>1
      <4>2. g[n - 1] = f[m] /\ g[n] = last
        BY <3>1, <4>1
      <4> QED BY <3>1, <4>1, <4>2 DEF last
    <3>2. CASE n # m + 1
      <4>1. n \in a..m /\ g[n] = f[n] /\ (n # a => g[n - 1] = f[n - 1])
        BY <3>2
      <4> QED BY <2>2, <4>1
    <3> QED BY <3>1, <3>2
  <2>6. g = [n \in a..(m + 1) |-> g[n]]
    OBVIOUS
  <2> HIDE DEF g
  <2>7. Recursive(g, a, m + 1, x, step)
    BY <2>5, <2>6 DEF Recursive
  <2> QED BY <2>4, <2>7
<1> HIDE DEF S
<1>3. a..b \subseteq S
  BY <1>1, <1>2, UpTo
<1>4. b \in S
  BY <1>3
<1> QED
  BY <1>4 DEF S

\* What step makes of a function depends, at each argument, on smaller ones.
Descending(step, S, X, size) ==
  \A g, h \in [S -> X] : \A s \in S :
    (\A t \in S : size[t] < size[s] => g[t] = h[t]) => step[g][s] = step[h][s]
Solves(f, step) == f = step[f]

\* A function whose value at an argument depends on its values at smaller ones exists.
LEMMA SizeRecursion ==
  ASSUME NEW S, NEW X, NEW size \in [S -> Nat], NEW step \in [[S -> X] -> [S -> X]],
         \E x : x \in X, Descending(step, S, X, size)
  PROVE  \E f \in [S -> X] : Solves(f, step)
<1> DEFINE F == [S -> X]
           Solution(f, n) == \A s \in S : size[s] < n => f[s] = step[f][s]
<1>1. \A f \in F : step[f] \in F
  OBVIOUS
<1>2. \A s \in S : size[s] \in Nat
  OBVIOUS
<1>3. ASSUME NEW n \in Nat, NEW f \in F, Solution(f, n) PROVE Solution(step[f], n + 1)
  <2> DEFINE g == step[f]
  <2>1. g \in F
    BY <1>1
  <2> SUFFICES ASSUME NEW s \in S, size[s] < n + 1 PROVE g[s] = step[g][s]
    OBVIOUS
  <2>2. \A t \in S : size[t] < size[s] => f[t] = g[t]
    BY <1>2, <1>3
  <2>3. step[f][s] = step[g][s]
    <3> HIDE DEF g
    <3> QED BY <2>1, <2>2 DEF Descending
  <2> QED BY <2>3
<1>4. \A n \in Nat : \E f \in F : Solution(f, n)
  <2> SUFFICES ASSUME NEW n \in Nat PROVE \E f \in F : Solution(f, n)
    OBVIOUS
  <2> DEFINE T == {m \in 0..n : \E f \in F : Solution(f, m)}
  <2>1. 0 \in T
    <3>1. PICK x : x \in X
      OBVIOUS
    <3> DEFINE c == [s \in S |-> x]
    <3>2. c \in F
      BY <3>1
    <3>3. Solution(c, 0)
      BY <1>2
    <3> HIDE DEF c
    <3>4. \E f \in F : Solution(f, 0)
      BY <3>2, <3>3
    <3> QED BY <3>4
  <2>2. ASSUME NEW m \in 0..(n - 1), m \in T PROVE m + 1 \in T
    <3>1. PICK f \in F : Solution(f, m)
      BY <2>2
    <3>2. step[f] \in F /\ Solution(step[f], m + 1)
      BY <1>1, <1>3, <3>1
    <3> QED BY <3>2
  <2> HIDE DEF T
  <2>3. 0..n \subseteq T
    BY <2>1, <2>2, UpTo
  <2> QED BY <2>3 DEF T
<1>5. ASSUME NEW n \in Nat, NEW f \in F, Solution(f, n), NEW m \in Nat, NEW g \in F, Solution(g, m), n <= m,
             NEW s \in S, size[s] < n
      PROVE f[s] = g[s]
  <2> DEFINE T == {k \in Nat : \E t \in S : size[t] = k /\ k < n /\ f[t] # g[t]}
  <2> SUFFICES ASSUME f[s] # g[s] PROVE FALSE
    OBVIOUS
  <2>1. T \in SUBSET Nat /\ T # {}
    BY <1>2, <1>5
  <2>2. PICK k \in T : \A j \in T : k <= j
    <3> HIDE DEF T
    <3> QED BY <2>1, Least
  <2>3. PICK t \in S : size[t] = k /\ k < n /\ f[t] # g[t]
    BY <2>2
  <2>4. \A u \in S : size[u] < size[t] => f[u] = g[u]
    BY <1>2, <2>2, <2>3
  <2>5. step[f][t] = step[g][t]
    BY <2>4 DEF Descending
  <2>6. f[t] = step[f][t] /\ g[t] = step[g][t]
    BY <1>5, <2>3
  <2> QED BY <2>3, <2>5, <2>6
<1> DEFINE G == [n \in Nat |-> CHOOSE f \in F : Solution(f, n)]
           f == [s \in S |-> G[size[s] + 1][s]]
<1>6. \A n \in Nat : G[n] \in F /\ Solution(G[n], n)
  BY <1>4
<1> HIDE DEF G
<1>7. f \in F
  BY <1>2, <1>6
<1>8. ASSUME NEW s \in S PROVE f[s] = step[f][s]
  <2> DEFINE n == size[s] + 1
  <2>1. n \in Nat /\ size[s] < n
    BY <1>2
  <2>2. G[n] \in F /\ G[n][s] = step[G[n]][s]
    BY <1>6, <2>1
  <2>3. ASSUME NEW t \in S, size[t] < size[s] PROVE G[n][t] = f[t]
    <3> DEFINE m == size[t] + 1
    <3>1. m \in Nat /\ n \in Nat /\ m <= n /\ size[t] < m
      BY <1>2, <2>3
    <3> HIDE DEF m, n
    <3>2. G[m] \in F /\ Solution(G[m], m) /\ G[n] \in F /\ Solution(G[n], n)
      BY <1>6, <3>1
    <3>3. G[m][t] = G[n][t]
      BY <1>5, <3>1, <3>2
    <3> QED BY <3>3 DEF m
  <2>4. f[s] = G[n][s]
    OBVIOUS
  <2>5. step[G[n]][s] = step[f][s]
    <3> HIDE DEF f, n
    <3> QED BY <1>7, <2>2, <2>3 DEF Descending
  <2> QED BY <2>2, <2>4, <2>5
<1> HIDE DEF f
<1>9. \A s \in S : f[s] = step[f][s]
  BY <1>8
<1>10. step[f] \in [S -> X]
  BY <1>7
<1>11. f = step[f]
  BY <1>7, <1>9, <1>10
<1> QED
  BY <1>7, <1>11 DEF Solves

\* What step makes of a function depends, at each argument, on the ones below it.
DependsOn(step, S, X, below) ==
  \A g, h \in [S -> X] : \A s \in S :
    (\A t \in below[s] : g[t] = h[t]) => step[g][s] = step[h][s]
\* Every set of arguments has one that is above none of them.
Grounds(S, below) == \A T \in SUBSET S : T # {} => \E s \in T : below[s] \cap T = {}
\* g is right about D, which has what is below its members.
Attempt(D, g, S, X, below, step) ==
  /\ D \in SUBSET S /\ g \in [S -> X]
  /\ \A s \in D : below[s] \subseteq D /\ g[s] = step[g][s]

\* Two functions that are right about an argument agree on it.
LEMMA SameAttempts ==
  ASSUME NEW S, NEW X, NEW below, NEW step, DependsOn(step, S, X, below), Grounds(S, below),
         NEW C, NEW g, Attempt(C, g, S, X, below, step),
         NEW D, NEW h, Attempt(D, h, S, X, below, step), NEW s \in C \cap D
  PROVE  g[s] = h[s]
<1> DEFINE T == {t \in C \cap D : g[t] # h[t]}
<1> SUFFICES ASSUME T # {} PROVE FALSE
  OBVIOUS
<1>1. T \in SUBSET S
  BY DEF Attempt
<1>2. PICK t \in T : below[t] \cap T = {}
  BY <1>1, Zenon DEF Grounds
<1>3. \A u \in below[t] : g[u] = h[u]
  BY <1>2 DEF Attempt
<1>4. t \in S /\ g \in [S -> X] /\ h \in [S -> X]
  BY <1>2 DEF Attempt
<1>5. step[g][t] = step[h][t]
  BY <1>3, <1>4, Zenon DEF DependsOn
<1> QED
  BY <1>2, <1>5 DEF Attempt

\* Such a function exists.
LEMMA GroundedRecursion ==
  ASSUME NEW S, NEW X, NEW below \in [S -> SUBSET S], NEW step \in [[S -> X] -> [S -> X]],
         \E x : x \in X, DependsOn(step, S, X, below), Grounds(S, below)
  PROVE  \E f \in [S -> X] : Solves(f, step)
<1> DEFINE Right(D, g) == Attempt(D, g, S, X, below, step)
           U == {s \in S : \E D, g : Right(D, g) /\ s \in D}
           Has(s, x) == \E D, g : Right(D, g) /\ s \in D /\ g[s] = x
           any == CHOOSE x : x \in X
           f == [s \in S |-> IF s \in U THEN CHOOSE x : Has(s, x) ELSE any]
<1>1. ASSUME NEW D, NEW g, Right(D, g), NEW s \in D PROVE s \in U /\ f[s] = g[s]
  <2>1. s \in S /\ s \in U
    BY <1>1 DEF Attempt
  <2>2. Has(s, g[s])
    BY <1>1
  <2>3. Has(s, CHOOSE x : Has(s, x))
    <3> HIDE DEF Has
    <3> QED BY <2>2, Zenon
  <2>4. PICK C, h : Right(C, h) /\ s \in C /\ h[s] = CHOOSE x : Has(s, x)
    BY <2>3, Zenon
  <2> HIDE DEF Has
  <2>5. f[s] = h[s]
    BY <2>1, <2>4
  <2>6. h[s] = g[s]
    BY <1>1, <2>4, SameAttempts
  <2> QED BY <2>1, <2>5, <2>6
<1>2. ASSUME NEW s \in U PROVE \E D, g : Right(D, g) /\ s \in D
  BY <1>2
<1>3. any \in X
  OBVIOUS
<1> HIDE DEF any
<1>4. f \in [S -> X]
  <2> SUFFICES ASSUME NEW s \in S PROVE f[s] \in X
    BY Zenon
  <2>1. CASE s \in U
    <3>1. PICK D, g : Right(D, g) /\ s \in D
      BY <1>2, <2>1
    <3>2. f[s] = g[s]
      <4> HIDE DEF f, U, Right
      <4> QED BY <1>1, <3>1
    <3> QED BY <3>1, <3>2 DEF Attempt
  <2>2. CASE s \notin U
    <3>1. f[s] = any
      BY <2>2
    <3> QED BY <1>3, <3>1
  <2> QED BY <2>1, <2>2
<1> HIDE DEF f
<1>5. Right(U, f)
  <2>1. ASSUME NEW s \in U PROVE below[s] \subseteq U /\ f[s] = step[f][s]
    <3>1. PICK D, g : Right(D, g) /\ s \in D
      BY <1>2, <2>1
    <3>2. \A t \in D : t \in U /\ f[t] = g[t]
      BY <1>1, <3>1
    <3>3. below[s] \subseteq D /\ g[s] = step[g][s] /\ g \in [S -> X] /\ s \in S
      BY <3>1 DEF Attempt
    <3>4. step[f][s] = step[g][s]
      BY <1>4, <3>2, <3>3, Zenon DEF DependsOn
    <3> QED BY <3>1, <3>2, <3>3, <3>4
  <2>2. U \in SUBSET S
    OBVIOUS
  <2> QED BY <1>4, <2>1, <2>2 DEF Attempt
<1>6. \A s \in S : s \in U
  <2> SUFFICES ASSUME S \ U # {} PROVE FALSE
    OBVIOUS
  <2>1. PICK s \in S \ U : below[s] \cap (S \ U) = {}
    <3>1. S \ U \in SUBSET S
      OBVIOUS
    <3> QED BY <3>1, Zenon DEF Grounds
  <2> DEFINE g == [f EXCEPT ![s] = step[f][s]]
  <2>2. /\ step[f] \in [S -> X] /\ g \in [S -> X] /\ g[s] = step[f][s]
        /\ \A t \in S : t # s => g[t] = f[t]
    BY <1>4
  <2> HIDE DEF g
  <2>3. below[s] \subseteq U /\ s \notin U
    BY <2>1
  <2>4. \A t \in U : g[t] = f[t] /\ below[t] \subseteq U /\ f[t] = step[f][t] /\ t \in S
    BY <1>5, <2>2, <2>3 DEF Attempt
  <2> HIDE DEF U
  <2>5. \A t \in U \cup {s} : step[g][t] = step[f][t]
    <3> SUFFICES ASSUME NEW t \in U \cup {s} PROVE step[g][t] = step[f][t]
      OBVIOUS
    <3>1. \A u \in below[t] : g[u] = f[u]
      BY <2>3, <2>4
    <3>2. t \in S
      BY <2>1, <2>4
    <3> QED BY <1>4, <2>2, <3>1, <3>2, Zenon DEF DependsOn
  <2>6. Right(U \cup {s}, g)
    <3>1. \A t \in U \cup {s} : below[t] \subseteq U \cup {s} /\ g[t] = step[g][t] /\ t \in S
      BY <2>2, <2>3, <2>4, <2>5, <2>1
    <3> QED BY <2>2, <3>1 DEF Attempt
  <2> QED BY <2>1, <2>6, <1>1
<1>7. step[f] \in [S -> X] /\ \A s \in S : f[s] = step[f][s]
  BY <1>4, <1>5, <1>6 DEF Attempt
<1> QED
  BY <1>4, <1>7 DEF Solves
-----------------------------------------------------------------------------
(***************************************************************************)
(* Sequences.                                                              *)
(***************************************************************************)
Sequence(s) == s \in Seq(Range(s))

\* A sequence over any set is a sequence over its own elements.
LEMMA IsSequence == ASSUME NEW S, NEW s \in Seq(S) PROVE Sequence(s)
<1>1. s = [i \in 1..Len(s) |-> s[i]] /\ Len(s) \in Nat /\ DOMAIN s = 1..Len(s)
  OBVIOUS
<1>2. \A i \in 1..Len(s) : s[i] \in Range(s)
  BY <1>1 DEF Range
<1> QED
  BY <1>1, <1>2 DEF Sequence

\* The sequences of no and of one element.
LEMMA Short == Sequence(<<>>) /\ \A x : Sequence(<<x>>)
<1>1. <<>> \in Seq({})
  OBVIOUS
<1>2. \A x : <<x>> \in Seq({x})
  OBVIOUS
<1> QED
  BY <1>1, <1>2, IsSequence

\* The sequence of one element.
LEMMA Single ==
  ASSUME NEW S, NEW x \in S
  PROVE  <<x>> \in Seq(S) /\ Len(<<x>>) = 1 /\ Range(<<x>>) = {x}
  BY DEF Range

\* Appending an element.
LEMMA Longer ==
  ASSUME NEW s, Sequence(s), NEW x
  PROVE  /\ Sequence(Append(s, x)) /\ Len(Append(s, x)) = Len(s) + 1 /\ Len(s) \in Nat
         /\ \A i \in 1..Len(s) : Append(s, x)[i] = s[i]
         /\ Append(s, x)[Len(s) + 1] = x
<1> DEFINE S == Range(s) \cup {x}
<1>1. s \in Seq(S) /\ x \in S
  BY DEF Sequence
<1> HIDE DEF S
<1>2. /\ Append(s, x) \in Seq(S) /\ Len(Append(s, x)) = Len(s) + 1 /\ Len(s) \in Nat
      /\ \A i \in 1..Len(s) : Append(s, x)[i] = s[i]
      /\ Append(s, x)[Len(s) + 1] = x
  BY <1>1, AppendProperties
<1>3. Sequence(Append(s, x))
  BY <1>2, IsSequence
<1> QED
  BY <1>2, <1>3

\* Cutting a sequence.
LEMMA Shorter ==
  ASSUME NEW s, Sequence(s), NEW n \in 0..Len(s)
  PROVE  /\ Sequence(SubSeq(s, 1, n)) /\ Len(SubSeq(s, 1, n)) = n /\ Len(s) \in Nat
         /\ \A i \in 1..n : SubSeq(s, 1, n)[i] = s[i]
<1> DEFINE S == Range(s)
<1>1. s \in Seq(S)
  BY DEF Sequence
<1> HIDE DEF S
<1>2. SubSeq(s, 1, n) \in Seq(S) /\ Len(SubSeq(s, 1, n)) = n /\ Len(s) \in Nat
      /\ \A i \in 1..n : SubSeq(s, 1, n)[i] = s[i]
  BY <1>1
<1> QED
  BY <1>2, IsSequence

\* Sequences with the same elements.
LEMMA SameSequence ==
  ASSUME NEW s, Sequence(s), NEW t, Sequence(t), Len(s) = Len(t),
         \A i \in 1..Len(s) : s[i] = t[i]
  PROVE  s = t
<1> DEFINE S == Range(s) \cup Range(t)
<1>1. s \in Seq(S) /\ t \in Seq(S)
  BY DEF Sequence
<1> HIDE DEF S
<1> QED
  BY <1>1, SeqEqual

\* A prefix of a prefix.
LEMMA CutTwice ==
  ASSUME NEW s, Sequence(s), NEW m \in 0..Len(s), NEW n \in 0..m
  PROVE  SubSeq(SubSeq(s, 1, m), 1, n) = SubSeq(s, 1, n)
<1> DEFINE t == SubSeq(s, 1, m)
<1>1. Sequence(t) /\ Len(t) = m /\ n \in 0..Len(s) /\ n \in 0..Len(t)
      /\ \A i \in 1..m : t[i] = s[i]
  BY Shorter
<1> HIDE DEF t
<1> DEFINE a == SubSeq(t, 1, n)
           b == SubSeq(s, 1, n)
<1>2. Sequence(a) /\ Len(a) = n /\ \A i \in 1..n : a[i] = t[i]
  BY <1>1, Shorter
<1>3. Sequence(b) /\ Len(b) = n /\ \A i \in 1..n : b[i] = s[i]
  BY <1>1, Shorter
<1> HIDE DEF a, b
<1>4. Len(a) = Len(b) /\ \A i \in 1..Len(a) : i \in 1..m /\ a[i] = b[i]
  BY <1>1, <1>2, <1>3
<1>5. a = b
  BY <1>2, <1>3, <1>4, SameSequence
<1> QED
  BY <1>5 DEF a, b, t

\* A prefix of a longer sequence.
LEMMA CutLonger ==
  ASSUME NEW s, Sequence(s), NEW x, NEW n \in 0..Len(s)
  PROVE  SubSeq(Append(s, x), 1, n) = SubSeq(s, 1, n)
<1> DEFINE t == Append(s, x)
<1>1. Sequence(t) /\ Len(t) = Len(s) + 1 /\ Len(s) \in Nat /\ n \in 0..Len(t)
      /\ \A i \in 1..Len(s) : t[i] = s[i]
  BY Longer
<1> HIDE DEF t
<1> DEFINE a == SubSeq(t, 1, n)
           b == SubSeq(s, 1, n)
<1>2. Sequence(a) /\ Len(a) = n /\ \A i \in 1..n : a[i] = t[i]
  BY <1>1, Shorter
<1>3. Sequence(b) /\ Len(b) = n /\ \A i \in 1..n : b[i] = s[i]
  BY <1>1, Shorter
<1> HIDE DEF a, b
<1>4. Len(a) = Len(b) /\ \A i \in 1..Len(a) : i \in 1..Len(s) /\ a[i] = b[i]
  BY <1>1, <1>2, <1>3
<1>5. a = b
  BY <1>2, <1>3, <1>4, SameSequence
<1> QED
  BY <1>5 DEF a, b, t

\* A sequence over its elements is one over every set that has them.
LEMMA OverSet ==
  ASSUME NEW s, Sequence(s), NEW S, Range(s) \subseteq S PROVE s \in Seq(S)
<1>1. s = [i \in 1..Len(s) |-> s[i]] /\ Len(s) \in Nat /\ DOMAIN s = 1..Len(s)
  BY DEF Sequence
<1>2. \A i \in 1..Len(s) : s[i] \in S
  BY <1>1 DEF Range
<1> QED
  BY <1>1, <1>2

\* The elements of a sequence are those at its indices.
LEMMA Elements ==
  ASSUME NEW s, Sequence(s)
  PROVE  /\ Len(s) \in Nat /\ DOMAIN s = 1..Len(s)
         /\ \A x : x \in Range(s) <=> \E i \in 1..Len(s) : x = s[i]
  BY DEF Sequence, Range

\* A sequence given by its elements.
LEMMA Listed ==
  ASSUME NEW n \in Nat, NEW s, DOMAIN s = 1..n, s = [i \in 1..n |-> s[i]]
  PROVE  Sequence(s) /\ Len(s) = n
<1>1. \A i \in 1..n : s[i] \in Range(s)
  BY DEF Range
<1>2. s \in [1..n -> Range(s)]
  BY <1>1
<1> QED
  BY <1>2 DEF Sequence

\* The elements of a concatenation, each by its place in its own part.
LEMMA ConcatIndices ==
  ASSUME NEW S, NEW l \in Seq(S), NEW r \in Seq(S)
  PROVE  /\ Len(l \o r) = Len(l) + Len(r)
         /\ \A n \in 1..Len(l) : (l \o r)[n] = l[n]
         /\ \A n \in 1..Len(r) : (l \o r)[Len(l) + n] = r[n]
<1>1. /\ Len(l \o r) = Len(l) + Len(r)
      /\ \A i \in 1..(Len(l) + Len(r)) : (l \o r)[i] = IF i <= Len(l) THEN l[i] ELSE r[i - Len(l)]
  BY ConcatProperties
<1>2. Len(l) \in Nat /\ Len(r) \in Nat
  OBVIOUS
<1>3. ASSUME NEW n \in 1..Len(l) PROVE (l \o r)[n] = l[n]
  BY <1>1, <1>2
<1>4. ASSUME NEW n \in 1..Len(r) PROVE (l \o r)[Len(l) + n] = r[n]
  <2>1. Len(l) + n \in 1..(Len(l) + Len(r)) /\ ~(Len(l) + n <= Len(l)) /\ (Len(l) + n) - Len(l) = n
    BY <1>2
  <2> QED BY <1>1, <2>1
<1> QED BY <1>1, <1>3, <1>4

\* Two sequences in a row have the elements of both.
LEMMA Joined ==
  ASSUME NEW s, Sequence(s), NEW t, Sequence(t)
  PROVE  Sequence(s \o t) /\ Range(s \o t) = Range(s) \cup Range(t)
<1> DEFINE S == Range(s) \cup Range(t)
<1>1. s \in Seq(S) /\ t \in Seq(S)
  BY OverSet
<1>2. s \o t \in Seq(S) /\ Len(s \o t) = Len(s) + Len(t) /\ Len(s) \in Nat /\ Len(t) \in Nat
      /\ DOMAIN (s \o t) = 1..(Len(s) + Len(t))
      /\ \A i \in 1..(Len(s) + Len(t)) : (s \o t)[i] = IF i <= Len(s) THEN s[i] ELSE t[i - Len(s)]
  <2> HIDE DEF S
  <2> QED BY <1>1, ConcatProperties
<1>3. Range(s \o t) \subseteq S
  <2>1. \A i \in DOMAIN (s \o t) : (s \o t)[i] \in S
    BY <1>2, ElementOfSeq
  <2> QED BY <2>1 DEF Range
<1>4. ASSUME NEW x \in S PROVE x \in Range(s \o t)
  <2>1. CASE x \in Range(s)
    <3>1. PICK i \in 1..Len(s) : x = s[i]
      BY <2>1, Elements
    <3>2. i \in 1..(Len(s) + Len(t)) /\ (s \o t)[i] = x
      BY <1>2, <3>1
    <3> QED BY <1>2, <3>2 DEF Range
  <2>2. CASE x \in Range(t)
    <3>1. PICK i \in 1..Len(t) : x = t[i]
      BY <2>2, Elements
    <3>2. Len(s) + i \in 1..(Len(s) + Len(t)) /\ (s \o t)[Len(s) + i] = x
      BY <1>2, <3>1
    <3> QED BY <1>2, <3>2 DEF Range
  <2> QED BY <1>4, <2>1, <2>2
<1> QED
  BY <1>2, <1>3, <1>4, IsSequence

\* The recursive function of FlattenSeq.
IsFlatten(f, s) ==
  f = [i \in 1..Len(s) |-> IF i = 1 THEN s[i] ELSE f[i - 1] \o s[i]]

\* It exists, and its last value is the flattened sequence.
LEMMA FlattenParts ==
  ASSUME NEW S, NEW s \in Seq(Seq(S)), s # <<>>
  PROVE  \E f \in [1..Len(s) -> Seq(S)] : IsFlatten(f, s) /\ FlattenSeq(s) = f[Len(s)]
<1> DEFINE N == Len(s)
           X == Seq(S)
           step == [n \in (1 + 1)..N |-> [v \in X |-> v \o s[n]]]
<1>1. N \in Nat /\ 1 <= N /\ 1 \in 1..N /\ N # 0
  OBVIOUS
<1>2. \A i \in 1..N : s[i] \in X
  OBVIOUS
<1>3. \A v, w \in X : v \o w \in X
  OBVIOUS
<1> HIDE DEF X, N
<1>4. step \in [(1 + 1)..N -> [X -> X]]
  <2> SUFFICES ASSUME NEW n \in (1 + 1)..N PROVE [v \in X |-> v \o s[n]] \in [X -> X]
    OBVIOUS
  <2>1. s[n] \in X
    BY <1>1, <1>2
  <2> QED BY <1>3, <2>1
<1>5. \E f : IsFlatten(f, s) /\ f \in [1..N -> X]
  <2> HIDE DEF step
  <2>1. PICK f \in [1..N -> X] : Recursive(f, 1, N, s[1], step)
    BY <1>1, <1>2, <1>4, Recursion
  <2>2. \A n \in 1..N : f[n] = IF n = 1 THEN s[1] ELSE step[n][f[n - 1]]
    BY <2>1 DEF Recursive
  <2>3. ASSUME NEW n \in 1..N PROVE f[n] = IF n = 1 THEN s[n] ELSE f[n - 1] \o s[n]
    <3>1. CASE n = 1
      BY <2>2, <3>1
    <3>2. CASE n # 1
      <4>1. n \in (1 + 1)..N /\ f[n - 1] \in X
        BY <1>1, <2>1, <3>2
      <4>2. step[n][f[n - 1]] = f[n - 1] \o s[n]
        BY <4>1 DEF step
      <4> QED BY <2>2, <3>2, <4>2
    <3> QED BY <3>1, <3>2
  <2>4. f = [n \in 1..N |-> f[n]]
    BY <2>1
  <2>5. IsFlatten(f, s)
    BY <2>3, <2>4 DEF IsFlatten, N
  <2> QED BY <2>1, <2>5
<1> DEFINE g == CHOOSE f : IsFlatten(f, s)
<1>6. IsFlatten(g, s)
  BY <1>5
<1>7. FlattenSeq(s) = g[N]
  BY <1>1 DEF FlattenSeq, IsFlatten, N
<1> HIDE DEF g
<1>8. \A n \in 1..N : g[n] = IF n = 1 THEN s[n] ELSE g[n - 1] \o s[n]
  BY <1>6 DEF IsFlatten, N
<1> DEFINE T == {n \in 1..N : g[n] \in X}
<1>9. 1 \in T
  BY <1>1, <1>2, <1>8
<1>10. ASSUME NEW n \in 1..(N - 1), n \in T PROVE n + 1 \in T
  <2>1. n + 1 \in 1..N /\ n + 1 # 1 /\ (n + 1) - 1 = n
    BY <1>1
  <2>2. g[n + 1] = g[n] \o s[n + 1]
    BY <1>8, <2>1
  <2> QED BY <1>2, <1>3, <1>10, <2>1, <2>2
<1> HIDE DEF T
<1>11. 1..N \subseteq T
  BY <1>1, <1>9, <1>10, UpTo
<1>12. g \in [1..N -> X]
  <2>1. \A n \in 1..N : g[n] \in X
    BY <1>11 DEF T
  <2>2. DOMAIN g = 1..N /\ g = [n \in 1..N |-> g[n]]
    BY <1>6 DEF IsFlatten, N
  <2> QED BY <2>1, <2>2
<1> QED
  BY <1>6, <1>7, <1>12 DEF X, N

\* Flattening one more sequence.
LEMMA FlattenAppend ==
  ASSUME NEW S, NEW s \in Seq(Seq(S)), NEW x \in Seq(S)
  PROVE  FlattenSeq(s) \in Seq(S) /\ FlattenSeq(Append(s, x)) = FlattenSeq(s) \o x
<1> DEFINE t == Append(s, x)
           N == Len(s)
<1>1. t \in Seq(Seq(S)) /\ Len(t) = N + 1 /\ N \in Nat /\ t # <<>>
      /\ (\A i \in 1..N : t[i] = s[i]) /\ t[N + 1] = x
  BY AppendProperties
<1> HIDE DEF t
<1>2. PICK g \in [1..(N + 1) -> Seq(S)] : IsFlatten(g, t) /\ FlattenSeq(t) = g[N + 1]
  BY <1>1, FlattenParts
<1>0. \A i \in 1..N : s[i] \in Seq(S)
  BY ElementOfSeq
<1>3. \A n \in 1..(N + 1) : g[n] = IF n = 1 THEN t[n] ELSE g[n - 1] \o t[n]
  BY <1>1, <1>2 DEF IsFlatten
<1>4. CASE s = <<>>
  <2>1. FlattenSeq(s) = <<>> /\ N = 0
    BY <1>4 DEF FlattenSeq
  <2>2. FlattenSeq(t) = x
    BY <1>1, <1>2, <1>3, <2>1
  <2>3. <<>> \o x = x /\ <<>> \in Seq(S)
    OBVIOUS
  <2> QED BY <2>1, <2>2, <2>3 DEF t
<1>5. CASE s # <<>>
  <2>1. PICK f \in [1..N -> Seq(S)] : IsFlatten(f, s) /\ FlattenSeq(s) = f[N]
    BY <1>5, FlattenParts
  <2>2. \A n \in 1..N : f[n] = IF n = 1 THEN s[n] ELSE f[n - 1] \o s[n]
    BY <2>1 DEF IsFlatten
  <2>3. 1 <= N
    BY <1>5, <1>1
  <2> HIDE DEF N
  <2> DEFINE T == {n \in 1..N : f[n] = g[n]}
  <2>4. 1 \in T
    <3>1. 1 \in 1..N /\ 1 \in 1..(N + 1)
      BY <1>1, <2>3
    <3> QED BY <1>1, <1>3, <2>2, <3>1
  <2>5. ASSUME NEW n \in 1..(N - 1), n \in T PROVE n + 1 \in T
    <3>1. n + 1 \in 1..N /\ n + 1 \in 1..(N + 1) /\ n + 1 # 1 /\ (n + 1) - 1 = n
      BY <1>1
    <3>2. f[n + 1] = f[n] \o s[n + 1] /\ g[n + 1] = g[n] \o t[n + 1]
      BY <1>3, <2>2, <3>1
    <3> QED BY <1>1, <2>5, <3>1, <3>2
  <2> HIDE DEF T
  <2>6. 1..N \subseteq T
    BY <1>1, <2>4, <2>5, UpTo
  <2>7. f[N] = g[N]
    <3>1. N \in T
      BY <1>1, <2>3, <2>6
    <3> QED BY <3>1 DEF T
  <2>8. g[N + 1] = g[N] \o x
    <3>1. N + 1 \in 1..(N + 1) /\ N + 1 # 1 /\ (N + 1) - 1 = N
      BY <1>1, <2>3
    <3> QED BY <1>1, <1>3, <3>1
  <2>9. FlattenSeq(s) \in Seq(S)
    <3>1. N \in 1..N
      BY <1>1, <2>3
    <3> QED BY <2>1, <3>1
  <2> QED BY <1>2, <2>1, <2>7, <2>8, <2>9 DEF t, N
<1> QED
  BY <1>4, <1>5

\* One more element of a prefix.
LEMMA PrefixAppend ==
  ASSUME NEW S, NEW s \in Seq(S), NEW n \in 0..(Len(s) - 1)
  PROVE  /\ s[n + 1] \in S /\ SubSeq(s, 1, n) \in Seq(S)
         /\ SubSeq(s, 1, n + 1) = Append(SubSeq(s, 1, n), s[n + 1])
  OBVIOUS

\* What follows an element, and the element before it.
LEMMA RestOf ==
  ASSUME NEW S, NEW s \in Seq(S), NEW n \in 0..(Len(s) - 1)
  PROVE  /\ Len(s) \in Nat /\ s[n + 1] \in S /\ SubSeq(s, (n + 1) + 1, Len(s)) \in Seq(S)
         /\ SubSeq(s, n + 1, Len(s)) = <<s[n + 1]>> \o SubSeq(s, (n + 1) + 1, Len(s))
         /\ SubSeq(s, (n + 1) + 1, Len(s)) = <<>> <=> n + 1 = Len(s)
<1>1. Len(s) \in Nat /\ n + 1 \in 1..Len(s) /\ Len(s) \in (n + 1)..Len(s)
  OBVIOUS
<1> DEFINE m == n + 1
<1>2. m \in 1..Len(s) /\ Len(s) \in m..Len(s)
  BY <1>1
<1> HIDE DEF m
<1>3. SubSeq(s, m, Len(s)) = <<s[m]>> \o SubSeq(s, m + 1, Len(s))
  BY <1>2, SubSeqRecursiveFirst
<1>4. SubSeq(s, m + 1, Len(s)) \in Seq(S) /\ Len(SubSeq(s, m + 1, Len(s))) = Len(s) - m /\ s[m] \in S
  BY <1>1, <1>2
<1>5. SubSeq(s, m + 1, Len(s)) = <<>> <=> m = Len(s)
  <2> DEFINE r == SubSeq(s, m + 1, Len(s))
  <2>1. r \in Seq(S) /\ Len(r) = Len(s) - m
    BY <1>4
  <2> HIDE DEF r
  <2>2. r = <<>> <=> Len(r) = 0
    BY <2>1
  <2>3. Len(r) = 0 <=> m = Len(s)
    BY <1>1, <1>2, <2>1
  <2> QED BY <2>2, <2>3 DEF r
<1> QED
  BY <1>1, <1>3, <1>4, <1>5 DEF m

\* A sequence without its last element.
LEMMA FrontOf ==
  ASSUME NEW S, NEW s \in Seq(S), s # <<>>
  PROVE  /\ Front(s) \in Seq(S) /\ Len(s) \in Nat /\ Len(s) > 0 /\ Len(Front(s)) = Len(s) - 1
         /\ \A i \in 1..(Len(s) - 1) : Front(s)[i] = s[i]
         /\ s = Append(Front(s), s[Len(s)]) /\ s[Len(s)] \in S
<1>1. Len(s) \in Nat /\ Len(s) > 0
  OBVIOUS
<1>2. Front(s) = SubSeq(s, 1, Len(s) - 1)
  BY DEF Front
<1>3. /\ SubSeq(s, 1, Len(s) - 1) \in Seq(S) /\ Len(SubSeq(s, 1, Len(s) - 1)) = Len(s) - 1
      /\ \A i \in 1..(Len(s) - 1) : SubSeq(s, 1, Len(s) - 1)[i] = s[i]
  <2> DEFINE m == Len(s) - 1
  <2>1. m \in 0..Len(s) /\ m \in Nat
    BY <1>1
  <2> HIDE DEF m
  <2>2. /\ SubSeq(s, 1, m) \in Seq(S) /\ Len(SubSeq(s, 1, m)) = m
        /\ \A i \in 1..m : SubSeq(s, 1, m)[i] = s[i]
    BY <1>1, <2>1
  <2> QED BY <2>2 DEF m
<1>4. s = Append(SubSeq(s, 1, Len(s) - 1), s[Len(s)]) /\ s[Len(s)] \in S
  OBVIOUS
<1> QED
  BY <1>1, <1>2, <1>3, <1>4

\* Appending behind a sequence.
LEMMA ConcatAppend ==
  ASSUME NEW S, NEW s \in Seq(S), NEW t \in Seq(S), NEW a \in S
  PROVE  s \o Append(t, a) = Append(s \o t, a)
<1>1. <<a>> \in Seq(S) /\ s \o t \in Seq(S)
  OBVIOUS
<1>2. Append(t, a) = t \o <<a>>
  BY AppendIsConcat
<1>3. Append(s \o t, a) = (s \o t) \o <<a>>
  BY <1>1, AppendIsConcat
<1>4. (s \o t) \o <<a>> = s \o (t \o <<a>>)
  BY <1>1, ConcatAssociative
<1> QED
  BY <1>2, <1>3, <1>4

\* Flattening a sequence of sequences from its first.
LEMMA FlattenHead ==
  ASSUME NEW S, NEW s \in Seq(Seq(S)), NEW x \in Seq(S)
  PROVE  FlattenSeq(<<x>> \o s) = x \o FlattenSeq(s)
<1> DEFINE first(n) == SubSeq(s, 1, n)
           T == {n \in 0..Len(s) : FlattenSeq(<<x>> \o first(n)) = x \o FlattenSeq(first(n))}
<1>1. Len(s) \in Nat /\ first(0) = <<>> /\ first(Len(s)) = s
  BY SubSeqEmpty, SubSeqFull
<1>2. ASSUME NEW n \in 0..(Len(s) - 1)
      PROVE first(n) \in Seq(Seq(S)) /\ s[n + 1] \in Seq(S) /\ first(n + 1) = Append(first(n), s[n + 1])
  BY <1>1, PrefixAppend
<1> HIDE DEF first
<1>3. <<x>> \in Seq(Seq(S))
  OBVIOUS
<1>4. 0 \in T
  <2>1. <<>> \in Seq(Seq(S)) /\ Append(<<>>, x) = <<x>> /\ <<x>> \o <<>> = <<x>> /\ <<>> \o x = x
        /\ x \o <<>> = x
    OBVIOUS
  <2>2. FlattenSeq(<<>>) = <<>>
    BY DEF FlattenSeq
  <2>3. FlattenSeq(<<x>>) = <<>> \o x
    BY <2>1, <2>2, FlattenAppend
  <2>4. 0 \in 0..Len(s)
    BY <1>1
  <2>5. <<x>> \o first(0) = <<x>> /\ FlattenSeq(first(0)) = <<>>
    BY <1>1, <2>1, <2>2
  <2>6. FlattenSeq(<<x>> \o first(0)) = x \o FlattenSeq(first(0))
    BY <2>1, <2>3, <2>5
  <2> QED BY <2>4, <2>6
<1>5. ASSUME NEW n \in 0..(Len(s) - 1), n \in T PROVE n + 1 \in T
  <2> DEFINE p == first(n)
             a == s[n + 1]
             q == <<x>> \o p
  <2>1. p \in Seq(Seq(S)) /\ a \in Seq(S) /\ first(n + 1) = Append(p, a)
    BY <1>2
  <2>2. FlattenSeq(q) = x \o FlattenSeq(p)
    BY <1>5
  <2> HIDE DEF p, a
  <2>3. q \in Seq(Seq(S)) /\ <<x>> \o Append(p, a) = Append(q, a)
    BY <1>3, <2>1, ConcatAppend, ConcatProperties, SMTT(20)
  <2> HIDE DEF q
  <2>4. /\ FlattenSeq(q) \in Seq(S) /\ FlattenSeq(p) \in Seq(S)
        /\ FlattenSeq(Append(q, a)) = FlattenSeq(q) \o a
        /\ FlattenSeq(Append(p, a)) = FlattenSeq(p) \o a
    BY <2>1, <2>3, FlattenAppend
  <2>5. (x \o FlattenSeq(p)) \o a = x \o (FlattenSeq(p) \o a)
    <3> DEFINE fp == FlattenSeq(p)
    <3>1. fp \in Seq(S) /\ a \in Seq(S)
      BY <2>1, <2>4
    <3> HIDE DEF fp
    <3>2. (x \o fp) \o a = x \o (fp \o a)
      BY <3>1, ConcatAssociative, SMTT(20)
    <3> QED BY <3>2 DEF fp
  <2>6. FlattenSeq(<<x>> \o first(n + 1)) = x \o FlattenSeq(first(n + 1))
    BY <2>1, <2>2, <2>3, <2>4, <2>5
  <2>7. n + 1 \in 0..Len(s)
    BY <1>1
  <2> QED BY <2>6, <2>7
<1> HIDE DEF T
<1>6. 0..Len(s) \subseteq T
  BY <1>1, <1>4, <1>5, UpTo
<1>7. Len(s) \in T
  BY <1>1, <1>6
<1>8. FlattenSeq(<<x>> \o first(Len(s))) = x \o FlattenSeq(first(Len(s)))
  BY <1>7 DEF T
<1> QED
  BY <1>1, <1>8

\* Flattening a sequence of sequences gives a sequence of their elements.
LEMMA Flattened ==
  ASSUME NEW s, Sequence(s), \A i \in 1..Len(s) : Sequence(s[i])
  PROVE  /\ Sequence(FlattenSeq(s))
         /\ Range(FlattenSeq(s)) = UNION {Range(s[i]) : i \in 1..Len(s)}
<1> DEFINE N == Len(s)
           S == UNION {Range(s[i]) : i \in 1..N}
<1>1. N \in Nat
  BY Elements
<1>2. CASE s = <<>>
  <2>1. FlattenSeq(s) = s /\ N = 0
    BY <1>2 DEF FlattenSeq
  <2>2. Range(<<>>) = {}
    BY DEF Range
  <2> QED BY <1>2, <2>1, <2>2
<1>3. CASE s # <<>>
  <2>1. \A i \in 1..N : s[i] \in Seq(S)
    <3> SUFFICES ASSUME NEW i \in 1..N PROVE s[i] \in Seq(S)
      OBVIOUS
    <3>1. Range(s[i]) \subseteq S
      OBVIOUS
    <3> HIDE DEF S
    <3> QED BY <3>1, OverSet
  <2>2. s \in Seq(Seq(S)) /\ 1 <= N
    <3>1. s = [i \in 1..N |-> s[i]] /\ DOMAIN s = 1..N
      BY DEF Sequence
    <3> HIDE DEF S
    <3> QED BY <1>1, <1>3, <2>1, <3>1
  <2>3. PICK g \in [1..N -> Seq(S)] : IsFlatten(g, s) /\ FlattenSeq(s) = g[N]
    <3> HIDE DEF S
    <3> QED BY <1>3, <2>2, FlattenParts
  <2>4. \A n \in 1..N : g[n] = IF n = 1 THEN s[n] ELSE g[n - 1] \o s[n]
    BY <2>3 DEF IsFlatten
  <2> DEFINE ranges(n) == UNION {Range(s[i]) : i \in 1..n}
             T == {n \in 1..N : Sequence(g[n]) /\ Range(g[n]) = ranges(n)}
  <2> HIDE DEF S
  <2>0. N \in Nat /\ 1 <= N /\ 1 \in 1..N /\ \A i \in 1..N : Sequence(s[i])
    BY <1>1, <2>2
  <2> HIDE DEF N
  <2>5. 1 \in T
    <3>1. 1 \in 1..N /\ g[1] = s[1] /\ Sequence(s[1])
      BY <2>0, <2>4
    <3>2. ranges(1) = Range(s[1])
      <4>1. 1..1 = {1}
        OBVIOUS
      <4> QED BY <4>1
    <3> QED BY <3>1, <3>2
  <2>6. ASSUME NEW n \in 1..(N - 1), n \in T PROVE n + 1 \in T
    <3>1. n + 1 \in 1..N /\ n + 1 # 1 /\ (n + 1) - 1 = n
      BY <1>1
    <3>2. g[n + 1] = g[n] \o s[n + 1]
      BY <2>4, <3>1
    <3>3. Sequence(g[n]) /\ Range(g[n]) = ranges(n) /\ Sequence(s[n + 1])
      BY <2>0, <2>6, <3>1
    <3>4. Sequence(g[n + 1]) /\ Range(g[n + 1]) = ranges(n) \cup Range(s[n + 1])
      BY <3>2, <3>3, Joined
    <3>5. ranges(n + 1) = ranges(n) \cup Range(s[n + 1])
      <4>1. 1..(n + 1) = 1..n \cup {n + 1}
        BY <1>1
      <4> QED BY <4>1
    <3> QED BY <3>1, <3>4, <3>5
  <2>7. N \in T
    <3> HIDE DEF T
    <3>1. 1..N \subseteq T
      BY <1>1, <2>5, <2>6, UpTo
    <3> QED BY <2>0, <3>1
  <2> QED
    BY <2>3, <2>7 DEF N
<1> QED
  BY <1>2, <1>3

\* A set that has the empty sequence, and with each sequence those with one more element
\* at the front, has them all.
LEMMA HeadInduction ==
  ASSUME NEW S, NEW P \in SUBSET Seq(S), <<>> \in P, \A a \in S : \A t \in P : <<a>> \o t \in P
  PROVE  P = Seq(S)
<1> SUFFICES ASSUME NEW s \in Seq(S) PROVE s \in P
  OBVIOUS
<1> DEFINE last(n) == SubSeq(s, Len(s) - n + 1, Len(s))
           T == {n \in 0..Len(s) : last(n) \in P}
<1>1. Len(s) \in Nat /\ last(0) = <<>> /\ last(Len(s)) = s
  BY SubSeqEmpty, SubSeqFull
<1>2. ASSUME NEW n \in 0..(Len(s) - 1)
      PROVE s[Len(s) - n] \in S /\ last(n + 1) = <<s[Len(s) - n]>> \o last(n) /\ n + 1 \in 0..Len(s)
  <2>1. Len(s) - n \in 1..Len(s) /\ Len(s) \in (Len(s) - n)..Len(s) /\ n + 1 \in 0..Len(s)
        /\ Len(s) - (n + 1) + 1 = Len(s) - n
    BY <1>1
  <2>2. SubSeq(s, Len(s) - n, Len(s)) = <<s[Len(s) - n]>> \o SubSeq(s, Len(s) - n + 1, Len(s))
    BY <2>1, SubSeqRecursiveFirst
  <2> QED BY <2>1, <2>2, ElementOfSeq
<1> HIDE DEF last
<1>3. 0 \in T
  BY <1>1
<1>4. ASSUME NEW n \in 0..(Len(s) - 1), n \in T PROVE n + 1 \in T
  BY <1>2, <1>4
<1> HIDE DEF T
<1>5. 0..Len(s) \subseteq T
  BY <1>1, <1>3, <1>4, UpTo
<1>6. last(Len(s)) \in P
  BY <1>1, <1>5 DEF T
<1> QED
  BY <1>1, <1>6

\* Replacing the elements of a sequence, the first and the others.
Mapped(c, t) == [i \in DOMAIN t |-> c[t[i]]]
MapsFirst(c, a, t, X) ==
  Mapped(c, t) \in Seq(X) /\ c[a] \in X /\ Mapped(c, <<a>> \o t) = <<c[a]>> \o Mapped(c, t)
LEMMA MapHead ==
  ASSUME NEW S, NEW X, NEW c \in [S -> X], NEW a \in S, NEW t \in Seq(S)
  PROVE  MapsFirst(c, a, t, X)
<1> DEFINE u == <<a>> \o t
           m == [i \in DOMAIN t |-> c[t[i]]]
           v == [i \in DOMAIN u |-> c[u[i]]]
           w == <<c[a]>> \o m
           n == Len(t)
<1>1. n \in Nat /\ DOMAIN t = 1..n /\ c[a] \in X /\ \A i \in 1..n : t[i] \in S
  OBVIOUS
<1>2. u \in Seq(S) /\ Len(u) = n + 1 /\ DOMAIN u = 1..(n + 1) /\ u[1] = a
      /\ \A i \in 2..(n + 1) : u[i] = t[i - 1]
  OBVIOUS
<1>3. m \in Seq(X) /\ Len(m) = n /\ \A i \in 1..n : m[i] = c[t[i]]
  BY <1>1
<1> HIDE DEF u, n
<1>4. v \in Seq(X) /\ Len(v) = n + 1 /\ \A i \in 1..(n + 1) : v[i] = c[u[i]]
  <2>1. \A i \in 1..(n + 1) : u[i] \in S
    BY <1>2
  <2>2. v \in [1..(n + 1) -> X]
    BY <1>2, <2>1
  <2> QED BY <1>1, <1>2, <2>2
<1> HIDE DEF m
<1>5. w \in Seq(X) /\ Len(w) = n + 1 /\ w[1] = c[a] /\ \A i \in 2..(n + 1) : w[i] = m[i - 1]
  BY <1>1, <1>3
<1> HIDE DEF v, w
<1>6. \A i \in 1..(n + 1) : v[i] = w[i]
  <2> SUFFICES ASSUME NEW i \in 1..(n + 1) PROVE v[i] = w[i]
    OBVIOUS
  <2>1. CASE i = 1
    BY <1>1, <1>2, <1>4, <1>5, <2>1
  <2>2. CASE i # 1
    <3>1. i \in 2..(n + 1) /\ i - 1 \in 1..n
      BY <1>1, <2>2
    <3>2. v[i] = c[u[i]] /\ u[i] = t[i - 1]
      BY <1>2, <1>4, <3>1
    <3>3. w[i] = m[i - 1] /\ m[i - 1] = c[t[i - 1]]
      BY <1>3, <1>5, <3>1
    <3> QED BY <3>2, <3>3
  <2> QED BY <2>1, <2>2
<1>7. v = w
  BY <1>4, <1>5, <1>6, SeqEqual
<1> QED
  BY <1>1, <1>3, <1>7 DEF u, v, w, m, Mapped, MapsFirst

\* A sequence with an element in the middle.
Surrounds(s, x, r, S) ==
  LET t == s \o (<<x>> \o r)
  IN /\ t \in Seq(S) /\ Len(t) = Len(s) + Len(r) + 1 /\ t[Len(s) + 1] = x
     /\ Len(s) \in Nat /\ Len(r) \in Nat
     /\ \A i \in 1..Len(s) : t[i] = s[i]
     /\ \A i \in 1..Len(r) : t[Len(s) + 1 + i] = r[i]
     /\ SubSeq(t, 1, Len(s)) = s /\ SubSeq(t, Len(s) + 2, Len(t)) = r
LEMMA Middle ==
  ASSUME NEW S, NEW s \in Seq(S), NEW x \in S, NEW r \in Seq(S) PROVE Surrounds(s, x, r, S)
<1> DEFINE v == <<x>> \o r
           t == s \o v
<1>1. Len(s) \in Nat /\ Len(r) \in Nat
  OBVIOUS
<1>2. v \in Seq(S) /\ Len(v) = Len(r) + 1 /\ v[1] = x /\ \A i \in 1..Len(r) : v[1 + i] = r[i]
  OBVIOUS
<1>3. SubSeq(v, 2, Len(v)) = r
  OBVIOUS
<1> HIDE DEF v
<1>4. t \in Seq(S) /\ Len(t) = Len(s) + Len(v)
      /\ \A i \in 1..(Len(s) + Len(v)) : t[i] = IF i <= Len(s) THEN s[i] ELSE v[i - Len(s)]
  BY <1>2, ConcatProperties
<1> HIDE DEF t
<1>5. Len(t) = Len(s) + Len(r) + 1
  BY <1>1, <1>2, <1>4
<1>6. t[Len(s) + 1] = x
  <2>1. Len(s) + 1 \in 1..(Len(s) + Len(v)) /\ ~(Len(s) + 1 <= Len(s)) /\ (Len(s) + 1) - Len(s) = 1
    BY <1>1, <1>2
  <2> QED BY <1>2, <1>4, <2>1
<1>7. \A i \in 1..Len(s) : t[i] = s[i]
  <2>1. \A i \in 1..Len(s) : i \in 1..(Len(s) + Len(v)) /\ i <= Len(s)
    BY <1>1, <1>2
  <2> QED BY <1>4, <2>1
<1>8. ASSUME NEW i \in 1..Len(r) PROVE t[Len(s) + 1 + i] = r[i]
  <2>1. /\ Len(s) + 1 + i \in 1..(Len(s) + Len(v)) /\ ~(Len(s) + 1 + i <= Len(s))
        /\ (Len(s) + 1 + i) - Len(s) = 1 + i
    BY <1>1, <1>2
  <2>2. t[Len(s) + 1 + i] = v[1 + i]
    BY <1>4, <2>1
  <2> QED BY <1>2, <2>2
<1>9. SubSeq(t, 1, Len(s)) = s
  <2>1. CASE s = <<>>
    BY <2>1, SubSeqEmpty
  <2>2. CASE s # <<>>
    <3>1. 1 \in 1..Len(s) /\ Len(s) \in 1..Len(s)
      BY <1>1, <2>2
    <3>2. SubSeq(t, 1, Len(s)) = SubSeq(s, 1, Len(s))
      BY <1>2, <3>1, SubSeqOfConcat1 DEF t
    <3> QED BY <1>1, <3>2, SubSeqFull
  <2> QED BY <2>1, <2>2
<1>10. SubSeq(t, Len(s) + 2, Len(t)) = r
  <2>1. CASE r = <<>>
    BY <1>1, <1>5, <2>1, SubSeqEmpty
  <2>2. CASE r # <<>>
    <3>1. /\ Len(s) + 2 \in (Len(s) + 1)..(Len(s) + Len(v)) /\ Len(t) \in (Len(s) + 1)..(Len(s) + Len(v))
          /\ Len(s) + 2 - Len(s) = 2 /\ Len(t) - Len(s) = Len(v)
      BY <1>1, <1>2, <1>5, <2>2
    <3>2. SubSeq(t, Len(s) + 2, Len(t)) = SubSeq(v, Len(s) + 2 - Len(s), Len(t) - Len(s))
      BY <1>2, <3>1, SubSeqOfConcat2 DEF t
    <3> QED BY <1>3, <3>1, <3>2
  <2> QED BY <2>1, <2>2
<1> QED
  BY <1>1, <1>4, <1>5, <1>6, <1>7, <1>8, <1>9, <1>10 DEF Surrounds, t, v

\* A function that stops at some arguments, and at the others puts a prefix before its
\* value at the rest.
Unrolls(f, S, Stop, base, pre, rest) ==
  f = [s \in S |-> IF s \in Stop THEN base[s] ELSE pre[s] \o f[rest[s]]]
Shrinks(S, Stop, rest, size) ==
  \A s \in S : s \notin Stop => rest[s] \in S /\ size[rest[s]] < size[s]
HasUnrolling(S, X, Stop, base, pre, rest) ==
  /\ \E f : Unrolls(f, S, Stop, base, pre, rest)
  /\ \A f : Unrolls(f, S, Stop, base, pre, rest) => f \in [S -> X]

\* If the rest is always smaller, there is such a function, and its values are sequences.
LEMMA Unrolled ==
  ASSUME NEW S, NEW A, NEW size \in [S -> Nat], NEW Stop, NEW base \in [S -> Seq(A)],
         NEW pre \in [S -> Seq(A)], NEW rest, Shrinks(S, Stop, rest, size)
  PROVE  HasUnrolling(S, Seq(A), Stop, base, pre, rest)
<1> DEFINE X == Seq(A)
           step == [g \in [S -> X] |->
                      [s \in S |-> IF s \in Stop THEN base[s] ELSE pre[s] \o g[rest[s]]]]
<1>0. \A s \in S : s \notin Stop => rest[s] \in S /\ size[rest[s]] < size[s]
  BY DEF Shrinks
<1>1. \A s \in S : size[s] \in Nat /\ base[s] \in X /\ pre[s] \in X
  OBVIOUS
<1>2. \A p, q \in X : p \o q \in X
  OBVIOUS
<1>3. \E x : x \in X
  <2>1. <<>> \in X
    OBVIOUS
  <2> QED BY <2>1
<1> HIDE DEF X
<1>4. step \in [[S -> X] -> [S -> X]]
  BY <1>0, <1>1, <1>2
<1>5. Descending(step, S, X, size)
  <2> SUFFICES ASSUME NEW g \in [S -> X], NEW h \in [S -> X], NEW s \in S,
                      \A t \in S : size[t] < size[s] => g[t] = h[t]
               PROVE  step[g][s] = step[h][s]
    BY Zenon DEF Descending
  <2>1. s \notin Stop => g[rest[s]] = h[rest[s]]
    BY <1>0
  <2> QED BY <2>1
<1>6. PICK f \in [S -> X] : Solves(f, step)
  <2> HIDE DEF step
  <2> QED BY <1>3, <1>4, <1>5, SizeRecursion, Zenon
<1>7. step[f] = [s \in S |-> IF s \in Stop THEN base[s] ELSE pre[s] \o f[rest[s]]]
  OBVIOUS
<1>8. Unrolls(f, S, Stop, base, pre, rest)
  BY <1>6, <1>7 DEF Solves, Unrolls
<1>9. ASSUME NEW g, Unrolls(g, S, Stop, base, pre, rest) PROVE g \in [S -> X]
  <2>1. \A s \in S : g[s] = IF s \in Stop THEN base[s] ELSE pre[s] \o g[rest[s]]
    BY <1>9 DEF Unrolls
  <2> DEFINE T == {n \in Nat : \E s \in S : size[s] = n /\ g[s] \notin X}
  <2>2. T = {}
    <3> SUFFICES ASSUME T # {} PROVE FALSE
      OBVIOUS
    <3>1. PICK n \in T : \A m \in T : n <= m
      <4>1. T \in SUBSET Nat
        OBVIOUS
      <4> HIDE DEF T
      <4> QED BY <4>1, Least
    <3>2. PICK s \in S : size[s] = n /\ g[s] \notin X
      BY <3>1
    <3>3. s \notin Stop => g[rest[s]] \in X
      BY <1>0, <1>1, <3>1, <3>2
    <3> QED BY <1>1, <1>2, <2>1, <3>2, <3>3
  <2>3. \A s \in S : g[s] \in X
    BY <1>1, <2>2
  <2>4. g = [s \in S |-> g[s]]
    BY <1>9 DEF Unrolls
  <2> QED BY <2>3, <2>4
<1> QED
  BY <1>8, <1>9 DEF X, HasUnrolling

-----------------------------------------------------------------------------
(***************************************************************************)
(* JSON trees.                                                             *)
(***************************************************************************)

\* A prefix of a pointer is a prefix of everything below it.
LEMMA PrefixBelow ==
  ASSUME NEW T, NEW p \in Seq(T), NEW q \in Seq(T), NEW r \in Seq(T), IsPrefix(p, q)
  PROVE  IsPrefix(p, q \o r)
<1>1. Len(p) <= Len(q \o r)
  BY ConcatProperties DEF IsPrefix
<1>2. SubSeq(q \o r, 1, Len(p)) = SubSeq(q, 1, Len(p))
  <2>1. CASE p = <<>>
    BY <2>1
  <2>2. CASE p # <<>>
    BY <2>2, SubSeqOfConcat1 DEF IsPrefix
  <2> QED BY <2>1, <2>2
<1> QED
  BY <1>1, <1>2 DEF IsPrefix

\* What is longer than a pointer is no prefix of it.
LEMMA LongerNoPrefix ==
  ASSUME NEW T, NEW p \in Seq(T), NEW k \in T
  PROVE  ~IsPrefix(Append(p, k), p)
  BY AppendProperties DEF IsPrefix

\* What is below a pointer is at or below one of its children, or the pointer.
LEMMA PrefixStep ==
  ASSUME NEW T, NEW p \in Seq(T), NEW q \in Seq(T), IsPrefix(p, q), q # p
  PROVE  \E k \in T : IsPrefix(Append(p, k), q)
<1>1. SubSeq(p, 1, Len(p)) = p /\ SubSeq(q, 1, Len(q)) = q
  BY SubSeqFull
<1>2. Len(p) < Len(q)
  <2>1. CASE Len(p) = Len(q)
    BY <2>1, <1>1 DEF IsPrefix
  <2> QED BY <2>1 DEF IsPrefix
<1> DEFINE k == q[Len(p) + 1]
<1>3. k \in T
  BY <1>2
<1>4. Append(p, k) = SubSeq(q, 1, Len(p) + 1)
  BY <1>1, <1>2, <1>3 DEF IsPrefix
<1>5. SubSeq(Append(p, k), 1, Len(Append(p, k))) = Append(p, k)
  BY <1>3, SubSeqFull, AppendProperties
<1> QED
  BY <1>2, <1>3, <1>4, <1>5, SMTT(20) DEF IsPrefix

\* A pointer is its prefix and the rest.
LEMMA PrefixAndRest ==
  ASSUME NEW T, NEW p \in Seq(T), NEW q \in Seq(T)
  PROVE  /\ IsPrefix(p, q) => Rest(q, Len(p)) \in Seq(T) /\ p \o Rest(q, Len(p)) = q
         /\ IsPrefix(p, p \o q) /\ Rest(p \o q, Len(p)) = q
<1>1. ASSUME IsPrefix(p, q) PROVE Rest(q, Len(p)) \in Seq(T) /\ p \o Rest(q, Len(p)) = q
  <2>1. SubSeq(p, 1, Len(p)) = p /\ SubSeq(q, 1, Len(q)) = q
    BY SubSeqFull
  <2>2. SubSeq(q, 1, Len(p)) = p
    BY <1>1, <2>1 DEF IsPrefix
  <2>3. SubSeq(q, 1, Len(p)) \o SubSeq(q, Len(p) + 1, Len(q)) = SubSeq(q, 1, Len(q))
    <3>1. /\ 1 \in 1..(Len(q) + 1) /\ Len(p) \in (1 - 1)..Len(q) /\ Len(q) \in Len(p)..Len(q)
      BY <1>1 DEF IsPrefix
    <3> QED BY <3>1, ConcatAdjacentSubSeq
  <2>4. SubSeq(q, Len(p) + 1, Len(q)) \in Seq(T)
    OBVIOUS
  <2> QED
    BY <2>1, <2>2, <2>3, <2>4 DEF Rest
<1>2. p \o q \in Seq(T) /\ Len(p \o q) = Len(p) + Len(q)
  OBVIOUS
<1>3. SubSeq(p \o q, 1, Len(p)) = SubSeq(p, 1, Len(p))
  <2>1. CASE p = <<>>
    BY <2>1
  <2>2. CASE p # <<>>
    BY <2>2, SubSeqOfConcat1
  <2> QED BY <2>1, <2>2
<1>4. IsPrefix(p, p \o q)
  BY <1>2, <1>3 DEF IsPrefix
<1>5. SubSeq(p \o q, Len(p) + 1, Len(p) + Len(q)) = q
  <2>1. CASE q = <<>>
    BY <2>1, <1>2, SubSeqEmpty
  <2>2. CASE q # <<>>
    <3>1. SubSeq(p \o q, Len(p) + 1, Len(p) + Len(q)) = SubSeq(q, 1, Len(q))
      BY <2>2, SubSeqOfConcat2
    <3> QED BY <3>1, SubSeqFull
  <2> QED BY <2>1, <2>2
<1> QED
  BY <1>1, <1>2, <1>4, <1>5 DEF Rest

\* The keys of an object are tokens.
LEMMA MembersType ==
  ASSUME NEW T, NEW V, NEW t, IsTree(t, T, V), NEW p \in Seq(T)
  PROVE  Members(t, p) \subseteq T
<1> SUFFICES ASSUME NEW r \in DOMAIN t, Len(r) = Len(p) + 1 PROVE r[Len(p) + 1] \in T
  BY DEF Members
<1>1. r \in Seq(T)
  BY DEF IsTree
<1> QED
  BY <1>1

\* A copy of a value is a document.
LEMMA SubtreeType ==
  ASSUME NEW T, NEW V, NEW t, IsTree(t, T, V), NEW p \in Seq(T)
  PROVE  /\ IsTree(Subtree(t, p), T, V)
         /\ p \in DOMAIN t => <<>> \in DOMAIN Subtree(t, p)
<1> DEFINE D == {Rest(r, Len(p)) : r \in {s \in DOMAIN t : IsPrefix(p, s)}}
<1>1. DOMAIN Subtree(t, p) = D /\ \A q \in D : Subtree(t, p)[q] = t[p \o q]
  BY DEF Subtree
<1>2. \A r \in DOMAIN t : r \in Seq(T) /\ t[r] \in V
  BY DEF IsTree
<1>3. ASSUME NEW q \in D PROVE q \in Seq(T) /\ t[p \o q] \in V
  <2>1. PICK r \in DOMAIN t : IsPrefix(p, r) /\ q = Rest(r, Len(p))
    OBVIOUS
  <2>2. Rest(r, Len(p)) \in Seq(T) /\ p \o Rest(r, Len(p)) = r
    BY <1>2, <2>1, PrefixAndRest, Zenon
  <2> QED BY <1>2, <2>1, <2>2
<1>4. ASSUME p \in DOMAIN t PROVE <<>> \in D
  <2>1. IsPrefix(p, p) /\ Rest(p, Len(p)) = <<>>
    BY SubSeqEmpty DEF IsPrefix, Rest
  <2> QED BY <1>4, <2>1
<1> QED
  BY <1>1, <1>3, <1>4 DEF IsTree

\* Assigning a document at a pointer keeps a document.
LEMMA GraftType ==
  ASSUME NEW T, NEW V, NEW t, IsTree(t, T, V), NEW p \in Seq(T), NEW s, IsTree(s, T, V)
  PROVE  /\ IsTree(Graft(t, p, s), T, V)
         /\ \A q \in DOMAIN t : ~IsPrefix(p, q) => q \in DOMAIN Graft(t, p, s)
         /\ <<>> \in DOMAIN s => p \in DOMAIN Graft(t, p, s)
<1> DEFINE C == {r \in DOMAIN t : ~IsPrefix(p, r)}
           D == C \cup {p \o r : r \in DOMAIN s}
           value(q) == IF IsPrefix(p, q) THEN s[Rest(q, Len(p))] ELSE t[q]
<1>1. DOMAIN Graft(t, p, s) = D /\ \A q \in D : Graft(t, p, s)[q] = value(q)
  BY DEF Graft, Cut
<1>2. /\ \A r \in DOMAIN t : r \in Seq(T) /\ t[r] \in V
      /\ \A r \in DOMAIN s : r \in Seq(T) /\ s[r] \in V
  BY DEF IsTree
<1>3. ASSUME NEW q \in C PROVE q \in Seq(T) /\ value(q) \in V
  BY <1>2
<1>4. ASSUME NEW r \in DOMAIN s PROVE p \o r \in Seq(T) /\ value(p \o r) \in V
  BY <1>2, PrefixAndRest
<1>5. \A q \in D : q \in Seq(T) /\ value(q) \in V
  BY <1>3, <1>4
<1>6. <<>> \in DOMAIN s => p \in D
  <2>1. p \o <<>> = p
    OBVIOUS
  <2> QED BY <2>1
<1> HIDE DEF D, value
<1>7. IsTree(Graft(t, p, s), T, V)
  BY <1>1, <1>5 DEF IsTree
<1> QED
  BY <1>1, <1>6, <1>7 DEF D

\* A function is what it is at each argument.
IsMapping(f) == f = [x \in DOMAIN f |-> f[x]]

\* What a copy of a value has, and where it was.
LEMMA SubtreeNodes ==
  ASSUME NEW T, NEW V, NEW t, IsTree(t, T, V), NEW p \in Seq(T)
  PROVE  /\ \A q : q \in DOMAIN Subtree(t, p) <=> q \in Seq(T) /\ p \o q \in DOMAIN t
         /\ \A q \in DOMAIN Subtree(t, p) : Subtree(t, p)[q] = t[p \o q]
         /\ IsMapping(Subtree(t, p))
<1> DEFINE D == {Rest(r, Len(p)) : r \in {s \in DOMAIN t : IsPrefix(p, s)}}
<1>1. Subtree(t, p) = [q \in D |-> t[p \o q]]
  BY DEF Subtree
<1>2. ASSUME NEW q \in D PROVE q \in Seq(T) /\ p \o q \in DOMAIN t
  <2>1. PICK r \in DOMAIN t : IsPrefix(p, r) /\ q = Rest(r, Len(p))
    OBVIOUS
  <2>2. r \in Seq(T)
    BY DEF IsTree
  <2>3. Rest(r, Len(p)) \in Seq(T) /\ p \o Rest(r, Len(p)) = r
    BY <2>1, <2>2, PrefixAndRest, Zenon
  <2> QED BY <2>1, <2>3
<1>3. ASSUME NEW q \in Seq(T), p \o q \in DOMAIN t PROVE q \in D
  BY <1>3, PrefixAndRest
<1> HIDE DEF D
<1>4. IsMapping(Subtree(t, p))
  BY <1>1 DEF IsMapping
<1> QED
  BY <1>1, <1>2, <1>3, <1>4

\* Functions that agree are the same.
LEMMA SameFunction ==
  ASSUME NEW f, NEW g, IsMapping(f), IsMapping(g), \A x : x \in DOMAIN f <=> x \in DOMAIN g,
         \A x \in DOMAIN f : f[x] = g[x]
  PROVE  f = g
<1>1. DOMAIN f = DOMAIN g
  OBVIOUS
<1> QED
  BY <1>1 DEF IsMapping

\* A copy of the whole.
LEMMA SubtreeWhole ==
  ASSUME NEW T, NEW V, NEW t, IsTree(t, T, V), IsMapping(t)
  PROVE  Subtree(t, <<>>) = t
<1> DEFINE s == Subtree(t, <<>>)
<1>1. <<>> \in Seq(T) /\ \A q \in Seq(T) : <<>> \o q = q
  OBVIOUS
<1>2. \A q \in DOMAIN t : q \in Seq(T)
  BY DEF IsTree
<1>3. /\ \A q : q \in DOMAIN s <=> q \in Seq(T) /\ <<>> \o q \in DOMAIN t
      /\ \A q \in DOMAIN s : s[q] = t[<<>> \o q]
      /\ IsMapping(s)
  BY <1>1, SubtreeNodes, Zenon
<1> HIDE DEF s
<1>4. /\ \A q : q \in DOMAIN s <=> q \in DOMAIN t
      /\ \A q \in DOMAIN s : s[q] = t[q]
  BY <1>1, <1>2, <1>3
<1>5. s = t
  BY <1>3, <1>4, SameFunction, Zenon
<1> QED
  BY <1>5 DEF s

\* A copy of a part of a copy.
LEMMA SubtreeOfSubtree ==
  ASSUME NEW T, NEW V, NEW t, IsTree(t, T, V), NEW p \in Seq(T), NEW q \in Seq(T)
  PROVE  Subtree(Subtree(t, p), q) = Subtree(t, p \o q)
<1> DEFINE s == Subtree(t, p)
           a == Subtree(s, q)
           b == Subtree(t, p \o q)
<1>1. IsTree(s, T, V)
  BY SubtreeType, Zenon
<1>2. \A r \in Seq(T) : (p \o q) \o r = p \o (q \o r) /\ q \o r \in Seq(T)
  OBVIOUS
<1>3. /\ \A r : r \in DOMAIN s <=> r \in Seq(T) /\ p \o r \in DOMAIN t
      /\ \A r \in DOMAIN s : s[r] = t[p \o r]
  BY SubtreeNodes, Zenon
<1>4. /\ \A r : r \in DOMAIN a <=> r \in Seq(T) /\ q \o r \in DOMAIN s
      /\ \A r \in DOMAIN a : a[r] = s[q \o r]
      /\ IsMapping(a)
  <2> HIDE DEF s
  <2> QED BY <1>1, SubtreeNodes, Zenon
<1>5. p \o q \in Seq(T)
  OBVIOUS
<1>6. /\ \A r : r \in DOMAIN b <=> r \in Seq(T) /\ (p \o q) \o r \in DOMAIN t
      /\ \A r \in DOMAIN b : b[r] = t[(p \o q) \o r]
      /\ IsMapping(b)
  BY <1>5, SubtreeNodes, Zenon
<1> HIDE DEF s, a, b
<1>7. ASSUME NEW r PROVE r \in DOMAIN a <=> r \in DOMAIN b
  <2>1. CASE r \in Seq(T)
    <3>1. (p \o q) \o r = p \o (q \o r) /\ q \o r \in Seq(T)
      BY <1>2, <2>1
    <3> QED BY <1>3, <1>4, <1>6, <2>1, <3>1, Zenon
  <2> QED BY <1>4, <1>6, <2>1, Zenon
<1>8. ASSUME NEW r \in DOMAIN a PROVE a[r] = b[r]
  <2>1. r \in Seq(T) /\ q \o r \in DOMAIN s /\ r \in DOMAIN b
    BY <1>4, <1>7, Zenon
  <2>2. (p \o q) \o r = p \o (q \o r)
    BY <1>2, <2>1
  <2>3. a[r] = s[q \o r] /\ s[q \o r] = t[p \o (q \o r)] /\ b[r] = t[(p \o q) \o r]
    BY <1>3, <1>4, <1>6, <2>1, Zenon
  <2> QED BY <2>2, <2>3
<1>9. a = b
  BY <1>4, <1>6, <1>7, <1>8, SameFunction, Zenon
<1> QED
  BY <1>9 DEF a, b, s

\* The members of a copy are those of the value.
LEMMA MembersOfSubtree ==
  ASSUME NEW T, NEW V, NEW t, IsTree(t, T, V), NEW p \in Seq(T), NEW k
  PROVE  k \in Members(Subtree(t, p), <<>>) <=> k \in T /\ Append(p, k) \in DOMAIN t
<1> DEFINE s == Subtree(t, p)
<1>1. \A r : r \in DOMAIN s <=> r \in Seq(T) /\ p \o r \in DOMAIN t
  BY SubtreeNodes, Zenon
<1> HIDE DEF s
<1>2. Members(s, <<>>) = {q[1] : q \in {r \in DOMAIN s : Len(r) = 1}}
  <2>1. \A r \in DOMAIN s : IsPrefix(<<>>, r)
    <3>1. \A r \in DOMAIN s : r \in Seq(T)
      BY <1>1
    <3> QED BY <3>1, SubSeqEmpty DEF IsPrefix
  <2>2. Len(<<>>) = 0
    OBVIOUS
  <2> QED BY <2>1, <2>2 DEF Members
<1>3. ASSUME NEW r \in DOMAIN s, Len(r) = 1 PROVE r[1] \in T /\ Append(p, r[1]) \in DOMAIN t
  <2>1. r \in Seq(T) /\ p \o r \in DOMAIN t
    BY <1>1
  <2>2. r[1] \in T
    <3>1. 1 \in 1..Len(r)
      BY <1>3
    <3> QED BY <2>1, <3>1, ElementOfSeq, Zenon
  <2>3. r = <<r[1]>>
    BY <1>3, <2>1
  <2>4. p \o <<r[1]>> = Append(p, r[1])
    BY <2>2
  <2> QED BY <2>1, <2>2, <2>3, <2>4
<1>4. ASSUME k \in T, Append(p, k) \in DOMAIN t PROVE k \in Members(s, <<>>)
  <2>1. <<k>> \in Seq(T) /\ Len(<<k>>) = 1 /\ <<k>>[1] = k /\ p \o <<k>> = Append(p, k)
    BY <1>4
  <2> QED BY <1>1, <1>2, <1>4, <2>1
<1> QED
  BY <1>2, <1>3, <1>4 DEF s

\* What a document has once a value is assigned at p.
LEMMA GraftNodes ==
  ASSUME NEW T, NEW V, NEW t, IsTree(t, T, V), NEW p \in Seq(T), NEW s, IsTree(s, T, V)
  PROVE  LET g == Graft(t, p, s)
         IN /\ \A q : q \in DOMAIN g <=> \/ q \in DOMAIN t /\ ~IsPrefix(p, q)
                                         \/ \E r \in DOMAIN s : q = p \o r
            /\ \A q \in DOMAIN t : ~IsPrefix(p, q) => g[q] = t[q]
            /\ \A r \in DOMAIN s : g[p \o r] = s[r]
            /\ IsMapping(g)
<1> DEFINE g == Graft(t, p, s)
           D == {q \in DOMAIN t : ~IsPrefix(p, q)} \cup {p \o r : r \in DOMAIN s}
<1>1. g = [q \in D |-> IF IsPrefix(p, q) THEN s[Rest(q, Len(p))] ELSE t[q]]
  BY DEF Graft, Cut
<1>2. \A r \in DOMAIN s : IsPrefix(p, p \o r) /\ Rest(p \o r, Len(p)) = r
  BY PrefixAndRest DEF IsTree
<1> HIDE DEF g
<1>3. IsMapping(g)
  BY <1>1 DEF IsMapping
<1> QED
  BY <1>1, <1>2, <1>3 DEF g
=============================================================================
