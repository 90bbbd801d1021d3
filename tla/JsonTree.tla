------------------------------ MODULE JsonTree ------------------------------
(***************************************************************************)
(* JSON documents as the schema compiler sees them.  A document is a       *)
(* function from JSON pointers (sequences of reference tokens) to nodes.   *)
(* The operators are the library calls the compiler makes on               *)
(* nlohmann::json: contains, at, erase and the assignment of a copy.  None *)
(* of them looks inside a node.                                            *)
(***************************************************************************)
EXTENDS Sequences, Naturals, FiniteSets, SequencesExt

\* t is a document over these reference tokens and nodes.
IsTree(t, Token, Node) ==
  /\ DOMAIN t \subseteq Seq(Token)
  /\ \A p \in DOMAIN t : t[p] \in Node

\* The pointer p without its first n tokens.
Rest(p, n) == SubSeq(p, n + 1, Len(p))

\* The keys of the object, or the indices of the array, at p.
Members(t, p) ==
  {q[Len(p) + 1] : q \in {r \in DOMAIN t : Len(r) = Len(p) + 1 /\ IsPrefix(p, r)}}

\* The value at p, as a document of its own (what copying it gives).
Subtree(t, p) ==
  [q \in {Rest(r, Len(p)) : r \in {s \in DOMAIN t : IsPrefix(p, s)}} |-> t[p \o q]]

\* The document without the value at p: json::erase.
Cut(t, p) == [q \in {r \in DOMAIN t : ~IsPrefix(p, r)} |-> t[q]]

\* The document with a copy of s assigned at p, replacing what was there.
Graft(t, p, s) ==
  [q \in DOMAIN Cut(t, p) \cup {p \o r : r \in DOMAIN s} |->
     IF IsPrefix(p, q) THEN s[Rest(q, Len(p))] ELSE t[q]]

\* The document with a node n at every prefix of p that has none yet.
Trunk(t, p, n) == [q \in DOMAIN t \cup Prefixes(p) |-> IF q \in DOMAIN t THEN t[q] ELSE n]

\* The document with the node at p replaced and what is below it kept.
SetNode(t, p, n) == [t EXCEPT ![p] = n]
=============================================================================
