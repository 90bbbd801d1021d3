-------------------------------- MODULE Maps --------------------------------
(***************************************************************************)
(* Finite maps as the code uses std::map: an entry is put or dropped.      *)
(***************************************************************************)
NoEntries == [k \in {} |-> k]
Put(m, k, v) == [x \in DOMAIN m \cup {k} |-> IF x = k THEN v ELSE m[x]]
Drop(m, k) == [x \in DOMAIN m \ {k} |-> m[x]]
=============================================================================
