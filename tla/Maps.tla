-------------------------------- MODULE Maps --------------------------------
(***************************************************************************)
(* std::collections::HashMap as a function on the keys it holds.           *)
(***************************************************************************)
EXTENDS Functions

\* A map from some of the keys K to values in V.
IsMap(f, K, V) == DOMAIN f \subseteq K /\ f \in [DOMAIN f -> V]

\* insert: a new entry, or a new value for an old one.
Put(f, k, v) == [x \in DOMAIN f \cup {k} |-> IF x = k THEN v ELSE f[x]]

\* remove; nothing happens when the key is absent.
Without(f, k) == Restrict(f, DOMAIN f \ {k})
=============================================================================
