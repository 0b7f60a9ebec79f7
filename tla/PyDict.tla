------------------------------- MODULE PyDict -------------------------------
(* Python dicts as functions: DOMAIN is the set of keys present. *)
EXTENDS Integers, Functions

IsDict(d, K, V) == DOMAIN d \subseteq K /\ d \in [DOMAIN d -> V]

Empty == [k \in {} |-> 0]

\* d[k] = v for every k in K
Put(d, K, v) == [k \in DOMAIN d \cup K |-> IF k \in K THEN v ELSE d[k]]

\* del d[k] for every k in K
Del(d, K) == Restrict(d, DOMAIN d \ K)

\* d.get(k, 0), and d[k] += 1 for every k in K of a dict that is used so
Count(d, k) == IF k \in DOMAIN d THEN d[k] ELSE 0
Bump(d, K) == [k \in DOMAIN d \cup K |-> IF k \in K THEN Count(d, k) + 1 ELSE d[k]]
=============================================================================
