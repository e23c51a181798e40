------------------------------ MODULE Outcomes ------------------------------
(***************************************************************************)
(* What the modules of the pure services share: the outcome of a call that *)
(* may be refused, and the order of tuples, by which the code sorts.       *)
(***************************************************************************)
EXTENDS Integers, SequencesExt

CONSTANTS None    \* Python's None

Refused(code) == [code |-> code]
Accepted(x) == [code |-> "OK", value |-> x]

\* k comes before l, which is of the same length.
Less(k, l) ==
    \E i \in DOMAIN k : k[i] < l[i] /\ \A j \in 1..(i - 1) : k[j] = l[j]

Least(keys) == CHOOSE k \in keys : \A l \in keys : l = k \/ Less(k, l)

\* The members of S in the order of their keys, no two of which are equal.
Sorted(S, key) ==
    LET keyed == {<<key[x], x>> : x \in S}
        ranked == {<<Cardinality({l \in keyed : Less(l[1], k[1])}), k[2]>> : k \in keyed}
    IN  [n \in 1..Cardinality(S) |-> CHOOSE x \in S : <<n - 1, x>> \in ranked]

Ascending(S) == Sorted(S, [n \in S |-> <<n>>])

\* The elements of s at some of its places.
Picked(s, places) == LET at == Ascending(places) IN [n \in DOMAIN at |-> s[at[n]]]

\* The elements of s that are in T.
Only(s, T) == Picked(s, {i \in DOMAIN s : s[i] \in T})

\* Each element once, where it comes first.
Distinct(s) == Picked(s, {i \in DOMAIN s : \A j \in 1..(i - 1) : s[j] # s[i]})
=============================================================================
