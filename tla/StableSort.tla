----------------------------- MODULE StableSort -----------------------------
(***************************************************************************)
(* Python's sorted(..., reverse=True), by which retrieval and context      *)
(* assembly rank: the highest key first, and equal keys in their order.    *)
(***************************************************************************)
EXTENDS Integers, FiniteSets

(* The element at a position of the result is the one with as many before. *)
HighestFirst(s, key) ==
    LET before(i) == {j \in DOMAIN s : key[j] > key[i] \/ (key[j] = key[i] /\ j < i)}
    IN [p \in DOMAIN s |-> s[CHOOSE i \in DOMAIN s : Cardinality(before(i)) = p - 1]]

=============================================================================
