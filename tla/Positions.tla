----------------------------- MODULE Positions -----------------------------
(***************************************************************************)
(* The part of a sequence that a loop with a condition keeps: the elements *)
(* at certain positions, in their order.                                   *)
(***************************************************************************)
EXTENDS Integers, Sequences

\* The positions I, of which there are at most n, from the first to the last.
InOrder(I, n) ==
  {p \in UNION {[1 .. m -> I] : m \in 0 .. n} :
     /\ \A i \in I : \E k \in DOMAIN p : p[k] = i
     /\ \A k, l \in DOMAIN p : k < l => p[k] < p[l]}

\* The elements of q at the positions I: the only member of Kept(q, I).
Kept(q, I) == {[k \in DOMAIN p |-> q[p[k]]] : p \in InOrder(I, Len(q))}
At(q, I) == CHOOSE r \in Kept(q, I) : TRUE
=============================================================================
