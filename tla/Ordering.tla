------------------------------ MODULE Ordering ------------------------------
(***************************************************************************)
(* The members of finite sets in order, as what std::sort and loops over a *)
(* container give: a sequence.                                             *)
(***************************************************************************)
EXTENDS Integers, Sequences, FiniteSets

\* The n-th member of S is the one that has n - 1 members before it.
Ordered(S, before(_, _)) ==
    [n \in 1 .. Cardinality(S) |-> CHOOSE x \in S : Cardinality({ y \in S : before(y, x) }) = n - 1]

\* Numbers in order, and the members of a sequence at some of its places, in
\* the order in which they are there.
InOrder(S) == Ordered(S, <)
Pick(s, places) == [n \in 1 .. Cardinality(places) |-> s[InOrder(places)[n]]]
=============================================================================
