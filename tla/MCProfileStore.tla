------------------------------ MODULE MCProfileStore -----------------------------
(* A small instance of ProfileStore: two people, one username they may pass on, *)
(* and a slug that leads to the second of them without being the username. *)
EXTENDS ProfileStore, TLC

CONSTANTS ann, bob, n1, alias, r1, r2

TwoPeople   == {ann, bob}
OneName     == {n1}
OneAlias    == {alias}
AliasLeads  == [a \in {alias} |-> bob]
AnnHasAName == [p \in {ann, bob} |-> IF p = ann THEN n1 ELSE NoName]
TwoRequests == {r1, r2}
Symmetry    == Permutations(TwoRequests)
===============================================================================
