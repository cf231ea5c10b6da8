------------------------------ MODULE Selecting ------------------------------
(***************************************************************************)
(* Python's sorted(S, key=...) and [x for x in seq if x in keep], which    *)
(* the planner, the crew and the adapter use throughout.  SortSeq and      *)
(* SelectSeq compute the same; these definitions need no recursion and no  *)
(* operator as an argument, and so can be reasoned about.                  *)
(***************************************************************************)
EXTENDS Naturals, FiniteSets, Sequences

(* The members of a finite set by ascending key, keys being different: the *)
(* k-th is the one with k - 1 smaller ones.                                *)
InOrder(S, key) ==
  LET smaller == [x \in S |-> Cardinality({y \in S : key[y] < key[x]})]
  IN  [k \in 1 .. Cardinality(S) |-> CHOOSE x \in S : smaller[x] = k - 1]

Ascending(S) == InOrder(S, [n \in S |-> n])

(* The members of a sequence that are in keep, in the sequence's order.    *)
Kept(seq, keep) ==
  LET at == Ascending({i \in DOMAIN seq : seq[i] \in keep})
  IN  [k \in DOMAIN at |-> seq[at[k]]]
=============================================================================
