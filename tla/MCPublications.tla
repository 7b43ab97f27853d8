-------------------------- MODULE MCPublications --------------------------
(* Publications on small instances. *)
EXTENDS Publications, TLC

OwnTicker == [s \in Signals |-> s]

SymmetrySets == Permutations(Signals) \cup Permutations(Quotes)
===========================================================================
