--------------------------- MODULE MCTachyonFabric ---------------------------
(* Small instances of TachyonFabric.                                        *)
EXTENDS TachyonFabric, TLC

CONSTANTS f1, f2, same, other

MCSameContent == [f \in Files |-> same]
MCTwoContents == [f \in Files |-> IF f = f1 THEN same ELSE other]

Symmetry == Permutations(Sessions) \cup Permutations(Providers)

\* Where one provider deletes first and another truncates.
SessionSymmetry == Permutations(Sessions)

\* Bound: nothing is followed beyond a repair that decoded from a truncated shard.
StraightRepairs == misled = {}
==============================================================================
