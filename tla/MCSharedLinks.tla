---------------------------- MODULE MCSharedLinks ----------------------------
(* Small instances of SharedLinks: the unchecked numbers of the request     *)
(* body include a negative limit and a link that is born expired.           *)
EXTENDS SharedLinks, TLC

MCLimits == {NoLimit, -1, 2}
MCLifetimes == {Never, -1, 1}

ClientSymmetry == Permutations(Clients)
==============================================================================
