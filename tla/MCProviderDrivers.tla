--------------------------- MODULE MCProviderDrivers ---------------------------
(* A small instance of ProviderDrivers: an object in the folder "d", one       *)
(* beside it, and one outside of it whose name begins like it.                 *)
EXTENDS ProviderDrivers, TLC

MCNames == {<<"d", "x">>, <<"", "x">>, <<"", "d2">>}

CallsSymmetry == Permutations(Callers) \cup Permutations(Values)
==============================================================================
