---------------------------- MODULE MCGoogleDrive ----------------------------
(* Small instances of GoogleDrive: the folder is configured, or is not.      *)
EXTENDS GoogleDrive, TLC

CONSTANTS d1, d2

MCHomes == {d1, Unset}

DriverSymmetry == Permutations(Calls) \cup Permutations(Instances)
NameSymmetry   == Permutations(Calls) \cup Permutations(Names)

\* The properties of the first run say nothing of the states behind.
Claimed == ~split /\ contended # Names
==============================================================================
