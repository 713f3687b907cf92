---------------------------- MODULE MCVitConnect ----------------------------
(* A small instance of VitConnect.                                           *)
EXTENDS VitConnect, TLC

MCClientIds     == {"google_drive", "dropbox"}
MCClientSecrets == {"google_drive"}
MCOtherTypes    == {"s3"}

FlowSymmetry == Permutations(Tokens) \cup Permutations(Handlers)
==============================================================================
