---------------------------- MODULE MCShardRouting ----------------------------
(***************************************************************************)
(* Instances of ShardRouting.                                              *)
(***************************************************************************)
EXTENDS ShardRouting, TLC

CONSTANTS disk, drive, s3

MCPool == <<disk, drive, s3>>

CallSymmetry == Permutations(Calls)
==============================================================================
