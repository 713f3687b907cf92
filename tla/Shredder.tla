------------------------------- MODULE Shredder -------------------------------
(***************************************************************************)
(* TachyonShredder (tachyon/core/shredder.py): a file as fragments of 4 KB *)
(* and their parity, and what decoding a list of them gives.               *)
(*                                                                         *)
(* A fragment stands for its bytes and is named by its place in what       *)
(* encode returned, 0 .. n - 1 for the data and then the parities.         *)
(* Whether decoding gives the file depends only on which fragments are in  *)
(* the list, and where.                                                    *)
(***************************************************************************)
EXTENDS Integers, Sequences, FiniteSets

CONSTANTS
    ChunkSize,     \* CHUNK_SIZE
    MaxBlock,      \* longest Reed-Solomon block: 255
    ParityShards   \* parity_shards: 2

ASSUME ShredderAssumption ==
    ChunkSize \in Nat \ {0} /\ MaxBlock \in Nat /\ ParityShards \in Nat \ {0, 1}

Missing == -1   \* None in a list of fragments
Foreign == -2   \* bytes that encode did not return

\* Fragments of a file of that many bytes, the last one padded.
Chunks(size) == (size + ChunkSize - 1) \div ChunkSize

\* A block that is too long gets one XOR parity.
XorCoded(n) == n + ParityShards > MaxBlock

Parities(n) == IF XorCoded(n) THEN 1 ELSE ParityShards
Total(n)    == n + Parities(n)

\* The parity of no bytes is indexed all the same, and encode raises.
EncodeRaises(n) == n = 0

Holes(list) == {i \in DOMAIN list : list[i] = Missing}

\* Data fragments of an n-fragment file that are in their place.
InPlace(n, data) == Len(data) = n /\ \A i \in DOMAIN data : data[i] \in {i - 1, Missing}

\* _xor_decode: every list without holes is joined, whatever is in it.
XorDecode(n, data, parities) ==
    LET parity == IF parities = <<>> THEN Missing ELSE parities[1] IN
    CASE Holes(data) = {} -> {IF InPlace(n, data) THEN "right" ELSE "wrong"}
      [] Holes(data) # {} /\ (Cardinality(Holes(data)) > 1 \/ parity = Missing) -> {"raises"}
      [] OTHER -> {IF InPlace(n, data) /\ XorCoded(n) /\ parity = n THEN "right" ELSE "wrong"}

\* Mutant: one erasure more.
TooManyErasuresLax(list) == Cardinality(Holes(list)) > ParityShards + 1

TooManyErasures(list) == Cardinality(Holes(list)) > ParityShards

\* Reed-Solomon repairs what its parity covers; beyond that it may or may not notice.
RSDecode(n, data, parities) ==
    LET list   == data \o parities
        errors == {i \in DOMAIN list : list[i] \notin {i - 1, Missing}}
    IN  CASE TooManyErasures(list) -> {"raises"}
          [] ~ TooManyErasures(list) /\ Len(data) = n /\ ~ XorCoded(n)
               /\ 2 * Cardinality(errors) + Cardinality(Holes(list)) <= ParityShards -> {"right"}
          [] OTHER -> {"raises", "wrong"}

\* What decode may give for the lists a caller took apart.
Decode(n, data, parities) ==
    IF Len(data) + Len(parities) > MaxBlock \/ Len(parities) # ParityShards
    THEN XorDecode(n, data, parities)
    ELSE RSDecode(n, data, parities)

\* How many fragments may be missing.
Tolerated(n) == IF XorCoded(n) THEN 1 ELSE ParityShards
==============================================================================
