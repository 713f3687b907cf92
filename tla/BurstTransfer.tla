----------------------------- MODULE BurstTransfer -----------------------------
(***************************************************************************)
(* TachyonScheduler (tachyon/core/scheduler.py): a burst upload with its   *)
(* probe and circuit breaker, the burst download of the file and the       *)
(* repair of its fragments.                                                *)
(*                                                                         *)
(* A transfer holds a slot of a semaphore until it is answered or times    *)
(* out.  The drivers work in threads, which a timeout does not stop.       *)
(***************************************************************************)
EXTENDS Shredder

CONSTANTS
    Sizes,        \* sizes of files, in bytes
    ProbeSize,    \* _PROBE_SIZE: 4
    Slots,        \* places in _UPLOAD_SEM: 2
    MaxGaps       \* bound of the names without a provider

ASSUME TransferAssumption == Sizes \subseteq Nat /\ ProbeSize \in Nat \ {0} /\ Slots \in Nat \ {0}
                            /\ MaxGaps \in Nat

VARIABLES
    n,        \* data fragments of the file
    phase,    \* where upload_burst stands
    task,     \* the transfer of each fragment
    busy,     \* fragments a driver's thread is at work on
    hung,     \* whether the providers never answer
    store,    \* what the providers hold under each fragment's name
    read      \* the last burst download

transferVars == <<n, phase, task, busy, hung, store, read>>

Idx == 0 .. Total(n) - 1

Failures == {"raised", "timeout"}
Replies  == {"answered"} \cup Failures

NotRead == [outcome |-> "none", whole |-> TRUE, missing |-> 0]

TransferTypeOK ==
    /\ n \in {Chunks(size) : size \in Sizes}
    /\ phase \in {"idle", "raised", "probing", "full", "done", "broken"}
    /\ task \in [Idx -> {"none", "waiting", "running"} \cup Replies]
    /\ busy \subseteq Idx /\ hung \in BOOLEAN
    /\ store \in [Idx -> {"none", "good", "bad"}]
    /\ read \in [outcome : {"none", "right", "wrong", "raises"}, whole : BOOLEAN, missing : Nat]

TransferInit ==
    /\ n \in {Chunks(size) : size \in Sizes}
    /\ phase = "idle"
    /\ task = [i \in Idx |-> "none"]
    /\ busy = {} /\ hung \in BOOLEAN
    /\ store = [i \in Idx |-> "none"]
    /\ read = NotRead

------------------------------------------------------------------------------
(***************************************************************************)
(* upload_burst.                                                           *)
(***************************************************************************)

Probe == 0 .. (IF ProbeSize < Total(n) THEN ProbeSize ELSE Total(n)) - 1

Scheduled(s) == task' = [i \in Idx |-> IF i \in s THEN "waiting" ELSE task[i]]

BurstBegin ==
    /\ phase \in {"idle", "raised"}
    /\ IF EncodeRaises(n)
       THEN phase' = "raised" /\ UNCHANGED task
       ELSE phase' = "probing" /\ Scheduled(Probe)
    /\ UNCHANGED <<n, busy, hung, store, read>>

TaskStarts(i) ==
    /\ task[i] = "waiting" /\ Cardinality({j \in Idx : task[j] = "running"}) < Slots
    /\ task' = [task EXCEPT ![i] = "running"]
    /\ busy' = busy \cup {i}
    /\ UNCHANGED <<n, phase, hung, store, read>>

\* Mutant: what had been sent at the timeout is kept.
ServedPart(i) ==
    /\ i \in busy
    /\ store' = [store EXCEPT ![i] = IF task[i] = "timeout" THEN "part" ELSE "good"]
    /\ busy' = busy \ {i}
    /\ UNCHANGED <<n, phase, task, hung, read>>

\* The provider has stored the fragment, perhaps long after the timeout.
Served(i) ==
    /\ i \in busy
    /\ store' = [store EXCEPT ![i] = "good"]
    /\ busy' = busy \ {i}
    /\ UNCHANGED <<n, phase, task, hung, read>>

\* Mutant: a transfer that times out is tried again.
TaskEndsRetried(i) ==
    /\ task[i] = "running"
    /\ \E reply \in Replies :
         /\ hung => reply = "timeout"
         /\ task' = [task EXCEPT ![i] = IF reply = "timeout" THEN "waiting" ELSE reply]
         /\ busy' = IF reply = "timeout" THEN busy ELSE busy \ {i}
    /\ UNCHANGED <<n, phase, hung, store, read>>

\* The driver answers True or False, it raises, or the timeout leaves its thread
\* where it is.
TaskEnds(i) ==
    /\ task[i] = "running"
    /\ \E reply \in Replies :
         /\ hung => reply = "timeout"
         /\ task' = [task EXCEPT ![i] = reply]
         /\ busy' = IF reply = "timeout" THEN busy ELSE busy \ {i}
    /\ UNCHANGED <<n, phase, hung, store, read>>

Ended(s) == \A i \in s : task[i] \in Replies

\* Mutant: only timeouts count.
FailedTimeouts(s) == {i \in s : task[i] = "timeout"}

\* Exceptions count as failures, an answer of False does not.
Failed(s) == {i \in s : task[i] \in Failures}

\* At least 80 % of the probe.
BreakerOpens == /\ 10 * Cardinality(Failed(Probe)) >= 8 * Cardinality(Probe)
                /\ Probe # Idx

ProbeEnds ==
    /\ phase = "probing" /\ Ended(Probe)
    /\ IF BreakerOpens
       THEN phase' = "broken" /\ UNCHANGED task
       ELSE phase' = "full" /\ Scheduled(Idx \ Probe)
    /\ UNCHANGED <<n, busy, hung, store, read>>

BurstEnds ==
    /\ phase = "full" /\ Ended(Idx)
    /\ phase' = "done"
    /\ UNCHANGED <<n, task, busy, hung, store, read>>

------------------------------------------------------------------------------
(***************************************************************************)
(* download_burst and the repairs.                                         *)
(***************************************************************************)

\* The k-th of the names that have a provider.
Nth(map, k) == CHOOSE i \in map : Cardinality({j \in map : j < i}) = k - 1

\* The results in the order of the names, those without a provider left out.
Results(map, lost) ==
    LET Result(i) == IF i \in lost \/ store[i] = "none" THEN Missing
                     ELSE IF store[i] = "bad" THEN Foreign ELSE i
    IN  [k \in 1 .. Cardinality(map) |-> Result(Nth(map, k))]

Front(list)  == SubSeq(list, 1, IF Len(list) < n THEN Len(list) ELSE n)
Behind(list) == SubSeq(list, n + 1, Len(list))

\* map: the names with a provider; lost: downloads that fail or time out.
Download(map, lost) ==
    /\ phase \in {"done", "broken"}
    /\ LET list == Results(map, lost) IN
         \E outcome \in Decode(n, Front(list), Behind(list)) :
             read' = [outcome |-> outcome, whole |-> map = Idx /\ read.whole,
                      missing |-> Cardinality(Holes(list))]
    /\ UNCHANGED <<n, phase, task, busy, hung, store>>

\* _lazy_repair and repair_fragment: what was decoded is encoded again, and the
\* fragment stored under its old name, unless the upload fails.
Repair(i) ==
    /\ read.outcome \in {"right", "wrong"}
    /\ i \in Idx
    /\ store' = [store EXCEPT ![i] = IF read.outcome = "right" THEN "good" ELSE "bad"]
    /\ UNCHANGED <<n, phase, task, busy, hung, read>>

------------------------------------------------------------------------------

Uploads == \/ BurstBegin \/ ProbeEnds \/ BurstEnds
           \/ \E i \in Idx : TaskStarts(i) \/ TaskEnds(i)

TransferNext ==
    \/ Uploads
    \/ \E i \in Idx : Served(i) \/ Repair(i)
    \/ \E gaps \in SUBSET Idx : /\ Cardinality(gaps) <= MaxGaps
                               /\ \E lost \in SUBSET (Idx \ gaps) : Download(Idx \ gaps, lost)

\* The event loop runs, and a transfer that is not answered times out.
TransferSpec == TransferInit /\ [][TransferNext]_transferVars /\ WF_transferVars(Uploads)

------------------------------------------------------------------------------
(***************************************************************************)
(* Properties.                                                             *)
(***************************************************************************)

\* With a provider known for every fragment, a download gives the file as long as
\* no more fragments are missing than the parity covers, and never other bytes,
\* on both sides of the block length at which the code changes.
ReadBack ==
    read.whole /\ read.outcome # "none" =>
        /\ read.outcome # "wrong"
        /\ read.missing <= Tolerated(n) => read.outcome = "right"

\* A repair never stores wrong bytes, unless a name without a provider has once
\* shifted the fragments of a download.
RepairsAreRight == read.whole => \A i \in Idx : store[i] # "bad"

\* When every transfer of the probe raised or timed out, nothing else is sent,
\* then or later.
OutageStopsBurst ==
    [][\A i \in Idx \ Probe :
          (\A j \in Probe : task[j] \in Failures) => ~ (task[i] # "running" /\ task'[i] = "running")]_transferVars

\* A burst comes to its end though providers hang, and their threads with them.
BurstIsAnswered == phase = "probing" ~> phase \in {"done", "broken"}
==============================================================================
