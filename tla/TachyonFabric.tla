----------------------------- MODULE TachyonFabric -----------------------------
(***************************************************************************)
(* The life of a stored file: manifest rows in the database, erasure-coded *)
(* shards at the providers, the requests that upload, verify and delete    *)
(* files, and the hourly audit that verifies and repairs them.             *)
(*                                                                         *)
(* Every request and every audit cycle has a database session of its own.  *)
(* A session keeps the row it loaded first (the identity map) and writes   *)
(* back the whole provider_mapping JSON of that copy, so a row on its way  *)
(* through a session is a snapshot here too.  A shard is named             *)
(* <file>_<index>, so a provider holds at most one object per index.       *)
(***************************************************************************)
EXTENDS Integers, FiniteSets

CONSTANTS
    Files,        \* file ids: uuid4, one per upload, never reused
    Contents,     \* what the uploaded bytes can be
    ContentOf,    \* the bytes uploaded under a file id
    NulTail,      \* files whose bytes end in NULs beyond the shard padding
    Providers,    \* registered providers, local_disk among them
    DeleteFirst,  \* providers whose upload deletes the old object first (gdrive)
    Truncating,   \* providers whose upload truncates it first (local_disk, S3's stand-in)
    None,         \* no provider recorded for an index
    Sessions,     \* concurrent HTTP requests
    Requests,     \* the kinds of request clients make
    D, P,         \* DATA_SHARDS, PARITY_SHARDS
    SampleSize,   \* shards a verification reads: 3
    Outages,      \* whether provider calls may fail, or be cut off, for a while
    BitRot,       \* files whose stored objects may silently change
    MaxFaults     \* bound of the objects of a file lost or rotten

ASSUME ShardAssumption    == D \in Nat \ {0} /\ P \in Nat /\ SampleSize \in Nat \ {0}
ASSUME NoneAssumption     == None \notin Providers
ASSUME FileAssumption     == NulTail \subseteq Files /\ BitRot \subseteq Files
ASSUME ContentAssumption  == ContentOf \in [Files -> Contents]
ASSUME ProviderAssumption == DeleteFirst \subseteq Providers /\ Truncating \subseteq Providers
ASSUME RequestAssumption  == Requests \subseteq {"upload", "delete", "verify"}
ASSUME FaultAssumption    == Outages \in BOOLEAN /\ MaxFaults \in Nat

VARIABLES
    rows,         \* committed tachyon_manifests rows
    cloud,        \* cloud[f][i][p]: the object of shard i of f at provider p
    req,          \* the request each session serves
    audit,        \* where the audit cycle stands
    snap,         \* the rows as the audit's session holds them
    todo,         \* files the cycle still has to verify
    dirty,        \* rows the cycle has flushed: locked until it commits
    target,       \* the file being repaired
    got,          \* indices the repair could download
    decoded,      \* whether what it decoded is the file
    born,         \* file ids handed out (history)
    acked,        \* files a client was last told are uploaded (history)
    unwanted,     \* files a client asked to delete (history)
    misled,       \* files whose repair decoded from a truncated shard (history)
    lost,         \* objects lost since the file was last read back (history)
    faults        \* objects ever lost or rotten (history)

auditVars == <<audit, snap, todo, dirty, target, got, decoded>>
history   == <<born, acked, unwanted, misled>>
vars == <<rows, cloud, req, auditVars, history, lost, faults>>

Idx == 0 .. (D + P - 1)

Lists == [Idx -> Providers \cup {None}]

NoShards == [i \in Idx |-> None]

Recorded(list) == {i \in Idx : list[i] # None}

Row == [status : {"absent", "active", "deleted"}, shards : Lists,
        health : {"full", "low"}]

NoRow == [status |-> "absent", shards |-> NoShards, health |-> "full"]

\* An object is intact, of the right length with wrong bytes, or too short.
Objects == {"none", "good", "bad", "short"}

\* The shards of f that exist where a list says, and those that are intact.
Present(f, list) == {i \in Idx : list[i] # None /\ cloud[f][i][list[i]] # "none"}
Good(f, list)    == {i \in Idx : list[i] # None /\ cloud[f][i][list[i]] = "good"}
Short(f, list)   == {i \in Idx : list[i] # None /\ cloud[f][i][list[i]] = "short"}

TypeOK ==
    /\ rows \in [Files -> Row]
    /\ cloud \in [Files -> [Idx -> [Providers -> Objects]]]
    /\ req \in [Sessions ->
                 [pc : {"idle", "placing", "placed", "deleting", "verifying"},
                  file : Files, row : Row, left : SUBSET Idx]]
    /\ audit \in {"idle", "audit", "heal", "repair"}
    /\ snap \in [Files -> Row]
    /\ todo \subseteq Files /\ dirty \subseteq Files /\ target \in Files
    /\ got \subseteq Idx /\ decoded \in Objects
    /\ born \subseteq Files /\ acked \subseteq Files /\ unwanted \subseteq Files
    /\ misled \subseteq Files
    /\ lost \in [Files -> Nat] /\ faults \in [Files -> Nat]

IdleRequest(f) == [pc |-> "idle", file |-> f, row |-> NoRow, left |-> {}]

Init ==
    /\ rows = [f \in Files |-> NoRow]
    /\ cloud = [f \in Files |-> [i \in Idx |-> [p \in Providers |-> "none"]]]
    /\ target \in Files
    /\ req = [s \in Sessions |-> IdleRequest(target)]
    /\ audit = "idle" /\ snap = rows /\ todo = {} /\ dirty = {}
    /\ got = {} /\ decoded = "good"
    /\ born = {} /\ acked = {} /\ unwanted = {} /\ misled = {}
    /\ lost = [f \in Files |-> 0] /\ faults = [f \in Files |-> 0]

------------------------------------------------------------------------------
(***************************************************************************)
(* Upload: POST /upload.                                                   *)
(***************************************************************************)

\* Any row with the same sha256, whatever its status.
Duplicates(f) == {g \in Files : rows[g].status # "absent" /\ ContentOf[g] = ContentOf[f]}

\* The bytes are known: the manifest found is the answer and nothing is stored.
UploadDedup(s, f) ==
    /\ "upload" \in Requests
    /\ req[s].pc = "idle"
    /\ f \notin born
    /\ \E g \in Duplicates(f) : acked' = acked \cup {g}
    /\ UNCHANGED <<rows, cloud, req, auditVars, born, unwanted, misled, lost, faults>>

UploadBegin(s, f) ==
    /\ "upload" \in Requests
    /\ req[s].pc = "idle"
    /\ f \notin born
    /\ Duplicates(f) = {}
    /\ born' = born \cup {f}
    /\ req' = [req EXCEPT ![s] = [pc |-> "placing", file |-> f, row |-> NoRow, left |-> {}]]
    /\ UNCHANGED <<rows, cloud, auditVars, acked, unwanted, misled, lost, faults>>

\* cloud with one object of kind v stored at list[i] for each recorded index i.
Stored(f, list, v) ==
    [cloud EXCEPT ![f] = [i \in Idx |-> [p \in Providers |->
        IF list[i] = p THEN v ELSE cloud[f][i][p]]]]

\* Mutant: an upload that keeps too few shards is accepted.
TooManyFailuresLax(list) == Cardinality(Idx \ Recorded(list)) > P + 1

\* failures > PARITY_SHARDS.
TooManyFailures(list) == Cardinality(Idx \ Recorded(list)) > P

\* The parallel shard uploads: some fail, and the ones that did not stay where
\* they are even when the upload is refused.  What a failed one leaves behind has
\* a name no list has, and is overwritten before a list has it.
PlaceShards(s) ==
    LET f == req[s].file IN
    /\ req[s].pc = "placing"
    /\ \E list \in Lists :
         /\ ~Outages => Recorded(list) = Idx
         /\ cloud' = Stored(f, list, "good")
         /\ req' = [req EXCEPT ![s] =
              IF TooManyFailures(list)
              THEN IdleRequest(f)
              ELSE [pc |-> "placed", file |-> f, left |-> {},
                    row |-> [status |-> "active", shards |-> list, health |-> "full"]]]
    /\ UNCHANGED <<rows, auditVars, history, lost, faults>>

UploadCommit(s) ==
    LET f == req[s].file IN
    /\ req[s].pc = "placed"
    /\ rows' = [rows EXCEPT ![f] = req[s].row]
    /\ acked' = acked \cup {f}
    /\ req' = [req EXCEPT ![s] = IdleRequest(f)]
    /\ UNCHANGED <<cloud, auditVars, born, unwanted, misled, lost, faults>>

------------------------------------------------------------------------------
(***************************************************************************)
(* Delete: DELETE /files/{id}.                                             *)
(***************************************************************************)

DeleteBegin(s, f) ==
    /\ "delete" \in Requests
    /\ req[s].pc = "idle"
    /\ rows[f].status # "absent"
    /\ req' = [req EXCEPT ![s] = [pc |-> "deleting", file |-> f, row |-> rows[f],
                                 left |-> Recorded(rows[f].shards)]]
    /\ unwanted' = unwanted \cup {f}
    /\ acked' = acked \ {f}
    /\ UNCHANGED <<rows, cloud, auditVars, born, misled, lost, faults>>

DeleteShard(s, i) ==
    LET f == req[s].file IN
    /\ req[s].pc = "deleting"
    /\ i \in req[s].left
    /\ cloud' = [cloud EXCEPT ![f][i][req[s].row.shards[i]] = "none"]
    /\ req' = [req EXCEPT ![s].left = @ \ {i}]
    /\ UNCHANGED <<rows, auditVars, history, lost, faults>>

\* The provider refuses or is gone: logged, and the deletion goes on.
DeleteShardFails(s, i) ==
    /\ Outages
    /\ req[s].pc = "deleting"
    /\ i \in req[s].left
    /\ req' = [req EXCEPT ![s].left = @ \ {i}]
    /\ UNCHANGED <<rows, cloud, auditVars, history, lost, faults>>

DeleteCommit(s) ==
    LET f == req[s].file IN
    /\ req[s].pc = "deleting"
    /\ req[s].left = {}
    /\ f \notin dirty
    /\ rows' = [rows EXCEPT ![f] = [req[s].row EXCEPT !.status = "deleted"]]
    /\ req' = [req EXCEPT ![s] = IdleRequest(f)]
    /\ UNCHANGED <<cloud, auditVars, history, lost, faults>>

------------------------------------------------------------------------------
(***************************************************************************)
(* Verification: of a request or of the audit.                             *)
(***************************************************************************)

\* What a parallel download of a list may return.
Reads(f, list) == IF Outages THEN SUBSET Present(f, list) ELSE {Present(f, list)}

\* A random sample of k recorded shards, in random order.
Samples(list) ==
    LET n == Cardinality(Recorded(list))
        k == IF n < SampleSize THEN n ELSE SampleSize
    IN {order \in [1 .. k -> Recorded(list)] :
          \A a, b \in 1 .. k : order[a] = order[b] => a = b}

\* The download comes back sorted by index; its k-th shard is compared with the
\* hash of the k-th sampled one.
Matches(f, list, order, read) ==
    \A k \in DOMAIN order :
        /\ order[k] \in read \cap Good(f, list)
        /\ Cardinality({j \in DOMAIN order : order[j] <= order[k]}) = k

Verdicts(f, list) ==
    {IF Matches(f, list, order, read) THEN "full" ELSE "low" :
        order \in Samples(list), read \in Reads(f, list)}

VerifyBegin(s, f) ==
    /\ "verify" \in Requests
    /\ req[s].pc = "idle"
    /\ rows[f].status # "absent"
    /\ req' = [req EXCEPT ![s] = [pc |-> "verifying", file |-> f, row |-> rows[f],
                                 left |-> {}]]
    /\ UNCHANGED <<rows, cloud, auditVars, history, lost, faults>>

\* POST /files/{id}/verify writes the row it loaded with a new health score.
VerifyCommit(s) ==
    LET f == req[s].file IN
    /\ req[s].pc = "verifying"
    /\ f \notin dirty
    /\ \E h \in Verdicts(f, req[s].row.shards) :
         rows' = [rows EXCEPT ![f] = [req[s].row EXCEPT !.health = h]]
    /\ req' = [req EXCEPT ![s] = IdleRequest(f)]
    /\ UNCHANGED <<cloud, auditVars, history, lost, faults>>

\* Mutant: a commit waits for the row lock for ever.
CommitFailsNever(s) ==
    /\ req[s].pc = "placed"
    /\ req' = [req EXCEPT ![s] = IdleRequest(req[s].file)]
    /\ UNCHANGED <<rows, cloud, auditVars, history, lost, faults>>

\* The commit fails ("database is locked", connection lost): rolled back.
CommitFails(s) ==
    /\ \/ req[s].pc \in {"placed", "verifying"}
       \/ req[s].pc = "deleting" /\ req[s].left = {}
    /\ req' = [req EXCEPT ![s] = IdleRequest(req[s].file)]
    /\ UNCHANGED <<rows, cloud, auditVars, history, lost, faults>>

------------------------------------------------------------------------------
(***************************************************************************)
(* The audit cycle: one session from the first select to the last commit.  *)
(***************************************************************************)

\* No verification request lives through a whole interval (an hour) and still
\* holds a list that an earlier cycle replaced.
NoStaleVerification ==
    \A s \in Sessions : req[s].pc = "verifying" =>
        req[s].row.shards = rows[req[s].file].shards

CycleStart ==
    /\ audit = "idle"
    /\ NoStaleVerification
    /\ todo' = {f \in Files : rows[f].status = "active"}
    /\ todo' # {}
    /\ snap' = rows
    /\ audit' = "audit"
    /\ UNCHANGED <<rows, cloud, req, dirty, target, got, decoded, history, lost, faults>>

\* Mutant: a file found degraded is verified again in the same cycle.
AuditVerifyAgain(f) ==
    /\ audit = "audit"
    /\ f \in todo
    /\ dirty' = dirty \cup {f}
    /\ \E h \in Verdicts(f, snap[f].shards) :
         /\ snap' = [snap EXCEPT ![f].health = h]
         /\ todo' = IF h = "full" THEN todo \ {f} ELSE todo
         /\ audit' = IF h = "full" THEN "audit" ELSE "heal"
         /\ target' = IF h = "full" THEN target ELSE f
    /\ UNCHANGED <<rows, cloud, req, got, decoded, history, lost, faults>>

AuditVerify(f) ==
    /\ audit = "audit"
    /\ f \in todo
    /\ todo' = todo \ {f}
    /\ dirty' = dirty \cup {f}
    /\ \E h \in Verdicts(f, snap[f].shards) :
         /\ snap' = [snap EXCEPT ![f].health = h]
         /\ audit' = IF h = "full" THEN "audit" ELSE "heal"
         /\ target' = IF h = "full" THEN target ELSE f
    /\ UNCHANGED <<rows, cloud, req, got, decoded, history, lost, faults>>

\* Every shard of a full list came back: nothing to repair, whatever they hold.
HealIntact ==
    /\ audit = "heal"
    /\ Idx \in Reads(target, snap[target].shards)
    /\ snap' = [snap EXCEPT ![target].health = "full"]
    /\ lost' = IF Good(target, snap[target].shards) = Idx THEN [lost EXCEPT ![target] = 0] ELSE lost
    /\ audit' = "audit"
    /\ UNCHANGED <<rows, cloud, req, todo, dirty, target, got, decoded, history, faults>>

\* Decoding m erasures and e wrong shards is right while 2e + m <= P; beyond it
\* the decoder raises, unless the erasures use up all parity: then it returns
\* something else.
Wrong(f, read) == Cardinality(read \ Good(f, snap[f].shards))

\* Mutant: one erasure too few is counted.
ErasedOneLess(read) == Cardinality(Idx \ read) - 1

Erased(read)   == Cardinality(Idx \ read)
Decodable(f, read) == Wrong(f, read) = 0 \/ 2 * Wrong(f, read) + Erased(read) <= P

\* Shards that came back too short.
Cut(f, read) == read \cap Short(f, snap[f].shards)

\* The first shard that came back sets the length of all: when it is cut, the
\* others are cut with it, and when it is empty, so is the file.  A later one that
\* is shorter raises.
FirstCut(f, read) == \E i \in Cut(f, read) : \A j \in read : i <= j

MayRaise(f, read) ==
    \/ Erased(read) > P
    \/ Cut(f, read) = {} /\ ~Decodable(f, read) /\ Erased(read) < P
    \/ Cut(f, read) # {} /\ (FirstCut(f, read) => Wrong(f, read) > 1)

HealGivesUp ==
    /\ audit = "heal"
    /\ \E read \in Reads(target, snap[target].shards) : read # Idx /\ MayRaise(target, read)
    /\ audit' = "audit"
    /\ UNCHANGED <<rows, cloud, req, snap, todo, dirty, target, got, decoded,
                   history, lost, faults>>

\* The size of the file is not passed to decode, so trailing NULs are stripped
\* with the padding and the new shards do not fit the kept ones.
HealDecode ==
    /\ audit = "heal"
    /\ \E read \in Reads(target, snap[target].shards) :
         /\ read # Idx
         /\ Erased(read) <= P
         /\ Cut(target, read) = {} \/ FirstCut(target, read)
         /\ got' = read
         /\ decoded' \in IF Cut(target, read) = {} /\ Decodable(target, read) /\ target \notin NulTail
                         THEN {"good"} ELSE {"bad", "short"}
         /\ misled' = IF Cut(target, read) = {} THEN misled ELSE misled \cup {target}
    /\ lost' = IF decoded' = "good" THEN [lost EXCEPT ![target] = 0] ELSE lost
    /\ audit' = "repair"
    /\ UNCHANGED <<rows, cloud, req, snap, todo, dirty, target, born, acked, unwanted, faults>>

\* Mutant: only the new locations are kept.
RepairedOnly(list, missing, placed) == [i \in missing |-> placed[i]]

\* The shards that came back stay where they are, the others are where they
\* were uploaded to, and those that could not be uploaded are gone.
Repaired(list, missing, placed) ==
    [i \in Idx |-> IF i \in missing THEN placed[i] ELSE list[i]]

\* The objects of the target when its missing shards have been uploaded, as far as
\* that went.
Uploaded(missing, placed, wiped, cut) ==
    [i \in Idx |-> [p \in Providers |->
        IF i \in missing /\ placed[i] = p THEN decoded
        ELSE IF <<i, p>> \in wiped THEN "none"
        ELSE IF <<i, p>> \in cut THEN "short"
        ELSE cloud[target][i][p]]]

\* Recorded shards that could not be read are uploaded anew; what fails is
\* dropped from the list.  A failed upload may have removed the object it was to
\* replace, or truncated it.  A process that dies in an upload is the same with
\* Restart as the next step.
HealUpload ==
    LET f       == target
        list    == snap[f].shards
        missing == Recorded(list) \ got
    IN
    /\ audit = "repair"
    /\ \E placed \in [missing -> Providers \cup {None}],
          wiped \in SUBSET (missing \X DeleteFirst),
          cut \in SUBSET (missing \X Truncating) :
         /\ ~Outages => wiped = {} /\ cut = {} /\ \A i \in missing : placed[i] # None
         /\ cloud' = [cloud EXCEPT ![f] = Uploaded(missing, placed, wiped, cut)]
         /\ snap' = [snap EXCEPT ![f] =
              [@ EXCEPT !.health = "full",
                        !.shards = Repaired(list, missing, placed)]]
    /\ audit' = "audit" /\ got' = {} /\ decoded' = "good"
    /\ UNCHANGED <<rows, req, todo, dirty, target, history, lost, faults>>

\* The session is closed, its rows are forgotten.
CycleOver ==
    /\ audit' = "idle"
    /\ snap' = [f \in Files |-> NoRow]
    /\ todo' = {} /\ dirty' = {} /\ got' = {} /\ decoded' = "good"
    /\ UNCHANGED target

CycleCommit ==
    /\ audit = "audit"
    /\ todo = {}
    /\ rows' = [f \in Files |-> IF f \in dirty THEN snap[f] ELSE rows[f]]
    /\ CycleOver
    /\ UNCHANGED <<cloud, req, history, lost, faults>>

\* An error that ends the cycle: nothing it flushed is kept.
CycleAborts ==
    /\ audit # "idle"
    /\ CycleOver
    /\ UNCHANGED <<rows, cloud, req, history, lost, faults>>

------------------------------------------------------------------------------
(***************************************************************************)
(* Faults.                                                                 *)
(***************************************************************************)

\* The process dies and comes back: requests and the cycle are forgotten.
Restart ==
    /\ req' = [s \in Sessions |-> IdleRequest(req[s].file)]
    /\ CycleOver
    /\ UNCHANGED <<rows, cloud, history, lost, faults>>

\* A provider loses an object, or, for the files of BitRot, its bytes change.
DamageObject(f, i, p) ==
    /\ faults[f] < MaxFaults
    /\ cloud[f][i][p] # "none"
    /\ \E v \in IF f \in BitRot THEN {"none", "bad"} ELSE {"none"} :
         cloud' = [cloud EXCEPT ![f][i][p] = v]
    /\ lost' = [lost EXCEPT ![f] = @ + 1]
    /\ faults' = [faults EXCEPT ![f] = @ + 1]
    /\ UNCHANGED <<rows, req, auditVars, history>>

SessionStep(s) ==
    \/ PlaceShards(s) \/ UploadCommit(s)
    \/ \E i \in Idx : DeleteShard(s, i) \/ DeleteShardFails(s, i)
    \/ DeleteCommit(s) \/ VerifyCommit(s) \/ CommitFails(s)

AuditStep ==
    \/ \E f \in Files : AuditVerify(f)
    \/ HealIntact \/ HealGivesUp \/ HealDecode \/ HealUpload
    \/ CycleCommit

Next ==
    \/ \E s \in Sessions, f \in Files :
          UploadDedup(s, f) \/ UploadBegin(s, f) \/ DeleteBegin(s, f) \/ VerifyBegin(s, f)
    \/ \E s \in Sessions : SessionStep(s)
    \/ CycleStart
    \/ AuditStep
    \/ CycleAborts
    \/ Restart
    \/ \E f \in Files, i \in Idx, p \in Providers : DamageObject(f, i, p)

Spec == Init /\ [][Next]_vars

\* Every handler and the audit are asyncio tasks of one loop: what can go on,
\* goes on.  A call that hangs ends in its timeout, a lock wait in CommitFails.
FairSpec ==
    /\ Spec
    /\ \A s \in Sessions : WF_vars(SessionStep(s))
    /\ WF_vars(AuditStep)

------------------------------------------------------------------------------
(***************************************************************************)
(* Properties.                                                             *)
(***************************************************************************)

Exists(f) == rows[f].status # "absent"

\* Every committed manifest lists at least D shards: an upload that lost more
\* than P of them is refused, and a repair never publishes a list too short to
\* decode, however many of its uploads fail.
RowsComplete ==
    \A f \in Files : Exists(f) => Cardinality(Recorded(rows[f].shards)) >= D

\* A file nobody asked to delete has D intact shards where its manifest says,
\* less one for every object lost since the file was last read back whole:
\* repairs, failed repairs, rolled-back cycles, crashes and the stale manifests
\* of overlapping verifications cost it nothing.  Not so the files of which a
\* repair stores something else: those that end in NULs, those whose objects rot,
\* and those a repair decoded from a shard that an earlier, failed repair upload
\* had truncated, the first one that came back.
Enough(f) == Exists(f) => Cardinality(Good(f, rows[f].shards)) + lost[f] >= D

Durable == \A f \in Files \ (unwanted \cup NulTail \cup BitRot \cup misled) : Enough(f)

\* The same of every file, whatever its bytes are and whatever the disks and the
\* repairs do.
SurvivesFaults == \A f \in Files \ unwanted : Enough(f)

\* A committed deletion is final.
DeletedStaysDeleted ==
    [][\A f \in Files : rows[f].status = "deleted" => rows'[f].status = "deleted"]_vars

\* A file reported as uploaded, and not deleted since, is an active manifest.
AckedIsActive == \A f \in acked : rows[f].status = "active"

\* Verifying an intact file finds it healthy.
VerifyTellsTruth ==
    [][\A f \in Files :
          Exists(f) /\ Good(f, rows[f].shards) = Idx => rows'[f].health = "full"]_vars

\* Every request gets its answer and every audit cycle ends, although a commit
\* may wait for the row lock of a cycle and a cycle waits for providers.
RequestsAnswered == \A s \in Sessions : req[s].pc # "idle" ~> req[s].pc = "idle"
CyclesEnd        == audit # "idle" ~> audit = "idle"
==============================================================================
