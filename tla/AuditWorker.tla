------------------------------ MODULE AuditWorker ------------------------------
(***************************************************************************)
(* The background audit (tachyon/core/worker.py) in the life of its        *)
(* process (main.py): start-up with its schema migrations, the hourly      *)
(* cycle and the order in which it takes files, shutdown.                  *)
(*                                                                         *)
(* TachyonFabric says what a verification and a repair do to the shards.   *)
(* Here a file is its row and the time it was last verified, and the       *)
(* question is which files the cycle comes round to.  Times are ranks:     *)
(* only their order matters, so they are renumbered as they are taken.     *)
(***************************************************************************)
EXTENDS Naturals, FiniteSets, Sequences

CONSTANTS
    Files,
    Sessions,    \* concurrent verification requests
    Worker,      \* the session of the cycle
    Window,      \* rows the cycle selects: 200
    Batch        \* files it verifies: 50

ASSUME FilesAssumption == IsFiniteSet(Files)
ASSUME SessionsAssumption == IsFiniteSet(Sessions) /\ Worker \notin Sessions
ASSUME LimitAssumption == Window \in Nat \ {0} /\ Batch \in Nat \ {0}

VARIABLES
    process,     \* the service
    db,          \* whether the database answers
    schema,      \* whether the columns of the models exist
    redis,       \* none configured, or whether it answers
    row,         \* the manifests
    stamp,       \* last_verified_at as committed, 0 for None
    request,     \* the row each verification request has loaded
    taken,       \* the time each session has taken and not yet flushed, 0 for none
    worker,      \* where the worker stands
    todo,        \* files the cycle still has to verify, in its order
    flushed,     \* last_verified_at as the cycle has flushed it, 0 for not
    audited,     \* files verified by the last cycle, or by hand since (history)
    unhandled    \* files found degraded and not handed to the repair (history)

cycle   == <<worker, todo, flushed>>
times   == <<stamp, flushed, taken>>
history == <<audited, unhandled>>
vars    == <<process, db, schema, redis, row, stamp, request, taken, cycle, history>>

Verifiers == Sessions \cup {Worker}

Idle == [file |-> "none"]

Loaded == [file : Files, row : {"active", "deleted"}]

TypeOK ==
    /\ process \in {"down", "serving"} /\ db \in {"up", "down"}
    /\ schema \in {"old", "current"} /\ redis \in {"none", "up", "down"}
    /\ row \in [Files -> {"absent", "active", "deleted"}]
    /\ stamp \in [Files -> Nat] /\ flushed \in [Files -> Nat]
    /\ request \in [Sessions -> Loaded \cup {Idle}] /\ taken \in [Verifiers -> Nat]
    /\ worker \in {"asleep", "auditing", "healing"}
    /\ todo \in Seq(Files)
    /\ audited \subseteq Files /\ unhandled \subseteq Files
    \* A time is never taken twice, and what is not stored has none.
    /\ \A f, g \in Files : f # g /\ stamp[f] = stamp[g] => stamp[f] = 0
    /\ \A f \in Files : row[f] = "absent" => stamp[f] = 0

NoStamps == [f \in Files |-> 0]
NoTimes  == [v \in Verifiers |-> 0]

Init ==
    /\ process = "down" /\ db \in {"up", "down"} /\ redis \in {"none", "up"}
    /\ schema \in {"old", "current"}
    /\ row = [f \in Files |-> "absent"] /\ stamp = NoStamps
    /\ request = [s \in Sessions |-> Idle] /\ taken = NoTimes
    /\ worker = "asleep" /\ todo = <<>> /\ flushed = NoStamps
    /\ audited = {} /\ unhandled = {}

------------------------------------------------------------------------------
(***************************************************************************)
(* The clock.                                                              *)
(***************************************************************************)

Values(fn) == {fn[x] : x \in DOMAIN fn}

\* The times in order, numbered from 1.
Rank(all, v)    == Cardinality({u \in all \ {0} : u <= v})
Ranked(all, fn) == [x \in DOMAIN fn |-> Rank(all, fn[x])]

\* The times are what they are given as, renumbered.
Times(st, fl, tk) ==
    LET all == Values(st) \cup Values(fl) \cup Values(tk) IN
    stamp' = Ranked(all, st) /\ flushed' = Ranked(all, fl) /\ taken' = Ranked(all, tk)

\* Mutant: the time is taken once, when the module is loaded.
NowAtImport == 1

\* datetime.now: later than every time taken so far.
Now == 2 * Cardinality(Files) + Cardinality(Verifiers) + 1

\* A session takes the time before update_health looks for the row, flushes it and
\* waits for its lock.
TakesTime(v) == Times(stamp, flushed, [taken EXCEPT ![v] = Now])

------------------------------------------------------------------------------
(***************************************************************************)
(* The process.                                                            *)
(***************************************************************************)

\* Every column migration is tried; one that fails is logged and passed over.
Migrated(new) == new \in {schema, "current"} /\ (db = "down" => new = schema)

\* init_db may fail: the service starts all the same, and the worker with it.
Startup ==
    /\ process = "down"
    /\ process' = "serving"
    /\ \E new \in {"old", "current"} : Migrated(new) /\ schema' = new
    /\ UNCHANGED <<db, redis, row, stamp, request, taken, cycle, history>>

\* The worker is stopped and its task cancelled, or the process dies: the
\* sessions of the cycle and of the requests are rolled back.
Shutdown ==
    /\ process = "serving"
    /\ process' = "down"
    /\ worker' = "asleep" /\ todo' = <<>>
    /\ request' = [s \in Sessions |-> Idle]
    /\ Times(stamp, NoStamps, NoTimes)
    /\ UNCHANGED <<db, schema, redis, row, history>>

DatabaseFlips ==
    /\ db' = IF db = "up" THEN "down" ELSE "up"
    /\ UNCHANGED <<process, schema, redis, row, stamp, request, taken, cycle, history>>

\* The client is made once and never looked at again.
RedisFlips ==
    /\ redis # "none"
    /\ redis' = IF redis = "up" THEN "down" ELSE "up"
    /\ UNCHANGED <<process, db, schema, row, stamp, request, taken, cycle, history>>

------------------------------------------------------------------------------
(***************************************************************************)
(* Requests.                                                               *)
(***************************************************************************)

Queries == process = "serving" /\ db = "up" /\ schema = "current"

\* Rows the cycle has flushed are locked until it commits.
Writes(f) == Queries /\ flushed[f] = 0

Upload(f) ==
    /\ Queries /\ row[f] = "absent"
    /\ row' = [row EXCEPT ![f] = "active"]
    /\ UNCHANGED <<process, db, schema, redis, stamp, request, taken, cycle, history>>

Delete(f) ==
    /\ Writes(f) /\ row[f] = "active"
    /\ row' = [row EXCEPT ![f] = "deleted"]
    /\ UNCHANGED <<process, db, schema, redis, stamp, request, taken, cycle, history>>

VerifyBegin(s, f) ==
    /\ Queries /\ request[s] = Idle /\ row[f] # "absent"
    /\ request' = [request EXCEPT ![s] = [file |-> f, row |-> row[f]]]
    /\ UNCHANGED <<process, db, schema, redis, row, times, worker, todo, history>>

VerifyTimed(s) ==
    /\ request[s] # Idle /\ taken[s] = 0
    /\ TakesTime(s)
    /\ UNCHANGED <<process, db, schema, redis, row, request, worker, todo, history>>

\* The row as it was loaded, with the time that was taken, is flushed and
\* committed: nobody else gets the row in between.
VerifyCommit(s) ==
    LET f == request[s].file IN
    /\ request[s] # Idle /\ taken[s] # 0
    /\ Writes(f)
    /\ row' = [row EXCEPT ![f] = request[s].row]
    /\ Times([stamp EXCEPT ![f] = taken[s]], flushed, [taken EXCEPT ![s] = 0])
    /\ request' = [request EXCEPT ![s] = Idle]
    /\ audited' = audited \cup {f}
    /\ UNCHANGED <<process, db, schema, redis, worker, todo, unhandled>>

VerifyFails(s) ==
    /\ request[s] # Idle
    /\ request' = [request EXCEPT ![s] = Idle]
    /\ Times(stamp, flushed, [taken EXCEPT ![s] = 0])
    /\ UNCHANGED <<process, db, schema, redis, row, worker, todo, history>>

------------------------------------------------------------------------------
(***************************************************************************)
(* The cycle.                                                              *)
(***************************************************************************)

Stored == {f \in Files : row[f] # "absent"}

\* The first rows the database returns, in no order, the deleted ones included.
Windows ==
    {w \in SUBSET Stored :
        Cardinality(w) = IF Cardinality(Stored) < Window THEN Cardinality(Stored) ELSE Window}

Candidates(w) == {f \in w : row[f] = "active"}

\* A naive datetime.min meets a time with a zone, and the sort raises.
Mixed(s) == \E f, g \in s : stamp[f] = 0 /\ stamp[g] # 0

\* The oldest first; files that were never verified in any order.
Orders(s) ==
    {q \in [1 .. Cardinality(s) -> s] :
        \A i, j \in 1 .. Cardinality(s) : i < j => q[i] # q[j] /\ stamp[q[i]] <= stamp[q[j]]}

First(q) == SubSeq(q, 1, IF Len(q) < Batch THEN Len(q) ELSE Batch)

\* A cycle that fails is logged, one that finds nothing is over.
CycleStart ==
    /\ process = "serving" /\ worker = "asleep"
    /\ audited' = {}
    /\ IF ~ Queries
       THEN UNCHANGED cycle
       ELSE \E w \in Windows :
              IF Mixed(Candidates(w)) \/ Candidates(w) = {}
              THEN UNCHANGED cycle
              ELSE /\ \E q \in Orders(Candidates(w)) : todo' = First(q)
                   /\ worker' = "auditing"
                   /\ UNCHANGED flushed
    /\ UNCHANGED <<process, db, schema, redis, row, stamp, request, taken, unhandled>>

\* Mutant: the repair belongs to the publication.
HandedToRepairIfPublished == redis = "up"

\* An event that cannot be published raises past the repair.
HandedToRepair == redis # "down"

\* The next file is verified.
AuditTimed ==
    /\ worker = "auditing" /\ todo # <<>> /\ db = "up"
    /\ taken[Worker] = 0
    /\ TakesTime(Worker)
    /\ UNCHANGED <<process, db, schema, redis, row, request, worker, todo, history>>

\* Its row is flushed, and a file found degraded is repaired; an error is logged
\* and the cycle goes on.
AuditFlushed ==
    LET f == Head(todo) IN
    /\ worker = "auditing" /\ todo # <<>> /\ db = "up"
    /\ taken[Worker] # 0
    /\ Times(stamp, [flushed EXCEPT ![f] = taken[Worker]], [taken EXCEPT ![Worker] = 0])
    /\ \/ worker' = "auditing" /\ todo' = Tail(todo) /\ unhandled' = unhandled \ {f}
       \/ HandedToRepair /\ worker' = "healing" /\ UNCHANGED <<todo, unhandled>>
       \/ /\ ~ HandedToRepair
          /\ worker' = "auditing" /\ todo' = Tail(todo) /\ unhandled' = unhandled \cup {f}
    /\ UNCHANGED <<process, db, schema, redis, row, request, audited>>

\* A repair that succeeds takes the time again, with the row locked.
AuditHealed ==
    LET f == Head(todo) IN
    /\ worker = "healing" /\ db = "up"
    /\ \/ Times(stamp, [flushed EXCEPT ![f] = Now], taken)
       \/ UNCHANGED times
    /\ worker' = "auditing" /\ todo' = Tail(todo) /\ unhandled' = unhandled \ {f}
    /\ UNCHANGED <<process, db, schema, redis, row, request, audited>>

\* The session of the cycle is closed, and what is stored is st.
Ends(st) ==
    /\ worker' = "asleep" /\ todo' = <<>>
    /\ Times(st, NoStamps, [taken EXCEPT ![Worker] = 0])
    /\ UNCHANGED request

\* Mutant: nothing is committed.
CycleCommitNever ==
    /\ worker = "auditing" /\ todo = <<>> /\ db = "up"
    /\ audited' = {f \in Files : flushed[f] # 0}
    /\ Ends(stamp)
    /\ UNCHANGED <<process, db, schema, redis, row, unhandled>>

\* The rows are written as they were loaded, active ones, with their new time.
CycleCommit ==
    /\ worker = "auditing" /\ todo = <<>> /\ db = "up"
    /\ audited' = {f \in Files : flushed[f] # 0}
    /\ Ends([f \in Files |-> IF flushed[f] # 0 THEN flushed[f] ELSE stamp[f]])
    /\ row' = [f \in Files |-> IF flushed[f] # 0 THEN "active" ELSE row[f]]
    /\ UNCHANGED <<process, db, schema, redis, unhandled>>

\* The database does not answer: the files that are left fail one after another
\* and so does the commit.
CycleFails ==
    /\ worker # "asleep" /\ db = "down"
    /\ Ends(stamp)
    /\ UNCHANGED <<process, db, schema, redis, row, history>>

------------------------------------------------------------------------------

Next ==
    \/ Startup \/ Shutdown \/ DatabaseFlips \/ RedisFlips
    \/ \E f \in Files : Upload(f) \/ Delete(f)
    \/ \E s \in Sessions : \/ \E f \in Files : VerifyBegin(s, f)
                           \/ VerifyTimed(s) \/ VerifyCommit(s) \/ VerifyFails(s)
    \/ CycleStart \/ AuditTimed \/ AuditFlushed \/ AuditHealed \/ CycleCommit \/ CycleFails

\* The event loop runs the worker: it wakes up, its requests are answered.
Fairness ==
    /\ WF_vars(CycleStart) /\ WF_vars(CycleCommit)
    /\ WF_vars(AuditTimed) /\ WF_vars(AuditFlushed) /\ WF_vars(AuditHealed)

Spec == Init /\ [][Next]_vars /\ Fairness

------------------------------------------------------------------------------
(***************************************************************************)
(* Properties.                                                             *)
(***************************************************************************)

\* The service is up and the table fits the window.
Undisturbed == Queries /\ Cardinality(Stored) <= Window

\* A file that stays active is verified again and again, as long as no file that
\* was never verified stands beside one that was.
AuditKeepsTurning ==
    \A f \in Files :
        <>[](Undisturbed /\ row[f] = "active" /\ ~ Mixed(Candidates(Stored)))
        => []<>(f \in audited)

\* A file whose repair was passed over, because the event of its degradation could
\* not be published, comes round again and is handed over or found healthy: once
\* Redis is there, or none is configured, and nobody verifies the file by hand.
SkippedRepairComesRound ==
    \A f \in Files :
        <>[](/\ Undisturbed /\ row[f] = "active" /\ ~ Mixed(Candidates(Stored))
             /\ redis # "down" /\ \A s \in Sessions : request[s].file # f)
        => []<>(f \notin unhandled)

\* The same of a file that is verified by hand: every such verification puts the
\* file at the end of the cycle's order and repairs nothing.
RepairComesRound ==
    \A f \in Files :
        <>[](/\ Undisturbed /\ row[f] = "active" /\ ~ Mixed(Candidates(Stored))
             /\ redis # "down")
        => []<>(f \notin unhandled)

\* "Background worker that periodically audits Tachyon manifests": every file that
\* stays active is verified again and again.
EveryFileAudited ==
    \A f \in Files :
        <>[](Undisturbed /\ row[f] = "active") => []<>(f \in audited)
==============================================================================
