----------------------------- MODULE SharedLinks -----------------------------
(***************************************************************************)
(* Public download links (tachyon/api/extended_router.py).                 *)
(*                                                                         *)
(* A link is one row of shared_links.  GET /shared/{token} reads the row,  *)
(* checks expiry and the download limit, awaits the orchestrator's         *)
(* retrieve, and only then writes back the counter it READ plus one and    *)
(* commits.  Requests are asyncio tasks, each with its own session, so any *)
(* number of them may stand between the check and the write.               *)
(***************************************************************************)
EXTENDS Integers

CONSTANTS
    Links,        \* ids of link rows: uuid4, never used twice
    Clients,      \* concurrent requests
    Limits,       \* values of SharedLinkCreate.download_limit, an unchecked int
    Lifetimes,    \* values of expires_hours, an unchecked int
    NoLimit,      \* download_limit NULL
    Never,        \* expires_at NULL
    MaxTime,      \* bound of the clock
    MaxGrants     \* bound of the commits of one link

ASSUME LimitsAssumption    == Limits \subseteq Int \cup {NoLimit}
ASSUME NoLimitAssumption   == NoLimit \notin Int
ASSUME LifetimesAssumption == Lifetimes \subseteq Int \cup {Never}
ASSUME BoundsAssumption    == MaxTime \in Nat /\ MaxGrants \in Nat

VARIABLES
    row,          \* the committed row of each link
    req,          \* the request each client has in progress
    now,          \* hours
    granted,      \* downloads whose counter update was committed (history)
    delivered,    \* files handed out (history)
    overlapped    \* links two downloads of which were under way at once (history)

vars == <<row, req, now, granted, delivered, overlapped>>

NoRow == [status |-> "absent", limit |-> NoLimit, count |-> 0, expires |-> Never]

Idle(l) == [pc |-> "idle", link |-> l, seen |-> 0]

TypeOK ==
    /\ row \in [Links -> [status : {"absent", "live", "revoked"},
                          limit : Int \cup {NoLimit},
                          count : Nat,
                          expires : Int \cup {Never}]]
    /\ req \in [Clients -> [pc : {"idle", "retrieving", "answering"},
                            link : Links, seen : Nat]]
    /\ now \in Nat
    /\ granted \in [Links -> Nat]
    /\ delivered \in [Links -> Nat]
    /\ overlapped \subseteq Links

Init ==
    /\ row = [l \in Links |-> NoRow]
    /\ \E l \in Links : req = [c \in Clients |-> Idle(l)]
    /\ now = 0
    /\ granted = [l \in Links |-> 0]
    /\ delivered = [l \in Links |-> 0]
    /\ overlapped = {}

------------------------------------------------------------------------------
\* POST /shared-links: neither number is validated.
CreateLink(l, limit, life) ==
    /\ row[l].status = "absent"
    /\ row' = [row EXCEPT ![l] =
                 [status |-> "live", limit |-> limit, count |-> 0,
                  expires |-> IF life = Never THEN Never ELSE now + life]]
    /\ UNCHANGED <<req, now, granted, delivered, overlapped>>

\* DELETE /shared-links/{id}: the row goes away.
RevokeLink(l) ==
    /\ row[l].status = "live"
    /\ row' = [row EXCEPT ![l].status = "revoked"]
    /\ UNCHANGED <<req, now, granted, delivered, overlapped>>

\* Mutant: the limit check lets one download too many in.
OpensOneMore(l) ==
    /\ row[l].status = "live"
    /\ row[l].expires # Never => now <= row[l].expires
    /\ row[l].limit # NoLimit => row[l].count <= row[l].limit

\* The three checks of GET /shared/{token}: 404, 410 expired, 410 limit.
Opens(l) ==
    /\ row[l].status = "live"
    /\ row[l].expires # Never => now <= row[l].expires
    /\ row[l].limit # NoLimit => row[l].count < row[l].limit

\* The handler up to its await of retrieve; link.download_count stays in the
\* session's identity map.
BeginDownload(c, l) ==
    /\ req[c].pc = "idle"
    /\ Opens(l)
    /\ req' = [req EXCEPT ![c] =
                 [pc |-> "retrieving", link |-> l, seen |-> row[l].count]]
    /\ overlapped' = IF \E d \in Clients : req[d].pc = "retrieving" /\ req[d].link = l
                     THEN overlapped \cup {l}
                     ELSE overlapped
    /\ UNCHANGED <<row, now, granted, delivered>>

\* Mutant: the counter is written before the file is retrieved.
DownloadFailsCharged(c) ==
    /\ req[c].pc = "retrieving"
    /\ req' = [req EXCEPT ![c].pc = "idle"]
    /\ row' = [row EXCEPT ![req[c].link].count = req[c].seen + 1]
    /\ UNCHANGED <<now, granted, delivered, overlapped>>

\* retrieve raised, or the commit failed: nothing was written.
DownloadFails(c) ==
    /\ req[c].pc = "retrieving"
    /\ req' = [req EXCEPT ![c].pc = "idle"]
    /\ UNCHANGED <<row, now, granted, delivered, overlapped>>

\* Mutant: the update re-inserts a row that is gone.
CommitCountUpsert(c) ==
    LET l == req[c].link IN
    /\ req[c].pc = "retrieving"
    /\ granted[l] < MaxGrants
    /\ row' = [row EXCEPT ![l].count = req[c].seen + 1, ![l].status = "live"]
    /\ granted' = [granted EXCEPT ![l] = @ + 1]
    /\ req' = [req EXCEPT ![c].pc = "answering"]
    /\ UNCHANGED <<now, delivered, overlapped>>

\* Mutant: the counter is taken for what is left and counted down.
CommitCountDown(c) ==
    LET l == req[c].link IN
    /\ req[c].pc = "retrieving"
    /\ row[l].status = "live"
    /\ granted[l] < MaxGrants
    /\ row' = [row EXCEPT ![l].count = req[c].seen - 1]
    /\ granted' = [granted EXCEPT ![l] = @ + 1]
    /\ req' = [req EXCEPT ![c].pc = "answering"]
    /\ UNCHANGED <<now, delivered, overlapped>>

\* UPDATE shared_links SET download_count = <seen + 1> WHERE id = ...: an
\* absolute value.  On a revoked row it matches nothing, the ORM raises
\* StaleDataError and the request ends in DownloadFails.
CommitCount(c) ==
    LET l == req[c].link IN
    /\ req[c].pc = "retrieving"
    /\ row[l].status = "live"
    /\ granted[l] < MaxGrants
    /\ row' = [row EXCEPT ![l].count = req[c].seen + 1]
    /\ granted' = [granted EXCEPT ![l] = @ + 1]
    /\ req' = [req EXCEPT ![c].pc = "answering"]
    /\ UNCHANGED <<now, delivered, overlapped>>

Answer(c) ==
    LET l == req[c].link IN
    /\ req[c].pc = "answering"
    /\ delivered' = [delivered EXCEPT ![l] = @ + 1]
    /\ req' = [req EXCEPT ![c].pc = "idle"]
    /\ UNCHANGED <<row, now, granted, overlapped>>

\* The process dies: requests are lost, committed rows are not.
Restart ==
    /\ req' = [c \in Clients |-> Idle(req[c].link)]
    /\ UNCHANGED <<row, now, granted, delivered, overlapped>>

Tick ==
    /\ now < MaxTime
    /\ now' = now + 1
    /\ UNCHANGED <<row, req, granted, delivered, overlapped>>

Next ==
    \/ \E l \in Links, limit \in Limits, life \in Lifetimes :
          CreateLink(l, limit, life)
    \/ \E l \in Links : RevokeLink(l)
    \/ \E c \in Clients, l \in Links : BeginDownload(c, l)
    \/ \E c \in Clients : DownloadFails(c)
    \/ \E c \in Clients : CommitCount(c)
    \/ \E c \in Clients : Answer(c)
    \/ Restart
    \/ Tick

Spec == Init /\ [][Next]_vars

------------------------------------------------------------------------------
\* The stored counter never passes the limit, however many downloads overlap:
\* a writer writes what it read plus one, and it read less than the limit.
\* (A limit below 1 leaves the counter at 0.)
CounterWithinLimit ==
    \A l \in Links :
        row[l].limit = NoLimit \/ row[l].count = 0 \/ row[l].count <= row[l].limit

\* No holder of a link is charged for a download that was not committed: the
\* counter may lose increments, it never gains one, across failed retrievals,
\* lost updates and restarts.
NeverOvercharged ==
    \A l \in Links : row[l].count <= granted[l]

\* Once DELETE /shared-links/{id} has committed no download is granted any
\* more, not even one that had passed all its checks before.
RevocationIsFinal ==
    [][\A l \in Links :
          row[l].status = "revoked" =>
              /\ granted'[l] = granted[l]
              /\ row'[l].status = "revoked"]_vars

\* At most download_limit downloads are granted by a link whose downloads never
\* overlapped, through failed retrievals and crashes between commit and answer.
LimitWithoutOverlap ==
    \A l \in Links \ overlapped :
        row[l].limit = NoLimit \/ granted[l] = 0 \/ granted[l] <= row[l].limit

\* At most download_limit files are handed out through a link, as the user guide
\* says.
DownloadLimit ==
    \A l \in Links :
        row[l].limit = NoLimit \/ delivered[l] = 0 \/ delivered[l] <= row[l].limit

------------------------------------------------------------------------------
\* The links implement the atomic budget, contended where downloads overlapped.
Budget == INSTANCE DownloadBudget WITH
    status    <- [l \in Links |-> row[l].status],
    limit     <- [l \in Links |-> row[l].limit],
    charged   <- granted,
    contended <- overlapped

RefinesBudget == Budget!Spec
==============================================================================
