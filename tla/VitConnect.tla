------------------------------ MODULE VitConnect ------------------------------
(***************************************************************************)
(* VIT Connect (vit_connect/): OAuth connections to storage accounts, the  *)
(* wizard for S3 compatible ones, the vault of their credentials and the   *)
(* health check of a stored connection.                                    *)
(*                                                                         *)
(* The pending OAuth flows live in the process, the connections in the     *)
(* database.  A handler that asks a provider is two steps: it begins, and  *)
(* it receives the answers and commits.  In between other handlers run.    *)
(***************************************************************************)
EXTENDS Integers, FiniteSets

CONSTANTS
    Tokens,         \* values of token_urlsafe: flows that may be started
    Handlers,       \* concurrent requests
    ClientIds,      \* OAuth providers whose client id is in the environment
    ClientSecrets,  \* OAuth providers whose client secret is
    OtherTypes,     \* provider types without an OAuth flow
    VaultKeys,      \* values CONNECT_VAULT_KEY may be given
    MaxRows,        \* bound of the connections ever stored
    MaxTime,        \* bound of the clock
    StateTTL,       \* _STATE_TTL, in ticks of the clock
    MaxRestarts     \* bound of the restarts

OAuthTypes == {"google_drive", "dropbox", "onedrive"}

ASSUME EnvironmentAssumption ==
    ClientIds \subseteq OAuthTypes /\ ClientSecrets \subseteq OAuthTypes
ASSUME TypesAssumption  == OtherTypes \cap OAuthTypes = {}
ASSUME TokensAssumption == "none" \notin Tokens
ASSUME KeysAssumption   == \A k \in VaultKeys : k \notin 0 .. MaxRestarts
ASSUME BoundsAssumption == {MaxRows, MaxTime, StateTTL, MaxRestarts} \subseteq Nat

VARIABLES
    now,         \* time.time()
    epoch,       \* restarts so far
    key,         \* the vault key of this process
    states,      \* _oauth_states
    rows,        \* table provider_connections
    request,     \* the handlers in progress
    given,       \* flows whose URL was handed out, with their provider (history)
    overlapped   \* rows two health checks of which overlapped (history)

process == <<now, epoch, key>>
vars    == <<process, states, rows, request, given, overlapped>>

Types  == OAuthTypes \cup OtherTypes
Ids    == 1 .. MaxRows
Absent == [provider |-> "none", ts |-> 0]
NoFlow == "none"
NoRow  == [type |-> "none"]
Idle   == [op |-> "idle"]

\* A health_score of NULL.
Unknown == -1

\* The configured keys, and the one-time key of the process of each epoch.
Keys == VaultKeys \cup 0 .. MaxRestarts

Row == [type : Types, key : Keys, active : BOOLEAN,
        status : {"connected", "expired", "error", "disconnected"},
        health : {Unknown, 0, 90, 98},
        state : Tokens \cup {NoFlow}, checked : -1 .. MaxRestarts]

Request ==
    [op : {"callback"}, type : OAuthTypes, state : Tokens, started : OAuthTypes]
      \cup [op : {"wizard"}, type : OtherTypes]
      \cup [op : {"refresh"}, row : Ids, seen : Row]

TypeOK ==
    /\ now \in 0 .. MaxTime /\ epoch \in 0 .. MaxRestarts /\ key \in Keys
    /\ states \in [Tokens -> [provider : Types, ts : 0 .. MaxTime] \cup {Absent}]
    /\ rows \in [Ids -> Row \cup {NoRow}]
    /\ request \in [Handlers -> Request \cup {Idle}]
    /\ given \in [Tokens -> OAuthTypes \cup {NoFlow}]
    /\ overlapped \subseteq Ids

\* A process takes the key its environment has, or makes one of its own.
ProcessKeys(process_epoch) == VaultKeys \cup {process_epoch}

Init ==
    /\ now = 0 /\ epoch = 0 /\ key \in ProcessKeys(epoch)
    /\ states = [s \in Tokens |-> Absent]
    /\ rows = [r \in Ids |-> NoRow]
    /\ request = [h \in Handlers |-> Idle]
    /\ given = [s \in Tokens |-> NoFlow]
    /\ overlapped = {}

------------------------------------------------------------------------------
(***************************************************************************)
(* The vault: decryption fails with any key but the one that sealed.       *)
(***************************************************************************)

Readable(row) == row.key = key

------------------------------------------------------------------------------
(***************************************************************************)
(* OAuth.  A flow is remembered before its provider is looked at, and one  *)
(* for a provider without a flow or a client id stays until a restart.     *)
(***************************************************************************)

MakeState(s, p) == states' = [states EXCEPT ![s] = [provider |-> p, ts |-> now]]

OAuthStart(s, p) ==
    /\ given[s] = NoFlow /\ states[s] = Absent
    /\ MakeState(s, p)
    /\ given' = IF p \in ClientIds THEN [given EXCEPT ![s] = p] ELSE given
    /\ UNCHANGED <<process, rows, request, overlapped>>

\* The row is not looked at again: the flow will store another one.
Reconnect(s, r) == rows[r] # NoRow /\ OAuthStart(s, rows[r].type)

\* Mutant: the entry is read and left.
ConsumeStateKeeping(s) ==
    UNCHANGED states

ConsumeState(s) == states' = [states EXCEPT ![s] = Absent]

Fresh(s) == states[s] # Absent /\ now - states[s].ts <= StateTTL

Storing == {h \in Handlers : request[h].op \in {"callback", "wizard"}}
Room    == Cardinality(Storing) < Cardinality({r \in Ids : rows[r] = NoRow})

\* The browser returns to the address of provider p, with the code of the flow
\* s.  A callback with an error or without a code leaves the flow pending.
CallbackBegin(h, p, s) ==
    /\ given[s] # NoFlow /\ request[h] = Idle /\ Room
    /\ ConsumeState(s)
    /\ request' = IF Fresh(s)
                  THEN [request EXCEPT ![h] = [op |-> "callback", type |-> p, state |-> s,
                                               started |-> states[s].provider]]
                  ELSE request
    /\ UNCHANGED <<process, rows, given, overlapped>>

\* The three requests of a callback, each answered, refused or lost.
Answers == [{"exchange", "account", "quota"} -> {"ok", "refused", "lost"}]

\* A profile that is refused raises, a quota that is refused is unknown.
GoogleRaises(a)    == a["exchange"] # "ok" \/ a["account"] # "ok" \/ a["quota"] = "lost"
MicrosoftRaises(a) == a["exchange"] # "ok" \/ a["account"] # "ok" \/ a["quota"] = "lost"
DropboxRaises(a)   == a["exchange"] # "ok" \/ "lost" \in {a["account"], a["quota"]}

Raises(p, a) == CASE p = "google_drive" -> GoogleRaises(a)
                  [] p = "dropbox"      -> DropboxRaises(a)
                  [] p = "onedrive"     -> MicrosoftRaises(a)

\* Mutant: the address the callback came to, not the one the flow was started with.
RedirectOwn(req) == req.type

\* The provider whose callback address is sent with the code.
Redirect(req) == req.started

\* A token endpoint refuses a client without its secret and a code that comes
\* with another address than the one it was asked for.
Exchanges(req) ==
    req.type \in ClientIds \cap ClientSecrets /\ Redirect(req) = req.type

Return(h) == request' = [request EXCEPT ![h] = Idle]

\* Mutant: the row is made before its credentials are sealed with the key.
NewRowUnsealed(type, s) ==
    [type |-> type, key |-> Unknown, active |-> TRUE, status |-> "connected",
     health |-> Unknown, state |-> s, checked |-> -1]

\* The columns of a new connection that the handlers set.
NewRow(type, s) ==
    [type |-> type, key |-> key, active |-> TRUE, status |-> "connected",
     health |-> Unknown, state |-> s, checked |-> -1]

Insert(row) ==
    \E r \in Ids :
        /\ rows[r] = NoRow /\ \A q \in 1 .. r - 1 : rows[q] # NoRow
        /\ rows' = [rows EXCEPT ![r] = row]

\* The connection is committed, or the browser is sent to callback_failed.
CallbackAnswered(h) ==
    /\ request[h].op = "callback"
    /\ \E a \in Answers :
         /\ a["exchange"] = "ok" => Exchanges(request[h])
         /\ IF Raises(request[h].type, a)
            THEN UNCHANGED rows
            ELSE Insert(NewRow(request[h].type, request[h].state))
    /\ Return(h)
    /\ UNCHANGED <<process, states, given, overlapped>>

------------------------------------------------------------------------------
(***************************************************************************)
(* The wizard: a signed HEAD of the bucket, then the row.                  *)
(***************************************************************************)

WizardBegin(h, type) ==
    /\ request[h] = Idle /\ Room
    /\ request' = [request EXCEPT ![h] = [op |-> "wizard", type |-> type]]
    /\ UNCHANGED <<process, states, rows, given, overlapped>>

\* What test_connection makes of the answer.
BucketAnswers == {"success", "denied", "not found", "unexpected", "no connection", "timeout"}

WizardAnswered(h) ==
    /\ request[h].op = "wizard"
    /\ \E answer \in BucketAnswers :
         IF answer = "success" THEN Insert(NewRow(request[h].type, NoFlow)) ELSE UNCHANGED rows
    /\ Return(h)
    /\ UNCHANGED <<process, states, given, overlapped>>

------------------------------------------------------------------------------
(***************************************************************************)
(* A stored connection.                                                    *)
(***************************************************************************)

Disconnect(r) ==
    /\ rows[r] # NoRow
    /\ rows' = [rows EXCEPT ![r].active = FALSE, ![r].status = "disconnected"]
    /\ UNCHANGED <<process, states, request, given, overlapped>>

Refreshing(r) == \E h \in Handlers : request[h].op = "refresh" /\ request[h].row = r

RefreshBegin(h, r) ==
    /\ request[h] = Idle /\ rows[r] # NoRow /\ rows[r].active
    /\ request' = [request EXCEPT ![h] = [op |-> "refresh", row |-> r, seen |-> rows[r]]]
    /\ overlapped' = IF Refreshing(r) THEN overlapped \cup {r} ELSE overlapped
    /\ UNCHANGED <<process, states, rows, given>>

\* The types whose provider a check asks.
AskedTypes == {"google_drive", "dropbox"}

\* Mutant: a connection that is not asked for anything counts as alive.
OutcomesUnread(row) ==
    IF row.type \in AskedTypes
    THEN [status : {"connected"}, health : {98}]
           \cup [status : {"expired", "error"}, health : {0}]
    ELSE {[status |-> row.status, health |-> 90]}

\* What a check of the loaded row may find: credentials the vault cannot read,
\* the provider's answer, or, for other types, nothing but that they were read.
Outcomes(row) ==
    CASE ~ Readable(row) -> {[status |-> "error", health |-> 0]}
      [] Readable(row) /\ row.type \in AskedTypes ->
           [status : {"connected"}, health : {98}]
             \cup [status : {"expired", "error"}, health : {0}]
      [] OTHER -> {[status |-> row.status, health |-> 90]}

\* Mutant: every column is written as the handler has it.
UpdatedWhole(row, seen, found) ==
    [seen EXCEPT !.status = found.status, !.health = found.health, !.checked = epoch]

\* Mutant: an answer of the provider does not bring the status back.
UpdatedStuck(row, seen, found) ==
    [row EXCEPT !.status = IF found.health = 0 THEN found.status ELSE @,
                !.health = IF found.health # seen.health THEN found.health ELSE @,
                !.checked = epoch]

\* An UPDATE names the columns that differ from what was loaded.
Updated(row, seen, found) ==
    [row EXCEPT !.status = IF found.status # seen.status THEN found.status ELSE @,
                !.health = IF found.health # seen.health THEN found.health ELSE @,
                !.checked = epoch]

RefreshAnswered(h) ==
    /\ request[h].op = "refresh"
    /\ LET r == request[h].row  seen == request[h].seen IN
         \E found \in Outcomes(seen) :
             rows' = [rows EXCEPT ![r] = Updated(rows[r], seen, found)]
    /\ Return(h)
    /\ UNCHANGED <<process, states, given, overlapped>>

\* A commit that fails, of any handler: nothing is stored.
CommitFails(h) ==
    /\ request[h] # Idle
    /\ Return(h)
    /\ UNCHANGED <<process, states, rows, given, overlapped>>

------------------------------------------------------------------------------

Tick ==
    /\ now < MaxTime
    /\ now' = now + 1
    /\ UNCHANGED <<epoch, key, states, rows, request, given, overlapped>>

\* The environment of the next process may have another key, the same, or none.
Restart ==
    /\ epoch < MaxRestarts
    /\ epoch' = epoch + 1
    /\ key' \in ProcessKeys(epoch')
    /\ states' = [s \in Tokens |-> Absent]
    /\ request' = [h \in Handlers |-> Idle]
    /\ UNCHANGED <<now, rows, given, overlapped>>

Next ==
    \/ \E s \in Tokens : \/ \E p \in Types : OAuthStart(s, p)
                         \/ \E r \in Ids : Reconnect(s, r)
    \/ \E h \in Handlers :
          \/ \E p \in OAuthTypes, s \in Tokens : CallbackBegin(h, p, s)
          \/ CallbackAnswered(h)
          \/ \E p \in OtherTypes : WizardBegin(h, p)
          \/ WizardAnswered(h)
          \/ \E r \in Ids : RefreshBegin(h, r)
          \/ RefreshAnswered(h)
          \/ CommitFails(h)
    \/ \E r \in Ids : Disconnect(r)
    \/ Tick
    \/ Restart

Spec == Init /\ [][Next]_vars

------------------------------------------------------------------------------
(***************************************************************************)
(* Properties.                                                             *)
(***************************************************************************)

\* One flow stores at most one connection, however many callbacks bring its
\* state back and however they overlap.
StateSpentOnce ==
    \A s \in Tokens :
        Cardinality({r \in Ids : rows[r] # NoRow /\ rows[r].state = s}) <= 1

\* A connection is of the provider its flow was started for, though the callback
\* never compares the two: the address the flow was started with is the one sent
\* with the code.
ProviderAsStarted ==
    \A r \in Ids : rows[r] # NoRow /\ rows[r].state # NoFlow
                     => rows[r].type = given[rows[r].state]

\* A connection that was disconnected is never active again, not even by a health
\* check that had loaded it before.
DisconnectFinal ==
    [][\A r \in Ids : rows[r] # NoRow /\ ~ rows[r].active => ~ rows'[r].active]_rows

\* The status and the health of an active connection tell the same story unless
\* two checks of it overlapped: without health its last check has failed, and where
\* the provider is asked, a check that failed has left it no health.  For the other
\* types the second half is false: see StatusRecovers.
Failed(row) == row.status \in {"expired", "error"}

HealthMatchesStatus ==
    \A r \in Ids \ overlapped :
        rows[r] # NoRow /\ rows[r].active =>
            /\ rows[r].health = 0 => Failed(rows[r])
            /\ rows[r].type \in AskedTypes /\ Failed(rows[r]) => rows[r].health = 0

\* A connection with health is connected, of whatever type it is.
StatusRecovers ==
    \A r \in Ids \ overlapped :
        rows[r] # NoRow /\ rows[r].active /\ rows[r].health > 0 => ~ Failed(rows[r])

\* A connection this process has found alive has credentials this process can
\* read, also when the key of the vault changed with the process.
HealthyIsReadable ==
    \A r \in Ids :
        rows[r] # NoRow /\ rows[r].checked = epoch /\ rows[r].health > 0
        => Readable(rows[r])
==============================================================================
