------------------------------ MODULE Registries ------------------------------
(***************************************************************************)
(* The routers and the audit worker of the service, each with an           *)
(* orchestrator and a registry of providers of its own (router.py,         *)
(* extended_router.py, s3_compat.py, worker.py, registry.py), over one     *)
(* table of manifests.                                                     *)
(*                                                                         *)
(* TachyonFabric says how the shards of a file are lost and repaired.      *)
(* Here a file is one of its shards, and the question is which registry    *)
(* knows the provider that holds it.                                       *)
(***************************************************************************)
EXTENDS Naturals, FiniteSets, FiniteSetsExt, Sequences

CONSTANTS
    Providers,     \* ids of providers
    Configured,    \* those the environment describes
    LocalDisk,     \* "local_disk"
    Files,         \* uuids of the API
    Keys,          \* bucket/key names of the S3 gateway
    Sessions,      \* concurrent requests
    MaxOff         \* bound of the providers that are disabled, over all registries

ASSUME ProvidersAssumption == LocalDisk \in Configured /\ Configured \subseteq Providers
ASSUME IdsAssumption       == Files \cap Keys = {} /\ MaxOff \in Nat

VARIABLES
    known,      \* providers of each registry
    off,        \* disabled_providers of each registry
    table,      \* committed manifests
    shards,     \* what the providers hold: pairs of an id and a provider
    req,        \* requests in progress
    born,       \* ids handed out (history)
    unwanted,   \* files somebody asked to delete (history)
    misled      \* registries that have reported a provider they do not have (history)

registries == <<known, off>>
history    == <<born, unwanted, misled>>
vars       == <<registries, table, shards, req, history>>

Components == {"api", "extended", "s3", "worker"}
Ids        == Files \cup Keys
Nowhere    == "nowhere"
NoRow      == [status |-> "none", at |-> Nowhere]
Idle       == [op |-> "idle"]

Row == [status : {"active", "deleted"}, at : Providers]

Request ==
    [op : {"upload", "put", "heal"}, comp : Components, id : Ids, pool : SUBSET Providers,
     at : Providers \cup {Nowhere}]
      \cup [op : {"delete"}, todo : Seq(Files), marked : SUBSET Files]
      \cup [op : {"health"}, comp : Components, asked : SUBSET Providers]

TypeOK ==
    /\ known \in [Components -> SUBSET Providers]
    /\ off \in [Components -> SUBSET Providers]
    /\ table \in [Ids -> Row \cup {NoRow}]
    /\ shards \subseteq Ids \X Providers
    /\ req \in [Sessions -> Request \cup {Idle}]
    /\ born \subseteq Ids /\ unwanted \subseteq Files /\ misled \subseteq Components
    \* Every provider of the environment is in use or in the list of the disabled.
    /\ \A c \in Components : Configured \subseteq known[c] \cup off[c]

Few(d) == Cardinality(UNION {{c} \X d[c] : c \in Components}) <= MaxOff

\* A provider whose constructor raises is disabled, in that registry.
Bootstraps ==
    {[c \in Components |-> {p \in Configured : <<c, p>> \notin raises}] :
        raises \in UNION {kSubset(m, Components \X Configured) : m \in 0 .. MaxOff}}

Started(k, d) == k \in Bootstraps /\ d = [c \in Components |-> Configured \ k[c]]

Init ==
    /\ \E k \in Bootstraps : known = k /\ off = [c \in Components |-> Configured \ k[c]]
    /\ table = [i \in Ids |-> NoRow] /\ shards = {}
    /\ req = [s \in Sessions |-> Idle]
    /\ born = {} /\ unwanted = {} /\ misled = {}

Restart ==
    /\ Started(known', off')
    /\ req' = [s \in Sessions |-> Idle]
    /\ UNCHANGED <<table, shards, history>>

\* Mutant: one pool for the whole service.
RegisterEverywhere(p) ==
    /\ p \notin known["extended"]
    /\ known' = [c \in Components |-> known[c] \cup {p}]
    /\ UNCHANGED <<off, table, shards, req, history>>

\* A provider registered at run time is in the registry of this router alone, and
\* stays in its list of the disabled.
Register(p) ==
    /\ p \notin known["extended"]
    /\ known' = [known EXCEPT !["extended"] = @ \cup {p}]
    /\ UNCHANGED <<off, table, shards, req, history>>

------------------------------------------------------------------------------
(***************************************************************************)
(* Storing a shard.                                                        *)
(***************************************************************************)

Starts(s, request) == req[s] = Idle /\ req' = [req EXCEPT ![s] = request]
Ends(s)            == req' = [req EXCEPT ![s] = Idle]

Storing(op, c, i) ==
    [op |-> op, comp |-> c, id |-> i, pool |-> known[c], at |-> Nowhere]

\* An upload to the API and a PUT to the gateway.
UploadBegin(s, op, i) ==
    /\ IF op = "upload" THEN i \in Files \ born ELSE i \in Keys
    /\ born' = born \cup {i}
    /\ Starts(s, Storing(op, IF op = "upload" THEN "api" ELSE "s3", i))
    /\ UNCHANGED <<registries, table, shards, unwanted, misled>>

\* The worker stores a shard of a file again.
HealBegin(s, i) ==
    /\ table[i].status = "active"
    /\ Starts(s, Storing("heal", "worker", i))
    /\ UNCHANGED <<registries, table, shards, history>>

Placing(s) == req[s].op \in {"upload", "put", "heal"} /\ req[s].at = Nowhere

Placed(s, p) ==
    /\ shards' = shards \cup {<<req[s].id, p>>}
    /\ req' = [req EXCEPT ![s].at = p, ![s].pool = {}]

\* A provider of the list the call began with stores the shard.
StoreShard(s) ==
    /\ Placing(s)
    /\ \E p \in req[s].pool : Placed(s, p)
    /\ UNCHANGED <<registries, table, history>>

\* Mutant: the provider is taken out and forgotten.
DisabledForgotten(c, p) ==
    known' = [known EXCEPT ![c] = @ \ {p}] /\ UNCHANGED off

Disabled(c, p) ==
    /\ known' = [known EXCEPT ![c] = @ \ {p}]
    /\ off' = [off EXCEPT ![c] = @ \cup {p}]

\* A provider fails: the next one is tried, unless it has failed for good.
StoreFails(s) ==
    /\ Placing(s)
    /\ \E p \in req[s].pool :
         \/ /\ req' = [req EXCEPT ![s].pool = @ \ {p}]
            /\ UNCHANGED registries
         \/ /\ Disabled(req[s].comp, p) /\ Few(off')
            /\ req' = [req EXCEPT ![s].pool = {}]
    /\ UNCHANGED <<table, shards, history>>

\* The last resort, if this registry has it.
Fallback(s) ==
    /\ Placing(s) /\ req[s].pool = {}
    /\ \/ /\ LocalDisk \in known[req[s].comp]
          /\ Placed(s, LocalDisk)
       \/ Ends(s) /\ UNCHANGED shards
    /\ UNCHANGED <<registries, table, history>>

\* Only what the API and the worker do is committed; a PUT of the gateway is
\* answered and its session rolled back.
StoreCommit(s) ==
    /\ req[s].op \in {"upload", "put", "heal"} /\ req[s].at # Nowhere
    /\ table' = IF req[s].op = "put" THEN table
                ELSE [table EXCEPT ![req[s].id] = [status |-> "active", at |-> req[s].at]]
    /\ Ends(s)
    /\ UNCHANGED <<registries, shards, history>>

------------------------------------------------------------------------------
(***************************************************************************)
(* Deleting, one file or several in a session.  Whatever has become of     *)
(* its shard, a file that has a manifest is marked; one that has none is   *)
(* passed over.  Of the gateway's own names nothing was ever committed,    *)
(* and a DELETE of one has nothing to do.                                  *)
(***************************************************************************)

DeleteBegin(s, files) ==
    /\ Starts(s, [op |-> "delete", todo |-> files, marked |-> {}])
    /\ unwanted' = unwanted \cup {files[k] : k \in DOMAIN files}
    /\ UNCHANGED <<registries, table, shards, born, misled>>

Deleting(s) == req[s].op = "delete"

\* The shards delete_shard may remove: the one listed, if the provider is known.
Removed(i) == {j \in {<<i, table[i].at>>} : j \in shards /\ table[i].at \in known["api"]}

DeleteNext(s) ==
    /\ Deleting(s) /\ req[s].todo # <<>>
    /\ LET i == Head(req[s].todo)
           found == table[i] # NoRow
       IN  /\ shards' \in {shards, shards \ (IF found THEN Removed(i) ELSE {})}
           /\ req' = [req EXCEPT ![s].todo = Tail(@),
                                 ![s].marked = IF found THEN @ \cup {i} ELSE @]
    /\ UNCHANGED <<registries, table, history>>

DeleteCommit(s) ==
    /\ Deleting(s) /\ req[s].todo = <<>>
    /\ table' = [i \in Ids |-> IF i \in req[s].marked THEN [table[i] EXCEPT !.status = "deleted"]
                             ELSE table[i]]
    /\ Ends(s)
    /\ UNCHANGED <<registries, shards, history>>

\* A commit fails, or the client of the request is gone.
SessionFails(s) ==
    /\ req[s] # Idle
    /\ Ends(s)
    /\ UNCHANGED <<registries, table, shards, history>>

------------------------------------------------------------------------------
(***************************************************************************)
(* Health reports: the providers are asked at once, each with a time       *)
(* limit, and those that are disabled are written over the answers.        *)
(***************************************************************************)

HealthBegin(s, c) ==
    /\ Starts(s, [op |-> "health", comp |-> c, asked |-> known[c]])
    /\ UNCHANGED <<registries, table, shards, history>>

\* Mutant: the answers are written over the list of the disabled.
WorkingStale(request, healthy) == healthy

Working(request, healthy) == healthy \ off[request.comp]

HealthAnswered(s) ==
    /\ req[s].op = "health"
    /\ \E healthy \in SUBSET req[s].asked :
         misled' = IF Working(req[s], healthy) \subseteq known[req[s].comp] THEN misled
                   ELSE misled \cup {req[s].comp}
    /\ Ends(s)
    /\ UNCHANGED <<registries, table, shards, born, unwanted>>

------------------------------------------------------------------------------

Batches == {<<i>> : i \in Files} \cup {<<i, j>> : i, j \in Files}

Next ==
    \/ \E s \in Sessions :
          \/ \E i \in Ids : UploadBegin(s, "upload", i) \/ UploadBegin(s, "put", i) \/ HealBegin(s, i)
          \/ StoreShard(s) \/ StoreFails(s) \/ Fallback(s) \/ StoreCommit(s)
          \/ \E files \in Batches : DeleteBegin(s, files)
          \/ DeleteNext(s) \/ DeleteCommit(s) \/ SessionFails(s)
          \/ \E c \in Components : HealthBegin(s, c)
          \/ HealthAnswered(s)
    \/ \E p \in Providers : Register(p)
    \/ Restart

Spec == Init /\ [][Next]_vars

------------------------------------------------------------------------------
(***************************************************************************)
(* Properties.                                                             *)
(***************************************************************************)

\* What download_shard of a registry finds of a file.
Readable(c, i) == table[i].at \in known[c] /\ <<i, table[i].at>> \in shards

\* A file nobody asked to delete can be read through every registry of the
\* process that has no provider disabled, now and after any restart: no upload or
\* repair stored its shard where only one registry, or one process, could find it.
ReadableEverywhere ==
    \A i \in Ids : table[i].status = "active" /\ i \notin unwanted
        => /\ table[i].at \in Configured
           /\ \A c \in Components : off[c] = {} => Readable(c, i)

\* No health report tells of a provider as working that a concurrent upload has
\* taken out of that registry while the provider was being asked.
ReportIsCurrent == misled = {}
==============================================================================
