---------------------------- MODULE Registries_proofs ----------------------------
(***************************************************************************)
(* Proofs about Registries, for any providers, files and sessions.         *)
(***************************************************************************)
EXTENDS Registries, SequenceTheorems, TLAPS

USE ProvidersAssumption, IdsAssumption

(***************************************************************************)
(* The components that store shards use what the environment describes;    *)
(* what they have stored is there until somebody asks to delete it.        *)
(***************************************************************************)
KnownInv == \A c \in Components \ {"extended"} : known[c] \subseteq Configured

StoreOK(r) ==
    r.op \in {"upload", "put", "heal"} =>
    /\ r.comp # "extended"
    /\ r.pool \subseteq Configured
    /\ r.at # Nowhere => r.at \in Configured /\ (r.id \in unwanted \/ <<r.id, r.at>> \in shards)

RowInv ==
    \A i \in Ids : table[i].status = "active" /\ i \notin unwanted =>
        table[i].at \in Configured /\ <<i, table[i].at>> \in shards

(***************************************************************************)
(* A session that deletes has files somebody asked to delete.              *)
(***************************************************************************)
DeleteOK(r) ==
    r.op = "delete" =>
    /\ \A k \in DOMAIN r.todo : r.todo[k] \in unwanted
    /\ r.marked \subseteq unwanted
    /\ \A i \in r.marked : table[i] # NoRow

(***************************************************************************)
(* A provider that is asked for its health is known or has been disabled.  *)
(***************************************************************************)
HealthOK(r) == r.op = "health" => r.asked \subseteq known[r.comp] \cup off[r.comp]

RequestOK(r) == StoreOK(r) /\ DeleteOK(r) /\ HealthOK(r)
RequestInv   == \A s \in Sessions : RequestOK(req[s])

RegistriesInv ==
    TypeOK /\ KnownInv /\ RowInv /\ RequestInv /\ misled = {}

------------------------------------------------------------------------------
(***************************************************************************)
(* The records.                                                            *)
(***************************************************************************)

StoreRequest ==
    [op : {"upload", "put", "heal"}, comp : Components, id : Ids, pool : SUBSET Providers,
     at : Providers \cup {Nowhere}]
DeleteRequest == [op : {"delete"}, todo : Seq(Files), marked : SUBSET Files]
HealthRequest == [op : {"health"}, comp : Components, asked : SUBSET Providers]

\* Which request it is shows in its first field.
LEMMA RequestKinds ==
    ASSUME NEW r \in Request \cup {Idle}
    PROVE  /\ r.op \in {"upload", "put", "heal"} => r \in StoreRequest
           /\ r.op = "delete" => r \in DeleteRequest
           /\ r.op = "health" => r \in HealthRequest
           /\ r # Idle => r.op \in {"upload", "put", "heal", "delete", "health"}
BY DEF Request, StoreRequest, DeleteRequest, HealthRequest, Idle

\* The three of them make up the requests.
LEMMA RequestParts == Request = StoreRequest \cup DeleteRequest \cup HealthRequest
BY DEF Request, StoreRequest, DeleteRequest, HealthRequest

\* Nothing is asked of a session that is idle.
LEMMA IdleOK == RequestOK(Idle)
BY DEF RequestOK, StoreOK, DeleteOK, HealthOK, Idle

\* The same after a step.
LEMMA IdleOKNext == RequestOK(Idle)'
BY DEF RequestOK, StoreOK, DeleteOK, HealthOK, Idle

\* A row is one, or it is none.
LEMMA RowKinds ==
    ASSUME TypeOK, NEW i \in Ids
    PROVE  /\ table[i] # NoRow => table[i] \in Row
           /\ table[i].status = "active" => table[i] # NoRow
BY DEF TypeOK, Row, NoRow

------------------------------------------------------------------------------
(***************************************************************************)
(* What a step may do without harm to the other sessions.                  *)
(***************************************************************************)
Careful ==
    /\ unwanted \subseteq unwanted'
    /\ \A i \in Ids, p \in Providers : <<i, p>> \in shards => <<i, p>> \in shards' \/ i \in unwanted'
    /\ \A i \in Ids : table[i] # NoRow => table'[i] # NoRow
    /\ \A c \in Components : known[c] \cup off[c] \subseteq known'[c] \cup off'[c]

\* What is known of a request survives a step of another one.
LEMMA RequestKept ==
    ASSUME TypeOK, Careful, NEW r \in Request \cup {Idle}, RequestOK(r)
    PROVE  RequestOK(r)'
<1>1. StoreOK(r)'
  BY RequestKinds DEF RequestOK, StoreOK, Careful, StoreRequest, TypeOK
<1>2. DeleteOK(r)'
  BY RequestKinds DEF RequestOK, DeleteOK, Careful, DeleteRequest, Ids
<1>3. HealthOK(r)'
  BY RequestKinds DEF RequestOK, HealthOK, Careful, HealthRequest
<1> QED BY <1>1, <1>2, <1>3 DEF RequestOK

\* One session takes a step, and the others are not harmed.
LEMMA SessionStep ==
    ASSUME TypeOK, RequestInv, Careful,
           NEW s \in Sessions, NEW q \in Request \cup {Idle},
           req' = [req EXCEPT ![s] = q], RequestOK(q)'
    PROVE  RequestInv'
<1> SUFFICES ASSUME NEW t \in Sessions PROVE RequestOK(req[t])'
  BY DEF RequestInv
<1>1. CASE t = s
  <2>1. req'[t] = q
    BY <1>1 DEF TypeOK
  <2> QED BY <2>1 DEF RequestOK, StoreOK, DeleteOK, HealthOK
<1>2. CASE t # s
  <2>1. req'[t] = req[t] /\ req[t] \in Request \cup {Idle} /\ RequestOK(req[t])
    BY <1>2 DEF TypeOK, RequestInv
  <2>2. \A r \in Request \cup {Idle} : RequestOK(r) => RequestOK(r)'
    BY RequestKept
  <2> QED BY <2>1, <2>2 DEF RequestOK, StoreOK, DeleteOK, HealthOK
<1> QED BY <1>1, <1>2

\* A session takes a step that leaves registries, table and shards alone.
LEMMA QuietStep ==
    ASSUME RegistriesInv, NEW s \in Sessions, NEW q \in Request \cup {Idle},
           req' = [req EXCEPT ![s] = q], UNCHANGED <<registries, table, shards>>,
           born' \subseteq Ids, unwanted \subseteq unwanted', unwanted' \subseteq Files, misled' = {},
           RequestOK(q)'
    PROVE  RegistriesInv'
<1>1. Careful
  BY DEF Careful, registries
<1>2. RequestInv'
  BY <1>1, SessionStep DEF RegistriesInv
<1>3. TypeOK'
  BY DEF RegistriesInv, TypeOK, registries
<1>4. KnownInv' /\ RowInv'
  BY DEF RegistriesInv, KnownInv, RowInv, registries
<1> QED BY <1>2, <1>3, <1>4 DEF RegistriesInv

\* A session is over: it had nothing to say in the first place.
LEMMA EndStep ==
    ASSUME RegistriesInv, NEW s \in Sessions, Ends(s), UNCHANGED <<registries, table, shards>>,
           UNCHANGED <<born, unwanted>>, misled' = {}
    PROVE  RegistriesInv'
<1>1. req' = [req EXCEPT ![s] = Idle]
  BY DEF Ends
<1>2. born' \subseteq Ids /\ unwanted' \subseteq Files
  BY DEF RegistriesInv, TypeOK
<1> QED BY <1>1, <1>2, IdleOKNext, QuietStep

------------------------------------------------------------------------------
(***************************************************************************)
(* Storing.                                                                *)
(***************************************************************************)

\* An upload, a PUT and a repair begin with the providers of their registry.
LEMMA StoringOK ==
    ASSUME RegistriesInv, UNCHANGED registries, NEW op \in {"upload", "put", "heal"},
           NEW c \in Components \ {"extended"}, NEW i \in Ids
    PROVE  \E q \in Request : q = Storing(op, c, i) /\ RequestOK(q)'
<1>1. PICK q \in StoreRequest : q = Storing(op, c, i)
  BY DEF Storing, StoreRequest, RegistriesInv, TypeOK
<1>2. /\ q.op \in {"upload", "put", "heal"} /\ q.comp = c /\ q.at = Nowhere
      /\ q.pool \subseteq Configured
  BY <1>1 DEF Storing, RegistriesInv, KnownInv
<1>3. RequestOK(q)'
  BY <1>2 DEF RequestOK, StoreOK, DeleteOK, HealthOK
<1> QED BY <1>1, <1>3, RequestParts

\* An upload goes through the API, a PUT through the gateway.
LEMMA UploadBeginStep ==
    ASSUME RegistriesInv, NEW s \in Sessions, NEW op \in {"upload", "put"}, NEW i \in Ids,
           UploadBegin(s, op, i)
    PROVE  RegistriesInv'
<1> DEFINE c == IF op = "upload" THEN "api" ELSE "s3"
<1>1. c \in Components \ {"extended"}
  BY DEF Components
<1>2. /\ req' = [req EXCEPT ![s] = Storing(op, c, i)]
      /\ UNCHANGED <<registries, table, shards, unwanted, misled>>
      /\ born' = born \cup {i}
  BY DEF UploadBegin, Starts
<1>3. PICK q \in Request : q = Storing(op, c, i) /\ RequestOK(q)'
  BY <1>1, <1>2, StoringOK
<1>4. born' \subseteq Ids /\ unwanted' \subseteq Files /\ misled' = {}
  BY <1>2 DEF RegistriesInv, TypeOK
<1> QED BY <1>2, <1>3, <1>4, QuietStep

\* A repair goes through the worker.
LEMMA HealBeginStep ==
    ASSUME RegistriesInv, NEW s \in Sessions, NEW i \in Ids, HealBegin(s, i)
    PROVE  RegistriesInv'
<1>1. /\ req' = [req EXCEPT ![s] = Storing("heal", "worker", i)]
      /\ UNCHANGED <<registries, table, shards, history>>
  BY DEF HealBegin, Starts
<1>2. PICK q \in Request : q = Storing("heal", "worker", i) /\ RequestOK(q)'
  BY <1>1, StoringOK DEF Components
<1>3. born' \subseteq Ids /\ unwanted' \subseteq Files /\ unwanted \subseteq unwanted' /\ misled' = {}
  BY <1>1 DEF RegistriesInv, TypeOK, history
<1> QED BY <1>1, <1>2, <1>3, QuietStep

\* A request that stores is the record of one.
LEMMA PlacingIs ==
    ASSUME RegistriesInv, NEW s \in Sessions, req[s].op \in {"upload", "put", "heal"}
    PROVE  /\ req[s] \in StoreRequest /\ StoreOK(req[s])
           /\ req[s].comp \in Components \ {"extended"} /\ req[s].pool \subseteq Configured
<1>1. req[s] \in StoreRequest
  BY RequestKinds DEF RegistriesInv, TypeOK
<1> QED BY <1>1 DEF RegistriesInv, RequestInv, RequestOK, StoreOK, StoreRequest

\* The shard is stored by a provider the environment describes.
LEMMA PlacedStep ==
    ASSUME RegistriesInv, NEW s \in Sessions, Placing(s), NEW p \in Configured, Placed(s, p),
           UNCHANGED <<registries, table, history>>
    PROVE  RegistriesInv'
<1>1. req[s] \in StoreRequest /\ StoreOK(req[s]) /\ req[s].comp # "extended" /\ p \in Providers
  BY PlacingIs DEF Placing
<1>2. PICK q \in StoreRequest : q = [req[s] EXCEPT !.at = p, !.pool = {}]
  BY <1>1 DEF StoreRequest
<1>3. /\ req' = [req EXCEPT ![s] = q] /\ shards' = shards \cup {<<q.id, p>>}
      /\ q.op \in {"upload", "put", "heal"}
      /\ q.comp = req[s].comp /\ q.at = p /\ q.pool = {}
  BY <1>1, <1>2 DEF Placed, RegistriesInv, TypeOK, StoreRequest
<1>4. Careful
  BY <1>3 DEF Careful, registries, history
<1>5. RequestOK(q)'
  BY <1>1, <1>3 DEF RequestOK, StoreOK, DeleteOK, HealthOK
<1>6. q \in Request
  BY RequestParts
<1>7. RequestInv'
  BY <1>3, <1>4, <1>5, <1>6, SessionStep DEF RegistriesInv
<1>8. TypeOK'
  <2>1. <<q.id, p>> \in Ids \X Providers
    BY <1>1 DEF StoreRequest
  <2> QED BY <1>3, <1>6, <2>1 DEF RegistriesInv, TypeOK, registries, history
<1>9. KnownInv' /\ RowInv' /\ misled' = {}
  BY <1>3 DEF RegistriesInv, KnownInv, RowInv, registries, history
<1> QED BY <1>7, <1>8, <1>9 DEF RegistriesInv

\* Any of the providers the call began with may store the shard.
LEMMA StoreShardStep ==
    ASSUME RegistriesInv, NEW s \in Sessions, StoreShard(s)
    PROVE  RegistriesInv'
<1>1. PICK p \in req[s].pool : Placed(s, p)
  BY DEF StoreShard
<1>2. Placing(s) /\ UNCHANGED <<registries, table, history>> /\ p \in Configured
  BY PlacingIs DEF StoreShard, Placing
<1> QED BY <1>1, <1>2, PlacedStep

\* The last resort is the local disk, which the environment describes.
LEMMA FallbackStep ==
    ASSUME RegistriesInv, NEW s \in Sessions, Fallback(s)
    PROVE  RegistriesInv'
<1>1. Placing(s) /\ UNCHANGED <<registries, table, history>>
  BY DEF Fallback
<1>2. CASE Placed(s, LocalDisk)
  BY <1>1, <1>2, PlacedStep
<1>3. CASE Ends(s) /\ UNCHANGED shards
  <2>1. UNCHANGED <<born, unwanted>> /\ misled' = {}
    BY <1>1 DEF history, RegistriesInv
  <2> QED BY <1>1, <1>3, <2>1, EndStep
<1> QED BY <1>2, <1>3 DEF Fallback

\* The provider fails and the next one is tried, or it is disabled and the last
\* resort is all that is left.
LEMMA StoreFailsStep ==
    ASSUME RegistriesInv, NEW s \in Sessions, StoreFails(s)
    PROVE  RegistriesInv'
<1>1. /\ req[s] \in StoreRequest /\ StoreOK(req[s]) /\ req[s].pool \subseteq Configured
      /\ req[s].comp \in Components /\ req[s].op \in {"upload", "put", "heal"}
      /\ UNCHANGED <<table, shards, history>>
  BY PlacingIs DEF StoreFails, Placing
<1>2. PICK p \in req[s].pool :
         \/ req' = [req EXCEPT ![s].pool = @ \ {p}] /\ UNCHANGED registries
         \/ Disabled(req[s].comp, p) /\ req' = [req EXCEPT ![s].pool = {}]
  BY DEF StoreFails
<1>3. PICK rest \in SUBSET req[s].pool : req' = [req EXCEPT ![s].pool = rest]
  BY <1>2 DEF RegistriesInv, TypeOK
<1>4. PICK q \in StoreRequest : q = [req[s] EXCEPT !.pool = rest]
  BY <1>1 DEF StoreRequest
<1>5. /\ req' = [req EXCEPT ![s] = q]
      /\ q.op = req[s].op /\ q.comp = req[s].comp /\ q.id = req[s].id /\ q.at = req[s].at
      /\ q.pool \subseteq Configured
  BY <1>1, <1>3, <1>4 DEF RegistriesInv, TypeOK, StoreRequest
<1>6. /\ known' \in [Components -> SUBSET Providers] /\ off' \in [Components -> SUBSET Providers]
      /\ \A c \in Components : /\ known[c] \cup off[c] \subseteq known'[c] \cup off'[c]
                               /\ known'[c] \subseteq known[c]
  <2>1. CASE UNCHANGED registries
    BY <2>1 DEF registries, RegistriesInv, TypeOK
  <2>2. CASE Disabled(req[s].comp, p)
    BY <1>1, <2>2 DEF Disabled, RegistriesInv, TypeOK
  <2> QED BY <1>2, <2>1, <2>2
<1>7. Careful
  BY <1>1, <1>6 DEF Careful, history
<1>8. RequestOK(q)'
  BY <1>1, <1>5 DEF RequestOK, StoreOK, DeleteOK, HealthOK, history
<1>9. RequestInv'
  BY <1>5, <1>7, <1>8, RequestParts, SessionStep DEF RegistriesInv
<1>10. TypeOK'
  BY <1>1, <1>5, <1>6, RequestParts DEF RegistriesInv, TypeOK, history
<1>11. KnownInv' /\ RowInv' /\ misled' = {}
  BY <1>1, <1>6 DEF RegistriesInv, KnownInv, RowInv, history
<1> QED BY <1>9, <1>10, <1>11 DEF RegistriesInv

\* What is committed is where the shard was put.
LEMMA StoreCommitStep ==
    ASSUME RegistriesInv, NEW s \in Sessions, StoreCommit(s)
    PROVE  RegistriesInv'
<1>1. /\ req[s] \in StoreRequest /\ StoreOK(req[s]) /\ req[s].op \in {"upload", "put", "heal"}
      /\ req[s].at # Nowhere /\ Ends(s) /\ UNCHANGED <<registries, shards, history>>
  BY PlacingIs DEF StoreCommit
<1>2. req' = [req EXCEPT ![s] = Idle]
  BY <1>1 DEF Ends
<1>3. CASE table' = table
  <2>1. UNCHANGED <<born, unwanted>> /\ misled' = {}
    BY <1>1 DEF history, RegistriesInv
  <2> QED BY <1>1, <1>3, <2>1, EndStep
<1>4. CASE table' = [table EXCEPT ![req[s].id] = [status |-> "active", at |-> req[s].at]]
  <2>1. /\ req[s].id \in Ids /\ req[s].at \in Configured
        /\ req[s].id \in unwanted \/ <<req[s].id, req[s].at>> \in shards
    BY <1>1 DEF StoreRequest, StoreOK
  <2>2. PICK r \in Row : r.status = "active" /\ r.at = req[s].at
                         /\ table' = [table EXCEPT ![req[s].id] = r] /\ r # NoRow
    <3> DEFINE new == [status |-> "active", at |-> req[s].at]
    <3>1. new \in Row /\ new.status = "active" /\ new.at = req[s].at /\ new # NoRow
      BY <2>1 DEF Row, NoRow
    <3>2. table' = [table EXCEPT ![req[s].id] = new]
      BY <1>4
    <3> QED BY <3>1, <3>2
  <2>3. Careful
    BY <1>1, <2>1, <2>2 DEF Careful, registries, history, RegistriesInv, TypeOK
  <2>4. RequestInv'
    BY <1>2, <2>3, IdleOKNext, SessionStep DEF RegistriesInv
  <2>5. TypeOK'
    BY <1>1, <1>2, <2>1, <2>2 DEF RegistriesInv, TypeOK, registries, history
  <2>6. RowInv'
    BY <1>1, <2>1, <2>2 DEF RegistriesInv, TypeOK, RowInv, history
  <2>7. KnownInv' /\ misled' = {}
    BY <1>1 DEF RegistriesInv, KnownInv, registries, history
  <2> QED BY <2>4, <2>5, <2>6, <2>7 DEF RegistriesInv
<1> QED BY <1>3, <1>4 DEF StoreCommit

------------------------------------------------------------------------------
(***************************************************************************)
(* Deleting and health reports.                                            *)
(***************************************************************************)

\* From its beginning, somebody wants the files of a delete gone.
LEMMA DeleteBeginStep ==
    ASSUME RegistriesInv, NEW s \in Sessions, NEW files \in Seq(Files), DeleteBegin(s, files)
    PROVE  RegistriesInv'
<1>1. PICK q \in DeleteRequest : q = [op |-> "delete", todo |-> files, marked |-> {}]
  BY DEF DeleteRequest
<1>2. /\ req' = [req EXCEPT ![s] = q]
      /\ UNCHANGED <<registries, table, shards, born, misled>>
      /\ unwanted' = unwanted \cup {files[k] : k \in DOMAIN files}
  BY <1>1 DEF DeleteBegin, Starts
<1>3. q.op = "delete" /\ q.todo = files /\ q.marked = {}
  BY <1>1
<1>4. RequestOK(q)'
  BY <1>2, <1>3 DEF RequestOK, StoreOK, DeleteOK, HealthOK
<1>5. \A k \in DOMAIN files : files[k] \in Files
  BY ElementOfSeq
<1>6. born' \subseteq Ids /\ unwanted \subseteq unwanted' /\ unwanted' \subseteq Files /\ misled' = {}
  BY <1>2, <1>5 DEF RegistriesInv, TypeOK
<1> QED BY <1>2, <1>4, <1>6, RequestParts, QuietStep

\* The next file of a delete: only its shard is removed, and only it is marked.
LEMMA DeleteNextStep ==
    ASSUME RegistriesInv, NEW s \in Sessions, DeleteNext(s)
    PROVE  RegistriesInv'
<1>1. req[s] \in DeleteRequest /\ DeleteOK(req[s]) /\ req[s].op = "delete" /\ req[s].todo # <<>>
  BY RequestKinds DEF DeleteNext, Deleting, RegistriesInv, TypeOK, RequestInv, RequestOK
<1>2. UNCHANGED <<registries, table, history>>
  BY DEF DeleteNext
<1> DEFINE i == Head(req[s].todo)
<1>3. /\ Tail(req[s].todo) \in Seq(Files)
      /\ i \in Files /\ i \in unwanted
      /\ \A k \in DOMAIN Tail(req[s].todo) : Tail(req[s].todo)[k] \in unwanted
  <2>1. req[s].todo \in Seq(Files)
    BY <1>1 DEF DeleteRequest
  <2>2. \A k \in 1 .. Len(req[s].todo) : req[s].todo[k] \in unwanted
    BY <1>1, <2>1 DEF DeleteOK
  <2>3. Len(req[s].todo) \in Nat /\ Len(req[s].todo) # 0
    BY <1>1, <2>1
  <2>4. /\ Tail(req[s].todo) \in Seq(Files) /\ Len(Tail(req[s].todo)) = Len(req[s].todo) - 1
        /\ \A k \in 1 .. Len(Tail(req[s].todo)) : Tail(req[s].todo)[k] = req[s].todo[k + 1]
    BY <1>1, <2>1, HeadTailProperties
  <2>5. \A k \in 1 .. Len(Tail(req[s].todo)) : k + 1 \in 1 .. Len(req[s].todo)
    BY <2>3, <2>4
  <2>6. i = req[s].todo[1] /\ i \in Files
    BY <1>1, <2>1
  <2> QED BY <2>1, <2>2, <2>3, <2>4, <2>5, <2>6
<1> HIDE DEF i
<1>4. PICK m \in SUBSET Files :
         /\ m \subseteq req[s].marked \cup {i} /\ (i \in m => i \in req[s].marked \/ table[i] # NoRow)
         /\ req' = [req EXCEPT ![s].todo = Tail(@), ![s].marked = m]
  <2>1. req[s].marked \in SUBSET Files
    BY <1>1 DEF DeleteRequest
  <2>2. CASE table[i] # NoRow
    BY <1>3, <2>1, <2>2 DEF DeleteNext, RegistriesInv, TypeOK, i
  <2>3. CASE table[i] = NoRow
    BY <2>1, <2>3 DEF DeleteNext, RegistriesInv, TypeOK, i
  <2> QED BY <2>2, <2>3
<1>5. PICK q \in DeleteRequest : q = [req[s] EXCEPT !.todo = Tail(req[s].todo), !.marked = m]
  BY <1>1, <1>3 DEF DeleteRequest
<1>6. req' = [req EXCEPT ![s] = q] /\ q.op = "delete" /\ q.todo = Tail(req[s].todo) /\ q.marked = m
  BY <1>1, <1>4, <1>5 DEF RegistriesInv, TypeOK, DeleteRequest
<1>7. shards' \subseteq shards /\ \A j \in Ids, p \in Providers : <<j, p>> \in shards \ shards' => j = i
  BY DEF DeleteNext, Removed, i
<1>8. Careful
  BY <1>2, <1>3, <1>7 DEF Careful, registries, history
<1>9. RequestOK(q)'
  <2>1. \A j \in m : j \in unwanted /\ table[j] # NoRow
    BY <1>1, <1>3, <1>4 DEF DeleteOK
  <2> QED BY <1>2, <1>3, <1>6, <2>1 DEF RequestOK, StoreOK, DeleteOK, HealthOK, history
<1>10. RequestInv'
  BY <1>6, <1>8, <1>9, RequestParts, SessionStep DEF RegistriesInv
<1>11. TypeOK'
  BY <1>2, <1>6, <1>7, RequestParts DEF RegistriesInv, TypeOK, registries, history
<1>12. RowInv'
  BY <1>2, <1>3, <1>7 DEF RegistriesInv, TypeOK, RowInv, Row, history
<1>13. KnownInv' /\ misled' = {}
  BY <1>2 DEF RegistriesInv, KnownInv, registries, history
<1> QED BY <1>10, <1>11, <1>12, <1>13 DEF RegistriesInv

\* The files that are marked have a row, and somebody asked to delete them.
LEMMA DeleteCommitStep ==
    ASSUME RegistriesInv, NEW s \in Sessions, DeleteCommit(s)
    PROVE  RegistriesInv'
<1>1. req[s] \in DeleteRequest /\ DeleteOK(req[s]) /\ req[s].op = "delete"
  BY RequestKinds DEF DeleteCommit, Deleting, RegistriesInv, TypeOK, RequestInv, RequestOK
<1>2. /\ req' = [req EXCEPT ![s] = Idle] /\ UNCHANGED <<registries, shards, history>>
      /\ table' = [i \in Ids |-> IF i \in req[s].marked THEN [table[i] EXCEPT !.status = "deleted"]
                                 ELSE table[i]]
  BY DEF DeleteCommit, Ends
<1>3. ASSUME NEW i \in Ids
      PROVE  /\ table'[i] \in Row \cup {NoRow} /\ (table[i] # NoRow => table'[i] # NoRow)
             /\ i \notin unwanted => table'[i] = table[i]
  <2>1. CASE i \in req[s].marked
    <3>1. table[i] \in Row /\ i \in unwanted
      BY <1>1, <2>1, RowKinds DEF DeleteOK, RegistriesInv
    <3>2. table'[i] \in Row /\ table'[i].status = "deleted"
      BY <1>2, <2>1, <3>1 DEF Row
    <3>3. table'[i] # NoRow
      BY <3>2 DEF NoRow
    <3> QED BY <3>1, <3>2, <3>3
  <2>2. CASE i \notin req[s].marked
    BY <1>2, <2>2 DEF RegistriesInv, TypeOK
  <2> QED BY <2>1, <2>2
<1>4. Careful
  BY <1>2, <1>3 DEF Careful, registries, history
<1>5. RequestInv'
  BY <1>2, <1>4, IdleOKNext, SessionStep DEF RegistriesInv
<1>6. TypeOK'
  BY <1>2, <1>3 DEF RegistriesInv, TypeOK, registries, history
<1>7. KnownInv' /\ RowInv' /\ misled' = {}
  BY <1>2, <1>3 DEF RegistriesInv, KnownInv, RowInv, registries, history
<1> QED BY <1>5, <1>6, <1>7 DEF RegistriesInv

\* The providers that are asked are known.
LEMMA HealthBeginStep ==
    ASSUME RegistriesInv, NEW s \in Sessions, NEW c \in Components, HealthBegin(s, c)
    PROVE  RegistriesInv'
<1>1. PICK q \in HealthRequest : q = [op |-> "health", comp |-> c, asked |-> known[c]]
  BY DEF HealthRequest, RegistriesInv, TypeOK
<1>2. /\ req' = [req EXCEPT ![s] = q] /\ UNCHANGED <<registries, table, shards, history>>
      /\ q.op = "health" /\ q.comp = c /\ q.asked = known[c]
  BY <1>1 DEF HealthBegin, Starts
<1>3. RequestOK(q)'
  BY <1>2 DEF RequestOK, StoreOK, DeleteOK, HealthOK, registries
<1>4. born' \subseteq Ids /\ unwanted \subseteq unwanted' /\ unwanted' \subseteq Files /\ misled' = {}
  BY <1>2 DEF RegistriesInv, TypeOK, history
<1> QED BY <1>2, <1>3, <1>4, RequestParts, QuietStep

\* A provider that answers and is not in the list of the disabled is known.
LEMMA HealthAnsweredStep ==
    ASSUME RegistriesInv, NEW s \in Sessions, HealthAnswered(s)
    PROVE  RegistriesInv'
<1>1. HealthOK(req[s]) /\ req[s].op = "health"
  BY DEF HealthAnswered, RegistriesInv, RequestInv, RequestOK
<1>2. \A healthy \in SUBSET req[s].asked : Working(req[s], healthy) \subseteq known[req[s].comp]
  BY <1>1 DEF HealthOK, Working
<1>3. misled' = {}
  BY <1>2 DEF HealthAnswered, RegistriesInv
<1> QED BY <1>3, EndStep DEF HealthAnswered

------------------------------------------------------------------------------
(***************************************************************************)
(* The registries themselves.                                              *)
(***************************************************************************)

\* A registry starts with the providers of the environment, each in use or
\* disabled.
LEMMA StartedIs ==
    ASSUME NEW k \in Bootstraps, NEW d, d = [c \in Components |-> Configured \ k[c]]
    PROVE  /\ k \in [Components -> SUBSET Providers] /\ d \in [Components -> SUBSET Providers]
           /\ \A c \in Components : k[c] \subseteq Configured /\ Configured \subseteq k[c] \cup d[c]
BY DEF Bootstraps

\* The invariant holds when the service starts,
LEMMA InitInv == Init => RegistriesInv
<1> SUFFICES ASSUME Init PROVE RegistriesInv
  OBVIOUS
<1>1. /\ known \in [Components -> SUBSET Providers] /\ off \in [Components -> SUBSET Providers]
      /\ \A c \in Components : known[c] \subseteq Configured /\ Configured \subseteq known[c] \cup off[c]
  BY StartedIs DEF Init
<1>2. TypeOK
  BY <1>1 DEF Init, TypeOK
<1>3. KnownInv /\ RowInv
  BY <1>1 DEF Init, KnownInv, RowInv, NoRow
<1>4. RequestInv
  BY IdleOK DEF Init, RequestInv
<1> QED BY <1>2, <1>3, <1>4 DEF RegistriesInv, Init

\* and when it starts again.
LEMMA RestartStep == RegistriesInv /\ Restart => RegistriesInv'
<1> SUFFICES ASSUME RegistriesInv, Restart PROVE RegistriesInv'
  OBVIOUS
<1>1. /\ known' \in [Components -> SUBSET Providers] /\ off' \in [Components -> SUBSET Providers]
      /\ \A c \in Components : /\ known'[c] \subseteq Configured
                               /\ Configured \subseteq known'[c] \cup off'[c]
  BY StartedIs DEF Restart, Started
<1>2. req' = [s \in Sessions |-> Idle] /\ UNCHANGED <<table, shards, history>>
  BY DEF Restart
<1>3. TypeOK'
  BY <1>1, <1>2 DEF RegistriesInv, TypeOK, history
<1>4. KnownInv' /\ RowInv' /\ misled' = {}
  BY <1>1, <1>2 DEF RegistriesInv, KnownInv, RowInv, history
<1>5. RequestInv'
  BY <1>2 DEF RequestInv, RequestOK, StoreOK, DeleteOK, HealthOK, Idle
<1> QED BY <1>3, <1>4, <1>5 DEF RegistriesInv

\* A provider that is registered harms nobody: only the extended API has it.
LEMMA RegisterStep ==
    ASSUME RegistriesInv, NEW p \in Providers, Register(p)
    PROVE  RegistriesInv'
<1>1. /\ known' = [known EXCEPT !["extended"] = @ \cup {p}] /\ UNCHANGED <<off, table, shards, req, history>>
  BY DEF Register
<1>2. /\ known' \in [Components -> SUBSET Providers]
      /\ \A c \in Components : /\ known[c] \subseteq known'[c]
                               /\ c # "extended" => known'[c] = known[c]
  BY <1>1 DEF RegistriesInv, TypeOK
<1>3. Careful
  BY <1>1, <1>2 DEF Careful, history
<1>4. TypeOK'
  BY <1>1, <1>2 DEF RegistriesInv, TypeOK, history
<1>5. KnownInv' /\ RowInv' /\ misled' = {}
  BY <1>1, <1>2 DEF RegistriesInv, KnownInv, RowInv, history
<1>6. RequestInv'
  <2> SUFFICES ASSUME NEW s \in Sessions PROVE RequestOK(req[s])'
    BY DEF RequestInv
  <2>1. PICK r \in Request \cup {Idle} : r = req[s] /\ RequestOK(r)
    BY DEF RegistriesInv, TypeOK, RequestInv
  <2>2. RequestOK(r)' /\ req'[s] = r
    BY <1>1, <1>3, <2>1, RequestKept DEF RegistriesInv
  <2> QED BY <2>2 DEF RequestOK, StoreOK, DeleteOK, HealthOK
<1> QED BY <1>4, <1>5, <1>6 DEF RegistriesInv

------------------------------------------------------------------------------
(***************************************************************************)
(* The theorems.                                                           *)
(***************************************************************************)

\* Every step keeps the invariant.
LEMMA RegistriesStep == RegistriesInv /\ [Next]_vars => RegistriesInv'
<1> SUFFICES ASSUME RegistriesInv, [Next]_vars PROVE RegistriesInv'
  OBVIOUS
<1>1. ASSUME NEW s \in Sessions, NEW i \in Ids,
             UploadBegin(s, "upload", i) \/ UploadBegin(s, "put", i) \/ HealBegin(s, i)
      PROVE  RegistriesInv'
  BY <1>1, UploadBeginStep, HealBeginStep
<1>2. ASSUME NEW s \in Sessions, StoreShard(s) \/ StoreFails(s) \/ Fallback(s) \/ StoreCommit(s)
      PROVE  RegistriesInv'
  BY <1>2, StoreShardStep, StoreFailsStep, FallbackStep, StoreCommitStep
<1>3. ASSUME NEW s \in Sessions, NEW files \in Batches, DeleteBegin(s, files)
      PROVE  RegistriesInv'
  <2>1. files \in Seq(Files)
    <3>1. CASE \E i \in Files : files = <<i>>
      BY <3>1
    <3>2. CASE \E i, j \in Files : files = <<i, j>>
      BY <3>2
    <3> QED BY <3>1, <3>2 DEF Batches
  <2> QED BY <1>3, <2>1, DeleteBeginStep
<1>4. ASSUME NEW s \in Sessions, DeleteNext(s) \/ DeleteCommit(s) PROVE RegistriesInv'
  BY <1>4, DeleteNextStep, DeleteCommitStep
<1>5. ASSUME NEW s \in Sessions, SessionFails(s) PROVE RegistriesInv'
  <2>1. UNCHANGED <<born, unwanted>> /\ misled' = {}
    BY <1>5 DEF SessionFails, history, RegistriesInv
  <2> QED BY <1>5, <2>1, EndStep DEF SessionFails
<1>6. ASSUME NEW s \in Sessions, NEW c \in Components, HealthBegin(s, c) PROVE RegistriesInv'
  BY <1>6, HealthBeginStep
<1>7. ASSUME NEW s \in Sessions, HealthAnswered(s) PROVE RegistriesInv'
  BY <1>7, HealthAnsweredStep
<1>8. ASSUME NEW p \in Providers, Register(p) PROVE RegistriesInv'
  BY <1>8, RegisterStep
<1>9. CASE Restart
  BY <1>9, RestartStep
<1>10. CASE UNCHANGED vars
  BY <1>10 DEF vars, registries, history, RegistriesInv, TypeOK, KnownInv, RowInv, RequestInv,
               RequestOK, StoreOK, DeleteOK, HealthOK
<1> QED BY <1>1, <1>2, <1>3, <1>4, <1>5, <1>6, <1>7, <1>8, <1>9, <1>10 DEF Next

\* The invariant holds in every behaviour.
LEMMA RegistriesInvariance == Spec => []RegistriesInv
BY InitInv, RegistriesStep, PTL DEF Spec

\* Type correctness: every provider of the environment stays in use or in the list
\* of the disabled, in each registry (ProviderRegistry).
THEOREM TypeCorrect == Spec => []TypeOK
<1>1. RegistriesInv => TypeOK
  BY DEF RegistriesInv
<1> QED BY <1>1, RegistriesInvariance, PTL

\* What is stored through one registry can be read through all the others that have
\* no provider disabled (upload_shard, download_shard, extended_router.register_provider).
THEOREM ReadableCorrect == Spec => []ReadableEverywhere
<1>1. RegistriesInv => ReadableEverywhere
  BY DEF RegistriesInv, TypeOK, RowInv, ReadableEverywhere, Readable
<1> QED BY <1>1, RegistriesInvariance, PTL

\* A health report names no provider as working that its registry has disabled since
\* it was asked (ProviderRegistry.health).
THEOREM ReportCorrect == Spec => []ReportIsCurrent
<1>1. RegistriesInv => ReportIsCurrent
  BY DEF RegistriesInv, ReportIsCurrent
<1> QED BY <1>1, RegistriesInvariance, PTL
==============================================================================
