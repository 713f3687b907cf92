# VIT Storage in TLA+

This directory holds TLA+ models of VIT Storage (the "Tachyon fabric"): a FastAPI
service that cuts files into Reed-Solomon shards, spreads the shards over cloud
accounts and the local disk, and verifies and repairs them in the background. The
models are translated from the Python source; `PROJECT.json` maps every definition
to the lines it stands for.

## 1. The system

The program is one asyncio process (`src/main.py`, one uvicorn worker). All
concurrency is between tasks of one event loop, so the code runs without interruption
from one `await` to the next. Every HTTP request has its own SQLAlchemy session
(`get_db`), and so has every audit cycle. State lives in three places: the database
(`tachyon_manifests`, `shared_links`, `provider_connections`), the objects at the
providers, and the memory of the process (provider registries, OAuth states, caches).

| Component | State | Operations | Interacts with |
|---|---|---|---|
| Orchestrator (`core/orchestrator.py`) | none of its own | upload, retrieve, delete, verify | codec, registry, manifests |
| Manifests (`core/manifest.py`, `core/models.py`) | one row per file; `provider_mapping` JSON holds status, health, shard list | create, get, mark_deleted, update_health | a session's identity map |
| Erasure codec (`core/erasure.py`) | none | encode into 9 shards, decode from at least 6 | orchestrator, healing |
| Healing (`core/healing.py`) | none | heal_manifest; a `healing_loop` nothing starts | registry, codec, manifests |
| Audit worker (`core/worker.py`) | none between cycles | hourly cycle: verify up to 50 files, repair, one commit | orchestrator, healing |
| Provider registry (`providers/registry.py`) | provider list, round-robin index, quarantines, strikes, usage cache | register, upload_shard, download_shard, delete_shard, refresh | drivers; six separate instances |
| Drivers (`providers/*.py`) | tokens, Drive name cache | upload, download, delete, rename, copy, directories, descriptions, usage, health | external services, disk |
| Shared links (`api/extended_router.py`) | rows with limit, expiry, counter | create, revoke, download, list | orchestrator.retrieve |
| S3 gateway (`core/s3_compat.py`) | none | PUT, GET, DELETE, LIST | orchestrator, without a commit |
| Burst scheduler (`core/scheduler.py`) | a semaphore | upload_burst, download_burst, repair_fragment | drivers, shredder |
| Shredder (`core/shredder.py`) | none | a file as 4 KB fragments with parity, and back | scheduler |
| VIT Connect (`vit_connect/`) | connection rows, pending OAuth states, the key of the vault | start, callback, reconnect, disconnect, refresh-health, S3 wizard | token endpoints, account APIs |
| Lifecycle, health, metrics (`main.py`) | start-up flags | start, stop, probes | everything |

The six registries are built at `api/router.py:25`, `api/extended_router.py:40`,
`core/s3_compat.py:68`, in the audit worker, in the healing loop and in `main.py`; they
share no quarantine and no index.

### What is hard

* **Stale sessions.** A session keeps the first copy of a row it loads. `update_health`
  and `mark_deleted` write the *whole* `provider_mapping` of that copy back, after
  awaits that read or delete shards at providers. Two sessions on one file overwrite
  each other.
* **One commit per audit cycle.** The audit flushes each row as it verifies it and
  commits once at the end. What it flushed is locked until then, and a repair has
  replaced objects long before the manifest that lists them is visible.
* **Partial failure.** Each of nine parallel uploads, downloads or deletions fails on
  its own; a process may die between any two of them.
* **Shared routing state.** Nine calls of `upload_shard` run at once on one index, one
  quarantine table and one usage cache, with an await in the middle of each decision.
* **Check, await, write.** A download through a link is checked against a counter that is
  written only after the file has been retrieved. The handlers of VIT Connect load a row,
  ask a provider and write what has changed.
* **Work that outlives its caller.** A transfer that times out is given up, its thread or
  request is not: it may be served after other calls for the same name.
* **What a restart forgets.** Pending OAuth flows, Drive's name caches, providers
  registered at run time and, without a configured key, the key of the vault.

### What makes each component correct

* *Fabric.* A committed manifest leads to enough intact shards to rebuild the file unless
  providers lost more than parity covers since the file was last read back whole (a repair
  that decodes from a truncated shard breaks this, see `FabricTornRepair`); a
  deletion is final; an upload that was acknowledged is there; verification tells the
  truth; every request and every cycle ends.
* *Registry.* A shard is tried at every usable provider before the fallback; load is
  spread evenly; a provider in quarantine, or removed, is left alone.
* *Links.* No more downloads than the limit; no charge without a download; no
  download after revocation.
* *Registries.* A file is stored where every component, in this process and the next, finds
  it; a health report is of now.
* *Drivers.* What a call answered `True` for is there and is what a reader gets; a rename
  loses nothing; a deletion deletes.
* *Shredder, scheduler.* A file comes back whole while no more fragments are missing than the
  parity covers, and never with other bytes; an outage stops a burst; a burst ends.
* *Audit worker.* Every active file is verified again and again, and a degraded one is
  handed to the repair, at the latest when it comes round again.
* *VIT Connect.* An OAuth state stores one connection, of the provider it was started for; a
  disconnected account stays so; what is reported as alive can be used.

The hazards are listed line by line in `PROJECT.json`.

## 2. The modules

| Module | Models | Extends |
|---|---|---|
| `SharedLinks` | links, their downloads, revocation, time, restarts | |
| `DownloadBudget` | the abstract budget a link promises | |
| `SharedLinks_proofs` | theorems about `SharedLinks`, with the refinement | `SharedLinks` |
| `TachyonFabric` | manifests, shards, requests, audit and repair | |
| `TachyonFabric_proofs` | theorems about `TachyonFabric` | `TachyonFabric` |
| `ShardRouting` | `upload_shard` and the shared state of a registry | |
| `AuditWorker` | the process, the audit's selection, order and commit, Redis | |
| `Registries` | the components' registries over one table of manifests | |
| `GoogleDrive` | the Drive driver, its caches and the service behind it | |
| `ProviderDrivers` | the disk, S3, Dropbox and OneDrive drivers and what they serve | |
| `Shredder` | fragments of a file and what decoding a list of them gives | |
| `BurstTransfer` | burst upload, burst download, repair of fragments | `Shredder` |
| `VitConnect` | OAuth flows, connections, wizard, vault, health checks | |
| `GoogleDrive_proofs` | theorems about `GoogleDrive` | `GoogleDrive` |
| `VitConnect_proofs` | theorems about `VitConnect` | `VitConnect` |
| `Registries_proofs` | theorems about `Registries` | `Registries` |
| `Background_proofs` | theorems about `AuditWorker`, `BurstTransfer` and `Shredder` | `AuditWorker`, `BurstTransfer` |
| `ProviderDrivers_proofs` | theorems about `ProviderDrivers` | `ProviderDrivers` |
| `ShardRouting_proofs` | theorems about `ShardRouting` | `ShardRouting` |
| `MC...` | values of the constants for TLC | the module named |

### SharedLinks

`row[l]` is the committed row, `req[c]` the request of a client between its awaits:
`retrieving` while `orchestrator.retrieve` runs (`seen` is `link.download_count` in the
session's identity map), `answering` between the commit and the response.
`BeginDownload` is the handler up to its await, with the three checks in `Opens`;
`CommitCount` is `download_count += 1` and the commit, an `UPDATE` with the *absolute*
value `seen + 1`, which raises `StaleDataError` when the row is gone;
`DownloadFails` is every error path in between. The limit and the lifetime are plain
integers the API does not validate, so negative ones are among the inputs. `granted`,
`delivered` and `overlapped` are history variables: committed downloads, answers sent,
and links two of whose downloads were in progress together.

`DownloadBudget` is the promise: a budget spent one at a time, never exceeded by a link
whose downloads did not contend, and never spent after revocation. `RefinesBudget`
says `SharedLinks` implements it under `charged <- granted`, `contended <- overlapped`.
Passwords are stored by the create handler and read by none, so the model has none.

### TachyonFabric

`rows` are committed manifests and `cloud[f][i][p]` the object of shard `i` of file `f` at
provider `p` (`none`, `good`, `bad` for bytes that are not that shard's, or `short` for a
file that was truncated and not wholly written). Objects are
named `<file>_<index>`, so uploading an index again to the same provider replaces the
object. `req[s]` is a request with its own copy of the row; `snap`, `todo`, `dirty` are
the audit session: its copies, the files it still has to verify, the rows it has
flushed and so locked.

| Actions | Code |
|---|---|
| `UploadDedup`, `UploadBegin`, `PlaceShards`, `UploadCommit` | `upload_file`, `orchestrator.upload`: sha256 lookup, nine parallel uploads, refusal beyond `PARITY_SHARDS` failures, commit |
| `DeleteBegin`, `DeleteShard`, `DeleteShardFails`, `DeleteCommit` | `orchestrator.delete`: shards in parallel, failures logged, then the status |
| `VerifyBegin`, `VerifyCommit` | `orchestrator.verify`: sample, download, compare, write the health back |
| `CommitFails` | a commit that raises: rolled back by `get_db` |
| `CycleStart`, `AuditVerify`, `CycleCommit`, `CycleAborts` | `run_verification_cycle` |
| `HealIntact`, `HealGivesUp`, `HealDecode`, `HealUpload` | the branches of `heal_manifest` |
| `Restart`, `DamageObject` | the process dies; a provider loses or corrupts an object |

Abstractions. The nine uploads of a new file happen in one step with any subset failing:
nobody else knows the new file's name yet. The uploads of a repair happen in one
step too, because the rows the audit has flushed are locked and other readers of the
objects only compute a verdict, which `Outages` makes arbitrary anyway. The verdict is
computed when it is written, from the objects of that moment. Decoding is modelled by
what Reed-Solomon gives: `e` wrong and `m` missing shards are corrected while
`2e + m <= P`; beyond it the decoder raises, or, when the missing ones use up all parity,
returns other bytes. Stripping of trailing NULs is kept as the property `NulTail` of
a file because a repair goes wrong on it. Retrieval changes nothing.

A repair upload that fails, or is cut by the end of the process, leaves behind what its
provider makes of it (`Uploaded`): nothing at `DeleteFirst` providers (Drive deletes before it
creates), a `short` object at `Truncating` ones (the local disk opens the file with `wb`),
the old object elsewhere. A shard is present when it is not `None`, so an empty one counts. `decode`
takes the length of all shards from the first that came back: when that one is cut (`FirstCut`),
so is the file, and the shards that are encoded from it are written beside the kept ones;
when a later one is shorter, indexing it raises. Files a repair has decoded from such shards are
remembered in `misled`, which `Durable` leaves out.

Assumption on time: `NoStaleVerification`. A verification request does not last from
before one audit cycle to after the next; cycles are an hour apart (`worker.py`,
`VERIFICATION_INTERVAL_SECONDS`) and a verification makes one round of downloads with a
time limit. Without it, a request that slept through a whole repair would write back a
list whose objects may have been replaced twice.

History variables: `born` (ids handed out), `acked` and `unwanted` (what clients were told
and asked for), `misled` (see above), `lost[f]` (objects lost since the file was last read back whole),
`faults[f]` (all of them; only bounds the model).

### ShardRouting

`call[c]` is one execution of `upload_shard`; it yields at `usage` (awaiting the
provider's usage in `is_full`), `sending` (awaiting the upload) and `fallback` (awaiting
`local_disk`). Everything between two awaits is one step: `Continue` runs the loop, past
every provider that is skipped without an await, to its next await, moving the shared
index once per iteration. `Spot`, `Advance` are the reading and the increment of the
index; the index is kept modulo `Wrap`, a multiple of every possible pool size, which is
exact because it is only ever used modulo the size. The list is the snapshot
`list(self.providers.values())` taken at the start of the call; the pool itself may
shrink (`UploadBreaks`, a provider that disables itself) and grow (`Register`)
meanwhile. Of an upload's outcome only failure and its kind are kept. `alone`, `stable`
and `looks` are history variables.

### GoogleDrive

`drive` holds the objects by id: Drive allows any number of one name. `cache` and
`folder` are `_name_to_id` and `_folder_id` of each driver of the account, one driver per
registry; `home` is the folder id of the configuration, `folders` the folders called
`tachyon_fragments` that exist. `call[c]` is an upload, download or delete in
progress. Each request to Drive is two steps, `...Served` when the service handles it and
`...Answered` when the awaiting call goes on, so that other calls come between;
`RequestFails` loses the request or only its answer. An upload removes what it finds
and creates anew, so it may die with neither. A request of a process that dies is
served before the restart or never. After the folder is known an upload looks at its cache, for
the first time; a download or a delete has done so before, and searches (`GoesOn`).

`contended` (names with overlapping writes), `settled` (answer to the last write),
`latest` (object of the last upload that returned True) and `split` (shards may lie in
two places: a second folder was made, or a driver fell back to the root folder) are
history variables. Rename, copy and directory operations have no caller in the
service and are left out; the permanent disabling on a quota error is `UploadBreaks` of
`ShardRouting`.

### AuditWorker

`TachyonFabric` lets a cycle take any active files in any order; this module has the
selection and forgets the shards. `stamp` is the committed `last_verified_at`, `flushed` what
the open session of the cycle has written, `todo` the files it still has to verify. `taken` is
the time a session has taken and not yet flushed: the caller of `update_health` evaluates
`datetime.now`, the row is looked up and flushed after that, and other sessions commit in between, so
an older time may be committed over a younger one. `request` holds the row a verification by hand has
loaded and will write back whole.

| Actions | Code |
|---|---|
| `Startup` (`Migrated`) | `lifespan`: `init_db` with its column migrations, each of which may fail; the worker starts in any case |
| `Shutdown` | the end of `lifespan`, or of the process: the session of the cycle is rolled back |
| `Upload`, `Delete` | the handlers of `api/router.py`, each with its commit, waiting for rows the cycle has flushed (`Writes`) |
| `VerifyBegin`, `VerifyTimed`, `VerifyCommit`, `VerifyFails` | `verify_file`: the row is loaded, the time taken, the row flushed and committed, or the session rolled back |
| `CycleStart` | the query (`Windows`), the filter (`Candidates`), the sort (`Mixed`, `Orders`), the cut (`First`) |
| `AuditTimed`, `AuditFlushed` | one file: the time, `update_health`, the event (`HandedToRepair`) |
| `AuditHealed` | the repair, which takes the time again when it succeeds |
| `CycleCommit`, `CycleFails` | the only commit; an error that reaches `start` |
| `DatabaseFlips`, `RedisFlips` | the services come and go |

Times are ranks: `Now` is above all times taken, and `Times` renumbers them from 1 in every
action that takes or forgets one. A time is `0` for `None`, which the code turns into the naive
`datetime.min`. `audited` (files of the last cycle, and those verified by hand since) and `unhandled`
(files found degraded whose repair an error of Redis has prevented) are history variables.

### Registries

`known[c]` and `off[c]` are `providers` and `disabled_providers` of the registry of component
`c`; a file is one shard, `table` the committed manifests, `shards` the objects.

| Actions | Code |
|---|---|
| `Init`, `Restart` | `_bootstrap_providers` in each component: a constructor that raises disables its provider there |
| `Register` | `register_provider`: the extended router's registry only |
| `UploadBegin`, `HealBegin`, `StoreShard`, `StoreFails`, `Fallback`, `StoreCommit` | `upload_shard` as called by the API, the gateway and the worker; a gateway PUT never commits |
| `DeleteBegin`, `DeleteNext`, `DeleteCommit` | `delete_file` and `batch_delete_files`: several files in one session |
| `SessionFails` | a rollback |
| `HealthBegin`, `HealthAnswered` | `health_check`: asked together, the disabled written over the answers |

`MaxOff` bounds the providers that are disabled over all registries.

### ProviderDrivers

One account, one driver class per behaviour. A call sends a request (`Serve`) and goes
on with its answer (`Answer`), in one or two steps; the answer may be lost, the caller may
leave (`Abandon`), and a request whose caller has left is in `late` until it is served
(`ServeLate`). `DiskServes`, `MockServes`, `S3Serves`, `DropboxServes` and `OneDriveServes` say what
a request leaves behind in each service: the disk empties a file before it writes it, S3
renames by copy and deletion, Dropbox moves only to free names, OneDrive accepts a
copy and makes it later, and is given the new base name alone. S3 deletes a directory by
the one page it lists of it, and of that page any part may be left behind (`BatchDeleted`), since
errors about single keys come in an answer nobody looks at. Synchronous calls of the
disk and the stand-in stop everything else on the loop (`Sync`). `Reads` says what each read
operation may answer in a state; most errors read as absent, some of OneDrive's as an
empty object (`Misread`).

`owed` and `gone` are history: what answers have promised and no later call has touched. A call
promises something only if no other call or late request for its names was
under way (`clean`), and the deletion of a directory of S3 promises nothing (`Frees`).

### Shredder and BurstTransfer

A fragment stands for its bytes and is named by its place. `Decode` is the shredder's
`decode` on a list of fragments: Reed-Solomon up to `MaxBlock` fragments, XOR beyond; where
Reed-Solomon is given more than it covers it may raise or return other bytes.
`BurstTransfer` has the probe and the circuit breaker of `upload_burst` (`BurstBegin`,
`TaskStarts`, `TaskEnds`, `ProbeEnds`, `BurstEnds`), the threads a timeout leaves at work (`busy`,
`Served`), `download_burst` (`Download`, with names that have no provider left out of the
results) and the repairs (`Repair`). Its specification is `TransferSpec`, so that one
module of proofs can extend it together with `AuditWorker`.

### VitConnect

| Actions | Code |
|---|---|
| `OAuthStart`, `Reconnect` | `oauth_start`, `reconnect`: the flow is remembered before its provider is looked at |
| `CallbackBegin`, `CallbackAnswered` | `oauth_callback` up to its first request and from its answers to the commit |
| `WizardBegin`, `WizardAnswered` | `s3_wizard` with `test_connection` |
| `Disconnect` | `disconnect_provider` |
| `RefreshBegin`, `RefreshAnswered` | `refresh_health`: the row is loaded, the provider asked, the columns that differ written |
| `CommitFails`, `Tick`, `Restart` | rollback, the clock, the end of the process with its flows and its key |

`key` is the vault key of the process. Each process reads `CONNECT_VAULT_KEY` anew, and makes a
one-time key when it is not there; so over a restart the key may stay, get lost, change, or be
one that an earlier process had (`ProcessKeys`). A row keeps the key it was sealed with, and is
readable again when that key is back.

`given` (flows whose URL was handed out) and `overlapped` (rows two health checks of which
overlapped) are history variables; `row.state` and `row.checked` too.

## 3. What the runs check

| Run | Question | Result |
|---|---|---|
| `SharedLinks` | limit, charges, revocation, refinement of the budget | holds |
| `FabricRepair` | complete rows and durability under outages, losses, torn uploads, restarts, stale requests | holds |
| `FabricAnswers` | every request is answered, every cycle ends | holds, under fairness |
| `FabricResurrection` | a committed deletion is final | violated |
| `AuditWorker` | files are audited again and again; a skipped repair comes round | holds, under fairness |
| `AuditStalls` | "periodically audits Tachyon manifests" (worker.py) | violated |
| `ShardRouting` | each provider once, even rotation | holds |
| `Registries` | files are readable everywhere, reports are current | holds |
| `GoogleDrive` | one object per name, deletes delete, reads are not older than the last upload | holds |
| `ProviderDrivers` | acknowledged is stored, renames lose nothing, deletes delete (directories of S3 excepted) | holds |
| `BurstTransfer` | files read back, right repairs, breaker, bursts end | holds, under fairness |
| `VitConnect` | states spent once, right provider, final disconnects, honest health | holds |

What the violated ones show:

* `FabricResurrection`: a verification loads the active row, a delete removes the shards
  and commits, and the verification writes its copy back, `active` and without shards.
* `AuditStalls`: one file has been verified, by hand or by a cycle, and another is new:
  comparing the naive `datetime.min` of the new one with the zoned time of the other raises, in
  this cycle and in every later one, so nothing is audited any more.

Further configurations, to be run by hand, each of which violates the property it names:

* `SharedLinksOverlap` (`DownloadLimit`): two downloads pass the check together and both are
  served; the counter moves by one. USER_GUIDE.md says "Enforce strict download limits".
* `FabricDedup` (`AckedIsActive`): `orchestrator.upload` finds the *deleted* manifest of the
  same bytes and answers "uploaded"; no shard is stored.
* `FabricNulTail` (`SurvivesFaults`): `heal_manifest` decodes without the file's size, so bytes
  are stripped and the re-encoded shards do not belong to the kept ones.
* `FabricFalseAlarm` (`VerifyTellsTruth`): hashes of the sample are in random order, downloads
  in index order.
* `ShardRoutingFallback` (`FallbackIsLastResort`): the loop counts iterations of a shared
  index; with two calls interleaved, one meets its failed provider again and gives up with
  another provider idle.
* `GoogleDriveFolders` (`StoredIsFound`): two first uploads find no folder and make one each;
  after a restart the driver takes the first folder listed and finds none of the
  shards in the other.
* `FabricTornRepair` (`SurvivesFaults`): a repair upload to the disk is cut off after the file was
  truncated; the cycle is rolled back, the committed list still names that shard, and the next
  repair takes its length for that of the file and writes what it decoded over the missing ones.
* `AuditPostponed` (`RepairComesRound`): a verification by hand finds a file degraded, repairs
  nothing, and puts it at the end of the cycle's order; done again and again it keeps the
  cycle, which is full of other files, from ever repairing it.
* `DriversDirectory` (`DirectoryIsEmptied`): S3's `delete_directory` answers `True` and leaves an
  object behind: one that an error about its key has kept, or that was not on the page that it
  listed. base.py says "Delete a directory and all of its contents".
* `ConnectKeyRestored` (`StatusRecovers`): a process with another vault key finds a bucket's
  connection unreadable and marks it `error`; with the key restored, the next check writes health 90
  and leaves the status, since only Drive and Dropbox connections have theirs written back.

Two more hold, and ask the questions of a passing run of a larger instance: `FabricRepairFaults`
(`FabricRepair` with two lost objects, about three minutes) and `VitConnectFlows` (`VitConnect` with
two flows and one restart).

`GoogleDrive` holds for a reason worth knowing: a driver whose cached id was deleted
through another driver gets an error from Drive and reports failure, so a stale cache
costs availability (every later write or read of that name by that driver fails
until a restart) but never serves replaced bytes and never leaves a second object.

### Bounds, and why they are enough

* `SharedLinks`: one link (rows do not interact), two clients (a lost update takes two),
  limits none, -1 and 2, so that a budget can be half spent, four commits, so the limit can be
  passed by two, two hours of clock with lifetimes -1 and 1, so links are born expired and
  expire while a download is on its way. Clients are symmetric.
* `FabricRepair`: one file (files share only the audit's commit), `D = 2`, `P = 1` and two
  providers, so a list can be full, short by the tolerated one, or too short; two requests
  beside the audit, so one of them can be stale; one provider deletes first and the other
  truncates, so a failed upload does harm at either; one lost object, which with one torn
  upload is more than the parity (two in `FabricRepairFaults`). Sample
  of two, so the order of a sample matters. Sessions are symmetric. The constraint
  `StraightRepairs` follows nothing beyond a repair that decoded from a truncated shard: of its
  file `Durable` says nothing from there on, there is no other, and `RowsComplete` and `TypeOK`, which hold
  beyond it too, are proved without the constraint.
* `FabricAnswers`: two files of the same bytes, so a cycle has a second file to verify
  while the first is locked; one session is enough for "each request ends", since
  requests only wait for the audit. No symmetry, for liveness.
* `ShardRouting`: three providers, one with a usage await, two that fail, one that may
  leave the pool; two calls; `Wrap` 6. Quarantines last one tick: no property depends on
  how long a quarantine lasts, and a tick may come at any time or never.
* `GoogleDrive`: one name (names share only the folder), two drivers of one account, two
  calls. Four objects, so an upload through a stale cache can follow two replacements. The
  constraint `Claimed` cuts off only states of which, and of whose successors, the three
  properties say nothing. Drivers and calls are symmetric.
* `GoogleDriveFolders`: two names, one driver, no lost requests; two folders, since at most two
  calls can see an empty listing.
* `AuditWorker`: two files, a window of two and a batch of one, so that a cycle leaves a file
  for the next and the order decides; one verification by hand beside the cycle, enough for an
  older time to be committed after a younger one. Tables larger than the window are outside the
  properties. No symmetry, for liveness.
* `Registries`: one file and one key of the gateway (rows do not interact but through the
  registries), two sessions, so a report or a heal overlaps an upload; the local disk, one
  configured account and one registered at run time; one disabled provider at a time,
  since `ReadableEverywhere` speaks only of registries that have none.
* `ProviderDrivers`: two callers, four calls and one late request, so that a late one meets two
  others; names in a folder, outside it and beginning like it; two contents. A page of S3
  holds one of the two objects that the deletion of the folder may match, so a listing may be cut.
* `BurstTransfer`: fragments of three bytes and files of none, one, two and three of
  them, with blocks of at most four: on both sides of `XorCoded` and of the padding; probe and
  slots of two. A name at most has no provider.
* `VitConnect`: one flow that several callbacks may bring back, two handlers, two connections, so
  every pair of handlers overlaps on one row; one configured key and two restarts, so a key may be
  lost and restored, or changed for good; two flows are in `VitConnectFlows`. One tick of the clock with a lifetime of none, so a state
  may be fresh or expired. One OAuth type lacks its client id, another its secret. Flows and handlers are symmetric.
* The violated runs use the smallest instance that shows the behaviour, mostly without
  faults or outages, so that nothing but the code is to blame.

### Fairness

`FabricAnswers` assumes weak fairness of each request's own steps and of the
audit's own steps once a cycle runs. Both are asyncio tasks of one loop, a provider call that
fails is an alternative of the same step, and a commit that waits
for a locked row ends in an error (`CommitFails`: SQLite gives up after five seconds;
PostgreSQL grants the row when the cycle commits). That a provider call is answered at all is an
assumption about the libraries, and not everywhere a limit the code sets: the calls that go through
`to_thread` (Drive, S3, Dropbox) rely on the defaults of their client libraries, which give up on
a connection that is silent. A call that hung for ever would hang its request, and a cycle with it.
`AuditWorker` assumes weak fairness of the
start of a cycle (the worker sleeps an hour and wakes up), of the steps of each file and of the
commit, for the same reasons and under the same assumption; none of verifications by hand. `BurstTransfer` assumes weak fairness of the transfers: each
is answered or times out after eight seconds; nothing is assumed of the threads behind
them (`Served`). No fairness is assumed of clients, of restarts, of the database, of Redis
or of faults, and none in the other modules.

## 4. What is proved

`tlapm` checks every theorem for all values of the constants that satisfy the named
assumptions (`ShardAssumption`, `LimitsAssumption`, ...), which TLC evaluates in the
runs.

| Theorem | States |
|---|---|
| `SharedLinks_proofs!TypeCorrect` | `Spec => []TypeOK` |
| `CounterCorrect` | the stored counter never passes a positive limit |
| `ChargeCorrect` | the counter never exceeds committed downloads |
| `RevocationCorrect` | no grant after revocation |
| `CalmLimit` | a link without overlap keeps its limit |
| `BudgetRefined` | `SharedLinks` implements `DownloadBudget` |
| `TachyonFabric_proofs!TypeCorrect` | `Spec => []TypeOK` |
| `CompleteCorrect` | every committed manifest lists at least `D` shards |
| `DurableCorrect` | repairs, failures and stale copies cost a file no shard until a repair decodes from a truncated one |
| `VitConnect_proofs!TypeCorrect` | `Spec => []TypeOK` |
| `SpentOnce` | one flow stores at most one connection |
| `StartedCorrect` | a connection is of the provider its flow was started for |
| `HealthCorrect` | no health means a failed check and, where the provider is asked, the reverse, unless checks overlapped |
| `ReadableCorrect` | what a process found alive it can decrypt |
| `DisconnectCorrect` | a disconnected connection stays disconnected |
| `GoogleDrive_proofs!TypeCorrect` | `Spec => []TypeOK` |
| `OneObjectCorrect` | one object per name, though each upload creates one |
| `DeleteCorrect` | a delete that succeeded left no object of the name |
| `ReadCorrect` | a download gives nothing that was replaced before it began |
| `Registries_proofs!TypeCorrect` | `Spec => []TypeOK` |
| `ReadableCorrect` | what is stored through one registry is found through every whole one |
| `ReportCorrect` | a health report names no provider as working that was disabled meanwhile |
| `Background_proofs!TypeCorrect` | `Spec => []TypeOK` of `AuditWorker` |
| `TransferTypeCorrect` | `TransferSpec => []TransferTypeOK` |
| `ReadBackCorrect` | a file comes back while the parity covers what is missing, and never other bytes |
| `FragmentRepairCorrect` | repairs store nothing wrong while every name has a provider |
| `OutageCorrect` | a probe that failed throughout ends the burst |
| `ShardRouting_proofs!TypeCorrect` | `Spec => []TypeOK` |
| `OnceCorrect` | an undisturbed call looks at each provider once before it falls back |
| `RotationCorrect` | the providers are looked at equally often while the pool stays |
| `ProviderDrivers_proofs!TypeCorrect` | `Spec => []TypeOK` |
| `AckedCorrect` | what a call answered `True` for is there, and no reader is given anything else |
| `RenameCorrect` | an object that is being renamed is under one of its two names |
| `DeletedCorrect` | a name that was deleted, by itself or, S3 excepted, with its directory, reads as absent |

*Links.* `CounterWithinLimit` is not inductive: a request about to write `seen + 1` must
have read `seen` below the limit of that very row, whatever has been written since.
`RequestInv` says so, and that `seen` is no more than `granted`; `AbsentInv` keeps unused ids clean. For
`CalmLimit`, `CalmInv` adds that on a link without overlap at most one request is
retrieving, and what it read is the current counter, which equals `granted`. The refinement then
needs nothing else: each step is an `Open`, `Revoke`, `Contend`, `Charge` or a stutter.

*Fabric.* `LongInv`: every list that is committed, held by a request that may write it, or held by the
audit, has at least `D` entries; a repair keeps what it read, and it read at least
`D` (`Erased <= P`). `DurableInv` carries the argument for durability. It states
`Intact(m, n, S, list)`, "some set of indices is intact at `list` and its size plus `n` is
at least `D`", of the committed list, of the audit's copy, and of both *together*:
while a repair is not committed the *same* objects must serve the old list (in case the
cycle is rolled back) and the new one (in case it commits). It rests on

  * `BookInv`: ids are not reused, a file in a request or in the audit was born, only
    unwanted files are being deleted;
  * `CleanInv`: files without NUL tail and bit rot of which no repair was misled have no bad
    object (a short one is not an intact one, and `Durable` counts it as lost), and what a
    repair decodes of them is good (`CleanDecode`: while no shard that came back is cut,
    those that did are all intact);
  * `AgreeInv`: outside a repair, every list in circulation of a file that is not dirty is
    the committed one. This is where `NoStaleVerification` is used.

*Connections.* `FlowInv` says where a flow is: pending, or with one callback, or in one
row, and with the same provider at each place; without the clause on callbacks `StateSpentOnce` is
not inductive, since the row of a flow appears long after its state was popped. `HealthInv`
relates what a check has loaded to the row it will write to (`CheckInv`): the key it was sealed
with and the type never change, a health that differs was written by this process, and, while no
two checks overlapped, an active row is exactly as loaded. An `UPDATE` of only the columns that
differ from what was loaded is then as good as one of the whole row, except for the
`active` and `status` a disconnect has written, which it must not touch.

*Google Drive.* `OneObject` is not inductive, since nothing in the state says why a create that is
under way finds no object of its name. `NameInv` says that objects are numbered as they are
made, and that an id that is cached, in a call or the latest of its name belongs to that name; `PlaceInv`, that
until objects were split between folders there is one folder, and whoever creates or searches
has it. `SoloInv` then says of a name whose writes did not overlap: it has at most one
writer, and from a search that found nothing or a removal that succeeded until its create
is served, no object of the name is live. `SoloInv` also bounds live objects from
below by `latest`, which only grows; so what a reader is given is at least as new as when it began (`ReadInv`).

*Registries.* Whether a stored file can be read elsewhere depends on who has stored it. `KnownInv`:
the registries of components that store have none but configured providers, since only the
extended router's is added to, and that router stores nothing. The invariants of requests
add that a shard a request has stored is still there unless somebody asked for the deletion
of that file, that whatever a session deletes was asked for, and that a provider a
health check is asking is one its registry knows, disabled or not.

*Audit worker.* The type invariant is not inductive: that no two files have the same time has to
be said of committed, flushed and taken times together, where one of them may be in two places
only if it is of one file. `WorkerInv` says so, and that a file that is not stored has no time
anywhere; `Times` renumbers, so the first thing to prove is that this changes no comparison and
that `Now` stays above all times, by counting them, hence `FilesAssumption` and `SessionsAssumption`.

*Bursts.* `DecodeSound` is about lists: one that has at each place the right fragment or none
decodes to the file or to nothing, and to the file if the parity covers the holes; the
proof has one half for the XOR of long files (`XorSound`) and one for Reed-Solomon (`RSSound`). The
invariant `WholeInv` then says that while every name had a provider nothing wrong was
stored or decoded: results are lists of that kind because names without a provider are
what shifts the others. `OutageInv` says that nothing beyond the probe was sent before one of
the probe had succeeded.

*Routing.* Everything is arithmetic of remainders: a counter kept modulo `Wrap` points where
the unbounded one would (`RemainderOfMultiple`), a move by no more than the length passes the end at
most once (`RemainderMoves`), and in a round each provider of a list without repetitions is looked at
once (`RoundIsOnce`). `CallOK` describes an undisturbed call without remembering where it began: it has
looked at what would come last in a round that began now. `LooksInv` says how the count
lies: one more for the providers before the index than for those behind it. It needs `stable`, under
which every call in progress has the whole pool as its list.

*Drivers.* `HistoryInv` is about four drivers and a stand-in that serve a request in different
ways. What each does is said once, in the terms the promises need (`Effect`: which names may
change, what is under them after success, what is unchanged after failure), and shown of each
driver (`DiskEffect` to `OneDriveEffect`); the steps then argue from `Effect` alone. The driver and
the objects are parameters of the operators, so a lemma about the objects of this state holds of those
of the next.

  * `BaseInv`: every request, with or without its caller, is one its driver makes (`Sound`), and only
    local files are ever torn: a service in the cloud has a whole object or none.
  * `CleanIn`: a clean call, one with no other call or late request on its names, is alone
    there and is sure of what lies under them at each of its steps; this is what makes an answer of
    `True` a promise that holds when it is given.
  * `OwedIn`: every promise is held under one of its names, and no request under way may
    change those names but the rename that made the promise. Without the second half neither
    `AckedIsStored` nor `RenameLosesNothing` is inductive: nothing in the state says why a
    late request for the name cannot be waiting.
  * `GoneIn`: the same of names that are promised to be free.

The proof takes `FiniteAssumption` (so that pages and requests can be counted) and `SentinelAssumption`
(an absent object is not a content, no name is not a name), which the model needs to mean what
it says.

Every invariant and action property of the passing runs is proved. Only model-checked is liveness
(`RequestsAnswered`, `CyclesEnd`, `AuditKeepsTurning`, `SkippedRepairComesRound`, `BurstIsAnswered`), which is out of the
prover's reach; and that `Decode` stands for Reed-Solomon and XOR is taken from the code, not proved.

## 5. What is not modelled, and why

* *Retrieval, listing, statistics, nodes, wallet, health, metrics*: they only read.
* *Reads of the drivers beside their writes*: `ProviderDrivers` evaluates them in a state, not
  as calls with steps of their own; a read that overlaps a write is promised nothing.
* *`create_directory`, signed URLs, usage and health requests of the drivers*: they store
  no object. *Rename, copy and directories of Google Drive*: no component calls them.
* *The sixth and the fifth registry*: `main.py`'s only serves start-up diagnostics, and
  nothing starts the healing loop.
* *Authentication, GET, HEAD and LIST of the S3 gateway*: they only read.
* *Bytes*: padding and sizes of the erasure codec, the arithmetic of Reed-Solomon. Decoding is
  modelled by what it guarantees.
* *Larger tables than the audit's window*: which 200 rows a query without an order
  returns is up to the database, and nothing is stated of them.
* *Start-up diagnostics, metrics, configuration, error formatting*: they only read.
* *Frontend, scripts, empty packages, the older copy in `vit-storage/`*: no logic of the
  system.

## 6. Plan

The order puts the life of a file first, since losing one is the worst that can happen.

1. Done: shared links with the budget they implement, and their proofs.
2. Done: the fabric, manifests, sessions, audit and repair, with the proof of durability.
3. Done: shard routing and the Google Drive driver, with their proofs.
4. Done: the audit's selection with its start-up and Redis (`AuditWorker`), the registries
   of the components (`Registries`), the other drivers (`ProviderDrivers`), all with their
   proofs.
5. Done: fragments and bursts (`Shredder`, `BurstTransfer`) and their proofs.
6. Done: connections (`VitConnect`) and their proofs.
7. Left: quarantine lengths of the registry (a first strike that shortens a longer
   quarantine is listed as a hazard, no property covers it); reads that overlap writes in the
   drivers; Drive's rename and copy, should a component come to call them; a composition of
   `AuditWorker` with `TachyonFabric`, whose selections are now arbitrary and exact in
   one module each.
