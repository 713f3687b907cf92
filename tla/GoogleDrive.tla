------------------------------ MODULE GoogleDrive ------------------------------
(***************************************************************************)
(* The Google Drive driver (tachyon/providers/gdrive.py) and the service   *)
(* behind it.                                                              *)
(*                                                                         *)
(* Drive knows objects by id and allows any number of one name.  A driver  *)
(* looks a name up once and remembers the id, remembers the folder it      *)
(* keeps shards in, and replaces an object by deleting it first.  Every    *)
(* registry of the process has a driver of its own for the same account,   *)
(* and a driver serves any number of calls at once.                        *)
(*                                                                         *)
(* A request to the service is two steps: Drive serves it, and later the   *)
(* call that awaits it receives the answer.                                *)
(***************************************************************************)
EXTENDS Naturals, FiniteSets

CONSTANTS
    Names,       \* names of shards
    Instances,   \* GoogleDriveProvider objects of one account
    Calls,       \* concurrent calls of upload, download and delete
    Folders,     \* ids of folders named tachyon_fragments
    Root,        \* _GDRIVE_ROOT_SENTINEL
    Unset,       \* _folder_id is None
    Homes,       \* values of GDRIVE_<ID>_FOLDER_ID to be considered
    Outages,     \* whether requests or their answers may get lost
    MaxId        \* bound of the objects ever created

ASSUME FolderAssumption == Root \notin Folders /\ Unset \notin Folders \cup {Root}
ASSUME HomeAssumption   == Homes \subseteq Folders \cup {Unset}
ASSUME BoundAssumption  == MaxId \in Nat /\ Outages \in BOOLEAN

VARIABLES
    drive,       \* the objects, by id
    folders,     \* the folders of that name that exist
    home,        \* the folder id the configuration gives
    cache,       \* _name_to_id of each driver, 0 for no entry
    folder,      \* _folder_id of each driver
    call,        \* the calls in progress
    contended,   \* names two writers of which were at work at once (history)
    settled,     \* the answer to the last write of each name (history)
    latest,      \* the object the last successful upload of a name made (history)
    split        \* shards may be in more than one place (history)

drivers == <<cache, folder>>
history == <<contended, settled, latest, split>>
vars    == <<drive, folders, home, drivers, call, history>>

Ids == 1 .. MaxId

Free == {x \in Ids : drive[x].state = "free"}

Live(n) == {x \in Ids : drive[x].state = "live" /\ drive[x].name = n}

Idle == [pc |-> "idle"]

Call == [pc : {"listing", "making", "searching", "removing", "creating", "reading"},
         op : {"upload", "download", "delete"}, name : Names, inst : Instances,
         got : {"pending", "ok", "none", "failed"},
         id : Ids \cup {0}, dir : Folders \cup {Root, Unset}, floor : Ids \cup {0}]

TypeOK ==
    /\ drive \in [Ids -> [state : {"free", "live", "gone"}, name : Names,
                          dir : Folders \cup {Root, Unset}]]
    /\ folders \subseteq Folders /\ home \in Homes
    /\ cache \in [Instances -> [Names -> Ids \cup {0}]]
    /\ folder \in [Instances -> Folders \cup {Root, Unset}]
    /\ call \in [Calls -> Call \cup {Idle}]
    /\ \A c \in Calls : call[c].pc \in {"removing", "reading"} => call[c].id # 0
    /\ contended \subseteq Names
    /\ settled \in [Names -> {"unknown", "stored", "deleted"}]
    /\ latest \in [Names -> Ids \cup {0}]
    /\ split \in BOOLEAN

\* What a driver knows when it is built.
NoIds  == [i \in Instances |-> [n \in Names |-> 0]]
AtHome == [i \in Instances |-> home]

Init ==
    /\ \E n \in Names : drive = [x \in Ids |-> [state |-> "free", name |-> n, dir |-> Unset]]
    /\ home \in Homes
    /\ folders = {home} \ {Unset}
    /\ cache = NoIds /\ folder = AtHome
    /\ call = [c \in Calls |-> Idle]
    /\ contended = {}
    /\ settled = [n \in Names |-> "unknown"]
    /\ latest = [n \in Names |-> 0]
    /\ split = FALSE

------------------------------------------------------------------------------
(***************************************************************************)
(* A call sends its next request.                                          *)
(***************************************************************************)

Send(r, pc) == [r EXCEPT !.pc = pc, !.got = "pending", !.id = 0]

\* The object is known: to be read, or to be removed.
Use(r, x) ==
    [Send(r, IF r.op = "download" THEN "reading" ELSE "removing") EXCEPT !.id = x]

\* Mutant: an entry that was emptied counts as an entry.
ResolveEntry(r) == Use(r, cache[r.inst][r.name])

\* _resolve_file_id, the folder being known.
Resolve(r) ==
    IF cache[r.inst][r.name] # 0 THEN Use(r, cache[r.inst][r.name]) ELSE Send(r, "searching")

Writing(n) == \E c \in Calls : call[c] # Idle /\ call[c].name = n /\ call[c].op # "download"

\* A write of n begins.
WriteBegins(n) ==
    /\ contended' = IF Writing(n) THEN contended \cup {n} ELSE contended
    /\ settled' = [settled EXCEPT ![n] = "unknown"]

\* The folder is asked for first by an upload, and by others on a cache miss.
Begin(c, i, op, n) ==
    LET r == [pc |-> "listing", op |-> op, name |-> n, inst |-> i, got |-> "pending",
              id |-> 0, dir |-> folder[i],
              floor |-> IF op = "download" THEN latest[n] ELSE 0]
        asks == folder[i] = Unset /\ (op = "upload" \/ cache[i][n] = 0)
    IN
    /\ call[c] = Idle
    /\ op = "upload" => Cardinality({d \in Calls : call[d] # Idle}) < Cardinality(Free)
    /\ call' = [call EXCEPT ![c] = IF asks THEN r ELSE Resolve(r)]
    /\ IF op = "download" THEN UNCHANGED <<contended, settled>> ELSE WriteBegins(n)
    /\ UNCHANGED <<drive, folders, home, drivers, latest, split>>

Return(c) == call' = [call EXCEPT ![c] = Idle]

------------------------------------------------------------------------------
(***************************************************************************)
(* Drive serves a request.                                                 *)
(***************************************************************************)

Waits(c, pc) == call[c] # Idle /\ call[c].pc = pc /\ call[c].got = "pending"

\* files().list of the folder: the first of them, in Drive's order.
ListServed(c) ==
    /\ Waits(c, "listing")
    /\ \/ folders = {} /\ call' = [call EXCEPT ![c].got = "none"]
       \/ \E d \in folders : call' = [call EXCEPT ![c].got = "ok", ![c].dir = d]
    /\ UNCHANGED <<drive, folders, home, drivers, history>>

MakeServed(c) ==
    /\ Waits(c, "making")
    /\ \E d \in Folders \ folders :
         /\ folders' = folders \cup {d}
         /\ call' = [call EXCEPT ![c].got = "ok", ![c].dir = d]
    /\ split' = (split \/ folders # {})
    /\ UNCHANGED <<drive, home, drivers, contended, settled, latest>>

\* In the folder, or anywhere when the driver has none.
Matches(r) == {x \in Live(r.name) : r.dir \in {Root, drive[x].dir}}

SearchServed(c) ==
    /\ Waits(c, "searching")
    /\ \/ Matches(call[c]) = {} /\ call' = [call EXCEPT ![c].got = "none"]
       \/ \E x \in Matches(call[c]) : call' = [call EXCEPT ![c].got = "ok", ![c].id = x]
    /\ UNCHANGED <<drive, folders, home, drivers, history>>

\* An object that is gone is an error, HTTP 404.
RemoveServed(c) ==
    LET x == call[c].id IN
    /\ Waits(c, "removing")
    /\ IF drive[x].state = "live"
       THEN /\ drive' = [drive EXCEPT ![x].state = "gone"]
            /\ call' = [call EXCEPT ![c].got = "ok"]
       ELSE /\ call' = [call EXCEPT ![c].got = "failed"]
            /\ UNCHANGED drive
    /\ UNCHANGED <<folders, home, drivers, history>>

CreateServed(c) ==
    /\ Waits(c, "creating")
    /\ \E x \in Free :
         /\ \A y \in Free : x <= y
         /\ drive' = [drive EXCEPT ![x] = [state |-> "live", name |-> call[c].name,
                                           dir |-> call[c].dir]]
         /\ call' = [call EXCEPT ![c].got = "ok", ![c].id = x]
    /\ UNCHANGED <<folders, home, drivers, history>>

ReadServed(c) ==
    /\ Waits(c, "reading")
    /\ call' = [call EXCEPT ![c].got =
                  IF drive[call[c].id].state = "live" THEN "ok" ELSE "failed"]
    /\ UNCHANGED <<drive, folders, home, drivers, history>>

\* A request is lost, or is served and its answer is lost.
RequestFails(c) ==
    /\ Outages
    /\ call[c] # Idle /\ call[c].got # "failed"
    /\ call' = [call EXCEPT ![c].got = "failed"]
    /\ UNCHANGED <<drive, folders, home, drivers, history>>

------------------------------------------------------------------------------
(***************************************************************************)
(* A call receives its answer.                                             *)
(***************************************************************************)

Receives(c, pc) == call[c] # Idle /\ call[c].pc = pc /\ call[c].got # "pending"

\* The call goes on with the folder: an upload looks at the cache only now, the
\* others have missed it before they asked.
GoesOn(r) == IF r.op = "upload" THEN Resolve(r) ELSE Send(r, "searching")

\* The driver will keep its shards in d from now on.
Settle(c, d) ==
    /\ folder' = [folder EXCEPT ![call[c].inst] = d]
    /\ call' = [call EXCEPT ![c] = GoesOn([@ EXCEPT !.dir = d])]
    /\ split' = (split \/ d = Root)

\* An error makes the driver use the root folder until it is built anew.
FolderAnswered(c) ==
    /\ Receives(c, "listing") \/ Receives(c, "making")
    /\ IF call[c].got = "none"
       THEN /\ call' = [call EXCEPT ![c] = Send(@, "making")]
            /\ UNCHANGED <<folder, split>>
       ELSE Settle(c, IF call[c].got = "ok" THEN call[c].dir ELSE Root)
    /\ UNCHANGED <<drive, folders, home, cache, contended, settled, latest>>

Remember(c, x) == cache' = [cache EXCEPT ![call[c].inst][call[c].name] = x]

\* The write returned True.
Done(c, what, x) ==
    /\ settled' = [settled EXCEPT ![call[c].name] = what]
    /\ latest' = IF what = "stored" THEN [latest EXCEPT ![call[c].name] = x] ELSE latest
    /\ Return(c)

\* FileNotFoundError: an upload goes on, a delete has nothing to do.
NotFound(c) ==
    CASE call[c].op = "upload"   -> /\ call' = [call EXCEPT ![c] = Send(@, "creating")]
                                    /\ UNCHANGED <<settled, latest>>
      [] call[c].op = "delete"   -> Done(c, "deleted", 0)
      [] call[c].op = "download" -> Return(c) /\ UNCHANGED <<settled, latest>>

\* Mutant: a search that failed counts as one that found nothing.
SearchAnsweredLoosely(c) ==
    /\ Receives(c, "searching")
    /\ IF call[c].got = "ok"
       THEN /\ Remember(c, call[c].id)
            /\ call' = [call EXCEPT ![c] = Use(@, @.id)]
            /\ UNCHANGED <<settled, latest>>
       ELSE NotFound(c) /\ UNCHANGED cache
    /\ UNCHANGED <<drive, folders, home, folder, contended, split>>

SearchAnswered(c) ==
    /\ Receives(c, "searching")
    /\ IF call[c].got = "ok"
       THEN /\ Remember(c, call[c].id)
            /\ call' = [call EXCEPT ![c] = Use(@, @.id)]
            /\ UNCHANGED <<settled, latest>>
       ELSE /\ IF call[c].got = "none" THEN NotFound(c)
               ELSE Return(c) /\ UNCHANGED <<settled, latest>>
            /\ UNCHANGED cache
    /\ UNCHANGED <<drive, folders, home, folder, contended, split>>

\* Mutant: an object that is gone already counts as removed.
RemoveAnsweredAlways(c) ==
    /\ Receives(c, "removing")
    /\ Remember(c, 0)
    /\ NotFound(c)
    /\ UNCHANGED <<drive, folders, home, folder, contended, split>>

RemoveAnswered(c) ==
    /\ Receives(c, "removing")
    /\ IF call[c].got = "ok"
       THEN Remember(c, 0) /\ NotFound(c)
       ELSE Return(c) /\ UNCHANGED <<cache, settled, latest>>
    /\ UNCHANGED <<drive, folders, home, folder, contended, split>>

CreateAnswered(c) ==
    /\ Receives(c, "creating")
    /\ IF call[c].got = "ok"
       THEN Remember(c, call[c].id) /\ Done(c, "stored", call[c].id)
       ELSE Return(c) /\ UNCHANGED <<cache, settled, latest>>
    /\ UNCHANGED <<drive, folders, home, folder, contended, split>>

\* The bytes of the object, or None.
ReadAnswered(c) ==
    /\ Receives(c, "reading")
    /\ Return(c)
    /\ UNCHANGED <<drive, folders, home, drivers, history>>

\* The process ends; the drivers are built anew.
Restart ==
    /\ cache' = NoIds /\ folder' = AtHome
    /\ call' = [c \in Calls |-> Idle]
    /\ UNCHANGED <<drive, folders, home, history>>

Next ==
    \/ \E c \in Calls, i \in Instances, n \in Names, op \in {"upload", "download", "delete"} :
          Begin(c, i, op, n)
    \/ \E c \in Calls :
          \/ ListServed(c) \/ MakeServed(c) \/ SearchServed(c)
          \/ RemoveServed(c) \/ CreateServed(c) \/ ReadServed(c) \/ RequestFails(c)
          \/ FolderAnswered(c) \/ SearchAnswered(c) \/ RemoveAnswered(c)
          \/ CreateAnswered(c) \/ ReadAnswered(c)
    \/ Restart

Spec == Init /\ [][Next]_vars

------------------------------------------------------------------------------
(***************************************************************************)
(* Properties.                                                             *)
(***************************************************************************)

\* Drive never holds two objects of a name, whatever uploads failed half way,
\* whatever the caches of other drivers still say, as long as the writes of that
\* name did not overlap and there is one folder.
OneObject == ~split => \A n \in Names \ contended : Cardinality(Live(n)) <= 1

\* A delete that answered True left no object of that name, not even when the
\* driver's cache was out of date.
DeletedIsGone ==
    ~split => \A n \in Names \ contended : settled[n] = "deleted" => Live(n) = {}

\* A download returns the bytes of the last successful upload before it began, or
\* later ones, or nothing: never those an upload has replaced.
FreshOrNothing ==
    ~split => \A c \in Calls :
        call[c] # Idle /\ call[c].pc = "reading" /\ call[c].got = "ok"
            /\ call[c].name \notin contended
        => call[c].id >= call[c].floor

\* What an upload reported as stored is found by every later search for it.
StoredIsFound ==
    \A c \in Calls :
        ~ /\ call[c] # Idle /\ call[c].pc = "searching" /\ call[c].got = "none"
          /\ call[c].op = "download" /\ call[c].name \notin contended
          /\ settled[call[c].name] = "stored"
          /\ call[c].floor = latest[call[c].name]
==============================================================================
