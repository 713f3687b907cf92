---------------------------- MODULE ProviderDrivers ----------------------------
(***************************************************************************)
(* The drivers of one storage account: the local disk, S3 compatible       *)
(* storage with its local stand-in, Dropbox and OneDrive                   *)
(* (tachyon/providers/).                                                   *)
(*                                                                         *)
(* A call sends one or two requests, each served and then answered.  An    *)
(* answer may be lost; a caller may give up, and the request it leaves     *)
(* behind be served late.  The disk and the stand-in work on the event     *)
(* loop and stop everything else on it, save for the disk's uploads.       *)
(***************************************************************************)
EXTENDS Integers, FiniteSets

CONSTANTS
    Callers,     \* concurrent calls of the driver
    Names,       \* names of objects: <<folder, base>>, "" being no folder
    Folder,      \* the folder that is deleted
    Prefixed,    \* base names outside of it that begin like it
    Values,      \* contents
    PageSize,    \* objects in one listing of S3
    MaxCalls,    \* bound of the calls begun
    MaxLate      \* bound of the requests served after their caller left

ASSUME NamesAssumption == Names \cap {n \in Names : n[1] = Folder} # {} /\ Folder # ""
ASSUME FiniteAssumption == IsFiniteSet(Callers) /\ IsFiniteSet(Names)
ASSUME PageAssumption  == PageSize \in Nat \ {0} /\ {MaxCalls, MaxLate} \subseteq Nat

VARIABLES
    driver,     \* the class of the provider
    secret,     \* its credentials in the environment
    objects,    \* what the account holds under each name
    calls,      \* the call of each caller
    begun,      \* calls so far
    late,       \* requests without a caller
    owed,       \* contents that answers have promised, with their names (history)
    gone        \* names that answers have promised to be free (history)

vars == <<driver, secret, objects, calls, begun, late, owed, gone>>

Absent   == "absent"
Torn     == "torn"         \* a file that was emptied and not yet written
Nothing  == "nothing"
Raised   == "raised"
Present  == "present"
EmptyOne == "empty file"
NoName   == <<"none", "none">>
Idle     == [op |-> "idle"]

ASSUME SentinelAssumption == Absent \notin Values /\ NoName \notin Names

Stored == Values \cup {Absent, Torn}
Inside == {n \in Names : n[1] = Folder}

Ops == {"upload", "delete", "rename", "copy", "delete_directory"}

Call == [op : Ops, name : Names \cup {NoName}, to : Names \cup {NoName},
         value : Values \cup {Nothing}, was : Values \cup {Nothing},
         step : 1 .. 2, served : {"sent", "ok", "failed"}, batch : SUBSET Names,
         file : Names \cup {NoName}, clean : BOOLEAN]

TypeOK ==
    /\ driver \in {"disk", "s3", "dropbox", "onedrive"}
    /\ secret \in {"none", "placeholder", "real"}
    /\ objects \in [Names -> Stored]
    /\ calls \in [Callers -> Call \cup {Idle}]
    /\ begun \in 0 .. MaxCalls
    /\ late \subseteq Call /\ Cardinality(late) <= MaxLate
    /\ owed \subseteq [value : Values, at : SUBSET Names]
    /\ gone \subseteq Names

------------------------------------------------------------------------------
(***************************************************************************)
(* Credentials.  A driver that finds a placeholder, or nothing, sends      *)
(* nothing until its process ends; S3 works in a directory under /tmp.     *)
(***************************************************************************)

Mock == driver = "s3" /\ secret # "real"

Local == driver = "disk" \/ Mock

\* The checks of the format that come before any library sees the secret.
RealToken  == secret = "real"
RealSecret == secret = "real"

\* A refresh token, which is not checked, counts as a real one.
DropboxUsable  == RealToken
OneDriveUsable == RealSecret

Usable == CASE driver = "dropbox"  -> DropboxUsable
            [] driver = "onedrive" -> OneDriveUsable
            [] OTHER               -> TRUE

Init ==
    /\ driver \in {"disk", "s3", "dropbox", "onedrive"}
    /\ secret \in CASE driver = "disk"    -> {"none"}
                    [] driver = "s3"      -> {"none", "real"}
                    [] driver = "dropbox" -> {"placeholder", "real"}
                    [] OTHER              -> {"placeholder", "real"}
    /\ objects = [n \in Names |-> Absent]
    /\ calls = [c \in Callers |-> Idle]
    /\ begun = 0 /\ late = {} /\ owed = {} /\ gone = {}

------------------------------------------------------------------------------
(***************************************************************************)
(* What serving a request leaves, and whether it is an error.              *)
(***************************************************************************)

Done(new)    == [left |-> new, ok |-> TRUE]
Refused(new) == [left |-> new, ok |-> FALSE]

Put(n, v)    == [objects EXCEPT ![n] = v]
Without(s)   == [n \in Names |-> IF n \in s THEN Absent ELSE objects[n]]
Moved(a, b)  == [objects EXCEPT ![a] = Absent, ![b] = objects[a]]
Copied(a, b) == Put(b, objects[a])

Free(n) == n \in Names /\ objects[n] = Absent
Held(s) == {n \in s : objects[n] # Absent}

\* A folder is removed file by file, and may be left half removed.
FolderRemoved == {Done(Without(Inside))} \cup {Refused(Without(s)) : s \in SUBSET Inside}

\* The file is emptied when it is opened and written after that, wherever it
\* has been moved to.
DiskServes(c) ==
    CASE c.op = "upload" /\ c.step = 1 -> {Done(Put(c.name, Torn))}
      [] c.op = "upload" /\ c.step = 2 ->
           IF c.file = NoName THEN {Done(objects)}
           ELSE {Done(Put(c.file, c.value)), Refused(objects)}
      [] c.op = "delete" -> {Done(Without({c.name}))}
      [] c.op \in {"rename", "copy"} /\ objects[c.name] = Absent -> {Refused(objects)}
      [] c.op = "rename" /\ objects[c.name] # Absent -> {Done(Moved(c.name, c.to))}
      [] c.op = "copy" /\ objects[c.name] # Absent ->
           {Done(Copied(c.name, c.to)), Refused(Put(c.to, Torn))}
      [] c.op = "delete_directory" -> FolderRemoved

MockServes(c) ==
    CASE c.op = "upload" -> {Done(Put(c.name, c.value)), Refused(Put(c.name, Torn))}
      [] OTHER -> DiskServes(c)

\* A directory of S3 is listed first.  Of what was listed, any part may be left
\* behind: errors about single keys come in an answer that is not looked at.
BatchDeleted(c) ==
    IF c.step = 1 THEN {Done(objects)} ELSE {Done(Without(s)) : s \in SUBSET c.batch}

\* Mutant: the old object is deleted first.
S3ServesDeleteFirst(c) ==
    CASE c.op = "upload" -> {Done(Put(c.name, c.value))}
      [] c.op = "delete" \/ (c.op = "rename" /\ c.step = 1) -> {Done(Without({c.name}))}
      [] c.op = "copy" \/ (c.op = "rename" /\ c.step = 2) ->
           IF objects[c.name] = Absent THEN {Refused(objects)}
           ELSE {Done(Copied(c.name, c.to))}
      [] c.op = "delete_directory" -> BatchDeleted(c)

\* S3 has no move: the object is copied and the old one deleted.  It deletes what
\* is absent without complaint.
S3Serves(c) ==
    CASE c.op = "upload" -> {Done(Put(c.name, c.value))}
      [] c.op = "delete" \/ (c.op = "rename" /\ c.step = 2) -> {Done(Without({c.name}))}
      [] c.op = "copy" \/ (c.op = "rename" /\ c.step = 1) ->
           IF objects[c.name] = Absent THEN {Refused(objects)}
           ELSE {Done(Copied(c.name, c.to))}
      [] c.op = "delete_directory" -> BatchDeleted(c)

\* Dropbox moves and copies only to a free name, and does not delete what is absent.
DropboxServes(c) ==
    CASE c.op = "upload" -> {Done(Put(c.name, c.value))}
      [] c.op = "delete" /\ objects[c.name] # Absent -> {Done(Without({c.name}))}
      [] c.op \in {"rename", "copy"} /\ objects[c.name] # Absent /\ objects[c.to] = Absent ->
           {Done(IF c.op = "rename" THEN Moved(c.name, c.to) ELSE Copied(c.name, c.to))}
      [] c.op = "delete_directory" -> {Done(Without(Inside))}
      [] OTHER -> {}

\* OneDrive is given the new name alone: it stays in the folder, and a path is
\* refused.
Landing(c) ==
    IF driver # "onedrive" THEN c.to
    ELSE IF c.to[1] = "" /\ <<c.name[1], c.to[2]>> \in Names THEN <<c.name[1], c.to[2]>>
    ELSE NoName

\* A copy is accepted and made later.
OneDriveServes(c) ==
    CASE c.op = "upload" -> {Done(Put(c.name, c.value))}
      [] c.op = "delete" /\ objects[c.name] # Absent -> {Done(Without({c.name}))}
      [] c.op = "copy" /\ c.step = 2 /\ Free(Landing(c)) ->
           {Done(Put(Landing(c), c.value))}
      [] c.op \in {"rename", "copy"} /\ c.step = 1 /\ objects[c.name] # Absent
           /\ Free(Landing(c)) ->
           {Done(IF c.op = "rename" THEN Moved(c.name, Landing(c)) ELSE objects)}
      [] c.op = "delete_directory" -> {Done(Without(Inside))}
      [] OTHER -> {}

\* Any request may be refused, for a full disk or by the service.
Serves(c) ==
    {Refused(objects)} \cup
    CASE ~ Usable            -> {}
      [] driver = "disk"     -> DiskServes(c)
      [] Mock                -> MockServes(c)
      [] driver = "s3" /\ ~ Mock             -> S3Serves(c)
      [] driver = "dropbox" /\ DropboxUsable   -> DropboxServes(c)
      [] driver = "onedrive" /\ OneDriveUsable -> OneDriveServes(c)

------------------------------------------------------------------------------
(***************************************************************************)
(* Calls.                                                                  *)
(***************************************************************************)

\* The names a call writes, and those it must have for itself to keep its promise.
Writes(c) ==
    CASE c.op = "rename" -> {c.name, Landing(c)} \cap Names
      [] c.op = "copy"   -> {Landing(c)} \cap Names
      [] c.op = "delete_directory" ->
           IF driver = "s3" THEN Inside \cup {n \in Names : n[2] \in Prefixed} ELSE Inside
      [] OTHER -> {c.name}
Touches(c) == (Writes(c) \cup {c.name, c.file}) \cap Names

\* Work on the event loop: nothing else runs on it.
Sync(c)  == Local /\ ~ (driver = "disk" /\ c.op = "upload")
LoopFree == \A h \in Callers : calls[h] # Idle => ~ Sync(calls[h])

Running == {h \in Callers : calls[h] # Idle}

Begin(h, c) ==
    /\ calls[h] = Idle /\ LoopFree /\ begun < MaxCalls
    /\ begun' = begun + 1
    /\ c.op \in {"rename", "copy"} => c.name # c.to
    /\ LET meets(d) == Touches(d) \cap Touches(c) # {}
           clean    == \A d \in late \cup {calls[g] : g \in Running} : ~ meets(d)
           was      == {o.value : o \in {q \in owed : q.at = {c.name}}}
           known    == IF was = {} \/ c.op \notin {"rename", "copy"} THEN Nothing ELSE CHOOSE v \in was : TRUE
       IN  /\ calls' = [g \in Callers |->
                           IF g = h THEN [c EXCEPT !.clean = clean, !.was = IF clean THEN known ELSE Nothing]
                           ELSE IF g \in Running /\ meets(calls[g])
                                THEN [calls[g] EXCEPT !.clean = FALSE, !.was = Nothing] ELSE calls[g]]
           /\ owed' = {o \in owed : o.at \cap Writes(c) = {}}
                        \cup (IF c.op = "rename" /\ clean /\ was # {}
                              THEN {[value |-> known, at |-> Writes(c)]} ELSE {})
           /\ gone' = gone \ Writes(c)
    /\ UNCHANGED <<driver, secret, objects, late>>

\* Where an open file of the disk is after c has been served.
Follows(file, c, left) ==
    CASE c.op = "rename" /\ file = c.name /\ left # objects -> c.to
      [] c.op = "rename" /\ file = c.to /\ left # objects   -> NoName
      [] c.op \in {"delete", "delete_directory"} /\ file # NoName /\ left[file] = Absent -> NoName
      [] OTHER -> file

\* The calls after the request c has been served.
Served(d, c, left) == [d EXCEPT !.file = Follows(@, c, left)]

\* A request without its caller.
Left(c) == [c EXCEPT !.was = Nothing, !.clean = FALSE, !.served = "sent"]

\* Mutant: the copy does not hold on to what it copies.
AcceptedEmpty(c, eff) ==
    IF driver = "onedrive" /\ c.op = "copy" /\ c.step = 1 /\ eff.ok
    THEN {[Left(c) EXCEPT !.step = 2]} ELSE {}

\* The copy that OneDrive has accepted.
Accepted(c, eff) ==
    IF driver = "onedrive" /\ c.op = "copy" /\ c.step = 1 /\ eff.ok
    THEN {[Left(c) EXCEPT !.step = 2, !.value = objects[c.name]]} ELSE {}

\* What begins like the folder, on one page.
Matches  == Held(Inside \cup {n \in Names : n[2] \in Prefixed})
Listings == {s \in SUBSET Matches :
                Cardinality(s) = IF Cardinality(Matches) < PageSize
                                 THEN Cardinality(Matches) ELSE PageSize}

Serve(h) ==
    /\ calls[h] # Idle /\ calls[h].served = "sent"
    /\ \E eff \in Serves(calls[h]), batch \in Listings :
         LET c == calls[h]
             after == [c EXCEPT
                 !.served = IF eff.ok THEN "ok" ELSE "failed",
                 !.batch  = IF c.op = "delete_directory" /\ c.step = 1 THEN batch ELSE @,
                 !.file   = IF driver = "disk" /\ c.op = "upload" /\ c.step = 1 /\ eff.ok
                            THEN c.name ELSE @]
         IN  /\ objects' = eff.left
             /\ calls' = [g \in Callers |->
                             IF g = h THEN after
                             ELSE IF g \in Running THEN Served(calls[g], c, eff.left) ELSE Idle]
             /\ late' = {Served(d, c, eff.left) : d \in late}
                          \cup Accepted(c, eff)
             /\ Cardinality(late') <= MaxLate
    /\ UNCHANGED <<driver, secret, begun, owed, gone>>

ServeLate(c) ==
    /\ c \in late
    /\ \E eff \in Serves(c) : /\ objects' = eff.left
                              /\ late' = (late \ {c}) \cup Accepted(c, eff)
    /\ UNCHANGED <<driver, secret, calls, begun, owed, gone>>

\* Mutant: an upload to the disk is answered when the file is open.
ContinuesUnwritten(c) ==
    /\ c.step = 1 /\ driver = "s3" /\ ~ Mock
    /\ c.op = "rename" \/ (c.op = "delete_directory" /\ c.batch # {})

\* The requests that follow an answer.
Continues(c) ==
    /\ c.step = 1
    /\ \/ driver = "disk" /\ c.op = "upload"
       \/ driver = "s3" /\ ~ Mock /\ c.op = "rename"
       \/ driver = "s3" /\ ~ Mock /\ c.op = "delete_directory" /\ c.batch # {}

\* What the return value is worth: nothing unless the call had its names for itself.
Promises(c) ==
    CASE c.op = "upload" -> {[value |-> c.value, at |-> {c.name}]}
      [] c.op = "copy" /\ driver # "onedrive" /\ c.was # Nothing -> {[value |-> c.was, at |-> {c.to}]}
      [] c.op = "rename" /\ c.was # Nothing -> {[value |-> c.was, at |-> {Landing(c)}]}
      [] OTHER -> {}

\* The names it says are free: one page is all that S3 deletes of a directory, and
\* of that what no error kept, so its answer is worth nothing.
Frees(c) ==
    CASE c.op = "delete"           -> {c.name}
      [] c.op = "delete_directory" -> IF driver = "s3" /\ ~ Mock THEN {} ELSE Inside
      [] OTHER -> {}

Return(h, ok) ==
    LET c == calls[h] IN
    /\ calls' = [calls EXCEPT ![h] = Idle]
    /\ owed' = IF c.clean /\ ok
               THEN {o \in owed : o.at \cap Writes(c) = {}} \cup Promises(c) ELSE owed
    /\ gone' = IF c.clean /\ ok THEN gone \cup Frees(c) ELSE gone

\* Of a rename by S3, the answer to the deletion is not looked at.
Succeeds(c, answer) ==
    answer = "ok" \/ (driver = "s3" /\ c.op = "rename" /\ c.step = 2)

\* The answer arrives, or the request times out and may still be served.
Answer(h) ==
    /\ calls[h] # Idle
    /\ \A g \in Running \ {h} : ~ Sync(calls[g])
    /\ LET c == calls[h] IN
       \E answer \in {"ok", "failed", "lost"} :
         /\ IF answer = "lost" THEN ~ Local /\ Usable ELSE answer = c.served
         /\ IF answer = "ok" /\ Continues(c)
            THEN /\ calls' = [calls EXCEPT ![h].step = 2, ![h].served = "sent"]
                 /\ UNCHANGED <<owed, gone>>
            ELSE Return(h, Succeeds(c, answer))
         /\ late' = IF answer = "lost" /\ c.served = "sent" THEN late \cup {Left(c)} ELSE late
         /\ Cardinality(late') <= MaxLate
    /\ UNCHANGED <<driver, secret, objects, begun>>

\* The caller's own timeout: the thread at work is not stopped.
Abandon(h) ==
    /\ calls[h] # Idle /\ LoopFree
    /\ calls' = [calls EXCEPT ![h] = Idle]
    /\ late' = IF calls[h].served = "sent" THEN late \cup {Left(calls[h])} ELSE late
    /\ Cardinality(late') <= MaxLate
    /\ UNCHANGED <<driver, secret, objects, begun, owed, gone>>

\* A process that ends takes its threads along, and leaves a file as it is.
Restart ==
    /\ calls' = [h \in Callers |-> Idle]
    /\ LET sent == {Left(calls[h]) : h \in {g \in Running : calls[g].served = "sent"}} IN
       /\ late' = IF Local THEN {} ELSE late \cup sent
       /\ Cardinality(late') <= MaxLate
    /\ UNCHANGED <<driver, secret, objects, begun, owed, gone>>

------------------------------------------------------------------------------
(***************************************************************************)
(* What the driver answers to one who reads.  Most errors read as absent.  *)
(***************************************************************************)

ReadOps == {"download", "stream", "exists", "metadata", "checksum", "list"}

Found(n, there) == IF objects[n] = Absent THEN Nothing ELSE there
Got(n)          == IF objects[n] = Absent THEN Raised ELSE objects[n]

\* A listing that fails, or stops at the end of a page, has nothing of the rest.
Listed(n) == {Found(n, Present), Nothing}

DiskBytes(op, n) ==
    CASE op = "download" -> {Found(n, objects[n]), Nothing}
      [] op = "stream"   -> {Got(n), Raised}
DiskTells(op, n) ==
    CASE op = "exists"                   -> {Found(n, Present)}
      [] op \in {"metadata", "checksum"} -> {Got(n), Raised}

\* The stand-in does not catch what opening a file raises.
S3Bytes(op, n) ==
    CASE op = "download" -> {Found(n, objects[n]), IF Mock THEN Raised ELSE Nothing}
      [] op = "stream"   -> {Got(n), Raised}
S3Tells(op, n) ==
    CASE op = "exists"                   -> {Found(n, Present), Nothing}
      [] op \in {"metadata", "checksum"} -> {Got(n), Raised}

DropboxBytes(op, n) ==
    CASE op = "download" -> {Found(n, objects[n]), Nothing}
      [] op = "stream"   -> {Got(n), Raised}
DropboxTells(op, n) ==
    CASE op = "exists"                   -> {Found(n, Present), Nothing}
      [] op \in {"metadata", "checksum"} -> {Got(n), Raised}

\* Mutant: whatever the answer carries is taken for the object.
OneDriveBytesAny(op, n) ==
    CASE op = "download" -> {IF objects[n] = Absent THEN EmptyOne ELSE objects[n], Nothing}
      [] op = "stream"   -> {Got(n), Raised}

OneDriveBytes(op, n) ==
    CASE op = "download" -> {Found(n, objects[n]), Nothing}
      [] op = "stream"   -> {Got(n), Raised}

\* An error is read as the description of an empty file, or as a checksum of
\* none; only the 404 of a description raises.
OneDriveTells(op, n) ==
    CASE op = "exists"   -> {Found(n, Present), Nothing}
      [] op = "metadata" -> {Got(n), Raised, EmptyOne}
      [] op = "checksum" -> {IF objects[n] = Absent THEN EmptyOne ELSE objects[n], Raised, EmptyOne}

\* Without usable credentials nothing is sent.
Unsent(op) == {IF op \in {"download", "exists", "list"} THEN Nothing ELSE Raised}

Asked(op, n) ==
    LET bytes == op \in {"download", "stream"} IN
    CASE driver = "disk"     -> IF bytes THEN DiskBytes(op, n) ELSE DiskTells(op, n)
      [] driver = "s3"       -> IF bytes THEN S3Bytes(op, n) ELSE S3Tells(op, n)
      [] driver = "dropbox"  -> IF bytes THEN DropboxBytes(op, n) ELSE DropboxTells(op, n)
      [] driver = "onedrive" -> IF bytes THEN OneDriveBytes(op, n) ELSE OneDriveTells(op, n)

Reads(op, n) ==
    IF ~ Usable THEN Unsent(op) ELSE IF op = "list" THEN Listed(n) ELSE Asked(op, n)

------------------------------------------------------------------------------

Request(op, n, to, v) ==
    [op |-> op, name |-> n, to |-> to, value |-> v, was |-> Nothing, step |-> 1,
     served |-> "sent", batch |-> {}, file |-> NoName, clean |-> TRUE]

Requests ==
    {Request("upload", n, NoName, v) : n \in Names, v \in Values}
      \cup {Request("delete", n, NoName, Nothing) : n \in Names}
      \cup {Request("delete_directory", NoName, NoName, Nothing)}
      \cup {Request(op, n, to, Nothing) : op \in {"rename", "copy"}, n, to \in Names}

Next ==
    \/ \E h \in Callers :
          \/ \E c \in Requests : Begin(h, c)
          \/ Serve(h)
          \/ Answer(h)
          \/ Abandon(h)
    \/ \E c \in late : ServeLate(c)
    \/ Restart

Spec == Init /\ [][Next]_vars

------------------------------------------------------------------------------
(***************************************************************************)
(* Properties.                                                             *)
(***************************************************************************)

\* Errors of a description or a checksum by OneDrive, told as an empty object.
Misread(op) == IF driver = "onedrive" /\ op \in {"metadata", "checksum"} THEN {EmptyOne} ELSE {}

\* What a call answered True for is there and is what a reader gets, if it gets
\* anything, until the next call for that name begins: whatever answers were lost,
\* requests served late and calls of other names interleaved.
AckedIsStored ==
    \A o \in owed : \A n \in Names : o.at = {n} =>
        /\ objects[n] = o.value
        /\ \A op \in ReadOps \ {"exists", "list"} :
              Reads(op, n) \subseteq {o.value, Nothing, Raised} \cup Misread(op)

\* At no moment of a rename, and neither when it fails, is given up or cut by a
\* restart, is the object under none of its two names.
RenameLosesNothing ==
    \A o \in owed : Cardinality(o.at) = 2 => \E n \in o.at : objects[n] = o.value

\* A name whose deletion was answered with True is free until the next call for
\* it, and no reader is told otherwise, but for what OneDrive's errors are taken
\* for.  A name is deleted by itself or with its directory, save for directories
\* of S3, whose answer is no promise.
DeletedIsGone ==
    \A n \in gone, op \in ReadOps : Reads(op, n) \subseteq {Nothing, Raised} \cup Misread(op)

\* "Delete a directory and all of its contents" (base.py): a call that had the
\* directory for itself and is about to answer True has left nothing in it.  This
\* does not hold of S3.
DirectoryIsEmptied ==
    \A h \in Running : LET c == calls[h] IN
        c.op = "delete_directory" /\ c.clean /\ c.served = "ok" /\ ~ Continues(c)
          => Held(Inside) = {}
==============================================================================
