--------------------------- MODULE GoogleDrive_proofs ---------------------------
(***************************************************************************)
(* Proofs about GoogleDrive, for any names, drivers, calls and objects.    *)
(***************************************************************************)
EXTENDS GoogleDrive, FiniteSetTheorems, TLAPS

USE FolderAssumption, HomeAssumption, BoundAssumption

Busy(c)     == call[c] # Idle
Named(x, n) == drive[x].state # "free" /\ drive[x].name = n

(***************************************************************************)
(* Objects are numbered as they are made, and an id belongs to one name    *)
(* for good, wherever it is remembered.                                    *)
(***************************************************************************)
Ordered == \A x \in Free, y \in Ids \ Free : y < x

NamedCall(r) ==
    /\ r.id # 0 => Named(r.id, r.name)
    /\ r.pc = "creating" => r.op = "upload"
    /\ r.pc = "removing" => r.op # "download"
    /\ r.pc = "searching" /\ r.got = "ok" => r.id # 0

NameInv ==
    /\ Ordered
    /\ \A i \in Instances, n \in Names : cache[i][n] # 0 => Named(cache[i][n], n)
    /\ \A n \in Names : latest[n] # 0 => Named(latest[n], n)
    /\ \A c \in Calls : Busy(c) => NamedCall(call[c])

(***************************************************************************)
(* As long as shards are in one place, it is the only folder there is.     *)
(***************************************************************************)
Placed(r) == \/ r.pc \in {"listing", "making"} /\ r.got = "ok"
             \/ r.pc \in {"searching", "creating"}
             \/ r.pc = "removing" /\ r.op = "upload"

PlaceInv ==
    ~ split =>
    /\ \A d, e \in folders : d = e
    /\ home \in folders \cup {Unset}
    /\ \A i \in Instances : folder[i] \in folders \cup {Unset}
    /\ \A x \in Ids : drive[x].state = "live" => drive[x].dir \in folders
    /\ \A c \in Calls : Busy(c) /\ Placed(call[c]) => call[c].dir \in folders

(***************************************************************************)
(* What the one writer of a name has found out about it still holds.       *)
(***************************************************************************)
Alone(n)     == ~ split /\ n \notin contended
Writer(c, n) == Busy(c) /\ call[c].name = n /\ call[c].op # "download"

NoneLive(r) == \/ r.pc = "searching" /\ r.got = "none"
               \/ r.pc = "removing" /\ r.got = "ok"
               \/ r.pc = "creating" /\ r.got = "pending"

ObjectOK(n) ==
    /\ \A x, y \in Live(n) : x = y
    /\ \A x \in Live(n) : x >= latest[n]
    /\ settled[n] = "deleted" => Live(n) = {}

WriterOK(r, n) ==
    /\ settled[n] = "unknown"
    /\ NoneLive(r) => Live(n) = {}
    /\ r.pc = "creating" /\ r.got = "ok" =>
          Live(n) \subseteq {r.id} /\ r.id >= latest[n] /\ r.id # 0

Solo(n) ==
    /\ ObjectOK(n)
    /\ \A c, d \in Calls : Writer(c, n) /\ Writer(d, n) => c = d
    /\ \A c \in Calls : Writer(c, n) => WriterOK(call[c], n)

SoloInv == \A n \in Names : Alone(n) => Solo(n)

\* A reader is given nothing older than what there was when it began.
ReadOK(r) ==
    Alone(r.name) =>
    /\ r.floor <= latest[r.name]
    /\ r.pc = "reading" /\ r.got = "ok" => r.id >= r.floor

ReadInv == \A c \in Calls : Busy(c) => ReadOK(call[c])

DriveInv == TypeOK /\ NameInv /\ PlaceInv /\ SoloInv /\ ReadInv

------------------------------------------------------------------------------
(***************************************************************************)
(* The records of the calls.                                               *)
(***************************************************************************)

\* A call in progress is no idle one.
LEMMA CallKinds ==
    /\ Idle \notin Call
    /\ TypeOK => \A c \in Calls : Busy(c) => call[c] \in Call
BY DEF Idle, Call, TypeOK, Busy

Same(q, r) ==
    q.op = r.op /\ q.name = r.name /\ q.inst = r.inst /\ q.floor = r.floor /\ q.dir = r.dir

\* A request that is sent names no object yet.
LEMMA SendIs ==
    ASSUME NEW r \in Call, NEW pc \in {"making", "searching", "creating"}
    PROVE  LET q == Send(r, pc) IN
           q \in Call /\ Same(q, r) /\ q.pc = pc /\ q.got = "pending" /\ q.id = 0
BY DEF Call, Send, Same

\* A request for an object that is known.
LEMMA UseIs ==
    ASSUME NEW r \in Call, NEW x \in Ids \cup {0}
    PROVE  LET q == Use(r, x) IN
           /\ q \in Call /\ Same(q, r) /\ q.got = "pending" /\ q.id = x
           /\ q.pc = IF r.op = "download" THEN "reading" ELSE "removing"
BY DEF Call, Use, Send, Same

\* A name is used if its id is known, and searched for if it is not.
LEMMA ResolveIs ==
    ASSUME TypeOK, NEW r \in Call
    PROVE  LET q == Resolve(r)  e == cache[r.inst][r.name] IN
           /\ q \in Call /\ Same(q, r) /\ q.got = "pending" /\ q.id = e /\ e \in Ids \cup {0}
           /\ q.pc = IF e = 0 THEN "searching" ELSE IF r.op = "download" THEN "reading" ELSE "removing"
<1> DEFINE e == cache[r.inst][r.name]
<1>1. e \in Ids \cup {0}
  BY DEF TypeOK, Call
<1>2. CASE e = 0
  BY <1>2, SendIs DEF Resolve
<1>3. CASE e # 0
  BY <1>1, <1>3, UseIs DEF Resolve
<1> QED BY <1>1, <1>2, <1>3

\* The record of a call that begins.
Opened(c, i, op, n) ==
    [pc |-> "listing", op |-> op, name |-> n, inst |-> i, got |-> "pending", id |-> 0,
     dir |-> folder[i], floor |-> IF op = "download" THEN latest[n] ELSE 0]

\* It is the record of a call in progress.
LEMMA OpenedIs ==
    ASSUME TypeOK, NEW c \in Calls, NEW i \in Instances, NEW n \in Names,
           NEW op \in {"upload", "download", "delete"}
    PROVE  Opened(c, i, op, n) \in Call
BY DEF Opened, Call, TypeOK

\* The call that begins goes to the folder, to the search, or to the object.
LEMMA BeginIs ==
    ASSUME TypeOK, NEW c \in Calls, NEW i \in Instances, NEW n \in Names,
           NEW op \in {"upload", "download", "delete"}, Begin(c, i, op, n)
    PROVE  \E q \in Call :
             /\ call' = [call EXCEPT ![c] = q]
             /\ q.op = op /\ q.name = n /\ q.inst = i /\ q.dir = folder[i] /\ q.got = "pending"
             /\ q.floor = IF op = "download" THEN latest[n] ELSE 0
             /\ q.id \in {0, cache[i][n]}
             /\ q.pc \in {"listing", "searching", "removing", "reading"}
             /\ q.pc = "searching" => folder[i] # Unset
             /\ q.pc = "removing" => op # "download" /\ (op = "upload" => folder[i] # Unset)
             /\ q.pc \in {"removing", "reading"} => q.id # 0
<1> DEFINE r == Opened(c, i, op, n)
           asks == folder[i] = Unset /\ (op = "upload" \/ cache[i][n] = 0)
<1>1. r \in Call
  BY OpenedIs
<1>2. call' = [call EXCEPT ![c] = IF asks THEN r ELSE Resolve(r)]
  BY DEF Begin, Opened
<1>3. /\ r.op = op /\ r.name = n /\ r.inst = i /\ r.dir = folder[i] /\ r.pc = "listing"
      /\ r.got = "pending" /\ r.id = 0
      /\ r.floor = IF op = "download" THEN latest[n] ELSE 0
  BY DEF Opened
<1>4. CASE asks
  BY <1>1, <1>2, <1>3, <1>4
<1>5. CASE ~ asks
  <2> DEFINE q == Resolve(r)
  <2>1. /\ q \in Call /\ Same(q, r) /\ q.got = "pending" /\ q.id = cache[i][n]
        /\ q.pc = IF cache[i][n] = 0 THEN "searching"
                  ELSE IF op = "download" THEN "reading" ELSE "removing"
    BY <1>1, <1>3, ResolveIs
  <2> HIDE DEF r
  <2>2. call' = [call EXCEPT ![c] = q]
    BY <1>2, <1>5
  <2> HIDE DEF q
  <2> QED BY <2>1, <2>2, <1>3, <1>5 DEF Same
<1> QED BY <1>4, <1>5

\* The answer to a request for the folder.
LEMMA FolderAnsweredIs ==
    ASSUME TypeOK, NEW c \in Calls, FolderAnswered(c)
    PROVE  /\ Busy(c) /\ call[c] \in Call /\ call[c].pc \in {"listing", "making"}
           /\ UNCHANGED <<drive, folders, home, cache, contended, settled, latest>>
           /\ \E q \in Call :
                /\ call' = [call EXCEPT ![c] = q]
                /\ q.op = call[c].op /\ q.name = call[c].name /\ q.inst = call[c].inst
                /\ q.floor = call[c].floor /\ q.got = "pending"
                /\ \/ q.pc = "making" /\ q.id = 0 /\ UNCHANGED <<folder, split>>
                   \/ /\ q.id \in {0, cache[q.inst][q.name]}
                      /\ q.pc = IF q.id = 0 THEN "searching"
                                ELSE IF q.op = "download" THEN "reading" ELSE "removing"
                      /\ folder' = [folder EXCEPT ![q.inst] = q.dir]
                      /\ \/ call[c].got = "ok" /\ q.dir = call[c].dir /\ split' = (split \/ q.dir = Root)
                         \/ q.dir = Root /\ split'
<1>1. Busy(c) /\ call[c] \in Call /\ call[c].pc \in {"listing", "making"}
  BY CallKinds DEF FolderAnswered, Receives, Busy
<1>2. CASE call[c].got = "none"
  BY <1>1, <1>2, SendIs DEF FolderAnswered, Same
<1>3. CASE call[c].got # "none"
  <2> DEFINE d == IF call[c].got = "ok" THEN call[c].dir ELSE Root
             r == [call[c] EXCEPT !.dir = d]
             q == GoesOn(r)
  <2>1. /\ r \in Call /\ r.op = call[c].op /\ r.name = call[c].name /\ r.inst = call[c].inst
        /\ r.floor = call[c].floor /\ r.dir = d
    BY <1>1 DEF Call
  <2>2. Settle(c, d)
    BY <1>3 DEF FolderAnswered
  <2>3. call' = [call EXCEPT ![c] = q] /\ folder' = [folder EXCEPT ![call[c].inst] = d]
        /\ split' = (split \/ d = Root)
    BY <2>2 DEF Settle, TypeOK
  <2>4. UNCHANGED <<drive, folders, home, cache, contended, settled, latest>>
    BY DEF FolderAnswered
  <2> HIDE DEF r
  <2>5. /\ q \in Call /\ Same(q, r) /\ q.got = "pending" /\ q.id \in {0, cache[r.inst][r.name]}
        /\ q.pc = IF q.id = 0 THEN "searching"
                  ELSE IF r.op = "download" THEN "reading" ELSE "removing"
    BY <2>1, ResolveIs, SendIs DEF GoesOn
  <2> HIDE DEF q
  <2> QED BY <1>1, <2>1, <2>3, <2>4, <2>5 DEF Same
<1> QED BY <1>2, <1>3

\* Drive serves a request: what the call has received, and what else has changed.
LEMMA ListServedIs ==
    ASSUME TypeOK, NEW c \in Calls, ListServed(c)
    PROVE  /\ Busy(c) /\ call[c] \in Call /\ call[c].pc = "listing"
           /\ UNCHANGED <<drive, folders, home, drivers, history>>
           /\ \E q \in Call :
                /\ call' = [call EXCEPT ![c] = q]
                /\ q.op = call[c].op /\ q.name = call[c].name /\ q.inst = call[c].inst
                /\ q.floor = call[c].floor /\ q.id = call[c].id /\ q.pc = "listing"
                /\ q.got = "none" \/ q.dir \in folders
<1>1. Busy(c) /\ call[c] \in Call /\ call[c].pc = "listing"
  BY CallKinds DEF ListServed, Waits, Busy
<1>2. CASE call' = [call EXCEPT ![c].got = "none"]
  <2> DEFINE q == [call[c] EXCEPT !.got = "none"]
  <2>1. q \in Call /\ q.op = call[c].op /\ q.name = call[c].name /\ q.inst = call[c].inst
        /\ q.floor = call[c].floor /\ q.id = call[c].id /\ q.pc = "listing" /\ q.got = "none"
    BY <1>1 DEF Call
  <2> QED BY <1>1, <1>2, <2>1 DEF ListServed
<1>3. ASSUME NEW d \in folders, call' = [call EXCEPT ![c].got = "ok", ![c].dir = d]
      PROVE  \E q \in Call :
                /\ call' = [call EXCEPT ![c] = q]
                /\ q.op = call[c].op /\ q.name = call[c].name /\ q.inst = call[c].inst
                /\ q.floor = call[c].floor /\ q.id = call[c].id /\ q.pc = "listing"
                /\ q.got = "none" \/ q.dir \in folders
  <2> DEFINE q == [call[c] EXCEPT !.got = "ok", !.dir = d]
  <2>1. q \in Call /\ q.op = call[c].op /\ q.name = call[c].name /\ q.inst = call[c].inst
        /\ q.floor = call[c].floor /\ q.id = call[c].id /\ q.pc = "listing" /\ q.dir = d
    BY <1>1, <1>3 DEF Call, TypeOK
  <2>2. call' = [call EXCEPT ![c] = q]
    BY <1>1, <1>3 DEF Call, TypeOK
  <2> QED BY <1>3, <2>1, <2>2
<1> QED BY <1>1, <1>2, <1>3 DEF ListServed

\* A folder is made, whether or not there was one.
LEMMA MakeServedIs ==
    ASSUME TypeOK, NEW c \in Calls, MakeServed(c)
    PROVE  /\ Busy(c) /\ call[c] \in Call /\ call[c].pc = "making"
           /\ UNCHANGED <<drive, home, drivers, contended, settled, latest>>
           /\ split' = (split \/ folders # {})
           /\ \E q \in Call :
                /\ q.dir \in Folders
                /\ folders' = folders \cup {q.dir}
                /\ call' = [call EXCEPT ![c] = q]
                /\ q.op = call[c].op /\ q.name = call[c].name /\ q.inst = call[c].inst
                /\ q.floor = call[c].floor /\ q.id = call[c].id /\ q.pc = "making"
                /\ q.got = "ok"
<1>1. Busy(c) /\ call[c] \in Call /\ call[c].pc = "making"
  BY CallKinds DEF MakeServed, Waits, Busy
<1>2. PICK d \in Folders : folders' = folders \cup {d}
                           /\ call' = [call EXCEPT ![c].got = "ok", ![c].dir = d]
  BY DEF MakeServed
<1> DEFINE q == [call[c] EXCEPT !.got = "ok", !.dir = d]
<1>3. q \in Call /\ q.op = call[c].op /\ q.name = call[c].name /\ q.inst = call[c].inst
      /\ q.floor = call[c].floor /\ q.id = call[c].id /\ q.pc = "making" /\ q.dir = d /\ q.got = "ok"
  BY <1>1 DEF Call
<1>4. call' = [call EXCEPT ![c] = q]
  BY <1>1, <1>2 DEF Call, TypeOK
<1> HIDE DEF q
<1> QED BY <1>1, <1>2, <1>3, <1>4 DEF MakeServed

\* A search finds an object of the name, or none that matches.
LEMMA SearchServedIs ==
    ASSUME TypeOK, NEW c \in Calls, SearchServed(c)
    PROVE  /\ Busy(c) /\ call[c] \in Call /\ call[c].pc = "searching"
           /\ UNCHANGED <<drive, folders, home, drivers, history>>
           /\ \E q \in Call :
                /\ call' = [call EXCEPT ![c] = q]
                /\ q.op = call[c].op /\ q.name = call[c].name /\ q.inst = call[c].inst
                /\ q.floor = call[c].floor /\ q.dir = call[c].dir /\ q.pc = "searching"
                /\ \/ q.got = "none" /\ q.id = call[c].id /\ Matches(call[c]) = {}
                   \/ q.got = "ok" /\ q.id \in Live(q.name)
<1>1. Busy(c) /\ call[c] \in Call /\ call[c].pc = "searching"
  BY CallKinds DEF SearchServed, Waits, Busy
<1>2. CASE Matches(call[c]) = {} /\ call' = [call EXCEPT ![c].got = "none"]
  <2> DEFINE q == [call[c] EXCEPT !.got = "none"]
  <2>1. q \in Call /\ q.op = call[c].op /\ q.name = call[c].name /\ q.inst = call[c].inst
        /\ q.floor = call[c].floor /\ q.dir = call[c].dir /\ q.pc = "searching"
        /\ q.got = "none" /\ q.id = call[c].id
    BY <1>1 DEF Call
  <2> QED BY <1>1, <1>2, <2>1 DEF SearchServed
<1>3. ASSUME NEW x \in Matches(call[c]), call' = [call EXCEPT ![c].got = "ok", ![c].id = x]
      PROVE  \E q \in Call :
                /\ call' = [call EXCEPT ![c] = q]
                /\ q.op = call[c].op /\ q.name = call[c].name /\ q.inst = call[c].inst
                /\ q.floor = call[c].floor /\ q.dir = call[c].dir /\ q.pc = "searching"
                /\ q.got = "ok" /\ q.id \in Live(q.name)
  <2> DEFINE q == [call[c] EXCEPT !.got = "ok", !.id = x]
  <2>1. x \in Live(call[c].name) /\ x \in Ids
    BY DEF Matches, Live
  <2>2. q \in Call /\ q.op = call[c].op /\ q.name = call[c].name /\ q.inst = call[c].inst
        /\ q.floor = call[c].floor /\ q.dir = call[c].dir /\ q.pc = "searching" /\ q.id = x
        /\ q.got = "ok"
    BY <1>1, <2>1 DEF Call
  <2>3. call' = [call EXCEPT ![c] = q]
    BY <1>1, <1>3 DEF Call, TypeOK
  <2> HIDE DEF q
  <2> QED BY <2>1, <2>2, <2>3
<1> QED BY <1>1, <1>2, <1>3 DEF SearchServed

\* What is asked to be removed, or read, is answered by whether it is there.
Answered(c, q) ==
    /\ call' = [call EXCEPT ![c] = q]
    /\ q.op = call[c].op /\ q.name = call[c].name /\ q.inst = call[c].inst
    /\ q.floor = call[c].floor /\ q.dir = call[c].dir /\ q.pc = call[c].pc

\* A request gets an answer that carries nothing else.
LEMMA GotIs ==
    ASSUME TypeOK, NEW c \in Calls, Busy(c), NEW got \in {"pending", "ok", "none", "failed"},
           call' = [call EXCEPT ![c].got = got]
    PROVE  \E q \in Call : Answered(c, q) /\ q.got = got /\ q.id = call[c].id
<1> DEFINE q == [call[c] EXCEPT !.got = got]
<1>1. call[c] \in Call
  BY CallKinds
<1>2. q \in Call /\ q.op = call[c].op /\ q.name = call[c].name /\ q.inst = call[c].inst
      /\ q.floor = call[c].floor /\ q.dir = call[c].dir /\ q.pc = call[c].pc
      /\ q.got = got /\ q.id = call[c].id
  BY <1>1 DEF Call
<1> QED BY <1>2 DEF Answered

\* An object that is there is removed; one that is not is an error.
LEMMA RemoveServedIs ==
    ASSUME TypeOK, NEW c \in Calls, RemoveServed(c)
    PROVE  /\ Busy(c) /\ call[c] \in Call /\ call[c].pc = "removing"
           /\ UNCHANGED <<folders, home, drivers, history>>
           /\ \E q \in Call :
                /\ Answered(c, q) /\ q.id = call[c].id
                /\ \/ /\ q.got = "ok" /\ drive[q.id].state = "live"
                      /\ drive' = [drive EXCEPT ![q.id].state = "gone"]
                   \/ q.got = "failed" /\ drive' = drive
<1>1. Busy(c) /\ call[c] \in Call /\ call[c].pc = "removing"
  BY CallKinds DEF RemoveServed, Waits, Busy
<1>2. CASE drive[call[c].id].state = "live"
  <2>1. call' = [call EXCEPT ![c].got = "ok"] /\ drive' = [drive EXCEPT ![call[c].id].state = "gone"]
    BY <1>2 DEF RemoveServed
  <2> QED BY <1>1, <1>2, <2>1, GotIs DEF RemoveServed
<1>3. CASE drive[call[c].id].state # "live"
  <2>1. call' = [call EXCEPT ![c].got = "failed"] /\ drive' = drive
    BY <1>3 DEF RemoveServed
  <2> QED BY <1>1, <2>1, GotIs DEF RemoveServed
<1> QED BY <1>2, <1>3

\* Bytes are those of an object that is there.
LEMMA ReadServedIs ==
    ASSUME TypeOK, NEW c \in Calls, ReadServed(c)
    PROVE  /\ Busy(c) /\ call[c] \in Call /\ call[c].pc = "reading"
           /\ UNCHANGED <<drive, folders, home, drivers, history>>
           /\ \E q \in Call :
                /\ Answered(c, q) /\ q.id = call[c].id
                /\ q.got = IF drive[q.id].state = "live" THEN "ok" ELSE "failed"
<1>1. Busy(c) /\ call[c] \in Call /\ call[c].pc = "reading"
  BY CallKinds DEF ReadServed, Waits, Busy
<1> DEFINE got == IF drive[call[c].id].state = "live" THEN "ok" ELSE "failed"
<1>2. got \in {"pending", "ok", "none", "failed"} /\ call' = [call EXCEPT ![c].got = got]
  BY DEF ReadServed
<1>3. PICK q \in Call : Answered(c, q) /\ q.got = got /\ q.id = call[c].id
  BY <1>1, <1>2, GotIs
<1> QED BY <1>1, <1>3 DEF ReadServed

\* A request that fails changes nothing on Drive.
LEMMA RequestFailsIs ==
    ASSUME TypeOK, NEW c \in Calls, RequestFails(c)
    PROVE  /\ Busy(c) /\ call[c] \in Call
           /\ UNCHANGED <<drive, folders, home, drivers, history>>
           /\ \E q \in Call : Answered(c, q) /\ q.id = call[c].id /\ q.got = "failed"
<1>1. Busy(c) /\ call[c] \in Call
  BY CallKinds DEF RequestFails, Busy
<1> QED BY <1>1, GotIs DEF RequestFails

\* A new object has the next id.
LEMMA CreateServedIs ==
    ASSUME TypeOK, NEW c \in Calls, CreateServed(c)
    PROVE  /\ Busy(c) /\ call[c] \in Call /\ call[c].pc = "creating" /\ call[c].got = "pending"
           /\ UNCHANGED <<folders, home, drivers, history>>
           /\ \E q \in Call :
                /\ Answered(c, q) /\ q.got = "ok"
                /\ q.id \in Free /\ \A y \in Free : q.id <= y
                /\ drive' = [drive EXCEPT ![q.id] = [state |-> "live", name |-> q.name, dir |-> q.dir]]
<1>1. Busy(c) /\ call[c] \in Call /\ call[c].pc = "creating" /\ call[c].got = "pending"
  BY CallKinds DEF CreateServed, Waits, Busy
<1>2. PICK x \in Free :
         /\ \A y \in Free : x <= y
         /\ drive' = [drive EXCEPT ![x] = [state |-> "live", name |-> call[c].name,
                                           dir |-> call[c].dir]]
         /\ call' = [call EXCEPT ![c].got = "ok", ![c].id = x]
  BY DEF CreateServed
<1> DEFINE q == [call[c] EXCEPT !.got = "ok", !.id = x]
<1>3. x \in Ids
  BY DEF Free
<1>4. q \in Call /\ q.op = call[c].op /\ q.name = call[c].name /\ q.inst = call[c].inst
      /\ q.floor = call[c].floor /\ q.dir = call[c].dir /\ q.pc = call[c].pc /\ q.id = x
      /\ q.got = "ok"
  BY <1>1, <1>3 DEF Call
<1>5. call' = [call EXCEPT ![c] = q]
  BY <1>1, <1>2 DEF Call, TypeOK
<1> HIDE DEF q
<1> QED BY <1>1, <1>2, <1>4, <1>5 DEF Answered, CreateServed

Remembers(c, x) == cache' = [cache EXCEPT ![call[c].inst][call[c].name] = x]
Ended(c)        == call' = [call EXCEPT ![c] = Idle]

\* The answers to a search and to a removal.
LEMMA SearchAnsweredIs ==
    ASSUME TypeOK, NEW c \in Calls, SearchAnswered(c)
    PROVE  /\ Busy(c) /\ call[c] \in Call /\ call[c].pc = "searching"
           /\ UNCHANGED <<drive, folders, home, folder, contended, split, latest>>
           /\ \/ /\ call[c].got = "ok" /\ UNCHANGED settled
                 /\ Remembers(c, call[c].id)
                 /\ \E q \in Call :
                      /\ call' = [call EXCEPT ![c] = q]
                      /\ Same(q, call[c]) /\ q.got = "pending" /\ q.id = call[c].id
                      /\ q.pc = IF q.op = "download" THEN "reading" ELSE "removing"
              \/ /\ call[c].got = "none" /\ call[c].op = "upload" /\ UNCHANGED <<cache, settled>>
                 /\ \E q \in Call :
                      /\ call' = [call EXCEPT ![c] = q]
                      /\ Same(q, call[c]) /\ q.got = "pending" /\ q.id = 0 /\ q.pc = "creating"
              \/ /\ call[c].got = "none" /\ call[c].op = "delete" /\ UNCHANGED cache
                 /\ settled' = [settled EXCEPT ![call[c].name] = "deleted"]
                 /\ Ended(c)
              \/ Ended(c) /\ UNCHANGED <<cache, settled>>
<1>1. Busy(c) /\ call[c] \in Call /\ call[c].pc = "searching"
  BY CallKinds DEF SearchAnswered, Receives, Busy
<1>2. /\ call[c].op \in {"upload", "delete", "download"} /\ call[c].id \in Ids \cup {0}
  BY <1>1 DEF Call
<1>3. CASE call[c].got = "ok"
  <2> DEFINE q == Use(call[c], call[c].id)
  <2>1. /\ call' = [call EXCEPT ![c] = q] /\ Remembers(c, call[c].id)
        /\ UNCHANGED <<drive, folders, home, folder, contended, split, latest, settled>>
    BY <1>3 DEF SearchAnswered, Remember, Remembers, TypeOK
  <2>2. /\ q \in Call /\ Same(q, call[c]) /\ q.got = "pending" /\ q.id = call[c].id
        /\ q.pc = IF call[c].op = "download" THEN "reading" ELSE "removing"
    BY <1>1, <1>2, UseIs
  <2> HIDE DEF q
  <2> QED BY <1>1, <1>3, <2>1, <2>2 DEF Same
<1>4. CASE call[c].got = "none"
  <2>1. NotFound(c) /\ UNCHANGED cache
    BY <1>4 DEF SearchAnswered
  <2>2. CASE call[c].op = "upload"
    BY <1>1, <1>4, <2>1, <2>2, SendIs DEF NotFound, SearchAnswered
  <2>3. CASE call[c].op = "delete"
    BY <1>1, <1>4, <2>1, <2>3 DEF NotFound, SearchAnswered, Done, Return, Ended
  <2>4. CASE call[c].op = "download"
    BY <1>1, <1>4, <2>1, <2>4 DEF NotFound, SearchAnswered, Return, Ended
  <2> QED BY <1>2, <2>2, <2>3, <2>4
<1>5. CASE call[c].got \notin {"ok", "none"}
  BY <1>1, <1>5 DEF SearchAnswered, Return, Ended
<1> QED BY <1>3, <1>4, <1>5

\* After a removal that succeeded an upload creates, and a delete is done.
LEMMA RemoveAnsweredIs ==
    ASSUME TypeOK, NEW c \in Calls, RemoveAnswered(c)
    PROVE  /\ Busy(c) /\ call[c] \in Call /\ call[c].pc = "removing"
           /\ UNCHANGED <<drive, folders, home, folder, contended, split, latest>>
           /\ \/ /\ call[c].got = "ok" /\ call[c].op = "upload" /\ UNCHANGED settled
                 /\ Remembers(c, 0)
                 /\ \E q \in Call :
                      /\ call' = [call EXCEPT ![c] = q]
                      /\ Same(q, call[c]) /\ q.got = "pending" /\ q.id = 0 /\ q.pc = "creating"
              \/ /\ call[c].got = "ok" /\ call[c].op = "delete"
                 /\ Remembers(c, 0)
                 /\ settled' = [settled EXCEPT ![call[c].name] = "deleted"]
                 /\ Ended(c)
              \/ Ended(c) /\ UNCHANGED settled /\ (UNCHANGED cache \/ Remembers(c, 0))
<1>1. Busy(c) /\ call[c] \in Call /\ call[c].pc = "removing"
  BY CallKinds DEF RemoveAnswered, Receives, Busy
<1>2. call[c].op \in {"upload", "delete", "download"}
  BY <1>1 DEF Call
<1>3. CASE call[c].got = "ok"
  <2>1. NotFound(c) /\ Remembers(c, 0)
    BY <1>3 DEF RemoveAnswered, Remember, Remembers
  <2>2. CASE call[c].op = "upload"
    BY <1>1, <1>3, <2>1, <2>2, SendIs DEF NotFound, RemoveAnswered
  <2>3. CASE call[c].op = "delete"
    BY <1>1, <1>3, <2>1, <2>3 DEF NotFound, RemoveAnswered, Done, Return, Ended
  <2>4. CASE call[c].op = "download"
    BY <1>1, <1>3, <2>1, <2>4 DEF NotFound, RemoveAnswered, Return, Ended
  <2> QED BY <1>2, <2>2, <2>3, <2>4
<1>4. CASE call[c].got # "ok"
  BY <1>1, <1>4 DEF RemoveAnswered, Return, Ended
<1> QED BY <1>3, <1>4

\* The new object is remembered, and is the latest of its name.
LEMMA CreateAnsweredIs ==
    ASSUME TypeOK, NEW c \in Calls, CreateAnswered(c)
    PROVE  /\ Busy(c) /\ call[c] \in Call /\ call[c].pc = "creating" /\ Ended(c)
           /\ UNCHANGED <<drive, folders, home, folder, contended, split>>
           /\ \/ /\ call[c].got = "ok" /\ Remembers(c, call[c].id)
                 /\ settled' = [settled EXCEPT ![call[c].name] = "stored"]
                 /\ latest' = [latest EXCEPT ![call[c].name] = call[c].id]
              \/ UNCHANGED <<cache, settled, latest>>
<1>1. Busy(c) /\ call[c] \in Call /\ call[c].pc = "creating"
  BY CallKinds DEF CreateAnswered, Receives, Busy
<1>2. CASE call[c].got = "ok"
  BY <1>1, <1>2 DEF CreateAnswered, Remember, Remembers, Done, Return, Ended
<1>3. CASE call[c].got # "ok"
  BY <1>1, <1>3 DEF CreateAnswered, Return, Ended
<1> QED BY <1>2, <1>3

------------------------------------------------------------------------------
(***************************************************************************)
(* Steps.                                                                  *)
(***************************************************************************)

\* What the steps do to the call they belong to, and to the others.
LEMMA CallUpdate ==
    ASSUME TypeOK, NEW c \in Calls, NEW q, call' = [call EXCEPT ![c] = q]
    PROVE  call'[c] = q /\ \A d \in Calls \ {c} : call'[d] = call[d]
BY DEF TypeOK

\* Types of what a step by the call c changes.
CallTyped == /\ call' \in [Calls -> Call \cup {Idle}]
             /\ \A c \in Calls : call'[c].pc \in {"removing", "reading"} => call'[c].id # 0

LEMMA CallType ==
    ASSUME TypeOK, NEW c \in Calls, NEW q \in Call \cup {Idle}, call' = [call EXCEPT ![c] = q],
           q.pc \in {"removing", "reading"} => q.id # 0
    PROVE  CallTyped
<1>1. call' \in [Calls -> Call \cup {Idle}]
  BY DEF TypeOK
<1>2. \A d \in Calls : call'[d].pc \in {"removing", "reading"} => call'[d].id # 0
  BY CallUpdate DEF TypeOK
<1> QED BY <1>1, <1>2 DEF CallTyped

LEMMA CallEnds ==
    ASSUME TypeOK, NEW c \in Calls, Ended(c)
    PROVE  CallTyped
<1>1. Idle.pc = "idle"
  BY DEF Idle
<1> QED BY <1>1, CallType DEF Ended

\* The types of everything.
LEMMA TypeStep == TypeOK /\ NameInv /\ [Next]_vars => TypeOK'
<1> SUFFICES ASSUME TypeOK, NameInv, [Next]_vars PROVE TypeOK'
  OBVIOUS
<1>a. ASSUME CallTyped, UNCHANGED <<drive, folders, home, drivers, history>> PROVE TypeOK'
  BY <1>a DEF TypeOK, CallTyped, drivers, history
<1>1. ASSUME NEW c \in Calls, NEW i \in Instances, NEW n \in Names,
             NEW op \in {"upload", "download", "delete"}, Begin(c, i, op, n)
      PROVE  TypeOK'
  <2>1. CallTyped
    BY <1>1, BeginIs, CallType
  <2>2. UNCHANGED <<drive, folders, home, drivers, latest, split>>
    BY <1>1 DEF Begin
  <2>3. contended' \subseteq Names /\ settled' \in [Names -> {"unknown", "stored", "deleted"}]
    BY <1>1 DEF Begin, WriteBegins, TypeOK
  <2> QED BY <2>1, <2>2, <2>3 DEF TypeOK, CallTyped, drivers
<1>2. ASSUME NEW c \in Calls, ListServed(c) PROVE TypeOK'
  BY <1>2, <1>a, ListServedIs, CallType
<1>3. ASSUME NEW c \in Calls, MakeServed(c) PROVE TypeOK'
  <2>1. CallTyped
    BY <1>3, MakeServedIs, CallType
  <2>2. folders' \subseteq Folders
    BY <1>3, MakeServedIs DEF TypeOK
  <2>3. UNCHANGED <<drive, home, drivers, contended, settled, latest>>
    BY <1>3, MakeServedIs
  <2>4. split' \in BOOLEAN
    BY <1>3 DEF MakeServed, TypeOK
  <2> QED BY <2>1, <2>2, <2>3, <2>4 DEF TypeOK, CallTyped, drivers
<1>4. ASSUME NEW c \in Calls, SearchServed(c) PROVE TypeOK'
  BY <1>4, <1>a, SearchServedIs, CallType
<1>5. ASSUME NEW c \in Calls, RemoveServed(c) PROVE TypeOK'
  <2>1. PICK q \in Call : /\ Answered(c, q) /\ q.id = call[c].id
                          /\ \/ drive' = [drive EXCEPT ![q.id].state = "gone"]
                             \/ drive' = drive
    BY <1>5, RemoveServedIs
  <2>2. /\ call[c] \in Call /\ call[c].pc = "removing"
        /\ UNCHANGED <<folders, home, drivers, history>>
    BY <1>5, RemoveServedIs
  <2>3. q.id \in Ids
    BY <2>1, <2>2 DEF TypeOK, Call
  <2>4. CallTyped
    BY <2>1, <2>2, CallType DEF Answered, TypeOK
  <2>5. drive' \in [Ids -> [state : {"free", "live", "gone"}, name : Names,
                            dir : Folders \cup {Root, Unset}]]
    <3>1. [drive[q.id] EXCEPT !.state = "gone"]
             \in [state : {"free", "live", "gone"}, name : Names, dir : Folders \cup {Root, Unset}]
      <4>1. drive[q.id] \in [state : {"free", "live", "gone"}, name : Names,
                              dir : Folders \cup {Root, Unset}]
        BY <2>3 DEF TypeOK
      <4> QED BY <4>1
    <3>2. drive' = drive \/ drive' = [drive EXCEPT ![q.id] = [drive[q.id] EXCEPT !.state = "gone"]]
      BY <2>1, <2>3 DEF TypeOK
    <3> HIDE DEF Ids
    <3> QED BY <3>1, <3>2, <2>3 DEF TypeOK
  <2> QED BY <2>2, <2>4, <2>5 DEF TypeOK, CallTyped, drivers, history
<1>6. ASSUME NEW c \in Calls, CreateServed(c) PROVE TypeOK'
  <2>1. /\ call[c] \in Call /\ call[c].pc = "creating"
        /\ UNCHANGED <<folders, home, drivers, history>>
    BY <1>6, CreateServedIs
  <2>2. PICK q \in Call :
           /\ Answered(c, q)
           /\ q.id \in Free
           /\ drive' = [drive EXCEPT ![q.id] = [state |-> "live", name |-> q.name, dir |-> q.dir]]
    BY <1>6, CreateServedIs
  <2>3. CallTyped
    BY <2>1, <2>2, CallType DEF Answered
  <2>4. drive' \in [Ids -> [state : {"free", "live", "gone"}, name : Names,
                            dir : Folders \cup {Root, Unset}]]
    <3>1. q.name \in Names /\ q.dir \in Folders \cup {Root, Unset}
      BY DEF Call
    <3> QED BY <2>2, <3>1 DEF TypeOK
  <2> QED BY <2>1, <2>3, <2>4 DEF TypeOK, CallTyped, drivers, history
<1>7. ASSUME NEW c \in Calls, ReadServed(c) PROVE TypeOK'
  <2>1. \A q : Answered(c, q) /\ q.id = call[c].id /\ q \in Call => CallTyped
    BY CallType DEF Answered, TypeOK
  <2> QED BY <1>7, <1>a, <2>1, ReadServedIs
<1>8. ASSUME NEW c \in Calls, RequestFails(c) PROVE TypeOK'
  <2>1. \A q : Answered(c, q) /\ q.id = call[c].id /\ q \in Call => CallTyped
    BY CallType DEF Answered, TypeOK
  <2> QED BY <1>8, <1>a, <2>1, RequestFailsIs
<1>9. ASSUME NEW c \in Calls, FolderAnswered(c) PROVE TypeOK'
  <2>1. /\ call[c] \in Call
        /\ UNCHANGED <<drive, folders, home, cache, contended, settled, latest>>
    BY <1>9, FolderAnsweredIs
  <2>2. PICK q \in Call :
           /\ call' = [call EXCEPT ![c] = q]
           /\ q.pc \in {"removing", "reading"} => q.id # 0
           /\ UNCHANGED folder \/ folder' = [folder EXCEPT ![q.inst] = q.dir]
    BY <1>9, FolderAnsweredIs
  <2>5. split' \in BOOLEAN
    BY <1>9 DEF TypeOK, FolderAnswered, Settle
  <2>3. CallTyped
    BY <2>2, CallType
  <2>4. folder' \in [Instances -> Folders \cup {Root, Unset}]
    BY <2>2 DEF TypeOK, Call
  <2> QED BY <2>1, <2>3, <2>4, <2>5 DEF TypeOK, CallTyped
<1>b. ASSUME NEW c \in Calls, call[c] \in Call, NEW x \in Ids \cup {0},
             UNCHANGED cache \/ Remembers(c, x)
      PROVE  cache' \in [Instances -> [Names -> Ids \cup {0}]]
  <2> DEFINE i == call[c].inst
             of == [cache[i] EXCEPT ![call[c].name] = x]
  <2>1. i \in Instances /\ call[c].name \in Names /\ cache[i] \in [Names -> Ids \cup {0}]
    BY <1>b DEF TypeOK, Call
  <2>2. of \in [Names -> Ids \cup {0}]
    BY <2>1
  <2>3. cache' = cache \/ cache' = [cache EXCEPT ![i] = of]
    BY <1>b DEF Remembers
  <2> HIDE DEF i, of
  <2> QED BY <2>1, <2>2, <2>3 DEF TypeOK
<1>c. ASSUME NEW c \in Calls, call[c] \in Call, NEW what \in {"stored", "deleted"},
             UNCHANGED settled \/ settled' = [settled EXCEPT ![call[c].name] = what]
      PROVE  settled' \in [Names -> {"unknown", "stored", "deleted"}]
  BY <1>c DEF TypeOK, Call
<1>10. ASSUME NEW c \in Calls, SearchAnswered(c) PROVE TypeOK'
  <2>1. /\ call[c] \in Call /\ call[c].pc = "searching"
        /\ UNCHANGED <<drive, folders, home, folder, contended, split, latest>>
    BY <1>10, SearchAnsweredIs
  <2>2. call[c].id \in Ids \cup {0} /\ (call[c].got = "ok" => call[c].id # 0)
    BY <1>10, <2>1 DEF Call, NameInv, NamedCall, SearchAnswered, Receives, Busy
  <2>3. CallTyped
    BY <1>10, <2>2, SearchAnsweredIs, CallType, CallEnds
  <2>4. cache' \in [Instances -> [Names -> Ids \cup {0}]]
    BY <1>10, <1>b, <2>1, <2>2, SearchAnsweredIs
  <2>5. settled' \in [Names -> {"unknown", "stored", "deleted"}]
    BY <1>10, <1>c, <2>1, SearchAnsweredIs
  <2> QED BY <2>1, <2>3, <2>4, <2>5 DEF TypeOK, CallTyped
<1>11. ASSUME NEW c \in Calls, RemoveAnswered(c) PROVE TypeOK'
  <2>1. /\ call[c] \in Call
        /\ UNCHANGED <<drive, folders, home, folder, contended, split, latest>>
    BY <1>11, RemoveAnsweredIs
  <2>2. CallTyped
    BY <1>11, RemoveAnsweredIs, CallType, CallEnds
  <2>3. cache' \in [Instances -> [Names -> Ids \cup {0}]]
    BY <1>11, <1>b, <2>1, RemoveAnsweredIs
  <2>4. settled' \in [Names -> {"unknown", "stored", "deleted"}]
    BY <1>11, <1>c, <2>1, RemoveAnsweredIs
  <2> QED BY <2>1, <2>2, <2>3, <2>4 DEF TypeOK, CallTyped
<1>12. ASSUME NEW c \in Calls, CreateAnswered(c) PROVE TypeOK'
  <2>1. /\ call[c] \in Call /\ Ended(c)
        /\ UNCHANGED <<drive, folders, home, folder, contended, split>>
    BY <1>12, CreateAnsweredIs
  <2>2. call[c].id \in Ids \cup {0} /\ call[c].name \in Names
    BY <2>1 DEF Call
  <2>3. CallTyped
    BY <2>1, CallEnds
  <2>4. cache' \in [Instances -> [Names -> Ids \cup {0}]]
    BY <1>12, <1>b, <2>1, <2>2, CreateAnsweredIs
  <2>5. settled' \in [Names -> {"unknown", "stored", "deleted"}]
    BY <1>12, <1>c, <2>1, CreateAnsweredIs
  <2>6. latest' \in [Names -> Ids \cup {0}]
    BY <1>12, <2>2, CreateAnsweredIs DEF TypeOK
  <2> QED BY <2>1, <2>3, <2>4, <2>5, <2>6 DEF TypeOK, CallTyped
<1>13. ASSUME NEW c \in Calls, ReadAnswered(c) PROVE TypeOK'
  BY <1>13, <1>a, CallEnds DEF ReadAnswered, Return, Ended
<1>14. CASE Restart
  <2>1. CallTyped
    <3>1. call' = [c \in Calls |-> Idle] /\ Idle.pc = "idle"
      BY <1>14 DEF Restart, Idle
    <3> QED BY <3>1 DEF CallTyped
  <2>2. cache' \in [Instances -> [Names -> Ids \cup {0}]]
    BY <1>14 DEF Restart, NoIds
  <2>3. folder' \in [Instances -> Folders \cup {Root, Unset}]
    BY <1>14 DEF Restart, AtHome, TypeOK
  <2>4. UNCHANGED <<drive, folders, home, history>>
    BY <1>14 DEF Restart
  <2> QED BY <2>1, <2>2, <2>3, <2>4 DEF TypeOK, CallTyped, history
<1>15. CASE UNCHANGED vars
  BY <1>15 DEF TypeOK, vars, drivers, history
<1> QED BY <1>1, <1>2, <1>3, <1>4, <1>5, <1>6, <1>7, <1>8, <1>9, <1>10, <1>11, <1>12, <1>13,
           <1>14, <1>15 DEF Next

\* An object is removed.
LEMMA RemovedIs ==
    ASSUME TypeOK, NEW x \in Ids, drive[x].state = "live",
           drive' = [drive EXCEPT ![x].state = "gone"]
    PROVE  /\ Free' = Free
           /\ \A n \in Names : Live(n)' = Live(n) \ {x}
           /\ \A y \in Ids : /\ \A n \in Names : Named(y, n) => Named(y, n)'
                             /\ drive'[y].dir = drive[y].dir
                             /\ drive'[y].state = "live" => drive[y].state = "live"
<1>1. /\ drive'[x].state = "gone" /\ drive'[x].name = drive[x].name /\ drive'[x].dir = drive[x].dir
      /\ \A y \in Ids \ {x} : drive'[y] = drive[y]
  BY DEF TypeOK
<1> QED BY <1>1 DEF Free, Live, Named

\* An object is made.
LEMMA CreatedIs ==
    ASSUME TypeOK, NEW x \in Free, NEW r \in Call,
           drive' = [drive EXCEPT ![x] = [state |-> "live", name |-> r.name, dir |-> r.dir]]
    PROVE  /\ Free' = Free \ {x}
           /\ \A y \in Ids : \A n \in Names : Named(y, n) => Named(y, n)'
           /\ x \in Ids /\ Named(x, r.name)'
           /\ drive'[x].dir = r.dir
           /\ \A y \in Ids \ {x} : drive'[y] = drive[y]
<1>1. x \in Ids /\ drive[x].state = "free"
  BY DEF Free
<1>2. /\ drive'[x].state = "live" /\ drive'[x].name = r.name /\ drive'[x].dir = r.dir
      /\ \A y \in Ids \ {x} : drive'[y] = drive[y]
  BY <1>1 DEF TypeOK
<1> QED BY <1>1, <1>2 DEF Free, Live, Named

Made(x, r) == drive' = [drive EXCEPT ![x] = [state |-> "live", name |-> r.name, dir |-> r.dir]]

\* The new object is live, under its own name only.
LEMMA CreatedLive ==
    ASSUME TypeOK, NEW x \in Free, NEW r \in Call, NEW n \in Names, Made(x, r)
    PROVE  /\ n = r.name => Live(n)' = Live(n) \cup {x}
           /\ n # r.name => Live(n)' = Live(n)
<1>1. x \in Ids /\ drive[x].state = "free"
  BY DEF Free
<1>2. /\ drive'[x].state = "live" /\ drive'[x].name = r.name
      /\ \A y \in Ids \ {x} : drive'[y] = drive[y]
  BY <1>1 DEF TypeOK, Made
<1> QED BY <1>1, <1>2 DEF Live

\* Names are kept by a step of one call.
LEMMA NameKept ==
    ASSUME TypeOK, NameInv, Ordered',
           \A y \in Ids : \A n \in Names : Named(y, n) => Named(y, n)',
           NEW c \in Calls, NEW q \in Call \cup {Idle}, call' = [call EXCEPT ![c] = q],
           q # Idle => NamedCall(q)',
           \A i \in Instances, n \in Names :
              cache'[i][n] # 0 => cache'[i][n] = cache[i][n] \/ Named(cache[i][n], n)',
           \A n \in Names : latest'[n] = 0 \/ latest'[n] = latest[n] \/ Named(latest[n], n)'
    PROVE  NameInv'
<1>1. \A d \in Calls : Busy(d)' => NamedCall(call[d])'
  <2> SUFFICES ASSUME NEW d \in Calls, Busy(d)', d # c PROVE NamedCall(call[d])'
    BY CallUpdate DEF Busy
  <2>1. call'[d] = call[d] /\ call[d] \in Call /\ NamedCall(call[d])
    BY CallUpdate, CallKinds DEF Busy, NameInv
  <2> QED BY <2>1 DEF NamedCall, Call
<1>2. \A i \in Instances, n \in Names : cache'[i][n] # 0 => Named(cache[i][n], n)'
  BY DEF NameInv, TypeOK
<1>3. \A n \in Names : latest'[n] # 0 => Named(latest[n], n)'
  BY DEF NameInv, TypeOK
<1> QED BY <1>1, <1>2, <1>3 DEF NameInv

\* An id keeps its name.
LEMMA NameStep == TypeOK /\ NameInv /\ [Next]_vars => NameInv'
<1> SUFFICES ASSUME TypeOK, NameInv, [Next]_vars PROVE NameInv'
  OBVIOUS
<1>a. ASSUME UNCHANGED drive
      PROVE  Ordered' /\ \A y \in Ids : \A n \in Names : Named(y, n) <=> Named(y, n)'
  BY <1>a DEF NameInv, Ordered, Free, Named
<1>b. ASSUME NEW c \in Calls, NEW q \in Call \cup {Idle}, call' = [call EXCEPT ![c] = q],
             UNCHANGED <<drive, cache, latest>>, q # Idle => NamedCall(q)
      PROVE  NameInv'
  <2>1. Ordered' /\ \A y \in Ids : \A n \in Names : Named(y, n) => Named(y, n)'
    BY <1>a, <1>b
  <2>2. q # Idle => NamedCall(q)'
    BY <1>b DEF NamedCall, Named
  <2> QED BY <1>b, <2>1, <2>2, NameKept
<1>1. ASSUME NEW c \in Calls, NEW i \in Instances, NEW n \in Names,
             NEW op \in {"upload", "download", "delete"}, Begin(c, i, op, n)
      PROVE  NameInv'
  <2>1. PICK q \in Call :
             /\ call' = [call EXCEPT ![c] = q]
             /\ q.op = op /\ q.name = n /\ q.id \in {0, cache[i][n]} /\ q.got = "pending"
             /\ q.pc \in {"listing", "searching", "removing", "reading"}
             /\ q.pc = "removing" => op # "download"
    BY <1>1, BeginIs
  <2>2. UNCHANGED <<drive, cache, latest>>
    BY <1>1 DEF Begin, drivers
  <2>3. NamedCall(q)
    BY <2>1 DEF NamedCall, NameInv
  <2> QED BY <2>1, <2>2, <2>3, <1>b
<1>2. ASSUME NEW c \in Calls, ListServed(c) PROVE NameInv'
  <2>1. Busy(c) /\ call[c].pc = "listing" /\ UNCHANGED <<drive, cache, latest>>
    BY <1>2, ListServedIs DEF drivers, history
  <2>2. PICK q \in Call :
                /\ call' = [call EXCEPT ![c] = q]
                /\ q.name = call[c].name /\ q.id = call[c].id /\ q.pc = "listing"
    BY <1>2, ListServedIs
  <2>3. NamedCall(q)
    BY <2>1, <2>2 DEF NamedCall, NameInv
  <2> QED BY <2>1, <2>2, <2>3, <1>b
<1>3. ASSUME NEW c \in Calls, MakeServed(c) PROVE NameInv'
  <2>1. Busy(c) /\ call[c].pc = "making" /\ UNCHANGED <<drive, cache, latest>>
    BY <1>3, MakeServedIs DEF drivers
  <2>2. PICK q \in Call :
                /\ call' = [call EXCEPT ![c] = q]
                /\ q.name = call[c].name /\ q.id = call[c].id /\ q.pc = "making"
    BY <1>3, MakeServedIs
  <2>3. NamedCall(q)
    BY <2>1, <2>2 DEF NamedCall, NameInv
  <2> QED BY <2>1, <2>2, <2>3, <1>b
<1>4. ASSUME NEW c \in Calls, SearchServed(c) PROVE NameInv'
  <2>1. Busy(c) /\ call[c].pc = "searching" /\ UNCHANGED <<drive, cache, latest>>
    BY <1>4, SearchServedIs DEF drivers, history
  <2>2. PICK q \in Call :
                /\ call' = [call EXCEPT ![c] = q]
                /\ q.name = call[c].name /\ q.pc = "searching"
                /\ \/ q.got = "none" /\ q.id = call[c].id
                   \/ q.got = "ok" /\ q.id \in Live(q.name)
    BY <1>4, SearchServedIs
  <2>3. q.id \in Live(q.name) => Named(q.id, q.name) /\ q.id # 0
    BY DEF Live, Named, Ids
  <2>4. NamedCall(q)
    BY <2>1, <2>2, <2>3 DEF NamedCall, NameInv
  <2> QED BY <2>1, <2>2, <2>4, <1>b
<1>c. ASSUME NEW c \in Calls, Busy(c), NEW q \in Call, Answered(c, q), q.id = call[c].id,
             call[c].pc # "searching" \/ q.got = "failed"
      PROVE  NamedCall(q)
  BY <1>c DEF NamedCall, NameInv, Answered
<1>5. ASSUME NEW c \in Calls, RemoveServed(c) PROVE NameInv'
  <2>1. Busy(c) /\ call[c] \in Call /\ call[c].pc = "removing" /\ UNCHANGED <<cache, latest>>
    BY <1>5, RemoveServedIs DEF drivers, history
  <2>2. PICK q \in Call :
                /\ Answered(c, q) /\ q.id = call[c].id
                /\ \/ /\ drive[q.id].state = "live"
                      /\ drive' = [drive EXCEPT ![q.id].state = "gone"]
                   \/ drive' = drive
    BY <1>5, RemoveServedIs
  <2>3. NamedCall(q) /\ q.id \in Ids
    BY <1>c, <2>1, <2>2 DEF TypeOK, Call
  <2>4. Ordered' /\ \A y \in Ids : \A n \in Names : Named(y, n) => Named(y, n)'
    BY <1>a, <2>2, <2>3, RemovedIs DEF NameInv, Ordered
  <2>5. NamedCall(q)'
    BY <2>3, <2>4 DEF NamedCall, Call
  <2>6. call' = [call EXCEPT ![c] = q]
    BY <2>2 DEF Answered
  <2>7. \A n \in Names : latest'[n] = latest[n]
    BY <2>1
  <2>8. \A i \in Instances, n \in Names : cache'[i][n] = cache[i][n]
    BY <2>1
  <2> QED BY <2>4, <2>5, <2>6, <2>7, <2>8, NameKept
<1>6. ASSUME NEW c \in Calls, CreateServed(c) PROVE NameInv'
  <2>1. Busy(c) /\ call[c] \in Call /\ call[c].pc = "creating" /\ UNCHANGED <<cache, latest>>
    BY <1>6, CreateServedIs DEF drivers, history
  <2>2. PICK q \in Call :
                /\ Answered(c, q)
                /\ q.id \in Free /\ \A y \in Free : q.id <= y
                /\ drive' = [drive EXCEPT ![q.id] = [state |-> "live", name |-> q.name, dir |-> q.dir]]
    BY <1>6, CreateServedIs
  <2>3. /\ Free' = Free \ {q.id}
        /\ \A y \in Ids : \A n \in Names : Named(y, n) => Named(y, n)'
        /\ Named(q.id, q.name)'
    BY <2>2, CreatedIs
  <2>4. Ordered'
    <3>1. Free \subseteq Ids /\ Ids \subseteq Nat
      BY DEF Free, Ids
    <3> QED BY <2>2, <2>3, <3>1 DEF NameInv, Ordered
  <2>5. NamedCall(q)'
    BY <2>1, <2>2, <2>3 DEF NamedCall, NameInv, Answered
  <2>6. call' = [call EXCEPT ![c] = q]
    BY <2>2 DEF Answered
  <2>7. \A n \in Names : latest'[n] = latest[n]
    BY <2>1
  <2>8. \A i \in Instances, n \in Names : cache'[i][n] = cache[i][n]
    BY <2>1
  <2> QED BY <2>3, <2>4, <2>5, <2>6, <2>7, <2>8, NameKept
<1>7. ASSUME NEW c \in Calls, ReadServed(c) PROVE NameInv'
  <2>1. PICK q \in Call : Answered(c, q) /\ q.id = call[c].id
    BY <1>7, ReadServedIs
  <2>2. Busy(c) /\ call[c].pc = "reading" /\ UNCHANGED <<drive, cache, latest>>
    BY <1>7, ReadServedIs DEF drivers, history
  <2> QED BY <2>1, <2>2, <1>b, <1>c DEF Answered
<1>8. ASSUME NEW c \in Calls, RequestFails(c) PROVE NameInv'
  <2>1. PICK q \in Call : Answered(c, q) /\ q.id = call[c].id /\ q.got = "failed"
    BY <1>8, RequestFailsIs
  <2>2. Busy(c) /\ UNCHANGED <<drive, cache, latest>>
    BY <1>8, RequestFailsIs DEF drivers, history
  <2> QED BY <2>1, <2>2, <1>b, <1>c DEF Answered
<1>9. ASSUME NEW c \in Calls, FolderAnswered(c) PROVE NameInv'
  <2>1. UNCHANGED <<drive, cache, latest>>
    BY <1>9, FolderAnsweredIs
  <2>2. PICK q \in Call :
           /\ call' = [call EXCEPT ![c] = q] /\ q.got = "pending"
           /\ \/ q.pc = "making" /\ q.id = 0
              \/ /\ q.id \in {0, cache[q.inst][q.name]}
                 /\ q.pc = IF q.id = 0 THEN "searching"
                           ELSE IF q.op = "download" THEN "reading" ELSE "removing"
    BY <1>9, FolderAnsweredIs
  <2>3. NamedCall(q)
    BY <2>2 DEF NamedCall, NameInv, Call
  <2> QED BY <2>1, <2>2, <2>3, <1>b
<1>d. ASSUME NEW c \in Calls, call[c] \in Call, NEW x \in {0, call[c].id}, Remembers(c, x),
             NEW i \in Instances, NEW n \in Names, cache'[i][n] # 0
      PROVE  \/ cache'[i][n] = cache[i][n]
             \/ i = call[c].inst /\ n = call[c].name /\ cache'[i][n] = call[c].id
  BY <1>d DEF Remembers, TypeOK, Call
<1>e. ASSUME NEW c \in Calls, Busy(c), call[c] \in Call, UNCHANGED drive,
             UNCHANGED cache \/ (\E x \in {0, call[c].id} : Remembers(c, x)),
             NEW i \in Instances, NEW n \in Names, cache'[i][n] # 0
      PROVE  cache'[i][n] = cache[i][n] \/ Named(cache[i][n], n)'
  <2>1. cache'[i][n] = cache[i][n] \/ (n = call[c].name /\ cache'[i][n] = call[c].id)
    BY <1>e, <1>d
  <2>2. call[c].id # 0 => Named(call[c].id, call[c].name)
    BY <1>e DEF NameInv, NamedCall
  <2> QED BY <1>e, <2>1, <2>2 DEF Named
<1>f. ASSUME NEW c \in Calls, Busy(c), call[c] \in Call, UNCHANGED drive,
             NEW q \in Call \cup {Idle}, call' = [call EXCEPT ![c] = q], q # Idle => NamedCall(q),
             UNCHANGED cache \/ (\E x \in {0, call[c].id} : Remembers(c, x)),
             \A n \in Names : latest'[n] = latest[n] \/ Named(latest[n], n)'
      PROVE  NameInv'
  <2>1. Ordered' /\ \A y \in Ids : \A n \in Names : Named(y, n) => Named(y, n)'
    BY <1>a, <1>f
  <2>2. q # Idle => NamedCall(q)'
    BY <1>f DEF NamedCall, Named
  <2>3. \A i \in Instances, n \in Names :
           cache'[i][n] # 0 => cache'[i][n] = cache[i][n] \/ Named(cache[i][n], n)'
    BY <1>e, <1>f
  <2> QED BY <1>f, <2>1, <2>2, <2>3, NameKept
<1>10. ASSUME NEW c \in Calls, SearchAnswered(c) PROVE NameInv'
  <2>1. Busy(c) /\ call[c] \in Call /\ UNCHANGED <<drive, latest>> /\ NamedCall(call[c])
    BY <1>10, SearchAnsweredIs DEF NameInv
  <2>2. PICK q \in Call \cup {Idle} : call' = [call EXCEPT ![c] = q] /\ (q # Idle => NamedCall(q))
    BY <1>10, <2>1, SearchAnsweredIs DEF NamedCall, Same, Ended
  <2>3. UNCHANGED cache \/ (\E x \in {0, call[c].id} : Remembers(c, x))
    BY <1>10, SearchAnsweredIs
  <2>4. \A n \in Names : latest'[n] = latest[n]
    BY <2>1
  <2> QED BY <2>1, <2>2, <2>3, <2>4, <1>f
<1>11. ASSUME NEW c \in Calls, RemoveAnswered(c) PROVE NameInv'
  <2>1. Busy(c) /\ call[c] \in Call /\ UNCHANGED <<drive, latest>> /\ NamedCall(call[c])
    BY <1>11, RemoveAnsweredIs DEF NameInv
  <2>2. PICK q \in Call \cup {Idle} : call' = [call EXCEPT ![c] = q] /\ (q # Idle => NamedCall(q))
    BY <1>11, <2>1, RemoveAnsweredIs DEF NamedCall, Same, Ended
  <2>3. UNCHANGED cache \/ (\E x \in {0, call[c].id} : Remembers(c, x))
    BY <1>11, RemoveAnsweredIs
  <2>4. \A n \in Names : latest'[n] = latest[n]
    BY <2>1
  <2> QED BY <2>1, <2>2, <2>3, <2>4, <1>f
<1>12. ASSUME NEW c \in Calls, CreateAnswered(c) PROVE NameInv'
  <2>1. Busy(c) /\ call[c] \in Call /\ UNCHANGED drive /\ NamedCall(call[c]) /\ Ended(c)
    BY <1>12, CreateAnsweredIs DEF NameInv
  <2>2. UNCHANGED cache \/ (\E x \in {0, call[c].id} : Remembers(c, x))
    BY <1>12, CreateAnsweredIs
  <2>3. \A n \in Names : \/ latest'[n] = latest[n]
                         \/ n = call[c].name /\ latest'[n] = call[c].id
    BY <1>12, <2>1, CreateAnsweredIs DEF TypeOK
  <2>4. ASSUME NEW n \in Names PROVE latest'[n] = 0 \/ latest'[n] = latest[n] \/ Named(latest[n], n)'
    BY <2>1, <2>3 DEF NamedCall, Named
  <2>5. Ordered' /\ \A y \in Ids : \A n \in Names : Named(y, n) => Named(y, n)'
    BY <1>a, <2>1
  <2>6. \A i \in Instances, n \in Names :
           cache'[i][n] # 0 => cache'[i][n] = cache[i][n] \/ Named(cache[i][n], n)'
    BY <1>e, <2>1, <2>2
  <2> QED BY <2>1, <2>4, <2>5, <2>6, NameKept DEF Ended
<1>13. ASSUME NEW c \in Calls, ReadAnswered(c) PROVE NameInv'
  BY <1>13, <1>b DEF ReadAnswered, Return, drivers, history
<1>14. CASE Restart
  <2>1. \A c \in Calls : ~ Busy(c)'
    BY <1>14 DEF Restart, Busy
  <2>2. \A i \in Instances, n \in Names : cache'[i][n] = 0
    BY <1>14 DEF Restart, NoIds
  <2>3. UNCHANGED <<drive, latest>>
    BY <1>14 DEF Restart, history
  <2>4. Ordered'
    BY <1>a, <2>3
  <2> QED BY <2>1, <2>2, <2>3, <2>4 DEF NameInv, Named
<1>15. CASE UNCHANGED vars
  BY <1>15 DEF NameInv, Ordered, Free, NamedCall, Named, Busy, vars, drivers, history
<1> QED BY <1>1, <1>2, <1>3, <1>4, <1>5, <1>6, <1>7, <1>8, <1>9, <1>10, <1>11, <1>12, <1>13,
           <1>14, <1>15 DEF Next

\* Places are kept by a step of one call, as long as there is one.
LEMMA PlaceKept ==
    ASSUME TypeOK, PlaceInv, ~ split,
           \A d, e \in folders' : d = e, folders \subseteq folders', home' = home,
           \A i \in Instances : folder'[i] = folder[i] \/ folder'[i] \in folders',
           \A x \in Ids : drive'[x].state = "live" =>
              drive'[x].dir \in folders' \/ (drive[x].state = "live" /\ drive'[x].dir = drive[x].dir),
           NEW c \in Calls, NEW q \in Call \cup {Idle}, call' = [call EXCEPT ![c] = q],
           q # Idle /\ Placed(q) => q.dir \in folders'
    PROVE  PlaceInv'
<1>1. \A d \in Calls : Busy(d)' /\ Placed(call'[d]) => call'[d].dir \in folders'
  BY CallUpdate DEF PlaceInv, Busy
<1> QED BY <1>1 DEF PlaceInv, Placed

\* While nothing was split, a driver that has a folder has the one there is.
LEMMA PlaceStep == TypeOK /\ NameInv /\ PlaceInv /\ [Next]_vars => PlaceInv'
<1> SUFFICES ASSUME TypeOK, NameInv, PlaceInv, [Next]_vars, ~ split' PROVE PlaceInv'
  BY DEF PlaceInv
<1>a. ASSUME ~ split, UNCHANGED <<drive, folders, home, folder>>,
             NEW c \in Calls, NEW q \in Call \cup {Idle}, call' = [call EXCEPT ![c] = q],
             q # Idle /\ Placed(q) => q.dir \in folders
      PROVE  PlaceInv'
  <2>1. \A d, e \in folders : d = e
    BY <1>a DEF PlaceInv
  <2> QED BY <1>a, <2>1, PlaceKept
<1>b. ASSUME NEW c \in Calls, Busy(c), NEW q \in Call, Answered(c, q),
             UNCHANGED <<drive, folders, home, folder>>, ~ split,
             q.got # "ok" \/ call[c].pc \notin {"listing", "making"}
      PROVE  PlaceInv'
  <2>1. Placed(q) => Placed(call[c])
    BY <1>b DEF Placed, Answered
  <2>2. Placed(q) => q.dir \in folders
    BY <1>b, <2>1 DEF PlaceInv, Answered
  <2> QED BY <1>a, <1>b, <2>2 DEF Answered
<1>1. ASSUME NEW c \in Calls, NEW i \in Instances, NEW n \in Names,
             NEW op \in {"upload", "download", "delete"}, Begin(c, i, op, n)
      PROVE  PlaceInv'
  <2>1. PICK q \in Call :
             /\ call' = [call EXCEPT ![c] = q]
             /\ q.op = op /\ q.dir = folder[i] /\ q.got = "pending"
             /\ q.pc \in {"listing", "searching", "removing", "reading"}
             /\ q.pc = "searching" => folder[i] # Unset
             /\ q.pc = "removing" => (op = "upload" => folder[i] # Unset)
    BY <1>1, BeginIs
  <2>2. UNCHANGED <<drive, folders, home, folder>> /\ ~ split
    BY <1>1 DEF Begin, drivers
  <2>3. Placed(q) => q.dir \in folders
    BY <2>1, <2>2 DEF Placed, PlaceInv
  <2> QED BY <1>a, <2>1, <2>2, <2>3
<1>2. ASSUME NEW c \in Calls, ListServed(c) PROVE PlaceInv'
  <2>1. UNCHANGED <<drive, folders, home, folder>> /\ ~ split
    BY <1>2, ListServedIs DEF drivers, history
  <2>2. PICK q \in Call :
                /\ call' = [call EXCEPT ![c] = q]
                /\ q.pc = "listing"
                /\ q.got = "none" \/ q.dir \in folders
    BY <1>2, ListServedIs
  <2>3. Placed(q) => q.dir \in folders
    BY <2>2 DEF Placed
  <2> QED BY <1>a, <2>1, <2>2, <2>3
<1>3. ASSUME NEW c \in Calls, MakeServed(c) PROVE PlaceInv'
  <2>1. UNCHANGED <<drive, home, folder>> /\ ~ split /\ folders = {}
    BY <1>3, MakeServedIs DEF drivers, TypeOK
  <2>2. PICK q \in Call :
                /\ folders' = folders \cup {q.dir}
                /\ call' = [call EXCEPT ![c] = q]
    BY <1>3, MakeServedIs
  <2>3. folders' = {q.dir}
    BY <2>1, <2>2
  <2> QED BY <2>1, <2>2, <2>3, PlaceKept
<1>4. ASSUME NEW c \in Calls, SearchServed(c) PROVE PlaceInv'
  <2>1. UNCHANGED <<drive, folders, home, folder>> /\ ~ split /\ Busy(c) /\ call[c].pc = "searching"
    BY <1>4, SearchServedIs DEF drivers, history
  <2>2. PICK q \in Call :
                /\ call' = [call EXCEPT ![c] = q]
                /\ q.dir = call[c].dir
    BY <1>4, SearchServedIs
  <2>3. q.dir \in folders
    BY <2>1, <2>2 DEF Placed, PlaceInv
  <2> QED BY <1>a, <2>1, <2>2, <2>3
<1>5. ASSUME NEW c \in Calls, RemoveServed(c) PROVE PlaceInv'
  <2>1. /\ UNCHANGED <<folders, home, folder>> /\ ~ split
        /\ Busy(c) /\ call[c] \in Call /\ call[c].pc = "removing"
    BY <1>5, RemoveServedIs DEF drivers, history
  <2>2. PICK q \in Call :
                /\ Answered(c, q) /\ q.id = call[c].id
                /\ \/ /\ drive[q.id].state = "live"
                      /\ drive' = [drive EXCEPT ![q.id].state = "gone"]
                   \/ drive' = drive
    BY <1>5, RemoveServedIs
  <2>3. Placed(q) => q.dir \in folders
    BY <2>1, <2>2 DEF Placed, PlaceInv, Answered
  <2>4. q.id \in Ids
    BY <2>1, <2>2 DEF TypeOK, Call
  <2>5. \A x \in Ids : drive'[x].state = "live" => drive[x].state = "live" /\ drive'[x].dir = drive[x].dir
    BY <2>2, <2>4, RemovedIs
  <2>6. \A d, e \in folders : d = e
    BY <2>1 DEF PlaceInv
  <2> QED BY <2>1, <2>2, <2>3, <2>5, <2>6, PlaceKept DEF Answered
<1>6. ASSUME NEW c \in Calls, CreateServed(c) PROVE PlaceInv'
  <2>1. /\ UNCHANGED <<folders, home, folder>> /\ ~ split
        /\ Busy(c) /\ call[c].pc = "creating"
    BY <1>6, CreateServedIs DEF drivers, history
  <2>2. PICK q \in Call :
                /\ Answered(c, q)
                /\ q.id \in Free
                /\ drive' = [drive EXCEPT ![q.id] = [state |-> "live", name |-> q.name, dir |-> q.dir]]
    BY <1>6, CreateServedIs
  <2>3. q.dir \in folders
    BY <2>1, <2>2 DEF Placed, PlaceInv, Answered
  <2>4. \A x \in Ids : drive'[x].state = "live" =>
              drive'[x].dir \in folders' \/ (drive[x].state = "live" /\ drive'[x].dir = drive[x].dir)
    BY <2>1, <2>2, <2>3, CreatedIs
  <2>5. \A d, e \in folders : d = e
    BY <2>1 DEF PlaceInv
  <2> QED BY <2>1, <2>2, <2>3, <2>4, <2>5, PlaceKept DEF Answered
<1>7. ASSUME NEW c \in Calls, ReadServed(c) PROVE PlaceInv'
  <2>1. UNCHANGED <<drive, folders, home, folder>> /\ ~ split /\ Busy(c) /\ call[c].pc = "reading"
    BY <1>7, ReadServedIs DEF drivers, history
  <2> QED BY <1>7, <1>b, <2>1, ReadServedIs
<1>8. ASSUME NEW c \in Calls, RequestFails(c) PROVE PlaceInv'
  <2>1. UNCHANGED <<drive, folders, home, folder>> /\ ~ split /\ Busy(c)
    BY <1>8, RequestFailsIs DEF drivers, history
  <2>2. PICK q \in Call : Answered(c, q) /\ q.got = "failed"
    BY <1>8, RequestFailsIs
  <2> QED BY <1>b, <2>1, <2>2
<1>9. ASSUME NEW c \in Calls, FolderAnswered(c) PROVE PlaceInv'
  <2>1. /\ UNCHANGED <<drive, folders, home>>
        /\ Busy(c) /\ call[c] \in Call /\ call[c].pc \in {"listing", "making"}
    BY <1>9, FolderAnsweredIs
  <2>2. PICK q \in Call :
                /\ call' = [call EXCEPT ![c] = q]
                /\ q.got = "pending"
                /\ \/ q.pc = "making" /\ UNCHANGED <<folder, split>>
                   \/ /\ folder' = [folder EXCEPT ![q.inst] = q.dir]
                      /\ call[c].got = "ok" /\ q.dir = call[c].dir /\ split' = (split \/ q.dir = Root)
    BY <1>9, FolderAnsweredIs
  <2>3. ~ split
    BY <2>2 DEF TypeOK
  <2>4. \A d, e \in folders : d = e
    BY <2>3 DEF PlaceInv
  <2>5. CASE q.pc = "making" /\ UNCHANGED <<folder, split>>
    <3>1. ~ Placed(q)
      BY <2>2, <2>5 DEF Placed
    <3> QED BY <1>a, <2>1, <2>2, <2>3, <2>5, <3>1
  <2>6. CASE folder' = [folder EXCEPT ![q.inst] = q.dir] /\ call[c].got = "ok" /\ q.dir = call[c].dir
    <3>1. q.dir \in folders
      BY <2>1, <2>3, <2>6 DEF PlaceInv, Placed
    <3>2. \A i \in Instances : folder'[i] = folder[i] \/ folder'[i] \in folders
      BY <2>6, <3>1 DEF TypeOK
    <3> QED BY <2>1, <2>2, <2>3, <2>4, <3>1, <3>2, PlaceKept
  <2> QED BY <2>2, <2>5, <2>6
<1>c. ASSUME NEW c \in Calls, Busy(c), call[c] \in Call, ~ split,
             UNCHANGED <<drive, folders, home, folder>>,
             Placed(call[c]) \/ call[c].op # "upload",
             \/ Ended(c)
             \/ \E q \in Call :
                   /\ call' = [call EXCEPT ![c] = q] /\ Same(q, call[c]) /\ q.got = "pending"
                   /\ Placed(q) => Placed(call[c])
      PROVE  PlaceInv'
  <2>1. PICK q \in Call \cup {Idle} :
           /\ call' = [call EXCEPT ![c] = q]
           /\ q # Idle => q.dir = call[c].dir /\ (Placed(q) => Placed(call[c]))
    BY <1>c DEF Ended, Same
  <2>2. q # Idle /\ Placed(q) => q.dir \in folders
    BY <1>c, <2>1 DEF PlaceInv
  <2> QED BY <1>a, <1>c, <2>1, <2>2
<1>10. ASSUME NEW c \in Calls, SearchAnswered(c) PROVE PlaceInv'
  <2>1. /\ Busy(c) /\ call[c] \in Call /\ ~ split /\ call[c].pc = "searching"
        /\ UNCHANGED <<drive, folders, home, folder>>
    BY <1>10, SearchAnsweredIs
  <2>2. Placed(call[c])
    BY <2>1 DEF Placed
  <2>3. \/ Ended(c)
        \/ \E q \in Call :
              call' = [call EXCEPT ![c] = q] /\ Same(q, call[c]) /\ q.got = "pending"
    BY <1>10, SearchAnsweredIs
  <2> QED BY <1>c, <2>1, <2>2, <2>3
<1>11. ASSUME NEW c \in Calls, RemoveAnswered(c) PROVE PlaceInv'
  <2>1. /\ Busy(c) /\ call[c] \in Call /\ ~ split /\ call[c].pc = "removing"
        /\ UNCHANGED <<drive, folders, home, folder>>
    BY <1>11, RemoveAnsweredIs
  <2>2. Placed(call[c]) <=> call[c].op = "upload"
    BY <2>1 DEF Placed
  <2>3. \/ Ended(c)
        \/ call[c].op = "upload" /\ \E q \in Call :
              call' = [call EXCEPT ![c] = q] /\ Same(q, call[c]) /\ q.got = "pending"
    BY <1>11, RemoveAnsweredIs
  <2> QED BY <1>c, <2>1, <2>2, <2>3
<1>12. ASSUME NEW c \in Calls, CreateAnswered(c) PROVE PlaceInv'
  BY <1>12, <1>a, CreateAnsweredIs DEF Ended
<1>13. ASSUME NEW c \in Calls, ReadAnswered(c) PROVE PlaceInv'
  BY <1>13, <1>a DEF ReadAnswered, Return, drivers, history
<1>14. CASE Restart
  <2>1. \A c \in Calls : ~ Busy(c)'
    BY <1>14 DEF Restart, Busy
  <2>2. /\ \A i \in Instances : folder'[i] = home
        /\ UNCHANGED <<drive, folders, home>> /\ ~ split
    BY <1>14 DEF Restart, AtHome, history
  <2> QED BY <2>1, <2>2 DEF PlaceInv
<1>15. CASE UNCHANGED vars
  BY <1>15 DEF PlaceInv, Placed, Busy, vars, drivers, history
<1> QED BY <1>1, <1>2, <1>3, <1>4, <1>5, <1>6, <1>7, <1>8, <1>9, <1>10, <1>11, <1>12, <1>13,
           <1>14, <1>15 DEF Next

\* A step by a call that was in progress, seen by the writers of a name.
LEMMA SoloKept ==
    ASSUME TypeOK, NEW n \in Names, Solo(n), NEW c \in Calls, Busy(c),
           NEW q \in Call \cup {Idle}, call' = [call EXCEPT ![c] = q],
           q # Idle => q.op = call[c].op /\ q.name = call[c].name,
           ~ Writer(c, n) => Live(n)' = Live(n) /\ latest'[n] = latest[n] /\ settled'[n] = settled[n],
           Writer(c, n) => ObjectOK(n)' /\ (q # Idle => WriterOK(q, n)')
    PROVE  Solo(n)'
<1>1. \A d \in Calls : Writer(d, n)' => Writer(d, n) /\ (d = c => q # Idle)
  BY CallUpdate DEF Writer, Busy
<1>2. \A d, e \in Calls : Writer(d, n)' /\ Writer(e, n)' => d = e
  BY <1>1 DEF Solo
<1>3. CASE Writer(c, n)
  <2>1. \A d \in Calls : Writer(d, n)' => d = c /\ call'[d] = q /\ q # Idle
    BY <1>1, <1>3, CallUpdate DEF Solo
  <2>2. \A d \in Calls : Writer(d, n)' => WriterOK(q, n)'
    BY <1>3, <2>1
  <2>3. \A d \in Calls : Writer(d, n)' => WriterOK(call[d], n)'
    BY <2>1, <2>2
  <2> QED BY <1>2, <1>3, <2>3 DEF Solo
<1>4. CASE ~ Writer(c, n)
  <2>1. \A d \in Calls : Writer(d, n)' => call'[d] = call[d] /\ WriterOK(call[d], n)
    BY <1>1, <1>4, CallUpdate DEF Solo
  <2>2. Live(n)' = Live(n) /\ latest'[n] = latest[n] /\ settled'[n] = settled[n]
    BY <1>4
  <2>3. \A d \in Calls : Writer(d, n)' => WriterOK(call[d], n)'
    BY <2>1, <2>2 DEF WriterOK, NoneLive
  <2>4. ObjectOK(n)'
    BY <2>2 DEF ObjectOK, Solo
  <2> QED BY <1>2, <2>3, <2>4 DEF Solo
<1> QED BY <1>3, <1>4

\* A call begins.
LEMMA SoloBegins ==
    ASSUME TypeOK, NEW n \in Names, Solo(n), n \notin contended',
           NEW c \in Calls, NEW i \in Instances, NEW m \in Names,
           NEW op \in {"upload", "download", "delete"}, Begin(c, i, op, m)
    PROVE  Solo(n)'
<1>1. PICK q \in Call :
         /\ call' = [call EXCEPT ![c] = q]
         /\ q.op = op /\ q.name = m /\ q.got = "pending"
         /\ q.pc \in {"listing", "searching", "removing", "reading"}
  BY BeginIs
<1>2. /\ ~ Busy(c) /\ UNCHANGED <<drive, latest>>
      /\ op = "download" \/ m # n => settled'[n] = settled[n]
      /\ op # "download" => /\ settled'[m] = "unknown"
                            /\ m = n => ~ Writing(n)
  BY DEF Begin, WriteBegins, Busy, TypeOK
<1>3. Live(n)' = Live(n)
  BY <1>2 DEF Live
<1>4. CASE op = "download" \/ m # n
  <2>1. \A d \in Calls : Writer(d, n)' => Writer(d, n) /\ call'[d] = call[d]
    BY <1>1, <1>4, CallUpdate DEF Writer, Busy
  <2>2. \A d \in Calls : Writer(d, n)' => WriterOK(call[d], n)'
    BY <1>2, <1>3, <1>4, <2>1 DEF Solo, WriterOK, NoneLive
  <2>3. ObjectOK(n)'
    BY <1>2, <1>3, <1>4 DEF ObjectOK, Solo
  <2> QED BY <2>1, <2>2, <2>3 DEF Solo
<1>5. CASE op # "download" /\ m = n
  <2>1. \A d \in Calls : ~ Writer(d, n)
    BY <1>2, <1>5 DEF Writing, Writer, Busy
  <2>2. \A d \in Calls : Writer(d, n)' => d = c /\ call'[d] = q
    BY <2>1, <1>1, CallUpdate DEF Writer, Busy
  <2>3. settled'[n] = "unknown"
    BY <1>2, <1>5
  <2>4. WriterOK(q, n)'
    BY <1>1, <2>3 DEF WriterOK, NoneLive
  <2>5. ObjectOK(n)'
    BY <1>2, <1>3, <2>3 DEF ObjectOK, Solo
  <2>6. \A d \in Calls : Writer(d, n)' => WriterOK(call[d], n)'
    BY <2>2, <2>4
  <2> QED BY <2>2, <2>5, <2>6 DEF Solo
<1> QED BY <1>4, <1>5

\* A name stays contended, and a split is never healed.
LEMMA AloneStep ==
    ASSUME TypeOK, [Next]_vars
    PROVE  \A n \in Names : Alone(n)' => Alone(n)
<1>1. contended \subseteq contended'
  <2>1. \/ \E c \in Calls, i \in Instances, m \in Names, op \in {"upload", "download", "delete"} :
             Begin(c, i, op, m)
        \/ UNCHANGED contended
    BY DEF Next, ListServed, MakeServed, SearchServed, RemoveServed, CreateServed, ReadServed,
           RequestFails, FolderAnswered, SearchAnswered, RemoveAnswered, CreateAnswered,
           ReadAnswered, Restart, history, vars
  <2>2. ASSUME NEW c \in Calls, NEW i \in Instances, NEW m \in Names,
               NEW op \in {"upload", "download", "delete"}, Begin(c, i, op, m)
        PROVE  contended \subseteq contended'
    <3>1. UNCHANGED contended \/ WriteBegins(m)
      BY <2>2 DEF Begin
    <3>2. UNCHANGED contended \/ contended' = contended \cup {m}
      BY <3>1 DEF WriteBegins
    <3> QED BY <3>2
  <2> QED BY <2>1, <2>2
<1>2. split => split'
  BY DEF Next, Begin, ListServed, MakeServed, SearchServed, RemoveServed,
         CreateServed, ReadServed, RequestFails, FolderAnswered, Settle, SearchAnswered,
         RemoveAnswered, CreateAnswered, ReadAnswered, Restart, history, vars
<1> QED BY <1>1, <1>2 DEF Alone

\* What the writer of a name relies on.
LEMMA SoloStep ==
    ASSUME TypeOK, NameInv, PlaceInv, SoloInv, [Next]_vars
    PROVE  SoloInv'
<1> SUFFICES ASSUME NEW n \in Names, Alone(n)' PROVE Solo(n)'
  BY DEF SoloInv
<1>0. Alone(n)
  BY AloneStep
<1>s. Solo(n) /\ ~ split
  BY <1>0 DEF SoloInv, Alone
<1>q. ASSUME NEW c \in Calls, Busy(c), NEW q \in Call, call' = [call EXCEPT ![c] = q],
             q.op = call[c].op, q.name = call[c].name,
             UNCHANGED <<drive, latest, settled>>,
             q.pc = "creating" => NoneLive(q) \/ q.got = "failed"
                                  \/ (call[c].pc = "creating" /\ call[c].got = q.got /\ call[c].id = q.id),
             Writer(c, n) /\ NoneLive(q) => Live(n) = {}
      PROVE  Solo(n)'
  <2>1. Live(n)' = Live(n)
    BY <1>q DEF Live
  <2>2. Writer(c, n) => ObjectOK(n)' /\ WriterOK(q, n)'
    BY <1>q, <1>s, <2>1 DEF Solo, ObjectOK, WriterOK, NoneLive
  <2> QED BY <1>q, <1>s, <2>1, <2>2, SoloKept
<1>e. ASSUME NEW c \in Calls, Busy(c), Ended(c), UNCHANGED <<drive, latest, settled>>
      PROVE  Solo(n)'
  <2>1. Live(n)' = Live(n)
    BY <1>e DEF Live
  <2>2. ObjectOK(n)'
    BY <1>e, <1>s, <2>1 DEF Solo, ObjectOK
  <2> QED BY <1>e, <1>s, <2>1, <2>2, SoloKept DEF Ended
<1>1. ASSUME NEW c \in Calls, NEW i \in Instances, NEW m \in Names,
             NEW op \in {"upload", "download", "delete"}, Begin(c, i, op, m)
      PROVE  Solo(n)'
  BY <1>1, <1>s, SoloBegins DEF Alone
<1>2. ASSUME NEW c \in Calls, ListServed(c) PROVE Solo(n)'
  <2>1. Busy(c) /\ UNCHANGED <<drive, latest, settled>>
    BY <1>2, ListServedIs DEF history
  <2>2. PICK q \in Call :
                /\ call' = [call EXCEPT ![c] = q]
                /\ q.op = call[c].op /\ q.name = call[c].name /\ q.pc = "listing"
    BY <1>2, ListServedIs
  <2>3. ~ NoneLive(q)
    BY <2>2 DEF NoneLive
  <2> QED BY <2>1, <2>2, <2>3, <1>q
<1>3. ASSUME NEW c \in Calls, MakeServed(c) PROVE Solo(n)'
  <2>1. Busy(c) /\ UNCHANGED <<drive, latest, settled>>
    BY <1>3, MakeServedIs
  <2>2. PICK q \in Call :
                /\ call' = [call EXCEPT ![c] = q]
                /\ q.op = call[c].op /\ q.name = call[c].name /\ q.pc = "making"
    BY <1>3, MakeServedIs
  <2>3. ~ NoneLive(q)
    BY <2>2 DEF NoneLive
  <2> QED BY <2>1, <2>2, <2>3, <1>q
<1>4. ASSUME NEW c \in Calls, SearchServed(c) PROVE Solo(n)'
  <2>1. Busy(c) /\ call[c] \in Call /\ call[c].pc = "searching" /\ UNCHANGED <<drive, latest, settled>>
    BY <1>4, SearchServedIs DEF history
  <2>2. PICK q \in Call :
                /\ call' = [call EXCEPT ![c] = q]
                /\ q.op = call[c].op /\ q.name = call[c].name /\ q.pc = "searching"
                /\ q.got = "ok" \/ (q.got = "none" /\ Matches(call[c]) = {})
    BY <1>4, SearchServedIs
  <2>3. Matches(call[c]) = {} => Live(call[c].name) = {}
    <3>1. call[c].dir \in folders
      BY <1>s, <2>1 DEF PlaceInv, Placed
    <3>2. \A x \in Live(call[c].name) : drive[x].dir = call[c].dir
      BY <1>s, <3>1 DEF PlaceInv, Live
    <3> QED BY <3>2 DEF Matches
  <2>4. Writer(c, n) /\ NoneLive(q) => Live(n) = {}
    BY <2>2, <2>3 DEF NoneLive, Writer
  <2> QED BY <2>1, <2>2, <2>4, <1>q
<1>5. ASSUME NEW c \in Calls, RemoveServed(c) PROVE Solo(n)'
  <2>1. Busy(c) /\ call[c] \in Call /\ call[c].pc = "removing" /\ UNCHANGED <<latest, settled>>
    BY <1>5, RemoveServedIs DEF history
  <2>2. PICK q \in Call :
                /\ Answered(c, q) /\ q.id = call[c].id
                /\ \/ /\ q.got = "ok" /\ drive[q.id].state = "live"
                      /\ drive' = [drive EXCEPT ![q.id].state = "gone"]
                   \/ q.got = "failed" /\ drive' = drive
    BY <1>5, RemoveServedIs
  <2>3. CASE q.got = "failed" /\ drive' = drive
    <3>1. ~ NoneLive(q)
      BY <2>1, <2>2, <2>3 DEF NoneLive, Answered
    <3> QED BY <2>1, <2>2, <2>3, <3>1, <1>q DEF Answered
  <2>4. CASE /\ q.got = "ok" /\ drive[q.id].state = "live"
             /\ drive' = [drive EXCEPT ![q.id].state = "gone"]
    <3>1. q.id \in Ids /\ Named(q.id, q.name) /\ q.op # "download"
      BY <2>1, <2>2 DEF NameInv, NamedCall, TypeOK, Call, Answered
    <3>2. Live(n)' = Live(n) \ {q.id}
      BY <2>4, <3>1, RemovedIs
    <3>3. q.name # n => Live(n)' = Live(n)
      BY <3>1, <3>2 DEF Live, Named
    <3>4. q.name = n => Live(n)' = {}
      BY <1>s, <2>4, <3>1, <3>2 DEF Live, Named, Solo, ObjectOK
    <3>5. ASSUME Writer(c, n) PROVE ObjectOK(n)' /\ WriterOK(q, n)'
      <4>1. Live(n)' = {} /\ settled'[n] = "unknown" /\ q.pc = "removing"
        BY <1>s, <2>1, <2>2, <3>4, <3>5 DEF Writer, Answered, Solo, WriterOK
      <4> QED BY <4>1 DEF ObjectOK, WriterOK
    <3>6. ~ Writer(c, n) => q.name # n
      BY <2>1, <2>2, <3>1 DEF Writer, Answered
    <3> QED BY <1>s, <2>1, <2>2, <3>3, <3>5, <3>6, SoloKept DEF Answered
  <2> QED BY <2>2, <2>3, <2>4
<1>6. ASSUME NEW c \in Calls, CreateServed(c) PROVE Solo(n)'
  <2>1. /\ Busy(c) /\ call[c] \in Call /\ call[c].pc = "creating" /\ call[c].got = "pending"
        /\ UNCHANGED <<latest, settled>>
    BY <1>6, CreateServedIs DEF history
  <2>2. PICK q \in Call :
                /\ Answered(c, q) /\ q.got = "ok"
                /\ q.id \in Free /\ \A y \in Free : q.id <= y
                /\ drive' = [drive EXCEPT ![q.id] = [state |-> "live", name |-> q.name, dir |-> q.dir]]
    BY <1>6, CreateServedIs
  <2>3. /\ n = q.name => Live(n)' = Live(n) \cup {q.id}
        /\ n # q.name => Live(n)' = Live(n)
    <3>1. Made(q.id, q)
      BY <2>2 DEF Made
    <3> QED BY <2>2, <3>1, CreatedLive
  <2>4. call[c].op = "upload"
    BY <2>1 DEF NameInv, NamedCall
  <2>5. ~ Writer(c, n) => n # q.name
    BY <2>1, <2>2, <2>4 DEF Writer, Answered
  <2>6. q.id \in Nat \ {0} /\ q.id >= latest[n]
    <3>1. q.id \in Ids /\ latest[n] \in Ids \cup {0} /\ Ids \subseteq Nat \ {0}
      BY <2>2 DEF Free, TypeOK, Ids
    <3>2. latest[n] # 0 => latest[n] \in Ids \ Free
      BY <3>1 DEF NameInv, Named, Free
    <3>3. latest[n] # 0 => latest[n] < q.id
      BY <2>2, <3>2 DEF NameInv, Ordered
    <3>4. q.id \in Nat /\ q.id # 0
      BY <3>1
    <3>7. latest[n] \in Nat
      BY DEF TypeOK, Ids
    <3>5. CASE latest[n] = 0
      BY <3>4, <3>5
    <3>6. CASE latest[n] # 0
      BY <3>3, <3>4, <3>6, <3>7
    <3> QED BY <3>5, <3>6
  <2>7. ASSUME Writer(c, n) PROVE ObjectOK(n)' /\ WriterOK(q, n)'
    <3>1. Live(n) = {} /\ settled[n] = "unknown"
      BY <1>s, <2>1, <2>7 DEF Solo, WriterOK, NoneLive
    <3>2. Live(n)' = {q.id} /\ settled'[n] = "unknown" /\ latest'[n] = latest[n]
      BY <2>1, <2>2, <2>3, <2>7, <3>1 DEF Writer, Answered
    <3>3. q.pc = "creating" /\ q.got = "ok"
      BY <2>1, <2>2 DEF Answered
    <3>4. ObjectOK(n)'
      BY <2>6, <3>2 DEF ObjectOK
    <3>5. WriterOK(q, n)'
      BY <2>6, <3>2, <3>3 DEF WriterOK, NoneLive
    <3> QED BY <3>4, <3>5
  <2> QED BY <1>s, <2>1, <2>2, <2>3, <2>5, <2>7, SoloKept DEF Answered
<1>7. ASSUME NEW c \in Calls, ReadServed(c) PROVE Solo(n)'
  <2>1. Busy(c) /\ call[c].pc = "reading" /\ UNCHANGED <<drive, latest, settled>>
    BY <1>7, ReadServedIs DEF history
  <2>2. PICK q \in Call : Answered(c, q)
    BY <1>7, ReadServedIs
  <2>3. ~ NoneLive(q) /\ q.pc = "reading"
    BY <2>1, <2>2 DEF NoneLive, Answered
  <2> QED BY <2>1, <2>2, <2>3, <1>q DEF Answered
<1>8. ASSUME NEW c \in Calls, RequestFails(c) PROVE Solo(n)'
  <2>1. Busy(c) /\ UNCHANGED <<drive, latest, settled>>
    BY <1>8, RequestFailsIs DEF history
  <2>2. PICK q \in Call : Answered(c, q) /\ q.got = "failed"
    BY <1>8, RequestFailsIs
  <2>3. ~ NoneLive(q)
    BY <2>2 DEF NoneLive
  <2> QED BY <2>1, <2>2, <2>3, <1>q DEF Answered
<1>9. ASSUME NEW c \in Calls, FolderAnswered(c) PROVE Solo(n)'
  <2>1. UNCHANGED <<drive, latest, settled>> /\ Busy(c)
    BY <1>9, FolderAnsweredIs
  <2>2. PICK q \in Call :
           /\ call' = [call EXCEPT ![c] = q]
           /\ q.op = call[c].op /\ q.name = call[c].name /\ q.got = "pending"
           /\ q.pc \in {"making", "searching", "removing", "reading"}
    BY <1>9, FolderAnsweredIs
  <2>3. ~ NoneLive(q)
    BY <2>2 DEF NoneLive
  <2> QED BY <2>1, <2>2, <2>3, <1>q
<1>d. ASSUME NEW c \in Calls, Busy(c), Ended(c), call[c] \in Call, UNCHANGED <<drive, latest>>,
             call[c].op = "delete", NoneLive(call[c]),
             settled' = [settled EXCEPT ![call[c].name] = "deleted"]
      PROVE  Solo(n)'
  <2>1. Live(n)' = Live(n)
    BY <1>d DEF Live
  <2>2. ~ Writer(c, n) => settled'[n] = settled[n]
    BY <1>d DEF Writer, TypeOK
  <2>3. Writer(c, n) => ObjectOK(n)'
    BY <1>d, <1>s, <2>1 DEF Writer, Solo, WriterOK, ObjectOK
  <2> QED BY <1>d, <1>s, <2>1, <2>2, <2>3, SoloKept DEF Ended
<1>c. ASSUME NEW c \in Calls, Busy(c), UNCHANGED <<drive, latest, settled>>, NoneLive(call[c]),
             NEW q \in Call, call' = [call EXCEPT ![c] = q], Same(q, call[c]),
             q.got = "pending", q.pc = "creating"
      PROVE  Solo(n)'
  <2>1. NoneLive(q) /\ (Writer(c, n) => Live(n) = {})
    BY <1>c, <1>s DEF NoneLive, Solo, WriterOK
  <2> QED BY <1>c, <2>1, <1>q DEF Same
<1>10. ASSUME NEW c \in Calls, SearchAnswered(c) PROVE Solo(n)'
  <2>1. Busy(c) /\ call[c] \in Call /\ call[c].pc = "searching" /\ UNCHANGED <<drive, latest>>
    BY <1>10, SearchAnsweredIs
  <2>2. ASSUME UNCHANGED settled, NEW q \in Call, call' = [call EXCEPT ![c] = q], Same(q, call[c]),
               q.got = "pending", q.pc \in {"reading", "removing"}
        PROVE  Solo(n)'
    <3>1. ~ NoneLive(q)
      BY <2>2 DEF NoneLive
    <3> QED BY <2>1, <2>2, <3>1, <1>q DEF Same
  <2>3. call[c].got = "none" => NoneLive(call[c])
    BY <2>1 DEF NoneLive
  <2> QED BY <1>10, <2>1, <2>2, <2>3, <1>c, <1>d, <1>e, SearchAnsweredIs
<1>11. ASSUME NEW c \in Calls, RemoveAnswered(c) PROVE Solo(n)'
  <2>1. Busy(c) /\ call[c] \in Call /\ call[c].pc = "removing" /\ UNCHANGED <<drive, latest>>
    BY <1>11, RemoveAnsweredIs
  <2>2. call[c].got = "ok" => NoneLive(call[c])
    BY <2>1 DEF NoneLive
  <2> QED BY <1>11, <2>1, <2>2, <1>c, <1>d, <1>e, RemoveAnsweredIs
<1>12. ASSUME NEW c \in Calls, CreateAnswered(c) PROVE Solo(n)'
  <2>1. Busy(c) /\ call[c] \in Call /\ call[c].pc = "creating" /\ UNCHANGED drive /\ Ended(c)
    BY <1>12, CreateAnsweredIs
  <2>2. CASE UNCHANGED <<cache, settled, latest>>
    BY <2>1, <2>2, <1>e
  <2>3. CASE /\ call[c].got = "ok"
             /\ settled' = [settled EXCEPT ![call[c].name] = "stored"]
             /\ latest' = [latest EXCEPT ![call[c].name] = call[c].id]
    <3>1. call[c].op = "upload"
      BY <2>1 DEF NameInv, NamedCall
    <3>2. ~ Writer(c, n) => call[c].name # n /\ settled'[n] = settled[n] /\ latest'[n] = latest[n]
      BY <2>1, <2>3, <3>1 DEF Writer, TypeOK
    <3>3. Live(n)' = Live(n) /\ Live(n) \subseteq Nat
      BY <2>1 DEF Live, Ids
    <3>4. ASSUME Writer(c, n) PROVE ObjectOK(n)'
      <4>1. Live(n) \subseteq {call[c].id}
        BY <1>s, <2>1, <2>3, <3>4 DEF Solo, WriterOK
      <4>2. latest'[n] = call[c].id /\ settled'[n] = "stored"
        BY <2>3, <3>4 DEF Writer, TypeOK
      <4> QED BY <3>3, <4>1, <4>2 DEF ObjectOK
    <3> QED BY <1>s, <2>1, <3>2, <3>3, <3>4, SoloKept DEF Ended
  <2> QED BY <1>12, <2>2, <2>3, CreateAnsweredIs
<1>13. ASSUME NEW c \in Calls, ReadAnswered(c) PROVE Solo(n)'
  BY <1>13, <1>e DEF ReadAnswered, Receives, Return, Ended, Busy, history
<1>14. CASE Restart
  <2>1. \A c \in Calls : ~ Writer(c, n)'
    BY <1>14 DEF Restart, Busy, Writer
  <2>2. UNCHANGED <<drive, latest, settled>>
    BY <1>14 DEF Restart, history
  <2>3. ObjectOK(n)'
    BY <1>s, <2>2 DEF ObjectOK, Live, Solo
  <2> QED BY <2>1, <2>3 DEF Solo
<1>15. CASE UNCHANGED vars
  BY <1>15, <1>s DEF Solo, ObjectOK, WriterOK, NoneLive, Live, Writer, Busy, vars, drivers, history
<1> QED BY <1>1, <1>2, <1>3, <1>4, <1>5, <1>6, <1>7, <1>8, <1>9, <1>10, <1>11, <1>12, <1>13,
           <1>14, <1>15 DEF Next

\* A later upload makes a later object.
LEMMA LatestStep ==
    ASSUME TypeOK, NameInv, SoloInv, [Next]_vars, NEW n \in Names, Alone(n)'
    PROVE  latest[n] <= latest'[n]
<1>1. Alone(n) /\ latest[n] \in Nat
  BY AloneStep DEF TypeOK, Ids
<1>2. ASSUME NEW c \in Calls, CreateAnswered(c) PROVE latest[n] <= latest'[n]
  <2>1. Busy(c) /\ call[c] \in Call /\ call[c].pc = "creating"
    BY <1>2, CreateAnsweredIs
  <2>2. CASE UNCHANGED <<cache, settled, latest>>
    BY <1>1, <2>2
  <2>3. CASE call[c].got = "ok" /\ latest' = [latest EXCEPT ![call[c].name] = call[c].id]
    <3>1. call[c].op = "upload"
      BY <2>1 DEF NameInv, NamedCall
    <3>2. CASE call[c].name = n
      <4>1. Writer(c, n)
        BY <2>1, <3>1, <3>2 DEF Writer
      <4>2. call[c].id >= latest[n]
        BY <1>1, <2>1, <2>3, <4>1 DEF SoloInv, Solo, WriterOK
      <4>3. call[c].id \in Nat
        BY <2>1 DEF Call, Ids
      <4>4. latest'[n] = call[c].id
        BY <2>3, <3>2 DEF TypeOK
      <4> QED BY <1>1, <4>2, <4>3, <4>4
    <3>3. CASE call[c].name # n
      BY <1>1, <2>3, <3>3 DEF TypeOK
    <3> QED BY <3>2, <3>3
  <2> QED BY <1>2, <2>2, <2>3, CreateAnsweredIs
<1>3. ASSUME NEW c \in Calls, NEW i \in Instances, NEW m \in Names,
             NEW op \in {"upload", "download", "delete"}, Begin(c, i, op, m)
      PROVE  UNCHANGED latest
  BY <1>3 DEF Begin
<1>4. ASSUME NEW c \in Calls,
             \/ ListServed(c) \/ MakeServed(c) \/ SearchServed(c)
             \/ RemoveServed(c) \/ CreateServed(c) \/ ReadServed(c) \/ RequestFails(c)
      PROVE  UNCHANGED latest
  BY <1>4 DEF ListServed, MakeServed, SearchServed, RemoveServed, CreateServed, ReadServed,
              RequestFails, history
<1>5. ASSUME NEW c \in Calls, FolderAnswered(c) \/ ReadAnswered(c) PROVE UNCHANGED latest
  <2>1. CASE FolderAnswered(c)
    BY <2>1, FolderAnsweredIs
  <2>2. CASE ReadAnswered(c)
    BY <2>2 DEF ReadAnswered, history
  <2> QED BY <1>5, <2>1, <2>2
<1>6. ASSUME NEW c \in Calls, SearchAnswered(c) PROVE UNCHANGED latest
  BY <1>6, SearchAnsweredIs
<1>7. ASSUME NEW c \in Calls, RemoveAnswered(c) PROVE UNCHANGED latest
  BY <1>7, RemoveAnsweredIs
<1>8. Restart => UNCHANGED latest
  BY DEF Restart, history
<1>9. UNCHANGED vars => UNCHANGED latest
  BY DEF vars, history
<1>10. Next => latest[n] <= latest'[n] \/ UNCHANGED latest
  BY <1>2, <1>3, <1>4, <1>5, <1>6, <1>7, <1>8 DEF Next
<1> QED BY <1>1, <1>9, <1>10

\* A reader that gets bytes gets those of an object that is there.
LEMMA ReadStep ==
    ASSUME TypeOK, NameInv, SoloInv, ReadInv, [Next]_vars
    PROVE  ReadInv'
<1> DEFINE Later == \A n \in Names : Alone(n)' => Alone(n) /\ latest[n] <= latest'[n]
<1>l. \A n \in Names : latest[n] \in Nat
  BY DEF TypeOK, Ids
<1>n. \A c \in Calls : Busy(c) => call[c].name \in Names /\ call[c].floor \in Nat /\ call[c].id \in Nat
  BY CallKinds DEF Call, Ids
<1>a. ASSUME Later, NEW c \in Calls, NEW q \in Call \cup {Idle}, call' = [call EXCEPT ![c] = q],
             q # Idle => ReadOK(q)'
      PROVE  ReadInv'
  <2>1. ASSUME NEW d \in Calls, d # c, Busy(d)' PROVE ReadOK(call[d])'
    <3>1. call'[d] = call[d] /\ Busy(d) /\ ReadOK(call[d])
      BY <1>a, <2>1, CallUpdate DEF Busy, ReadInv
    <3>2. Alone(call[d].name)' => Alone(call[d].name) /\ latest[call[d].name] <= latest'[call[d].name]
      BY <1>a, <1>n, <3>1
    <3>3. /\ call[d].floor \in Nat /\ latest[call[d].name] \in Nat
          /\ Alone(call[d].name)' => latest'[call[d].name] \in Int
      BY <1>n, <1>l, <3>1, TypeStep DEF TypeOK, Ids
    <3> QED BY <3>1, <3>2, <3>3 DEF ReadOK
  <2>2. Busy(c)' => ReadOK(call[c])'
    <3>1. call'[c] = q
      BY <1>a, CallUpdate
    <3>2. q # Idle => ReadOK(q)'
      BY <1>a
    <3> QED BY <3>1, <3>2 DEF Busy, ReadOK
  <2> QED BY <2>1, <2>2 DEF ReadInv
<1>0. Later
  BY AloneStep, LatestStep
<1>b. ASSUME NEW c \in Calls, Busy(c), NEW q \in Call, call' = [call EXCEPT ![c] = q],
             q.name = call[c].name, q.floor = call[c].floor,
             q.pc = "reading" /\ q.got = "ok" /\ Alone(q.name) => q.id >= q.floor
      PROVE  ReadInv'
  <2>1. /\ q.name \in Names /\ q.floor \in Nat /\ latest[q.name] \in Nat
        /\ latest'[q.name] \in Nat
    BY <1>b, <1>n, <1>l, TypeStep DEF TypeOK, Ids
  <2>2. Alone(q.name)' => Alone(q.name) /\ q.floor <= latest[q.name] /\ latest[q.name] <= latest'[q.name]
    BY <1>0, <1>b, <2>1 DEF ReadInv, ReadOK
  <2>3. ReadOK(q)'
    BY <1>b, <2>1, <2>2 DEF ReadOK
  <2> QED BY <1>0, <1>a, <1>b, <2>3
<1>e. ASSUME NEW c \in Calls, Ended(c) PROVE ReadInv'
  BY <1>0, <1>a, <1>e DEF Ended
<1>1. ASSUME NEW c \in Calls, NEW i \in Instances, NEW n \in Names,
             NEW op \in {"upload", "download", "delete"}, Begin(c, i, op, n)
      PROVE  ReadInv'
  <2>1. PICK q \in Call :
             /\ call' = [call EXCEPT ![c] = q]
             /\ q.name = n /\ q.got = "pending"
             /\ q.floor = IF op = "download" THEN latest[n] ELSE 0
    BY <1>1, BeginIs
  <2>2. UNCHANGED latest
    BY <1>1 DEF Begin
  <2>3. ReadOK(q)'
    BY <1>l, <2>1, <2>2 DEF ReadOK
  <2> QED BY <1>0, <1>a, <2>1, <2>3
<1>2. ASSUME NEW c \in Calls, ListServed(c) PROVE ReadInv'
  BY <1>2, <1>b, ListServedIs
<1>3. ASSUME NEW c \in Calls, MakeServed(c) PROVE ReadInv'
  BY <1>3, <1>b, MakeServedIs
<1>4. ASSUME NEW c \in Calls, SearchServed(c) PROVE ReadInv'
  BY <1>4, <1>b, SearchServedIs
<1>5. ASSUME NEW c \in Calls, RemoveServed(c) PROVE ReadInv'
  BY <1>5, <1>b, RemoveServedIs DEF Answered
<1>6. ASSUME NEW c \in Calls, CreateServed(c) PROVE ReadInv'
  BY <1>6, <1>b, CreateServedIs DEF Answered
<1>7. ASSUME NEW c \in Calls, ReadServed(c) PROVE ReadInv'
  <2>1. Busy(c) /\ call[c] \in Call /\ call[c].pc = "reading"
    BY <1>7, ReadServedIs
  <2>2. PICK q \in Call : /\ Answered(c, q) /\ q.id = call[c].id
                          /\ q.got = IF drive[q.id].state = "live" THEN "ok" ELSE "failed"
    BY <1>7, ReadServedIs
  <2>3. ASSUME q.got = "ok", Alone(q.name) PROVE q.id >= q.floor
    <3>1. q.id \in Ids /\ Named(q.id, q.name) /\ drive[q.id].state = "live" /\ q.name \in Names
      BY <2>1, <2>2, <2>3 DEF NameInv, NamedCall, TypeOK, Call, Answered
    <3>2. q.id >= latest[q.name]
      BY <2>3, <3>1 DEF Live, Named, SoloInv, Solo, ObjectOK
    <3>3. q.floor <= latest[q.name]
      BY <2>1, <2>2, <2>3 DEF ReadInv, ReadOK, Answered
    <3>4. q.id \in Nat /\ q.floor \in Nat /\ latest[q.name] \in Nat
      BY <1>l, <1>n, <2>1, <2>2, <3>1 DEF Answered
    <3> QED BY <3>2, <3>3, <3>4
  <2> QED BY <1>b, <2>1, <2>2, <2>3 DEF Answered
<1>8. ASSUME NEW c \in Calls, RequestFails(c) PROVE ReadInv'
  BY <1>8, <1>b, RequestFailsIs DEF Answered
<1>9. ASSUME NEW c \in Calls, FolderAnswered(c) PROVE ReadInv'
  <2>1. Busy(c)
    BY <1>9, FolderAnsweredIs
  <2>2. PICK q \in Call : /\ call' = [call EXCEPT ![c] = q]
                          /\ q.name = call[c].name /\ q.floor = call[c].floor /\ q.got = "pending"
    BY <1>9, FolderAnsweredIs
  <2> QED BY <1>b, <2>1, <2>2
<1>10. ASSUME NEW c \in Calls, SearchAnswered(c) PROVE ReadInv'
  <2>1. Busy(c)
    BY <1>10, SearchAnsweredIs
  <2>2. ASSUME NEW q \in Call, call' = [call EXCEPT ![c] = q], Same(q, call[c]), q.got = "pending"
        PROVE  ReadInv'
    BY <2>1, <2>2, <1>b DEF Same
  <2> QED BY <1>10, <1>e, <2>2, SearchAnsweredIs
<1>11. ASSUME NEW c \in Calls, RemoveAnswered(c) PROVE ReadInv'
  <2>1. Busy(c)
    BY <1>11, RemoveAnsweredIs
  <2>2. ASSUME NEW q \in Call, call' = [call EXCEPT ![c] = q], Same(q, call[c]), q.got = "pending"
        PROVE  ReadInv'
    BY <2>1, <2>2, <1>b DEF Same
  <2> QED BY <1>11, <1>e, <2>2, RemoveAnsweredIs
<1>12. ASSUME NEW c \in Calls, CreateAnswered(c) PROVE ReadInv'
  BY <1>12, <1>e, CreateAnsweredIs
<1>13. ASSUME NEW c \in Calls, ReadAnswered(c) PROVE ReadInv'
  BY <1>13, <1>e DEF ReadAnswered, Return, Ended
<1>14. CASE Restart
  <2>1. \A c \in Calls : ~ Busy(c)'
    BY <1>14 DEF Restart, Busy
  <2> QED BY <2>1 DEF ReadInv
<1>15. CASE UNCHANGED vars
  BY <1>15 DEF ReadInv, ReadOK, Alone, Busy, vars, drivers, history
<1> QED BY <1>1, <1>2, <1>3, <1>4, <1>5, <1>6, <1>7, <1>8, <1>9, <1>10, <1>11, <1>12, <1>13,
           <1>14, <1>15 DEF Next

------------------------------------------------------------------------------
(***************************************************************************)
(* Theorems.                                                               *)
(***************************************************************************)

\* DriveInv is inductive.
LEMMA DriveInvariance == Spec => []DriveInv
<1>1. Init => DriveInv
  <2> SUFFICES ASSUME Init PROVE DriveInv
    OBVIOUS
  <2>1. /\ \A c \in Calls : ~ Busy(c) /\ call[c].pc = "idle"
        /\ \A x \in Ids : drive[x].state = "free"
        /\ \A i \in Instances, n \in Names : cache[i][n] = 0
        /\ \A i \in Instances : folder[i] = home
        /\ \A n \in Names : latest[n] = 0 /\ settled[n] = "unknown"
        /\ split = FALSE /\ contended = {} /\ home \in Homes /\ folders = {home} \ {Unset}
    BY DEF Init, Busy, Idle, NoIds, AtHome
  <2>2. TypeOK
    <3>1. drive \in [Ids -> [state : {"free", "live", "gone"}, name : Names,
                             dir : Folders \cup {Root, Unset}]]
      BY DEF Init
    <3>2. call \in [Calls -> Call \cup {Idle}] /\ latest \in [Names -> Ids \cup {0}]
          /\ settled \in [Names -> {"unknown", "stored", "deleted"}]
      BY DEF Init
    <3>3. cache \in [Instances -> [Names -> Ids \cup {0}]]
          /\ folder \in [Instances -> Folders \cup {Root, Unset}]
      BY <2>1 DEF Init, NoIds, AtHome
    <3>4. folders \subseteq Folders
      BY <2>1
    <3> QED BY <2>1, <3>1, <3>2, <3>3, <3>4 DEF TypeOK
  <2>3. NameInv
    BY <2>1 DEF NameInv, Ordered, Free
  <2>4. PlaceInv
    BY <2>1 DEF PlaceInv
  <2>5. \A n \in Names : Live(n) = {}
    BY <2>1 DEF Live
  <2>6. SoloInv
    BY <2>1, <2>5 DEF SoloInv, Solo, ObjectOK, Writer
  <2>7. ReadInv
    BY <2>1 DEF ReadInv
  <2> QED BY <2>2, <2>3, <2>4, <2>6, <2>7 DEF DriveInv
<1>2. DriveInv /\ [Next]_vars => DriveInv'
  BY TypeStep, NameStep, PlaceStep, SoloStep, ReadStep DEF DriveInv
<1> QED BY <1>1, <1>2, PTL DEF Spec

\* Type correctness of the drivers, their calls and the service behind them.
THEOREM TypeCorrect == Spec => []TypeOK
<1>1. DriveInv => TypeOK
  BY DEF DriveInv
<1> QED BY <1>1, DriveInvariance, PTL

\* Drive holds one object of a name, though an upload creates a new one each time
\* (upload, _resolve_file_id).
THEOREM OneObjectCorrect == Spec => []OneObject
<1>1. DriveInv => OneObject
  <2> SUFFICES ASSUME DriveInv, ~ split, NEW n \in Names \ contended
               PROVE  Cardinality(Live(n)) <= 1
    BY DEF OneObject
  <2>1. \A x, y \in Live(n) : x = y
    BY DEF DriveInv, SoloInv, Solo, ObjectOK, Alone
  <2>2. Live(n) = {} \/ \E x \in Live(n) : Live(n) = {x}
    BY <2>1
  <2>3. ASSUME Live(n) = {} PROVE Cardinality(Live(n)) <= 1
    <3>1. Cardinality(Live(n)) = 0
      BY <2>3, FS_EmptySet
    <3> QED BY <3>1
  <2>4. ASSUME NEW x, Live(n) = {x} PROVE Cardinality(Live(n)) <= 1
    <3>1. Cardinality(Live(n)) = 1
      BY <2>4, FS_Singleton
    <3> QED BY <3>1
  <2> QED BY <2>2, <2>3, <2>4
<1> QED BY <1>1, DriveInvariance, PTL

\* A delete that answered True left nothing, whatever the driver had cached (delete).
THEOREM DeleteCorrect == Spec => []DeletedIsGone
<1>1. DriveInv => DeletedIsGone
  BY DEF DriveInv, SoloInv, Solo, ObjectOK, Alone, DeletedIsGone
<1> QED BY <1>1, DriveInvariance, PTL

\* A download gives nothing that an upload had replaced before it began (download).
THEOREM ReadCorrect == Spec => []FreshOrNothing
<1>1. DriveInv => FreshOrNothing
  BY DEF DriveInv, ReadInv, ReadOK, Alone, Busy, FreshOrNothing
<1> QED BY <1>1, DriveInvariance, PTL
==============================================================================
