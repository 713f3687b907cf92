------------------------- MODULE ProviderDrivers_proofs -------------------------
(***************************************************************************)
(* Proofs about ProviderDrivers, for any callers, names, contents and      *)
(* bounds.  The driver in use never changes, so what depends on it is      *)
(* written over here with the driver as a parameter, and the objects as    *)
(* another: lemmas about it hold of the next state as they do of this one. *)
(***************************************************************************)
EXTENDS ProviderDrivers, FiniteSetTheorems, TLAPS

\* The driver that is in use, the stand-in for S3 being one of its own.
Kinds == {"disk", "mock", "s3", "dropbox", "onedrive"}
Kind  == IF Mock THEN "mock" ELSE driver

\* Landing, Writes and Touches with the driver as a parameter.
LandingIn(k, c) ==
    IF k # "onedrive" THEN c.to
    ELSE IF c.to[1] = "" /\ <<c.name[1], c.to[2]>> \in Names THEN <<c.name[1], c.to[2]>>
    ELSE NoName

WritesIn(k, c) ==
    IF c.op = "rename" THEN {c.name, LandingIn(k, c)} \cap Names
    ELSE IF c.op = "copy" THEN {LandingIn(k, c)} \cap Names
    ELSE IF c.op = "delete_directory"
         THEN IF k \in {"s3", "mock"} THEN Inside \cup {n \in Names : n[2] \in Prefixed} ELSE Inside
    ELSE {c.name}

TouchesIn(k, c) == (WritesIn(k, c) \cup {c.name, c.file}) \cap Names

\* What the request of the present step may change.
Changes(k, c) ==
    IF c.op = "rename" /\ c.step = 2 THEN {c.name}
    ELSE IF c.op = "upload" THEN {c.name, c.file} \cap Names
    ELSE WritesIn(k, c)

\* The requests there are.
Sound(k, c) ==
    /\ c \in Call
    /\ c.op # "delete_directory" => c.name \in Names
    /\ c.op \in {"rename", "copy"} => c.to \in Names /\ c.name # c.to
    /\ c.op = "upload" => c.value \in Values
    /\ c.file # NoName => k = "disk" /\ c.op = "upload"
    /\ c.step = 2 => \/ k = "disk" /\ c.op = "upload"
                     \/ k = "s3" /\ c.op \in {"rename", "delete_directory"}
                     \/ k = "onedrive" /\ c.op = "copy" /\ c.value \in Values
    /\ c.op = "rename" /\ (c.step = 2 \/ c.served = "ok") => LandingIn(k, c) \in Names
    /\ c.op = "delete_directory" /\ k = "s3" => c.batch \subseteq WritesIn(k, c)

\* What serving a request does, in the terms of the invariant.
Effect(k, obj, c, e) ==
    /\ e.ok \in BOOLEAN /\ e.left \in [Names -> Stored]
    /\ \A n \in Names \ Changes(k, c) : e.left[n] = obj[n]
    /\ k \notin {"disk", "mock"} /\ obj \in [Names -> Values \cup {Absent}]
         => e.left \in [Names -> Values \cup {Absent}]
    /\ e.ok =>
         /\ c.op = "upload" /\ k # "disk" => e.left[c.name] = c.value
         /\ c.op = "upload" /\ k = "disk" /\ c.step = 1 => e.left[c.name] = Torn
         /\ c.op = "upload" /\ k = "disk" /\ c.step = 2 /\ c.file # NoName
              => e.left[c.file] = c.value
         /\ c.op = "delete" => e.left[c.name] = Absent
         /\ c.op = "delete_directory" /\ k # "s3" => \A n \in Inside : e.left[n] = Absent
         /\ c.op = "rename" => LandingIn(k, c) \in Names
         /\ c.op = "rename" /\ c.step = 1 => e.left[LandingIn(k, c)] = obj[c.name]
         /\ c.op = "rename" /\ c.step = 1 /\ k = "s3" => e.left[c.name] = obj[c.name]
         /\ c.op = "copy" /\ k # "onedrive" => e.left[c.to] = obj[c.name]
    /\ ~ e.ok =>
         /\ c.op = "rename" => e.left = obj
         /\ c.op = "upload" /\ k = "disk" => e.left = obj

\* Which driver is in use.
LEMMA KindTyped ==
    ASSUME driver \in {"disk", "s3", "dropbox", "onedrive"}
    PROVE  /\ Kind \in Kinds
           /\ driver = "disk" <=> Kind = "disk"
           /\ driver = "s3" /\ ~ Mock <=> Kind = "s3"
           /\ driver = "s3" <=> Kind \in {"s3", "mock"}
           /\ driver = "onedrive" <=> Kind = "onedrive"
           /\ driver = "dropbox" <=> Kind = "dropbox"
           /\ Mock <=> Kind = "mock"
           /\ Local <=> Kind \in {"disk", "mock"}
  BY DEF Kind, Kinds, Mock, Local

\* The operators of the driver in use.
LEMMA InKind ==
    ASSUME driver \in {"disk", "s3", "dropbox", "onedrive"}, NEW c \in Call
    PROVE  /\ Landing(c) = LandingIn(Kind, c)
           /\ Writes(c) = WritesIn(Kind, c)
           /\ Touches(c) = TouchesIn(Kind, c)
<1>1. c.op \in Ops
  BY DEF Call
<1>2. Landing(c) = LandingIn(Kind, c)
  BY KindTyped DEF Landing, LandingIn
<1>3. Writes(c) = WritesIn(Kind, c)
  <2>1. CASE c.op = "rename"
    BY <2>1, <1>2 DEF Writes, WritesIn
  <2>2. CASE c.op = "copy"
    BY <2>2, <1>2 DEF Writes, WritesIn
  <2>3. CASE c.op = "delete_directory"
    BY <2>3, KindTyped DEF Writes, WritesIn
  <2>4. CASE c.op \in {"upload", "delete"}
    BY <2>4 DEF Writes, WritesIn
  <2> QED BY <1>1, <2>1, <2>2, <2>3, <2>4 DEF Ops
<1> QED BY <1>2, <1>3 DEF Touches, TouchesIn

------------------------------------------------------------------------------
(***************************************************************************)
(* What serving a request does, driver by driver.                          *)
(***************************************************************************)

\* A request that is refused leaves everything as it was.
LEMMA RefusedEffect ==
    ASSUME NEW k, objects \in [Names -> Stored], NEW c
    PROVE  Effect(k, objects, c, Refused(objects))
  BY DEF Effect, Refused

\* An upload that is written at once.
LEMMA UploadEffect ==
    ASSUME NEW k, k # "disk", NEW c, Sound(k, c), c.op = "upload",
           objects \in [Names -> Stored]
    PROVE  Effect(k, objects, c, Done(Put(c.name, c.value)))
<1> DEFINE e == Done(Put(c.name, c.value))
<1>1. c.name \in Names /\ c.value \in Values /\ c.value \in Stored
  BY DEF Sound, Stored
<1>2. e.ok = TRUE /\ e.left = [objects EXCEPT ![c.name] = c.value]
  BY DEF Done, Put
<1>3. c.name \in Changes(k, c)
  BY <1>1 DEF Changes
<1> HIDE DEF e
<1>5. Effect(k, objects, c, e)
  BY <1>1, <1>2, <1>3 DEF Effect
<1> QED BY <1>5 DEF e

\* A deletion.
LEMMA DeleteEffect ==
    ASSUME NEW k, NEW c, Sound(k, c), c.op = "delete", objects \in [Names -> Stored]
    PROVE  Effect(k, objects, c, Done(Without({c.name})))
<1> DEFINE e == Done(Without({c.name}))
<1>1. c.name \in Names /\ Absent \in Stored
  BY DEF Sound, Stored
<1>2. e.ok = TRUE /\ e.left = [n \in Names |-> IF n \in {c.name} THEN Absent ELSE objects[n]]
  BY DEF Done, Without
<1>3. c.name \in Changes(k, c)
  BY <1>1 DEF Changes, WritesIn
<1> HIDE DEF e
<1>5. Effect(k, objects, c, e)
  BY <1>1, <1>2, <1>3 DEF Effect
<1> QED BY <1>5 DEF e

\* The deletion of a folder, all at once or cut short.
LEMMA FolderEffect ==
    ASSUME NEW k, k # "s3", NEW c, Sound(k, c), c.op = "delete_directory",
           objects \in [Names -> Stored]
    PROVE  /\ Effect(k, objects, c, Done(Without(Inside)))
           /\ k \in {"disk", "mock"} =>
                \A s \in SUBSET Inside : Effect(k, objects, c, Refused(Without(s)))
<1>1. Inside \subseteq Names /\ Absent \in Stored /\ Inside \subseteq Changes(k, c)
  BY DEF Inside, Stored, Changes, WritesIn
<1>2. Effect(k, objects, c, Done(Without(Inside)))
  <2> DEFINE e == Done(Without(Inside))
  <2>1. e.ok = TRUE /\ e.left = [n \in Names |-> IF n \in Inside THEN Absent ELSE objects[n]]
    BY DEF Done, Without
  <2> HIDE DEF e
  <2>2. Effect(k, objects, c, e)
    BY <1>1, <2>1 DEF Effect
  <2> QED BY <2>2 DEF e
<1>3. ASSUME NEW s \in SUBSET Inside, k \in {"disk", "mock"}
      PROVE  Effect(k, objects, c, Refused(Without(s)))
  <2> DEFINE e == Refused(Without(s))
  <2>1. e.ok = FALSE /\ e.left = [n \in Names |-> IF n \in s THEN Absent ELSE objects[n]]
    BY DEF Refused, Without
  <2> HIDE DEF e
  <2>2. Effect(k, objects, c, e)
    BY <1>1, <1>3, <2>1 DEF Effect
  <2> QED BY <2>2 DEF e
<1> QED BY <1>2, <1>3

\* A move.
LEMMA MoveEffect ==
    ASSUME NEW k, k # "s3", NEW c, Sound(k, c), c.op = "rename", c.step = 1,
           LandingIn(k, c) \in Names, LandingIn(k, c) # c.name,
           objects \in [Names -> Stored]
    PROVE  Effect(k, objects, c, Done(Moved(c.name, LandingIn(k, c))))
<1> DEFINE b == LandingIn(k, c)
           e == Done(Moved(c.name, b))
<1>1. c.name \in Names /\ Absent \in Stored
  BY DEF Sound, Stored
<1>2. e.ok = TRUE /\ e.left = [objects EXCEPT ![c.name] = Absent, ![b] = objects[c.name]]
  BY DEF Done, Moved
<1>3. Changes(k, c) = {c.name, b}
  BY <1>1 DEF Changes, WritesIn
<1> HIDE DEF e
<1>4. e.left[b] = objects[c.name] /\ e.left \in [Names -> Stored]
  BY <1>1, <1>2
<1>5. Effect(k, objects, c, e)
  BY <1>1, <1>2, <1>3, <1>4 DEF Effect
<1> QED BY <1>5 DEF e

\* A copy that is made at once.
LEMMA CopyEffect ==
    ASSUME NEW k, k # "onedrive", NEW c, Sound(k, c), c.op = "copy",
           objects \in [Names -> Stored]
    PROVE  Effect(k, objects, c, Done(Copied(c.name, c.to)))
<1> DEFINE e == Done(Copied(c.name, c.to))
<1>1. c.name \in Names /\ c.to \in Names
  BY DEF Sound
<1>2. e.ok = TRUE /\ e.left = [objects EXCEPT ![c.to] = objects[c.name]]
  BY DEF Done, Copied, Put
<1>3. Changes(k, c) = {c.to}
  BY <1>1 DEF Changes, WritesIn, LandingIn
<1> HIDE DEF e
<1>5. Effect(k, objects, c, e)
  BY <1>1, <1>2, <1>3 DEF Effect
<1> QED BY <1>5 DEF e

\* A request to the disk.
LEMMA DiskEffect ==
    ASSUME NEW k \in {"disk", "mock"}, NEW c, Sound(k, c),
           k = "disk" \/ c.op # "upload",
           objects \in [Names -> Stored], NEW e \in DiskServes(c)
    PROVE  Effect(k, objects, c, e)
<1>1. c \in Call /\ c.op \in Ops /\ c.step \in 1 .. 2
  BY DEF Sound, Call
<1>3. LandingIn(k, c) = c.to
  BY DEF LandingIn
<1>4. CASE c.op = "upload" /\ c.step = 1
  <2>1. c.name \in Names /\ Torn \in Stored
    BY <1>4 DEF Sound, Stored
  <2>2. e = Done(Put(c.name, Torn))
    BY <1>4 DEF DiskServes
  <2>3. e.left = [objects EXCEPT ![c.name] = Torn] /\ e.ok = TRUE
    BY <2>2 DEF Done, Put
  <2>4. c.name \in Changes(k, c)
    BY <1>4, <2>1 DEF Changes
  <2>5. k = "disk"
    BY <1>4
  <2>6. e.left \in [Names -> Stored] /\ e.left[c.name] = Torn
    BY <2>1, <2>3
  <2>7. \A n \in Names \ Changes(k, c) : e.left[n] = objects[n]
    BY <2>3, <2>4
  <2>8. e.ok \in BOOLEAN /\ (~ e.ok => FALSE)
    BY <2>3
  <2> QED BY <1>4, <2>5, <2>6, <2>7, <2>8 DEF Effect
<1>5. CASE c.op = "upload" /\ c.step = 2
  <2>1. c.value \in Stored /\ c.value \in Values /\ k = "disk" /\ c.name \in Names
    BY <1>1, <1>5 DEF Sound, Stored
  <2>2. CASE c.file = NoName
    <3>1. e.left = objects /\ e.ok = TRUE
      BY <1>5, <2>2 DEF DiskServes, Done
    <3>2. e.ok \in BOOLEAN /\ (~ e.ok => FALSE)
      BY <3>1
    <3> QED BY <1>5, <2>1, <2>2, <3>1, <3>2 DEF Effect
  <2>3. CASE c.file # NoName
    <3>1. c.file \in Names
      BY <1>1, <2>3 DEF Call
    <3>2. e = Done(Put(c.file, c.value)) \/ e = Refused(objects)
      BY <1>5, <2>3 DEF DiskServes
    <3>3. CASE e = Refused(objects)
      BY <3>3, RefusedEffect
    <3>4. CASE e = Done(Put(c.file, c.value))
      <4>1. e.left = [objects EXCEPT ![c.file] = c.value] /\ e.ok = TRUE
        BY <3>4 DEF Done, Put
      <4>2. c.file \in Changes(k, c)
        BY <1>5, <3>1 DEF Changes
      <4>3. e.left \in [Names -> Stored] /\ e.left[c.file] = c.value
        BY <2>1, <3>1, <4>1
      <4>4. \A n \in Names \ Changes(k, c) : e.left[n] = objects[n]
        BY <4>1, <4>2
      <4>5. e.ok \in BOOLEAN /\ (~ e.ok => FALSE)
        BY <4>1
      <4> QED BY <1>5, <2>1, <4>3, <4>4, <4>5 DEF Effect
    <3> QED BY <3>2, <3>3, <3>4
  <2> QED BY <2>2, <2>3
<1>6. CASE c.op = "delete"
  <2>1. e = Done(Without({c.name}))
    BY <1>6 DEF DiskServes
  <2> QED BY <1>6, <2>1, DeleteEffect
<1>7. CASE c.op \in {"rename", "copy"} /\ objects[c.name] = Absent
  <2>1. e = Refused(objects)
    BY <1>7 DEF DiskServes
  <2> QED BY <2>1, RefusedEffect
<1>8. CASE c.op = "rename" /\ objects[c.name] # Absent
  <2>1. c.to \in Names /\ c.name # c.to /\ c.step = 1
    BY <1>1, <1>8 DEF Sound
  <2>2. e = Done(Moved(c.name, c.to))
    BY <1>8 DEF DiskServes
  <2> QED BY <1>8, <1>3, <2>1, <2>2, MoveEffect
<1>9. CASE c.op = "copy" /\ objects[c.name] # Absent
  <2>1. c.name \in Names /\ c.to \in Names /\ c.name # c.to /\ Torn \in Stored
    BY <1>1, <1>9 DEF Sound, Stored
  <2>2. e = Done(Copied(c.name, c.to)) \/ e = Refused(Put(c.to, Torn))
    BY <1>9 DEF DiskServes
  <2>3. Changes(k, c) = {c.to}
    BY <1>9, <1>3, <2>1 DEF Changes, WritesIn
  <2>4. CASE e = Done(Copied(c.name, c.to))
    BY <1>9, <2>4, CopyEffect
  <2>5. CASE e = Refused(Put(c.to, Torn))
    <3>1. e.left = [objects EXCEPT ![c.to] = Torn] /\ e.ok = FALSE
      BY <2>5 DEF Refused, Put
    <3> QED BY <1>9, <2>1, <2>3, <3>1 DEF Effect
  <2> QED BY <2>2, <2>4, <2>5
<1>10. CASE c.op = "delete_directory"
  <2>1. e = Done(Without(Inside)) \/ \E s \in SUBSET Inside : e = Refused(Without(s))
    BY <1>10 DEF DiskServes, FolderRemoved
  <2> QED BY <1>10, <2>1, FolderEffect
<1> QED BY <1>1, <1>4, <1>5, <1>6, <1>7, <1>8, <1>9, <1>10 DEF Ops

\* A request to the stand-in for S3.
LEMMA MockEffect ==
    ASSUME NEW c, Sound("mock", c), objects \in [Names -> Stored], NEW e \in MockServes(c)
    PROVE  Effect("mock", objects, c, e)
<1>1. CASE c.op = "upload"
  <2>1. e = Done(Put(c.name, c.value)) \/ e = Refused(Put(c.name, Torn))
    BY <1>1 DEF MockServes
  <2>2. CASE e = Done(Put(c.name, c.value))
    BY <1>1, <2>2, UploadEffect
  <2>3. CASE e = Refused(Put(c.name, Torn))
    <3>1. c.name \in Names /\ Torn \in Stored /\ c.name \in Changes("mock", c)
      BY <1>1 DEF Sound, Stored, Changes
    <3>2. e.left = [objects EXCEPT ![c.name] = Torn] /\ e.ok = FALSE
      BY <2>3 DEF Refused, Put
    <3>3. e.left \in [Names -> Stored]
      BY <3>1, <3>2
    <3>4. \A n \in Names \ Changes("mock", c) : e.left[n] = objects[n]
      BY <3>1, <3>2
    <3> QED BY <1>1, <3>2, <3>3, <3>4 DEF Effect
  <2> QED BY <2>1, <2>2, <2>3
<1>2. CASE c.op # "upload"
  <2>1. e \in DiskServes(c)
    BY <1>2 DEF MockServes
  <2> QED BY <1>2, <2>1, DiskEffect
<1> QED BY <1>1, <1>2

\* A request to S3.
LEMMA S3Effect ==
    ASSUME NEW c, Sound("s3", c), objects \in [Names -> Stored], NEW e \in S3Serves(c)
    PROVE  Effect("s3", objects, c, e)
<1>1. c \in Call /\ c.op \in Ops /\ c.step \in 1 .. 2 /\ Absent \in Stored
  BY DEF Sound, Call, Stored
<1>2. LandingIn("s3", c) = c.to
  BY DEF LandingIn
<1>3. CASE c.op = "upload"
  <2>1. e = Done(Put(c.name, c.value))
    BY <1>3 DEF S3Serves
  <2> QED BY <1>3, <2>1, UploadEffect
<1>4. CASE c.op = "delete"
  <2>1. e = Done(Without({c.name}))
    BY <1>4 DEF S3Serves
  <2> QED BY <1>4, <2>1, DeleteEffect
<1>5. CASE c.op = "rename" /\ c.step = 2
  <2>1. e = Done(Without({c.name}))
    BY <1>5 DEF S3Serves
  <2>2. e.left = [n \in Names |-> IF n \in {c.name} THEN Absent ELSE objects[n]] /\ e.ok = TRUE
    BY <2>1 DEF Done, Without
  <2>3. c.name \in Changes("s3", c) /\ LandingIn("s3", c) \in Names
    BY <1>5 DEF Changes, Sound
  <2>4. e.left \in [Names -> Stored]
    BY <1>1, <2>2
  <2>5. \A n \in Names \ Changes("s3", c) : e.left[n] = objects[n]
    BY <2>2, <2>3
  <2>6. objects \in [Names -> Values \cup {Absent}] => e.left \in [Names -> Values \cup {Absent}]
    BY <2>2
  <2>7. e.ok \in BOOLEAN /\ (~ e.ok => FALSE)
    BY <2>2
  <2> QED BY <1>5, <2>3, <2>4, <2>5, <2>6, <2>7 DEF Effect
<1>6. CASE c.op \in {"copy", "rename"} /\ objects[c.name] = Absent /\ (c.op = "rename" => c.step = 1)
  <2>1. e = Refused(objects)
    BY <1>6 DEF S3Serves
  <2> QED BY <2>1, RefusedEffect
<1>7. CASE c.op = "copy" /\ objects[c.name] # Absent
  <2>1. e = Done(Copied(c.name, c.to))
    BY <1>7 DEF S3Serves
  <2> QED BY <1>7, <2>1, CopyEffect
<1>8. CASE c.op = "rename" /\ c.step = 1 /\ objects[c.name] # Absent
  <2>1. e = Done(Copied(c.name, c.to))
    BY <1>8 DEF S3Serves
  <2>2. e.left = [objects EXCEPT ![c.to] = objects[c.name]] /\ e.ok = TRUE
    BY <2>1 DEF Done, Copied, Put
  <2>3. c.name \in Names /\ c.to \in Names /\ c.name # c.to
    BY <1>8 DEF Sound
  <2>4. c.to \in Changes("s3", c)
    BY <1>2, <1>8, <2>3 DEF Changes, WritesIn
  <2>5. e.left \in [Names -> Stored] /\ e.left[c.to] = objects[c.name]
        /\ e.left[c.name] = objects[c.name]
    BY <2>2, <2>3
  <2>6. \A n \in Names \ Changes("s3", c) : e.left[n] = objects[n]
    BY <2>2, <2>4
  <2>7. objects \in [Names -> Values \cup {Absent}] => e.left \in [Names -> Values \cup {Absent}]
    BY <2>2, <2>3
  <2>8. e.ok \in BOOLEAN /\ (~ e.ok => FALSE)
    BY <2>2
  <2> QED BY <1>2, <1>8, <2>3, <2>5, <2>6, <2>7, <2>8 DEF Effect
<1>9. CASE c.op = "delete_directory"
  <2>1. c.batch \subseteq Changes("s3", c)
    BY <1>9 DEF Sound, Changes
  <2>2. e = Done(objects) \/ \E s \in SUBSET c.batch : e = Done(Without(s))
    BY <1>9 DEF S3Serves, BatchDeleted
  <2>3. PICK s \in SUBSET c.batch :
           e.ok = TRUE /\ e.left = [n \in Names |-> IF n \in s THEN Absent ELSE objects[n]]
    <3>1. CASE e = Done(objects)
      <4>1. e.ok = TRUE /\ e.left = [n \in Names |-> IF n \in {} THEN Absent ELSE objects[n]]
        BY <3>1 DEF Done
      <4> WITNESS {} \in SUBSET c.batch
      <4> QED BY <4>1
    <3>2. CASE \E s \in SUBSET c.batch : e = Done(Without(s))
      BY <3>2 DEF Done, Without
    <3> QED BY <2>2, <3>1, <3>2
  <2>4. e.left \in [Names -> Stored]
    BY <1>1, <2>3
  <2>5. \A n \in Names \ Changes("s3", c) : e.left[n] = objects[n]
    BY <2>1, <2>3
  <2>6. objects \in [Names -> Values \cup {Absent}] => e.left \in [Names -> Values \cup {Absent}]
    BY <2>3
  <2> QED BY <1>9, <2>3, <2>4, <2>5, <2>6 DEF Effect
<1> QED BY <1>1, <1>3, <1>4, <1>5, <1>6, <1>7, <1>8, <1>9 DEF Ops

\* A request to Dropbox.
LEMMA DropboxEffect ==
    ASSUME NEW c, Sound("dropbox", c), objects \in [Names -> Stored], NEW e \in DropboxServes(c)
    PROVE  Effect("dropbox", objects, c, e)
<1>1. c \in Call /\ c.op \in Ops /\ c.step = 1
  BY DEF Sound, Call
<1>2. LandingIn("dropbox", c) = c.to
  BY DEF LandingIn
<1>3. CASE c.op = "upload"
  BY <1>3, UploadEffect DEF DropboxServes
<1>4. CASE c.op = "delete"
  BY <1>4, DeleteEffect DEF DropboxServes
<1>5. CASE c.op = "rename"
  <2>1. c.to \in Names /\ c.name # c.to /\ LandingIn("dropbox", c) = c.to
    BY <1>2, <1>5 DEF Sound
  <2>2. e = Done(Moved(c.name, c.to))
    BY <1>5 DEF DropboxServes
  <2> QED BY <1>1, <1>5, <2>1, <2>2, MoveEffect
<1>6. CASE c.op = "copy"
  <2>1. e = Done(Copied(c.name, c.to))
    BY <1>6 DEF DropboxServes
  <2> QED BY <1>6, <2>1, CopyEffect
<1>7. CASE c.op = "delete_directory"
  BY <1>7, FolderEffect DEF DropboxServes
<1> QED BY <1>1, <1>3, <1>4, <1>5, <1>6, <1>7 DEF Ops

\* A request to OneDrive.
LEMMA OneDriveEffect ==
    ASSUME driver = "onedrive", NEW c, Sound("onedrive", c), objects \in [Names -> Stored],
           NEW e \in OneDriveServes(c)
    PROVE  Effect("onedrive", objects, c, e)
<1>1. c \in Call /\ c.op \in Ops /\ c.step \in 1 .. 2
  BY DEF Sound, Call
<1>2. Landing(c) = LandingIn("onedrive", c)
  BY DEF Landing, LandingIn
<1>3. CASE c.op = "upload"
  BY <1>3, UploadEffect DEF OneDriveServes
<1>4. CASE c.op = "delete"
  BY <1>4, DeleteEffect DEF OneDriveServes
<1>5. CASE c.op = "rename"
  <2>1. c.step = 1 /\ c.name \in Names
    BY <1>1, <1>5 DEF Sound
  <2>2. /\ objects[c.name] # Absent /\ Free(Landing(c))
        /\ e = Done(Moved(c.name, Landing(c)))
    BY <1>5, <2>1 DEF OneDriveServes
  <2>3. LandingIn("onedrive", c) \in Names /\ LandingIn("onedrive", c) # c.name
    BY <1>2, <2>2 DEF Free
  <2> QED BY <1>2, <1>5, <2>1, <2>2, <2>3, MoveEffect
<1>6. CASE c.op = "copy" /\ c.step = 1
  <2>1. e = Done(objects)
    BY <1>6 DEF OneDriveServes
  <2>2. e.left = objects /\ e.ok = TRUE
    BY <2>1 DEF Done
  <2>3. e.ok \in BOOLEAN /\ (~ e.ok => FALSE)
    BY <2>2
  <2> QED BY <1>6, <2>2, <2>3 DEF Effect
<1>7. CASE c.op = "copy" /\ c.step = 2
  <2>1. Free(Landing(c)) /\ e = Done(Put(Landing(c), c.value))
    BY <1>7 DEF OneDriveServes
  <2>2. c.value \in Values /\ c.value \in Stored /\ Landing(c) \in Names
    BY <1>7, <2>1 DEF Sound, Stored, Free
  <2>3. e.left = [objects EXCEPT ![Landing(c)] = c.value] /\ e.ok = TRUE
    BY <2>1 DEF Done, Put
  <2>4. Landing(c) \in Changes("onedrive", c)
    BY <1>2, <1>7, <2>2 DEF Changes, WritesIn
  <2>5. e.left \in [Names -> Stored]
    BY <2>2, <2>3
  <2>6. \A n \in Names \ Changes("onedrive", c) : e.left[n] = objects[n]
    BY <2>3, <2>4
  <2>7. objects \in [Names -> Values \cup {Absent}] => e.left \in [Names -> Values \cup {Absent}]
    BY <2>2, <2>3
  <2>8. e.ok \in BOOLEAN /\ (~ e.ok => FALSE)
    BY <2>3
  <2> QED BY <1>7, <2>5, <2>6, <2>7, <2>8 DEF Effect
<1>8. CASE c.op = "delete_directory"
  BY <1>8, FolderEffect DEF OneDriveServes
<1> QED BY <1>1, <1>3, <1>4, <1>5, <1>6, <1>7, <1>8 DEF Ops

\* Whatever the driver.
LEMMA ServesEffect ==
    ASSUME driver \in {"disk", "s3", "dropbox", "onedrive"}, objects \in [Names -> Stored],
           NEW c, Sound(Kind, c), NEW e \in Serves(c)
    PROVE  Effect(Kind, objects, c, e)
<1>1. CASE e = Refused(objects)
  BY <1>1, RefusedEffect
<1>2. CASE e # Refused(objects)
  <2>1. CASE driver = "disk"
    <3>1. e \in DiskServes(c) /\ Kind = "disk"
      BY <1>2, <2>1, KindTyped DEF Serves, Usable
    <3> QED BY <3>1, DiskEffect
  <2>2. CASE Mock
    <3>1. e \in MockServes(c) /\ Kind = "mock"
      BY <1>2, <2>2, KindTyped DEF Serves, Usable, Mock
    <3> QED BY <3>1, MockEffect
  <2>3. CASE driver = "s3" /\ ~ Mock
    <3>1. e \in S3Serves(c) /\ Kind = "s3"
      BY <1>2, <2>3, KindTyped DEF Serves, Usable
    <3> QED BY <3>1, S3Effect
  <2>4. CASE driver = "dropbox"
    <3>1. e \in DropboxServes(c) /\ Kind = "dropbox"
      BY <1>2, <2>4, KindTyped DEF Serves, Usable, Mock
    <3> QED BY <3>1, DropboxEffect
  <2>5. CASE driver = "onedrive"
    <3>1. e \in OneDriveServes(c) /\ Kind = "onedrive"
      BY <1>2, <2>5, KindTyped DEF Serves, Usable, Mock
    <3> QED BY <2>5, <3>1, OneDriveEffect
  <2> QED BY <2>1, <2>2, <2>3, <2>4, <2>5
<1> QED BY <1>1, <1>2

------------------------------------------------------------------------------
(***************************************************************************)
(* The requests there are stay well formed.                                *)
(***************************************************************************)

\* The requests that run or are left behind, each with whom it belongs to.
Active(cs, ls) ==
    {[late |-> FALSE, by |-> h, req |-> cs[h]] : h \in {g \in Callers : cs[g] # Idle}}
      \cup {[late |-> TRUE, by |-> d, req |-> d] : d \in ls}

BaseInv ==
    /\ TypeOK /\ IsFiniteSet(late)
    /\ \A h \in Callers : calls[h] # Idle =>
          Sound(Kind, calls[h]) /\ (calls[h].op = "copy" => calls[h].step = 1)
    /\ \A d \in late : Sound(Kind, d)
    /\ ~ Local => objects \in [Names -> Values \cup {Absent}]

\* What is in this set.
Run(h, c)  == [late |-> FALSE, by |-> h, req |-> c]
Behind(d)  == [late |-> TRUE, by |-> d, req |-> d]

\* A request under way is that of a caller or one left behind.
LEMMA ActiveOf ==
    ASSUME NEW cs, NEW ls, NEW p \in Active(cs, ls)
    PROVE  \/ ~ p.late /\ p.by \in Callers /\ cs[p.by] # Idle /\ p.req = cs[p.by]
              /\ p = Run(p.by, p.req)
           \/ p.late /\ p.by \in ls /\ p.req = p.by /\ p = Behind(p.by)
<1>1. \/ \E h \in Callers : cs[h] # Idle /\ p = Run(h, cs[h])
      \/ \E d \in ls : p = Behind(d)
  BY DEF Active, Run, Behind
<1>2. CASE \E h \in Callers : cs[h] # Idle /\ p = Run(h, cs[h])
  BY <1>2 DEF Run
<1>3. CASE \E d \in ls : p = Behind(d)
  BY <1>3 DEF Behind
<1> QED BY <1>1, <1>2, <1>3

\* The request of a caller is under way.
LEMMA ActiveRun ==
    ASSUME NEW cs, NEW ls, NEW h \in Callers, cs[h] # Idle
    PROVE  /\ Run(h, cs[h]) \in Active(cs, ls)
           /\ Run(h, cs[h]).req = cs[h] /\ Run(h, cs[h]).by = h /\ ~ Run(h, cs[h]).late
  BY DEF Active, Run

\* A request left behind is under way.
LEMMA ActiveBehind ==
    ASSUME NEW cs, NEW ls, NEW d \in ls
    PROVE  /\ Behind(d) \in Active(cs, ls)
           /\ Behind(d).req = d /\ Behind(d).by = d /\ Behind(d).late
  BY DEF Active, Behind

\* A call whose promise is given up, or that begins.
LEMMA SoundFlags ==
    ASSUME NEW k, NEW c, Sound(k, c), NEW b \in BOOLEAN, NEW w \in Values \cup {Nothing}
    PROVE  /\ Sound(k, [c EXCEPT !.clean = b, !.was = w])
           /\ c.served = "sent" => Sound(k, Left(c))
<1>1. c \in Call
  BY DEF Sound
<1>2. ASSUME NEW d \in Call, d.op = c.op, d.name = c.name, d.to = c.to, d.value = c.value,
             d.file = c.file, d.step = c.step, d.batch = c.batch, d.served = c.served
      PROVE  Sound(k, d)
  BY <1>2 DEF Sound, LandingIn, WritesIn
<1>3. [c EXCEPT !.clean = b, !.was = w] \in Call
  BY <1>1 DEF Call
<1>4. Sound(k, [c EXCEPT !.clean = b, !.was = w])
  BY <1>1, <1>2, <1>3 DEF Call
<1>5. ASSUME c.served = "sent"
      PROVE  Sound(k, Left(c))
  <2>1. Left(c) \in Call
    BY <1>1 DEF Call, Left
  <2> QED BY <1>1, <1>2, <1>5, <2>1 DEF Call, Left
<1> QED BY <1>4, <1>5

\* A request stays one of its driver when its caller leaves.
LEMMA LeftSound ==
    ASSUME NEW k, NEW c, Sound(k, c), c.served = "sent"
    PROVE  Sound(k, Left(c))
<1>1. FALSE \in BOOLEAN /\ Nothing \in Values \cup {Nothing}
  OBVIOUS
<1> QED BY <1>1, SoundFlags

\* Where the open file of another call may be after a request.
Shifted(k, c, left, d, e) ==
    /\ d = [e EXCEPT !.file = d.file]
    /\ \/ d.file = e.file
       \/ d.file = NoName /\ (e.file \in TouchesIn(k, c) \/ left[e.file] = Absent)
       \/ c.op = "rename" /\ e.file = c.name /\ d.file = c.to /\ k = "disk"

\* What a served request does to the others: the open file of the disk may move.
LEMMA ServedShifts ==
    ASSUME NEW k, NEW c, Sound(k, c), NEW d, Sound(k, d), NEW left
    PROVE  Shifted(k, c, left, Served(d, c, left), d) /\ Sound(k, Served(d, c, left))
<1>1. c \in Call /\ d \in Call
  BY DEF Sound
<1>2. c.op = "rename" => c.name \in Names /\ c.to \in Names
  BY DEF Sound
<1> DEFINE f == Follows(d.file, c, left)
<1>3. \/ f = d.file
      \/ f = NoName
      \/ c.op = "rename" /\ d.file = c.name /\ f = c.to
  BY DEF Follows
<1>4. f = c.to /\ c.op = "rename" /\ d.file = c.name => d.file # NoName /\ k = "disk"
  BY <1>2, SentinelAssumption DEF Sound
<1>5. d.file \in Names \cup {NoName}
  BY <1>1 DEF Call
<1>6. f \in Names \cup {NoName} /\ (f # NoName => d.file # NoName)
  BY <1>2, <1>3, <1>5, SentinelAssumption
<1>7. Served(d, c, left) = [d EXCEPT !.file = f]
  BY <1>1 DEF Served, Call
<1> HIDE DEF f
<1>8. [d EXCEPT !.file = f] \in Call
  BY <1>1, <1>6 DEF Call
<1>9. Sound(k, [d EXCEPT !.file = f])
  BY <1>1, <1>6, <1>8 DEF Sound, LandingIn, WritesIn, Call
<1>10. [d EXCEPT !.file = f].file = f
  BY <1>1 DEF Call
<1>11. f = NoName /\ f # d.file => d.file \in TouchesIn(k, c) \/ left[d.file] = Absent
  <2>1. k = "disk" /\ c.op = "rename" => c.to \in TouchesIn(k, c)
    BY <1>2 DEF TouchesIn, WritesIn, LandingIn
  <2>2. d.file # NoName => k = "disk"
    BY DEF Sound
  <2> QED BY <1>2, <2>1, <2>2, SentinelAssumption DEF f, Follows
<1> QED BY <1>3, <1>4, <1>7, <1>9, <1>10, <1>11 DEF Shifted

\* The answered request.
Answered(k, c, e, batch) ==
    [c EXCEPT !.served = IF e.ok THEN "ok" ELSE "failed",
              !.batch  = IF c.op = "delete_directory" /\ c.step = 1 THEN batch ELSE @,
              !.file   = IF k = "disk" /\ c.op = "upload" /\ c.step = 1 /\ e.ok
                         THEN c.name ELSE @]

\* A request that has been served is still one of its driver.
LEMMA AnsweredSound ==
    ASSUME NEW k, NEW obj, NEW c, Sound(k, c), c.served = "sent", NEW e, Effect(k, obj, c, e),
           NEW batch \in SUBSET Names,
           k = "s3" => batch \subseteq Inside \cup {n \in Names : n[2] \in Prefixed}
    PROVE  Sound(k, Answered(k, c, e, batch))
<1> DEFINE d == Answered(k, c, e, batch)
<1>1. c \in Call /\ e.ok \in BOOLEAN
  BY DEF Sound, Effect
<1>2. /\ d.op = c.op /\ d.name = c.name /\ d.to = c.to /\ d.value = c.value /\ d.step = c.step
      /\ d.served = IF e.ok THEN "ok" ELSE "failed"
      /\ d.batch = IF c.op = "delete_directory" /\ c.step = 1 THEN batch ELSE c.batch
      /\ d.file = IF k = "disk" /\ c.op = "upload" /\ c.step = 1 /\ e.ok THEN c.name ELSE c.file
  BY <1>1 DEF Call, Answered
<1>3. k = "disk" /\ c.op = "upload" => c.name \in Names
  BY DEF Sound
<1>4. d \in Call
  BY <1>1, <1>3 DEF Answered, Call
<1> HIDE DEF d
<1>5. LandingIn(k, d) = LandingIn(k, c) /\ WritesIn(k, d) = WritesIn(k, c)
  BY <1>2 DEF LandingIn, WritesIn
<1>6. d.op = "rename" /\ (d.step = 2 \/ d.served = "ok") => LandingIn(k, d) \in Names
  <2>1. CASE d.step = 2
    BY <1>2, <1>5, <2>1 DEF Sound
  <2>2. CASE d.op = "rename" /\ d.served = "ok"
    <3>1. e.ok
      BY <1>1, <1>2, <2>2
    <3>2. LandingIn(k, c) \in Names
      BY <1>2, <2>2, <3>1 DEF Effect
    <3> QED BY <1>5, <3>2
  <2> QED BY <2>1, <2>2
<1>7. d.op = "delete_directory" /\ k = "s3" => d.batch \subseteq WritesIn(k, d)
  <2>1. c.op = "delete_directory" /\ k = "s3" /\ c.step = 1 => batch \subseteq WritesIn(k, c)
    BY DEF WritesIn
  <2> QED BY <1>2, <1>5, <2>1 DEF Sound
<1>8. d.file # NoName => k = "disk" /\ d.op = "upload"
  BY <1>2 DEF Sound
<1>9. /\ d.op # "delete_directory" => d.name \in Names
      /\ d.op \in {"rename", "copy"} => d.to \in Names /\ d.name # d.to
      /\ d.op = "upload" => d.value \in Values
  BY <1>2 DEF Sound
<1>10. d.step = 2 => \/ k = "disk" /\ d.op = "upload"
                     \/ k = "s3" /\ d.op \in {"rename", "delete_directory"}
                     \/ k = "onedrive" /\ d.op = "copy" /\ d.value \in Values
  BY <1>2 DEF Sound
<1>11. Sound(k, d)
  BY <1>4, <1>6, <1>7, <1>8, <1>9, <1>10 DEF Sound
<1> QED BY <1>11 DEF d

\* The same call, when its second request is sent.
LEMMA ContinuedSound ==
    ASSUME NEW k, NEW c, Sound(k, c), c.served = "ok",
           (k = "disk" /\ c.op = "upload") \/ (k = "s3" /\ c.op \in {"rename", "delete_directory"})
    PROVE  Sound(k, [c EXCEPT !.step = 2, !.served = "sent"])
<1> DEFINE d == [c EXCEPT !.step = 2, !.served = "sent"]
<1>1. c \in Call /\ 2 \in 1 .. 2
  BY DEF Sound
<1>2. d \in Call
  BY <1>1 DEF Call
<1>3. /\ d.op = c.op /\ d.name = c.name /\ d.to = c.to /\ d.value = c.value /\ d.step = 2
      /\ d.batch = c.batch /\ d.file = c.file
  BY <1>1 DEF Call
<1> HIDE DEF d
<1>4. LandingIn(k, d) = LandingIn(k, c) /\ WritesIn(k, d) = WritesIn(k, c)
  BY <1>3 DEF LandingIn, WritesIn
<1>5. /\ d.op # "delete_directory" => d.name \in Names
      /\ d.op \in {"rename", "copy"} => d.to \in Names /\ d.name # d.to
      /\ d.op = "upload" => d.value \in Values
      /\ d.file # NoName => k = "disk" /\ d.op = "upload"
  BY <1>3 DEF Sound
<1>6. d.op = "rename" => LandingIn(k, d) \in Names
  BY <1>3, <1>4 DEF Sound
<1>7. d.op = "delete_directory" /\ k = "s3" => d.batch \subseteq WritesIn(k, d)
  BY <1>3, <1>4 DEF Sound
<1>8. \/ k = "disk" /\ d.op = "upload"
      \/ k = "s3" /\ d.op \in {"rename", "delete_directory"}
  BY <1>3
<1>9. Sound(k, d)
  BY <1>2, <1>5, <1>6, <1>7, <1>8 DEF Sound
<1> QED BY <1>9 DEF d

\* The copy that OneDrive has accepted holds a content.
LEMMA AcceptedSound ==
    ASSUME NEW c, Sound(Kind, c), driver \in {"disk", "s3", "dropbox", "onedrive"},
           objects \in [Names -> Stored], ~ Local => objects \in [Names -> Values \cup {Absent}],
           NEW e \in Serves(c), NEW d \in Accepted(c, e)
    PROVE  /\ Sound(Kind, d) /\ d.served = "sent" /\ d.file = c.file
           /\ driver = "onedrive" /\ c.op = "copy" /\ c.step = 1
           /\ d.op = "copy" /\ d.name = c.name /\ d.to = c.to
<1>1. c \in Call
  BY DEF Sound
<1>2. /\ driver = "onedrive" /\ c.op = "copy" /\ c.step = 1 /\ e.ok
      /\ d = [Left(c) EXCEPT !.step = 2, !.value = objects[c.name]]
  BY DEF Accepted
<1>3. Kind = "onedrive" /\ ~ Local /\ ~ Mock
  BY <1>2, KindTyped DEF Mock
<1>4. c.name \in Names /\ objects[c.name] \in Values \cup {Absent}
  BY <1>2, <1>3 DEF Sound
<1>5. e # Refused(objects)
  BY <1>2 DEF Refused
<1>6. e \in OneDriveServes(c)
  BY <1>2, <1>3, <1>5 DEF Serves, Usable
<1>7. objects[c.name] # Absent
  BY <1>2, <1>6 DEF OneDriveServes
<1>8. /\ d \in Call /\ d.op = "copy" /\ d.name = c.name /\ d.to = c.to /\ d.file = c.file
      /\ d.step = 2 /\ d.value \in Values /\ d.served = "sent"
  <2>1. Left(c) \in Call
    BY <1>1 DEF Call, Left
  <2>4. 2 \in 1 .. 2
    OBVIOUS
  <2>2. /\ Left(c).op = c.op /\ Left(c).name = c.name /\ Left(c).to = c.to
        /\ Left(c).file = c.file /\ Left(c).served = "sent"
    BY <1>1 DEF Call, Left
  <2>3. objects[c.name] \in Values
    BY <1>4, <1>7
  <2> QED BY <1>2, <2>1, <2>2, <2>3, <2>4 DEF Call
<1>9. Sound(Kind, d)
  BY <1>2, <1>3, <1>8 DEF Sound
<1> QED BY <1>2, <1>8, <1>9

\* As many images as there are elements, or fewer.
LEMMA ImageFinite ==
    ASSUME NEW S, IsFiniteSet(S), NEW f, f = [x \in S |-> f[x]]
    PROVE  IsFiniteSet({f[x] : x \in S})
<1>1. f \in Surjection(S, {f[x] : x \in S})
  BY DEF Surjection
<1> QED BY <1>1, FS_Surjection

\* Who is idle has no call.
LEMMA IdleIsNoCall == Idle \notin Call
  BY DEF Idle, Call, Ops

\* The driver in use never changes.
LEMMA KindKept ==
    ASSUME driver' = driver, secret' = secret
    PROVE  Kind' = Kind /\ Local' = Local
  BY DEF Kind, Local, Mock

\* A call as it is asked for.
LEMMA RequestSound ==
    ASSUME NEW k, NEW c \in Requests, c.op \in {"rename", "copy"} => c.name # c.to
    PROVE  Sound(k, c) /\ c.served = "sent" /\ c.step = 1 /\ c.file = NoName
<1> DEFINE R == [op : Ops, name : Names \cup {NoName}, to : Names \cup {NoName},
                 value : Values \cup {Nothing}]
<1>1. ASSUME NEW op \in Ops, NEW n \in Names \cup {NoName}, NEW to \in Names \cup {NoName},
             NEW v \in Values \cup {Nothing}
      PROVE  /\ Request(op, n, to, v) \in Call
             /\ Request(op, n, to, v).op = op /\ Request(op, n, to, v).name = n
             /\ Request(op, n, to, v).to = to /\ Request(op, n, to, v).value = v
             /\ Request(op, n, to, v).served = "sent" /\ Request(op, n, to, v).step = 1
             /\ Request(op, n, to, v).file = NoName /\ Request(op, n, to, v).batch = {}
  <2>1. 1 \in 1 .. 2
    OBVIOUS
  <2> QED BY <2>1 DEF Request, Call
<1>2. PICK op \in Ops, n \in Names \cup {NoName}, to \in Names \cup {NoName},
           v \in Values \cup {Nothing} :
        /\ c = Request(op, n, to, v)
        /\ op # "delete_directory" => n \in Names
        /\ op \in {"rename", "copy"} => to \in Names
        /\ op = "upload" => v \in Values
  BY DEF Requests, Ops
<1>3. /\ c \in Call /\ c.op = op /\ c.name = n /\ c.to = to /\ c.value = v
      /\ c.served = "sent" /\ c.step = 1 /\ c.file = NoName /\ c.batch = {}
  BY <1>1, <1>2
<1> QED BY <1>2, <1>3 DEF Sound

\* What a call that begins does, with what it finds out held fast.
LEMMA BeginFacts ==
    ASSUME BaseInv, NEW h \in Callers, NEW c \in Requests, Begin(h, c)
    PROVE  \E cl \in BOOLEAN, kn \in Values \cup {Nothing} :
             /\ calls[h] = Idle /\ Sound(Kind, c)
             /\ c.served = "sent" /\ c.step = 1 /\ c.file = NoName
             /\ cl <=> \A p \in Active(calls, late) : TouchesIn(Kind, p.req) \cap TouchesIn(Kind, c) = {}
             /\ calls' = [g \in Callers |->
                  IF g = h THEN [c EXCEPT !.clean = cl, !.was = IF cl THEN kn ELSE Nothing]
                  ELSE IF calls[g] # Idle /\ TouchesIn(Kind, calls[g]) \cap TouchesIn(Kind, c) # {}
                       THEN [calls[g] EXCEPT !.clean = FALSE, !.was = Nothing] ELSE calls[g]]
             /\ kn # Nothing => \E q \in owed : q.value = kn /\ q.at = {c.name}
             /\ \A o \in owed' :
                   \/ o \in owed /\ o.at \cap WritesIn(Kind, c) = {}
                   \/ /\ c.op = "rename" /\ cl /\ o = [value |-> kn, at |-> WritesIn(Kind, c)]
                      /\ \E q \in owed : q.value = kn /\ q.at = {c.name}
             /\ gone' = gone \ WritesIn(Kind, c)
<1> DEFINE was == {o.value : o \in {q \in owed : q.at = {c.name}}}
           kn  == IF was = {} \/ c.op \notin {"rename", "copy"} THEN Nothing ELSE CHOOSE v \in was : TRUE
           cl  == \A d \in late \cup {calls[g] : g \in Running} : ~ (Touches(d) \cap Touches(c) # {})
<1>1. /\ driver \in {"disk", "s3", "dropbox", "onedrive"}
      /\ \A d \in late : d \in Call
      /\ \A g \in Running : calls[g] \in Call /\ g \in Callers /\ calls[g] # Idle
      /\ owed \subseteq [value : Values, at : SUBSET Names]
  BY DEF BaseInv, TypeOK, Running
<1>2. Sound(Kind, c) /\ c.served = "sent" /\ c.step = 1 /\ c.file = NoName
  BY RequestSound DEF Begin
<1>3. c \in Call
  BY <1>2 DEF Sound
<1>4. Touches(c) = TouchesIn(Kind, c) /\ Writes(c) = WritesIn(Kind, c)
  BY <1>1, <1>3, InKind
<1>5. \A d \in late \cup {calls[g] : g \in Running} : Touches(d) = TouchesIn(Kind, d)
  BY <1>1, InKind
<1>6. cl <=> \A p \in Active(calls, late) : TouchesIn(Kind, p.req) \cap TouchesIn(Kind, c) = {}
  <2>1. ASSUME cl, NEW p \in Active(calls, late)
        PROVE  TouchesIn(Kind, p.req) \cap TouchesIn(Kind, c) = {}
    <3>1. p.req \in late \/ (p.by \in Callers /\ calls[p.by] # Idle /\ p.req = calls[p.by])
      BY ActiveOf
    <3>2. p.req \in late \cup {calls[g] : g \in Running}
      BY <3>1 DEF Running
    <3> QED BY <1>4, <1>5, <2>1, <3>2
  <2>2. ASSUME \A p \in Active(calls, late) : TouchesIn(Kind, p.req) \cap TouchesIn(Kind, c) = {},
               NEW d \in late \cup {calls[g] : g \in Running}
        PROVE  Touches(d) \cap Touches(c) = {}
    <3>1. d \in late \/ \E g \in Callers : calls[g] # Idle /\ d = calls[g]
      BY DEF Running
    <3>2. \E p \in Active(calls, late) : p.req = d
      BY <3>1, ActiveRun, ActiveBehind
    <3> QED BY <1>4, <1>5, <2>2, <3>2
  <2> QED BY <2>1, <2>2
<1>7. /\ was \subseteq Values
      /\ was # {} => (CHOOSE v \in was : TRUE) \in was
      /\ kn # Nothing => kn \in was
      /\ c.op = "rename" /\ was # {} => kn \in was
  BY <1>1
<1>8. kn \in Values \cup {Nothing}
  BY <1>7
<1>9. \A v \in was : \E q \in owed : q.value = v /\ q.at = {c.name}
  OBVIOUS
<1>10. calls' = [g \in Callers |->
          IF g = h THEN [c EXCEPT !.clean = cl, !.was = IF cl THEN kn ELSE Nothing]
          ELSE IF g \in Running /\ Touches(calls[g]) \cap Touches(c) # {}
               THEN [calls[g] EXCEPT !.clean = FALSE, !.was = Nothing] ELSE calls[g]]
  BY DEF Begin
<1>11. \A g \in Callers : g \in Running <=> calls[g] # Idle
  BY DEF Running
<1>12. owed' = {o \in owed : o.at \cap Writes(c) = {}}
                  \cup (IF c.op = "rename" /\ cl /\ was # {}
                        THEN {[value |-> kn, at |-> Writes(c)]} ELSE {})
  BY DEF Begin
<1>13. gone' = gone \ WritesIn(Kind, c)
  BY <1>4 DEF Begin
<1>14. calls[h] = Idle
  BY DEF Begin
<1> HIDE DEF was, kn, cl
<1>15. calls' = [g \in Callers |->
          IF g = h THEN [c EXCEPT !.clean = cl, !.was = IF cl THEN kn ELSE Nothing]
          ELSE IF calls[g] # Idle /\ TouchesIn(Kind, calls[g]) \cap TouchesIn(Kind, c) # {}
               THEN [calls[g] EXCEPT !.clean = FALSE, !.was = Nothing] ELSE calls[g]]
  BY <1>4, <1>5, <1>10, <1>11
<1>16. \A o \in owed' :
          \/ o \in owed /\ o.at \cap WritesIn(Kind, c) = {}
          \/ /\ c.op = "rename" /\ cl /\ o = [value |-> kn, at |-> WritesIn(Kind, c)]
             /\ \E q \in owed : q.value = kn /\ q.at = {c.name}
  BY <1>4, <1>7, <1>9, <1>12
<1>17. cl \in BOOLEAN
  BY DEF cl
<1>18. kn # Nothing => \E q \in owed : q.value = kn /\ q.at = {c.name}
  BY <1>7, <1>9
<1> QED BY <1>2, <1>6, <1>8, <1>13, <1>14, <1>15, <1>16, <1>17, <1>18

\* What a request that is served does.
LEMMA ServeFacts ==
    ASSUME BaseInv, NEW h \in Callers, Serve(h)
    PROVE  \E c \in Call : \E e \in Serves(c), batch \in Listings :
             /\ c = calls[h] /\ c # Idle /\ c.served = "sent" /\ Sound(Kind, c)
             /\ Effect(Kind, objects, c, e)
             /\ objects' = e.left
             /\ calls' = [g \in Callers |->
                             IF g = h THEN Answered(Kind, c, e, batch)
                             ELSE IF calls[g] # Idle THEN Served(calls[g], c, e.left) ELSE Idle]
             /\ late' = {Served(d, c, e.left) : d \in late} \cup Accepted(c, e)
<1>1. /\ driver \in {"disk", "s3", "dropbox", "onedrive"} /\ objects \in [Names -> Stored]
      /\ calls \in [Callers -> Call \cup {Idle}]
  BY DEF BaseInv, TypeOK
<1>2. calls[h] # Idle /\ calls[h].served = "sent" /\ Sound(Kind, calls[h]) /\ calls[h] \in Call
  BY <1>1 DEF BaseInv, Serve
<1>3. PICK c \in Call : c = calls[h]
  BY <1>2
<1> DEFINE Ended(x, e, batch) ==
             [x EXCEPT
                !.served = IF e.ok THEN "ok" ELSE "failed",
                !.batch  = IF x.op = "delete_directory" /\ x.step = 1 THEN batch ELSE @,
                !.file   = IF driver = "disk" /\ x.op = "upload" /\ x.step = 1 /\ e.ok
                           THEN x.name ELSE @]
           Onward(x, e, batch) ==
             /\ objects' = e.left
             /\ calls' = [g \in Callers |->
                   IF g = h THEN Ended(x, e, batch)
                   ELSE IF g \in Running THEN Served(calls[g], x, e.left) ELSE Idle]
             /\ late' = {Served(d, x, e.left) : d \in late} \cup Accepted(x, e)
<1>7. \E e \in Serves(calls[h]), batch \in Listings : Onward(calls[h], e, batch)
  BY DEF Serve
<1> HIDE DEF Onward
<1>8. PICK e \in Serves(c), batch \in Listings : Onward(c, e, batch)
  BY <1>3, <1>7
<1>4. /\ objects' = e.left
      /\ calls' = [g \in Callers |->
            IF g = h THEN Ended(c, e, batch)
            ELSE IF g \in Running THEN Served(calls[g], c, e.left) ELSE Idle]
      /\ late' = {Served(d, c, e.left) : d \in late} \cup Accepted(c, e)
  BY <1>8 DEF Onward
<1>5. calls' = [g \in Callers |->
          IF g = h THEN Answered(Kind, c, e, batch)
          ELSE IF calls[g] # Idle THEN Served(calls[g], c, e.left) ELSE Idle]
  <2>1. Kind = "disk" <=> driver = "disk"
    BY <1>1, KindTyped
  <2>2. Answered(Kind, c, e, batch) =
           [c EXCEPT
              !.served = IF e.ok THEN "ok" ELSE "failed",
              !.batch  = IF c.op = "delete_directory" /\ c.step = 1 THEN batch ELSE @,
              !.file   = IF driver = "disk" /\ c.op = "upload" /\ c.step = 1 /\ e.ok
                         THEN c.name ELSE @]
    BY <2>1 DEF Answered
  <2> QED BY <1>4, <2>2 DEF Running
<1>6. Effect(Kind, objects, c, e)
  BY <1>1, <1>2, <1>3, ServesEffect
<1> QED BY <1>2, <1>3, <1>4, <1>5, <1>6

\* Of a listing.
LEMMA ListingIn ==
    ASSUME NEW batch \in Listings
    PROVE  /\ batch \subseteq Inside \cup {n \in Names : n[2] \in Prefixed}
           /\ batch \in SUBSET Names
  BY DEF Listings, Matches, Held, Inside

\* The requests stay well formed when one more is served.
LEMMA ServeBase ==
    ASSUME BaseInv, NEW h \in Callers, Serve(h)
    PROVE  BaseInv'
<1>1. PICK c \in Call : \E e \in Serves(c), batch \in Listings :
        /\ c = calls[h] /\ c # Idle /\ c.served = "sent" /\ Sound(Kind, c)
        /\ Effect(Kind, objects, c, e)
        /\ objects' = e.left
        /\ calls' = [g \in Callers |->
                        IF g = h THEN Answered(Kind, c, e, batch)
                        ELSE IF calls[g] # Idle THEN Served(calls[g], c, e.left) ELSE Idle]
        /\ late' = {Served(d, c, e.left) : d \in late} \cup Accepted(c, e)
  BY ServeFacts
<1>2. PICK e \in Serves(c), batch \in Listings :
        /\ c = calls[h] /\ c # Idle /\ c.served = "sent" /\ Sound(Kind, c)
        /\ Effect(Kind, objects, c, e)
        /\ objects' = e.left
        /\ calls' = [g \in Callers |->
                        IF g = h THEN Answered(Kind, c, e, batch)
                        ELSE IF calls[g] # Idle THEN Served(calls[g], c, e.left) ELSE Idle]
        /\ late' = {Served(d, c, e.left) : d \in late} \cup Accepted(c, e)
  BY <1>1
<1>3. /\ driver' = driver /\ secret' = secret /\ begun' = begun /\ owed' = owed /\ gone' = gone
      /\ Cardinality(late') <= MaxLate
  BY DEF Serve
<1>4. Kind' = Kind /\ Local' = Local
  BY <1>3, KindKept
<1>5. /\ driver \in {"disk", "s3", "dropbox", "onedrive"} /\ objects \in [Names -> Stored]
      /\ ~ Local => objects \in [Names -> Values \cup {Absent}]
      /\ calls \in [Callers -> Call \cup {Idle}] /\ late \subseteq Call /\ IsFiniteSet(late)
  BY DEF BaseInv, TypeOK
<1>6. Sound(Kind, Answered(Kind, c, e, batch))
  BY <1>2, AnsweredSound, ListingIn
<1>7. \A g \in Callers : calls[g] # Idle => Sound(Kind, Served(calls[g], c, e.left))
  <2>1. ASSUME NEW g \in Callers, calls[g] # Idle
        PROVE  Sound(Kind, Served(calls[g], c, e.left))
    <3>1. Sound(Kind, calls[g])
      BY <2>1 DEF BaseInv
    <3> QED BY <1>2, <3>1, ServedShifts
  <2> QED BY <2>1
<1>8. \A d \in late' : Sound(Kind, d)
  <2>1. \A d \in late : Sound(Kind, Served(d, c, e.left))
    BY <1>2, ServedShifts DEF BaseInv
  <2>2. \A d \in Accepted(c, e) : Sound(Kind, d)
    BY <1>2, <1>5, AcceptedSound
  <2> QED BY <1>2, <2>1, <2>2
<1>9. IsFiniteSet(late')
  <2> DEFINE f == [d \in late |-> Served(d, c, e.left)]
  <2>1. IsFiniteSet({f[d] : d \in late})
    <3>1. f = [d \in late |-> f[d]]
      OBVIOUS
    <3> HIDE DEF f
    <3> QED BY <1>5, <3>1, ImageFinite
  <2>2. {f[d] : d \in late} = {Served(d, c, e.left) : d \in late}
    OBVIOUS
  <2>3. \/ Accepted(c, e) = {}
        \/ \E x : Accepted(c, e) = {x}
    BY DEF Accepted
  <2> DEFINE served == {Served(d, c, e.left) : d \in late}
  <2>4. IsFiniteSet(served)
    BY <2>1, <2>2
  <2>5. late' = served \cup Accepted(c, e)
    BY <1>2
  <2> HIDE DEF f, served
  <2>6. CASE Accepted(c, e) = {}
    <3>1. late' = served
      BY <2>5, <2>6
    <3> QED BY <2>4, <3>1
  <2>7. CASE \E x : Accepted(c, e) = {x}
    <3>1. PICK x : Accepted(c, e) = {x}
      BY <2>7
    <3>2. late' = served \cup {x}
      BY <2>5, <3>1
    <3> QED BY <2>4, <3>2, FS_AddElement
  <2> QED BY <2>3, <2>6, <2>7
<1>10. \A g \in Callers : calls'[g] # Idle =>
          Sound(Kind, calls'[g]) /\ (calls'[g].op = "copy" => calls'[g].step = 1)
  <2>1. ASSUME NEW g \in Callers, calls'[g] # Idle
        PROVE  Sound(Kind, calls'[g]) /\ (calls'[g].op = "copy" => calls'[g].step = 1)
    <3>1. CASE g = h
      <4>1. calls'[g] = Answered(Kind, c, e, batch) /\ (c.op = "copy" => c.step = 1)
        BY <1>2, <3>1 DEF BaseInv
      <4> QED BY <1>6, <4>1 DEF Answered, Call
    <3>2. CASE g # h
      <4>1. calls'[g] = Served(calls[g], c, e.left) /\ calls[g] # Idle
        BY <1>2, <2>1, <3>2
      <4>2. calls[g] \in Call /\ (calls[g].op = "copy" => calls[g].step = 1)
        BY <1>5, <4>1 DEF BaseInv
      <4>3. calls'[g].op = calls[g].op /\ calls'[g].step = calls[g].step
        BY <4>1, <4>2 DEF Served, Call
      <4> QED BY <1>7, <4>1, <4>2, <4>3
    <3> QED BY <3>1, <3>2
  <2> QED BY <2>1
<1>11. calls' \in [Callers -> Call \cup {Idle}]
  <2>1. Answered(Kind, c, e, batch) \in Call
    BY <1>6 DEF Sound
  <2>2. \A g \in Callers : calls[g] # Idle => Served(calls[g], c, e.left) \in Call
    BY <1>7 DEF Sound
  <2> QED BY <1>2, <2>1, <2>2
<1>12. late' \subseteq Call
  BY <1>8 DEF Sound
<1>13. objects' \in [Names -> Stored] /\ (~ Local => objects' \in [Names -> Values \cup {Absent}])
  <2>1. ~ Local => Kind \notin {"disk", "mock"}
    BY <1>5, KindTyped
  <2> QED BY <1>2, <1>5, <2>1 DEF Effect
<1>14. TypeOK'
  BY <1>3, <1>11, <1>12, <1>13 DEF BaseInv, TypeOK
<1> QED BY <1>4, <1>8, <1>9, <1>10, <1>13, <1>14 DEF BaseInv

\* What a call that succeeded vouches for.
Vouches(k, c, o) ==
    /\ o \in [value : Values, at : SUBSET Names]
    /\ \/ c.op = "upload" /\ o.value = c.value /\ o.at = {c.name}
       \/ c.op = "copy" /\ k # "onedrive" /\ c.was # Nothing /\ o.value = c.was /\ o.at = {c.to}
       \/ c.op = "rename" /\ c.was # Nothing /\ o.value = c.was /\ o.at = {LandingIn(k, c)}

Clears(k, c, n) ==
    /\ n \in Names
    /\ \/ c.op = "delete" /\ n = c.name
       \/ c.op = "delete_directory" /\ n \in Inside /\ k # "s3"

\* A call that has been served for good, or whose last answer does not matter.
Settled(k, c) ==
    \/ /\ c.served = "ok"
       /\ k = "disk" /\ c.op = "upload" => c.step = 2
       /\ k = "s3" /\ c.op = "rename" => c.step = 2
    \/ k = "s3" /\ c.op = "rename" /\ c.step = 2

\* What an answer does: the call goes on with its second request, or returns,
\* and then it may vouch for something.
LEMMA AnswerFacts ==
    ASSUME BaseInv, NEW h \in Callers, Answer(h)
    PROVE  \E c \in Call :
             /\ c = calls[h] /\ c # Idle /\ Sound(Kind, c)
             /\ \/ /\ c.served = "ok" /\ c.step = 1
                   /\ \/ Kind = "disk" /\ c.op = "upload"
                      \/ Kind = "s3" /\ c.op \in {"rename", "delete_directory"}
                   /\ calls' = [calls EXCEPT ![h] = [c EXCEPT !.step = 2, !.served = "sent"]]
                   /\ late' = late /\ owed' = owed /\ gone' = gone
                \/ /\ calls' = [calls EXCEPT ![h] = Idle]
                   /\ late' = late \/ (late' = late \cup {Left(c)} /\ c.served = "sent")
                   /\ \/ owed' = owed /\ gone' = gone
                      \/ /\ c.clean /\ Settled(Kind, c)
                         /\ late' = late \/ (Kind = "s3" /\ c.op = "rename" /\ c.step = 2)
                         /\ \A o \in owed' :
                               \/ o \in owed /\ o.at \cap WritesIn(Kind, c) = {}
                               \/ Vouches(Kind, c, o)
                         /\ \A n \in gone' : n \in gone \/ Clears(Kind, c, n)
<1>1. /\ driver \in {"disk", "s3", "dropbox", "onedrive"}
      /\ calls \in [Callers -> Call \cup {Idle}]
  BY DEF BaseInv, TypeOK
<1>2. calls[h] # Idle /\ Sound(Kind, calls[h]) /\ calls[h] \in Call
  BY <1>1 DEF BaseInv, Answer
<1>3. PICK c \in Call : c = calls[h]
  BY <1>2
<1>4. PICK answer \in {"ok", "failed", "lost"} :
        /\ IF answer = "lost" THEN ~ Local /\ Usable ELSE answer = c.served
        /\ IF answer = "ok" /\ Continues(c)
           THEN /\ calls' = [calls EXCEPT ![h].step = 2, ![h].served = "sent"]
                /\ UNCHANGED <<owed, gone>>
           ELSE Return(h, Succeeds(c, answer))
        /\ late' = IF answer = "lost" /\ c.served = "sent" THEN late \cup {Left(c)} ELSE late
  BY <1>3 DEF Answer
<1>5. /\ Landing(c) = LandingIn(Kind, c) /\ Writes(c) = WritesIn(Kind, c)
      /\ driver = "disk" <=> Kind = "disk"
      /\ driver = "s3" /\ ~ Mock <=> Kind = "s3"
      /\ driver = "onedrive" <=> Kind = "onedrive"
  BY <1>1, InKind, KindTyped
<1>6. c # Idle /\ Sound(Kind, c)
  BY <1>2, <1>3
<1>7. CASE answer = "ok" /\ Continues(c)
  <2>1. calls' = [calls EXCEPT ![h] = [c EXCEPT !.step = 2, !.served = "sent"]]
    BY <1>1, <1>3, <1>4, <1>7
  <2>2. c.served = "ok" /\ late' = late /\ owed' = owed /\ gone' = gone
    BY <1>4, <1>7
  <2>3. /\ c.step = 1
        /\ \/ Kind = "disk" /\ c.op = "upload"
           \/ Kind = "s3" /\ c.op \in {"rename", "delete_directory"}
    BY <1>5, <1>7 DEF Continues
  <2> QED BY <1>3, <1>6, <2>1, <2>2, <2>3
<1>8. CASE ~ (answer = "ok" /\ Continues(c))
  <2>1. Return(h, Succeeds(c, answer))
    BY <1>4, <1>8
  <2>2. calls' = [calls EXCEPT ![h] = Idle]
    BY <2>1 DEF Return
  <2>3. late' = late \/ (late' = late \cup {Left(c)} /\ c.served = "sent")
    BY <1>4
  <2>4. CASE ~ (c.clean /\ Succeeds(c, answer))
    <3>1. owed' = owed /\ gone' = gone
      BY <1>3, <2>1, <2>4 DEF Return
    <3> QED BY <1>3, <1>6, <2>2, <2>3, <3>1
  <2>5. CASE c.clean /\ Succeeds(c, answer)
    <3>1. owed' = {o \in owed : o.at \cap Writes(c) = {}} \cup Promises(c) /\ gone' = gone \cup Frees(c)
      BY <1>3, <2>1, <2>5 DEF Return
    <3>2. driver = "s3" /\ c.op = "rename" /\ c.step = 2 => Kind = "s3"
      BY <1>1, <1>6, KindTyped DEF Sound
    <3>3. late' = late \/ (Kind = "s3" /\ c.op = "rename" /\ c.step = 2)
      BY <1>4, <2>5, <3>2 DEF Succeeds
    <3>4. Settled(Kind, c)
      <4>1. CASE answer = "ok"
        <5>1. c.served = "ok" /\ ~ Continues(c) /\ c.step \in 1 .. 2
          BY <1>4, <1>8, <4>1 DEF Call
        <5>2. /\ Kind = "disk" /\ c.op = "upload" => c.step = 2
              /\ Kind = "s3" /\ c.op = "rename" => c.step = 2
          BY <1>5, <5>1 DEF Continues
        <5> QED BY <5>1, <5>2 DEF Settled
      <4>2. CASE answer # "ok"
        BY <2>5, <3>2, <4>2 DEF Succeeds, Settled
      <4> QED BY <4>1, <4>2
    <3>5. \A o \in Promises(c) : Vouches(Kind, c, o)
      <4>1. c.op = "upload" => c.value \in Values /\ c.name \in Names
        BY <1>6 DEF Sound
      <4>2. c.op = "copy" => c.to \in Names
        BY <1>6 DEF Sound
      <4>3. c.op = "rename" => LandingIn(Kind, c) \in Names
        BY <1>6, <3>4 DEF Sound, Settled
      <4>4. c.was # Nothing => c.was \in Values
        BY DEF Call
      <4> QED BY <1>5, <4>1, <4>2, <4>3, <4>4 DEF Promises, Vouches
    <3>6. \A n \in Frees(c) : Clears(Kind, c, n)
      <4>1. c.op = "delete" => c.name \in Names
        BY <1>6 DEF Sound
      <4> QED BY <1>5, <4>1 DEF Frees, Clears, Inside
    <3>7. \A o \in owed' : (o \in owed /\ o.at \cap WritesIn(Kind, c) = {}) \/ Vouches(Kind, c, o)
      BY <1>5, <3>1, <3>5
    <3>8. \A n \in gone' : n \in gone \/ Clears(Kind, c, n)
      BY <3>1, <3>6
    <3> QED BY <1>3, <1>6, <2>2, <2>3, <2>5, <3>3, <3>4, <3>7, <3>8
  <2> QED BY <2>4, <2>5
<1> QED BY <1>7, <1>8

\* An answer is taken (the end of a method, or its second request).
LEMMA AnswerBase ==
    ASSUME BaseInv, NEW h \in Callers, Answer(h)
    PROVE  BaseInv'
<1>1. PICK c \in Call :
        /\ c = calls[h] /\ c # Idle /\ Sound(Kind, c)
        /\ \/ /\ c.served = "ok" /\ c.step = 1
              /\ \/ Kind = "disk" /\ c.op = "upload"
                 \/ Kind = "s3" /\ c.op \in {"rename", "delete_directory"}
              /\ calls' = [calls EXCEPT ![h] = [c EXCEPT !.step = 2, !.served = "sent"]]
              /\ late' = late /\ owed' = owed /\ gone' = gone
           \/ /\ calls' = [calls EXCEPT ![h] = Idle]
              /\ late' = late \/ (late' = late \cup {Left(c)} /\ c.served = "sent")
              /\ \/ owed' = owed /\ gone' = gone
                 \/ /\ \A o \in owed' : o \in owed \/ Vouches(Kind, c, o)
                    /\ \A n \in gone' : n \in gone \/ Clears(Kind, c, n)
  BY AnswerFacts
<1>2. /\ driver' = driver /\ secret' = secret /\ begun' = begun /\ objects' = objects
      /\ Cardinality(late') <= MaxLate
  BY DEF Answer
<1>3. Kind' = Kind /\ Local' = Local
  BY <1>2, KindKept
<1>4. /\ calls \in [Callers -> Call \cup {Idle}] /\ late \subseteq Call /\ IsFiniteSet(late)
      /\ owed \subseteq [value : Values, at : SUBSET Names] /\ gone \subseteq Names
  BY DEF BaseInv, TypeOK
<1>5. owed' \subseteq [value : Values, at : SUBSET Names] /\ gone' \subseteq Names
  BY <1>1, <1>4 DEF Vouches, Clears
<1>6. late' = late \/ (late' = late \cup {Left(c)} /\ c.served = "sent")
  BY <1>1
<1>7. late' \subseteq Call /\ IsFiniteSet(late') /\ \A d \in late' : Sound(Kind, d)
  <2>1. c.served = "sent" => Sound(Kind, Left(c)) /\ Left(c) \in Call
    <3>1. c.served = "sent" => Sound(Kind, Left(c))
      BY <1>1, LeftSound
    <3> QED BY <3>1 DEF Sound
  <2>2. IsFiniteSet(late \cup {Left(c)})
    BY <1>4, FS_AddElement
  <2> QED BY <1>4, <1>6, <2>1, <2>2 DEF BaseInv
<1>8. \E d \in Call \cup {Idle} :
        /\ calls' = [calls EXCEPT ![h] = d]
        /\ d # Idle => Sound(Kind, d) /\ d.op # "copy"
  <2>1. CASE calls' = [calls EXCEPT ![h] = Idle]
    BY <2>1
  <2>2. CASE calls' = [calls EXCEPT ![h] = [c EXCEPT !.step = 2, !.served = "sent"]]
             /\ c.served = "ok"
             /\ \/ Kind = "disk" /\ c.op = "upload"
                \/ Kind = "s3" /\ c.op \in {"rename", "delete_directory"}
    <3>1. Sound(Kind, [c EXCEPT !.step = 2, !.served = "sent"])
      BY <1>1, <2>2, ContinuedSound
    <3>2. [c EXCEPT !.step = 2, !.served = "sent"].op = c.op
      BY DEF Call
    <3>3. [c EXCEPT !.step = 2, !.served = "sent"] \in Call
      BY <3>1 DEF Sound
    <3> QED BY <2>2, <3>1, <3>2, <3>3
  <2> QED BY <1>1, <2>1, <2>2
<1>9. calls' \in [Callers -> Call \cup {Idle}]
  BY <1>4, <1>8
<1>10. \A g \in Callers : calls'[g] # Idle =>
          Sound(Kind, calls'[g]) /\ (calls'[g].op = "copy" => calls'[g].step = 1)
  BY <1>4, <1>8 DEF BaseInv
<1>11. TypeOK'
  BY <1>2, <1>5, <1>7, <1>9 DEF BaseInv, TypeOK
<1> QED BY <1>2, <1>3, <1>7, <1>10, <1>11 DEF BaseInv

\* A call begins.
LEMMA BeginBase ==
    ASSUME BaseInv, NEW h \in Callers, NEW c \in Requests, Begin(h, c)
    PROVE  BaseInv'
<1>1. PICK cl \in BOOLEAN, kn \in Values \cup {Nothing} :
        /\ calls[h] = Idle /\ Sound(Kind, c)
        /\ c.served = "sent" /\ c.step = 1 /\ c.file = NoName
        /\ cl <=> \A p \in Active(calls, late) : TouchesIn(Kind, p.req) \cap TouchesIn(Kind, c) = {}
        /\ calls' = [g \in Callers |->
             IF g = h THEN [c EXCEPT !.clean = cl, !.was = IF cl THEN kn ELSE Nothing]
             ELSE IF calls[g] # Idle /\ TouchesIn(Kind, calls[g]) \cap TouchesIn(Kind, c) # {}
                  THEN [calls[g] EXCEPT !.clean = FALSE, !.was = Nothing] ELSE calls[g]]
        /\ kn # Nothing => \E q \in owed : q.value = kn /\ q.at = {c.name}
        /\ \A o \in owed' :
              \/ o \in owed /\ o.at \cap WritesIn(Kind, c) = {}
              \/ /\ c.op = "rename" /\ cl /\ o = [value |-> kn, at |-> WritesIn(Kind, c)]
                 /\ \E q \in owed : q.value = kn /\ q.at = {c.name}
        /\ gone' = gone \ WritesIn(Kind, c)
  BY BeginFacts
<1>2. /\ driver' = driver /\ secret' = secret /\ objects' = objects /\ late' = late
      /\ begun < MaxCalls /\ begun' = begun + 1
  BY DEF Begin
<1>3. Kind' = Kind /\ Local' = Local
  BY <1>2, KindKept
<1>4. /\ calls \in [Callers -> Call \cup {Idle}]
      /\ owed \subseteq [value : Values, at : SUBSET Names] /\ gone \subseteq Names
  BY DEF BaseInv, TypeOK
<1>5. ASSUME NEW g \in Callers, calls'[g] # Idle
      PROVE  Sound(Kind, calls'[g]) /\ (calls'[g].op = "copy" => calls'[g].step = 1)
  <2>1. CASE g = h
    <3>1. PICK w \in Values \cup {Nothing} : calls'[g] = [c EXCEPT !.clean = cl, !.was = w]
      BY <1>1, <2>1
    <3>4. Sound(Kind, c)
      BY <1>1
    <3>5. Sound(Kind, [c EXCEPT !.clean = cl, !.was = w])
      BY <3>4, SoundFlags
    <3>2. Sound(Kind, calls'[g])
      BY <3>1, <3>5
    <3>3. c \in Call
      BY <1>1 DEF Sound
    <3> QED BY <1>1, <3>1, <3>2, <3>3 DEF Call
  <2>2. CASE g # h /\ calls'[g] = calls[g]
    BY <1>5, <2>2 DEF BaseInv
  <2>3. CASE g # h /\ calls'[g] # calls[g]
    <3>1. calls'[g] = [calls[g] EXCEPT !.clean = FALSE, !.was = Nothing] /\ calls[g] # Idle
      BY <1>1, <2>3
    <3>2. PICK d \in Call : d = calls[g] /\ Sound(Kind, d) /\ (d.op = "copy" => d.step = 1)
      BY <1>4, <3>1 DEF BaseInv
    <3>3. FALSE \in BOOLEAN /\ Nothing \in Values \cup {Nothing}
      OBVIOUS
    <3>4. Sound(Kind, [d EXCEPT !.clean = FALSE, !.was = Nothing])
      BY <3>2, <3>3, SoundFlags
    <3>5. /\ [d EXCEPT !.clean = FALSE, !.was = Nothing].op = d.op
          /\ [d EXCEPT !.clean = FALSE, !.was = Nothing].step = d.step
      BY DEF Call
    <3> QED BY <3>1, <3>2, <3>4, <3>5
  <2> QED BY <2>1, <2>2, <2>3
<1>6. calls' \in [Callers -> Call \cup {Idle}]
  <2>1. calls' = [g \in Callers |-> calls'[g]]
    BY <1>1
  <2>2. \A g \in Callers : calls'[g] \in Call \cup {Idle}
    BY <1>5 DEF Sound
  <2> QED BY <2>1, <2>2
<1>7. owed' \subseteq [value : Values, at : SUBSET Names]
  <2>1. ASSUME NEW o \in owed'
        PROVE  o \in [value : Values, at : SUBSET Names]
    <3>1. CASE o \in owed
      BY <1>4, <3>1
    <3>2. CASE c.op = "rename" /\ o = [value |-> kn, at |-> WritesIn(Kind, c)]
               /\ \E q \in owed : q.value = kn /\ q.at = {c.name}
      <4>1. WritesIn(Kind, c) \subseteq Names
        BY <3>2 DEF WritesIn
      <4>2. kn \in Values
        BY <1>4, <3>2
      <4> QED BY <3>2, <4>1, <4>2
    <3> QED BY <1>1, <2>1, <3>1, <3>2
  <2> QED BY <2>1
<1>8. gone' \subseteq Names
  BY <1>1, <1>4
<1>9. begun' \in 0 .. MaxCalls
  BY <1>2, PageAssumption DEF BaseInv, TypeOK
<1>10. TypeOK'
  BY <1>2, <1>6, <1>7, <1>8, <1>9 DEF BaseInv, TypeOK
<1> QED BY <1>2, <1>3, <1>5, <1>10 DEF BaseInv

\* A caller leaves.
LEMMA AbandonBase ==
    ASSUME BaseInv, NEW h \in Callers, Abandon(h)
    PROVE  BaseInv'
<1>1. /\ driver' = driver /\ secret' = secret /\ objects' = objects
      /\ begun' = begun /\ owed' = owed /\ gone' = gone /\ Cardinality(late') <= MaxLate
      /\ calls[h] # Idle /\ calls' = [calls EXCEPT ![h] = Idle]
      /\ late' = late \/ (late' = late \cup {Left(calls[h])} /\ calls[h].served = "sent")
  BY DEF Abandon
<1>2. Kind' = Kind /\ Local' = Local
  BY <1>1, KindKept
<1>3. /\ calls \in [Callers -> Call \cup {Idle}] /\ late \subseteq Call /\ IsFiniteSet(late)
  BY DEF BaseInv, TypeOK
<1>4. PICK c \in Call : c = calls[h] /\ Sound(Kind, c)
  BY <1>1, <1>3 DEF BaseInv
<1>5. late' \subseteq Call /\ IsFiniteSet(late') /\ \A d \in late' : Sound(Kind, d)
  <2>1. c.served = "sent" => Sound(Kind, Left(c)) /\ Left(c) \in Call
    <3>1. c.served = "sent" => Sound(Kind, Left(c))
      BY <1>4, LeftSound
    <3> QED BY <3>1 DEF Sound
  <2>2. IsFiniteSet(late \cup {Left(c)})
    BY <1>3, FS_AddElement
  <2> QED BY <1>1, <1>3, <1>4, <2>1, <2>2 DEF BaseInv
<1>6. calls' \in [Callers -> Call \cup {Idle}]
  BY <1>1, <1>3
<1>7. \A g \in Callers : calls'[g] # Idle =>
          Sound(Kind, calls'[g]) /\ (calls'[g].op = "copy" => calls'[g].step = 1)
  BY <1>1, <1>3 DEF BaseInv
<1>8. TypeOK'
  BY <1>1, <1>5, <1>6 DEF BaseInv, TypeOK
<1> QED BY <1>1, <1>2, <1>5, <1>7, <1>8 DEF BaseInv

\* The process ends.
LEMMA RestartBase ==
    ASSUME BaseInv, Restart
    PROVE  BaseInv'
<1> DEFINE G == {g \in Running : calls[g].served = "sent"}
           sent == {Left(calls[g]) : g \in G}
<1>1. /\ driver' = driver /\ secret' = secret /\ objects' = objects
      /\ begun' = begun /\ owed' = owed /\ gone' = gone /\ Cardinality(late') <= MaxLate
      /\ calls' = [g \in Callers |-> Idle]
      /\ late' = {} \/ late' = late \cup sent
  BY DEF Restart
<1>2. Kind' = Kind /\ Local' = Local
  BY <1>1, KindKept
<1>3. /\ calls \in [Callers -> Call \cup {Idle}] /\ late \subseteq Call /\ IsFiniteSet(late)
  BY DEF BaseInv, TypeOK
<1>4. \A d \in sent : Sound(Kind, d)
  <2>1. ASSUME NEW g \in G
        PROVE  Sound(Kind, Left(calls[g]))
    <3>1. PICK c \in Call : c = calls[g] /\ Sound(Kind, c) /\ c.served = "sent"
      BY <1>3 DEF BaseInv, Running
    <3> QED BY <3>1, LeftSound
  <2> QED BY <2>1
<1>5. IsFiniteSet(sent)
  <2> DEFINE f == [g \in G |-> Left(calls[g])]
  <2>1. IsFiniteSet(G)
    <3>1. G \subseteq Callers
      BY DEF Running
    <3> HIDE DEF G
    <3> QED BY <3>1, FiniteAssumption, FS_Subset
  <2>2. sent = {f[g] : g \in G}
    OBVIOUS
  <2>3. f = [g \in G |-> f[g]]
    OBVIOUS
  <2> HIDE DEF G, f, sent
  <2> QED BY <2>1, <2>2, <2>3, ImageFinite
<1> HIDE DEF sent
<1>6. late' \subseteq Call /\ IsFiniteSet(late') /\ \A d \in late' : Sound(Kind, d)
  <2>1. \A d \in late' : Sound(Kind, d)
    BY <1>1, <1>4 DEF BaseInv
  <2>2. IsFiniteSet(late')
    <3>1. IsFiniteSet({}) /\ IsFiniteSet(late \cup sent)
      BY <1>3, <1>5, FS_EmptySet, FS_Union
    <3> QED BY <1>1, <3>1
  <2> QED BY <2>1, <2>2 DEF Sound
<1>7. calls' \in [Callers -> Call \cup {Idle}] /\ \A g \in Callers : calls'[g] = Idle
  BY <1>1
<1>8. TypeOK'
  BY <1>1, <1>6, <1>7 DEF BaseInv, TypeOK
<1> QED BY <1>1, <1>2, <1>6, <1>7, <1>8 DEF BaseInv

\* What a request that is served late does.
LEMMA ServeLateFacts ==
    ASSUME BaseInv, NEW c \in late, ServeLate(c)
    PROVE  \E e \in Serves(c) :
             /\ Sound(Kind, c) /\ Effect(Kind, objects, c, e)
             /\ objects' = e.left /\ calls' = calls /\ owed' = owed /\ gone' = gone
             /\ late' = (late \ {c}) \cup Accepted(c, e)
<1>1. driver \in {"disk", "s3", "dropbox", "onedrive"} /\ objects \in [Names -> Stored]
  BY DEF BaseInv, TypeOK
<1>2. Sound(Kind, c)
  BY DEF BaseInv
<1>3. PICK e \in Serves(c) : objects' = e.left /\ late' = (late \ {c}) \cup Accepted(c, e)
  BY DEF ServeLate
<1>4. Effect(Kind, objects, c, e)
  BY <1>1, <1>2, ServesEffect
<1>5. calls' = calls /\ owed' = owed /\ gone' = gone
  BY DEF ServeLate
<1> QED BY <1>2, <1>3, <1>4, <1>5

\* The service gets to a request whose caller has left.
LEMMA ServeLateBase ==
    ASSUME BaseInv, NEW c \in late, ServeLate(c)
    PROVE  BaseInv'
<1>1. PICK e \in Serves(c) :
        /\ Sound(Kind, c) /\ Effect(Kind, objects, c, e)
        /\ objects' = e.left /\ calls' = calls /\ owed' = owed /\ gone' = gone
        /\ late' = (late \ {c}) \cup Accepted(c, e)
  BY ServeLateFacts
<1>2. driver' = driver /\ secret' = secret /\ begun' = begun
  BY DEF ServeLate
<1>3. Kind' = Kind /\ Local' = Local
  BY <1>2, KindKept
<1>4. /\ driver \in {"disk", "s3", "dropbox", "onedrive"} /\ objects \in [Names -> Stored]
      /\ ~ Local => objects \in [Names -> Values \cup {Absent}]
      /\ late \subseteq Call /\ IsFiniteSet(late) /\ Cardinality(late) <= MaxLate
      /\ \A d \in late : Sound(Kind, d)
  BY DEF BaseInv, TypeOK
<1>5. \A d \in Accepted(c, e) : Sound(Kind, d)
  BY <1>1, <1>4, AcceptedSound
<1>6. late' \subseteq Call /\ \A d \in late' : Sound(Kind, d)
  BY <1>1, <1>4, <1>5 DEF Sound
<1>7. IsFiniteSet(late') /\ Cardinality(late') <= MaxLate
  <2>1. /\ IsFiniteSet(late \ {c}) /\ Cardinality(late \ {c}) = Cardinality(late) - 1
        /\ Cardinality(late) \in Nat /\ MaxLate \in Nat /\ Cardinality(late \ {c}) \in Nat
    BY <1>4, FS_RemoveElement, FS_CardinalityType, PageAssumption
  <2>2. CASE Accepted(c, e) = {}
    BY <1>1, <1>4, <2>1, <2>2
  <2>3. CASE \E x : Accepted(c, e) = {x}
    <3>1. PICK x : late' = (late \ {c}) \cup {x}
      BY <1>1, <2>3
    <3>2. /\ IsFiniteSet(late')
          /\ \/ Cardinality(late') = Cardinality(late \ {c})
             \/ Cardinality(late') = Cardinality(late \ {c}) + 1
      BY <2>1, <3>1, FS_AddElement
    <3> QED BY <1>4, <2>1, <3>2
  <2> QED BY <2>2, <2>3 DEF Accepted
<1>8. objects' \in [Names -> Stored] /\ (~ Local => objects' \in [Names -> Values \cup {Absent}])
  <2>1. ~ Local => Kind \notin {"disk", "mock"}
    BY <1>4, KindTyped
  <2> QED BY <1>1, <1>4, <2>1 DEF Effect
<1>9. TypeOK'
  BY <1>1, <1>2, <1>6, <1>7, <1>8 DEF BaseInv, TypeOK
<1> QED BY <1>1, <1>3, <1>6, <1>7, <1>8, <1>9 DEF BaseInv

\* The base holds before the first call.
LEMMA InitBase == Init => BaseInv
<1> SUFFICES ASSUME Init PROVE BaseInv
  OBVIOUS
<1>1. /\ driver \in {"disk", "s3", "dropbox", "onedrive"}
      /\ secret \in {"none", "placeholder", "real"}
      /\ objects = [n \in Names |-> Absent] /\ calls = [c \in Callers |-> Idle]
      /\ begun = 0 /\ late = {} /\ owed = {} /\ gone = {}
  BY DEF Init
<1>2. IsFiniteSet(late) /\ Cardinality(late) = 0
  BY <1>1, FS_EmptySet
<1>3. Cardinality(late) <= MaxLate /\ begun \in 0 .. MaxCalls
  BY <1>1, <1>2, PageAssumption
<1>4. TypeOK
  BY <1>1, <1>3 DEF TypeOK, Stored
<1> QED BY <1>1, <1>2, <1>4 DEF BaseInv

\* Every step keeps the base.
LEMMA BaseStep == BaseInv /\ [Next]_vars => BaseInv'
<1> SUFFICES ASSUME BaseInv, [Next]_vars PROVE BaseInv'
  OBVIOUS
<1>1. ASSUME NEW h \in Callers, NEW c \in Requests, Begin(h, c) PROVE BaseInv'
  BY <1>1, BeginBase
<1>2. ASSUME NEW h \in Callers, Serve(h) PROVE BaseInv'
  BY <1>2, ServeBase
<1>3. ASSUME NEW h \in Callers, Answer(h) PROVE BaseInv'
  BY <1>3, AnswerBase
<1>4. ASSUME NEW h \in Callers, Abandon(h) PROVE BaseInv'
  BY <1>4, AbandonBase
<1>5. ASSUME NEW c \in late, ServeLate(c) PROVE BaseInv'
  BY <1>5, ServeLateBase
<1>6. CASE Restart
  BY <1>6, RestartBase
<1>7. CASE UNCHANGED vars
  <2>1. Kind' = Kind /\ Local' = Local
    BY <1>7, KindKept DEF vars
  <2> QED BY <1>7, <2>1 DEF vars, BaseInv, TypeOK
<1> QED BY <1>1, <1>2, <1>3, <1>4, <1>5, <1>6, <1>7 DEF Next

\* TypeOK: a call, and the request it leaves behind, is one the driver can serve.
THEOREM TypeCorrect == Spec => []TypeOK
<1>1. BaseInv => TypeOK
  BY DEF BaseInv
<1> QED BY <1>1, InitBase, BaseStep, PTL DEF Spec

------------------------------------------------------------------------------
(***************************************************************************)
(* What answers have promised.  A call that had its names for itself knows *)
(* what lies under them; a promise is broken by no request but that of the *)
(* rename it is about, which keeps the content under one of the two names. *)
(***************************************************************************)

Copying(k, c) == k = "onedrive" /\ c.op = "copy"

\* A rename of v, whatever has been served of it.
Lasting(k, obj, c, v) ==
    /\ c.step = 2 \/ c.served = "ok" => obj[LandingIn(k, c)] = v
    /\ c.step = 1 /\ (c.served # "ok" \/ k = "s3") => obj[c.name] = v

\* What a call knows that had its names for itself.
Sure(k, obj, c) ==
    /\ c.op = "upload" /\ k = "disk" /\ (c.step = 2 \/ c.served = "ok") =>
         c.file = c.name /\ obj[c.name] # Absent
    /\ c.op = "upload" /\ (k = "disk" => c.step = 2) /\ c.served = "ok" => obj[c.name] = c.value
    /\ c.op = "delete" /\ c.served = "ok" => obj[c.name] = Absent
    /\ c.op = "delete_directory" /\ c.served = "ok" /\ k # "s3" =>
         \A n \in Inside : obj[n] = Absent
    /\ c.op = "copy" /\ k # "onedrive" /\ c.was # Nothing =>
         obj[c.name] = c.was /\ (c.served = "ok" => obj[c.to] = c.was)
    /\ c.op = "rename" /\ c.was # Nothing => Lasting(k, obj, c, c.was)

\* The calls whose answer will be worth something.
Minding(k, p) == ~ p.late /\ p.req.clean /\ ~ Copying(k, p.req)

\* The rename that o is about.
Owner(k, obj, c, o) ==
    c.op = "rename" /\ WritesIn(k, c) = o.at /\ Lasting(k, obj, c, o.value)

Alone(k, A, p) ==
    \A q \in A : q # p => TouchesIn(k, q.req) \cap TouchesIn(k, p.req) = {}

CleanIn(k, obj, A) ==
    \A p \in A : Minding(k, p) => Sure(k, obj, p.req) /\ Alone(k, A, p)

OwedIn(k, obj, A, ow) ==
    \A o \in ow :
       /\ \E n \in o.at : obj[n] = o.value
       /\ \A p \in A : Changes(k, p.req) \cap o.at # {} =>
            /\ Owner(k, obj, p.req, o)
            /\ \A q \in A : q # p => Changes(k, q.req) \cap o.at = {}

GoneIn(k, obj, A, gn) ==
    \A n \in gn : obj[n] = Absent /\ \A p \in A : n \notin Changes(k, p.req)

History(k, obj, A, ow, gn) ==
    /\ CleanIn(k, obj, A)
    /\ OwedIn(k, obj, A, ow)
    /\ GoneIn(k, obj, A, gn)
    /\ \A p \in A : p.late => p.req.served = "sent"

HistoryInv == BaseInv /\ History(Kind, objects, Active(calls, late), owed, gone)

\* The names of two requests that ask the same.
LEMMA AlikeNames ==
    ASSUME NEW k, NEW c, NEW d, d.op = c.op, d.name = c.name, d.to = c.to
    PROVE  /\ LandingIn(k, d) = LandingIn(k, c) /\ WritesIn(k, d) = WritesIn(k, c)
           /\ d.file = c.file => TouchesIn(k, d) = TouchesIn(k, c)
           /\ d.file = c.file /\ d.step = c.step => Changes(k, d) = Changes(k, c)
<1>1. LandingIn(k, d) = LandingIn(k, c)
  BY DEF LandingIn
<1>2. WritesIn(k, d) = WritesIn(k, c)
  BY <1>1 DEF WritesIn
<1> QED BY <1>1, <1>2 DEF TouchesIn, Changes

\* A request changes only what it touches.
LEMMA ChangesTouched ==
    ASSUME NEW k, NEW c, Sound(k, c)
    PROVE  /\ Changes(k, c) \subseteq WritesIn(k, c) \cup {c.file}
           /\ Changes(k, c) \subseteq TouchesIn(k, c) /\ WritesIn(k, c) \subseteq TouchesIn(k, c)
           /\ TouchesIn(k, c) \subseteq Names
           /\ c.op # "upload" => Changes(k, c) \subseteq WritesIn(k, c)
<1>1. WritesIn(k, c) \subseteq Names
  BY DEF Sound, WritesIn, Inside
<1>2. c.op # "delete_directory" => c.name \in Names
  BY DEF Sound
<1>3. c.op \in {"rename", "upload"} => c.name \in WritesIn(k, c)
  BY <1>2 DEF WritesIn
<1>4. Changes(k, c) \subseteq WritesIn(k, c) \cup {c.file} /\ Changes(k, c) \subseteq Names
  BY <1>1, <1>2, <1>3 DEF Changes
<1>5. c.op # "upload" => Changes(k, c) \subseteq WritesIn(k, c)
  BY <1>3 DEF Changes
<1> QED BY <1>1, <1>4, <1>5 DEF TouchesIn

\* What becomes of a request whose caller goes, or goes on, with the objects
\* as they are.
Heir(k, obj, q, p) ==
    /\ Changes(k, q.req) \subseteq Changes(k, p.req)
    /\ TouchesIn(k, q.req) \subseteq TouchesIn(k, p.req)
    /\ \A o : Owner(k, obj, p.req, o) => Owner(k, obj, q.req, o)
    /\ q.late => q.req.served = "sent"
    /\ Minding(k, q) => Minding(k, p) /\ (Sure(k, obj, p.req) => Sure(k, obj, q.req))

\* The history is kept when every request under way is heir to an earlier one.
LEMMA HeirsHistory ==
    ASSUME NEW k, NEW obj, NEW A, NEW B, NEW ow, NEW gn, History(k, obj, A, ow, gn),
           NEW f, \A q \in B : \E p \in A : q = f[p] /\ Heir(k, obj, q, p)
    PROVE  History(k, obj, B, ow, gn)
<1>1. CleanIn(k, obj, B)
  <2>1. ASSUME NEW q \in B, Minding(k, q)
        PROVE  Sure(k, obj, q.req) /\ Alone(k, B, q)
    <3>1. PICK p \in A : q = f[p] /\ Heir(k, obj, q, p)
      OBVIOUS
    <3>2. Minding(k, p) /\ (Sure(k, obj, p.req) => Sure(k, obj, q.req))
      BY <2>1, <3>1 DEF Heir
    <3>3. Sure(k, obj, p.req) /\ Alone(k, A, p)
      BY <3>2 DEF History, CleanIn
    <3>4. ASSUME NEW q2 \in B, q2 # q
          PROVE  TouchesIn(k, q2.req) \cap TouchesIn(k, q.req) = {}
      <4>1. PICK p2 \in A : q2 = f[p2] /\ Heir(k, obj, q2, p2)
        OBVIOUS
      <4>2. p2 # p
        BY <3>1, <3>4, <4>1
      <4>3. TouchesIn(k, p2.req) \cap TouchesIn(k, p.req) = {}
        BY <3>3, <4>2 DEF Alone
      <4>4. TouchesIn(k, q2.req) \subseteq TouchesIn(k, p2.req)
            /\ TouchesIn(k, q.req) \subseteq TouchesIn(k, p.req)
        BY <3>1, <4>1 DEF Heir
      <4> QED BY <4>3, <4>4
    <3> QED BY <3>2, <3>3, <3>4 DEF Alone
  <2> QED BY <2>1 DEF CleanIn
<1>2. OwedIn(k, obj, B, ow)
  <2>1. ASSUME NEW o \in ow
        PROVE  \E n \in o.at : obj[n] = o.value
    BY DEF History, OwedIn
  <2>2. ASSUME NEW o \in ow, NEW q \in B, Changes(k, q.req) \cap o.at # {}
        PROVE  /\ Owner(k, obj, q.req, o)
               /\ \A q2 \in B : q2 # q => Changes(k, q2.req) \cap o.at = {}
    <3>1. PICK p \in A : q = f[p] /\ Heir(k, obj, q, p)
      OBVIOUS
    <3>2. Changes(k, p.req) \cap o.at # {}
      BY <2>2, <3>1 DEF Heir
    <3>3. /\ Owner(k, obj, p.req, o)
          /\ \A p2 \in A : p2 # p => Changes(k, p2.req) \cap o.at = {}
      BY <3>2 DEF History, OwedIn
    <3>4. Owner(k, obj, q.req, o)
      BY <3>1, <3>3 DEF Heir
    <3>5. ASSUME NEW q2 \in B, q2 # q
          PROVE  Changes(k, q2.req) \cap o.at = {}
      <4>1. PICK p2 \in A : q2 = f[p2] /\ Heir(k, obj, q2, p2)
        OBVIOUS
      <4>2. Changes(k, p2.req) \cap o.at = {}
        BY <3>1, <3>3, <3>5, <4>1
      <4>3. Changes(k, q2.req) \subseteq Changes(k, p2.req)
        BY <4>1 DEF Heir
      <4> QED BY <4>2, <4>3
    <3> QED BY <3>4, <3>5
  <2> QED BY <2>1, <2>2 DEF OwedIn
<1>3. GoneIn(k, obj, B, gn)
  BY DEF History, GoneIn, Heir
<1>4. \A q \in B : q.late => q.req.served = "sent"
  BY DEF Heir
<1> QED BY <1>1, <1>2, <1>3, <1>4 DEF History

\* A request that its caller leaves behind, or one whose call is soiled.
LEMMA AlikeHeir ==
    ASSUME NEW k, NEW obj, NEW p, NEW q,
           q.req.op = p.req.op, q.req.name = p.req.name, q.req.to = p.req.to,
           q.req.step = p.req.step, q.req.served = p.req.served, q.req.file = p.req.file,
           q.late \/ ~ q.req.clean, q.late => q.req.served = "sent"
    PROVE  Heir(k, obj, q, p)
<1>1. /\ LandingIn(k, q.req) = LandingIn(k, p.req) /\ WritesIn(k, q.req) = WritesIn(k, p.req)
      /\ TouchesIn(k, q.req) = TouchesIn(k, p.req) /\ Changes(k, q.req) = Changes(k, p.req)
  BY AlikeNames
<1>2. \A o : Owner(k, obj, p.req, o) => Owner(k, obj, q.req, o)
  BY <1>1 DEF Owner, Lasting
<1>3. ~ Minding(k, q)
  BY DEF Minding
<1> QED BY <1>1, <1>2, <1>3 DEF Heir

\* A request is heir to itself.
LEMMA OwnHeir ==
    ASSUME NEW k, NEW obj, NEW p, p.late => p.req.served = "sent"
    PROVE  Heir(k, obj, p, p)
  BY DEF Heir

\* A call whose second request is sent.
LEMMA ContinuedHeir ==
    ASSUME NEW k, NEW obj, NEW h, NEW c, Sound(k, c), c.served = "ok", c.step = 1,
           (k = "disk" /\ c.op = "upload") \/ (k = "s3" /\ c.op \in {"rename", "delete_directory"})
    PROVE  Heir(k, obj, Run(h, [c EXCEPT !.step = 2, !.served = "sent"]), Run(h, c))
<1> DEFINE d == [c EXCEPT !.step = 2, !.served = "sent"]
<1>1. /\ d.op = c.op /\ d.name = c.name /\ d.to = c.to /\ d.value = c.value /\ d.was = c.was
      /\ d.clean = c.clean /\ d.batch = c.batch /\ d.file = c.file
      /\ d.step = 2 /\ d.served = "sent"
  BY DEF Sound, Call
<1> HIDE DEF d
<1>2. /\ LandingIn(k, d) = LandingIn(k, c) /\ WritesIn(k, d) = WritesIn(k, c)
      /\ TouchesIn(k, d) = TouchesIn(k, c)
  BY <1>1, AlikeNames
<1>3. Changes(k, d) \subseteq Changes(k, c)
  <2>1. c.op = "rename" => c.name \in WritesIn(k, c)
    BY DEF Sound, WritesIn
  <2> QED BY <1>1, <1>2, <2>1 DEF Changes
<1>4. \A v : c.op = "rename" /\ Lasting(k, obj, c, v) => Lasting(k, obj, d, v)
  BY <1>1, <1>2 DEF Lasting
<1>5. Sure(k, obj, c) => Sure(k, obj, d)
  <2> SUFFICES ASSUME Sure(k, obj, c) PROVE Sure(k, obj, d)
    OBVIOUS
  <2>1. CASE k = "disk" /\ c.op = "upload"
    BY <1>1, <2>1 DEF Sure
  <2>2. CASE k = "s3" /\ c.op = "rename"
    BY <1>1, <1>4, <2>2 DEF Sure
  <2>3. CASE k = "s3" /\ c.op = "delete_directory"
    BY <1>1, <2>3 DEF Sure
  <2> QED BY <2>1, <2>2, <2>3
<1>6. /\ Run(h, d).req = d /\ Run(h, c).req = c /\ Run(h, d).late = FALSE
      /\ Run(h, c).late = FALSE
  BY DEF Run
<1>7. \A o : Owner(k, obj, c, o) => Owner(k, obj, d, o)
  BY <1>1, <1>2, <1>4 DEF Owner
<1>8. Minding(k, Run(h, d)) => Minding(k, Run(h, c))
  BY <1>1, <1>6 DEF Minding, Copying
<1>9. Heir(k, obj, Run(h, d), Run(h, c))
  BY <1>2, <1>3, <1>5, <1>6, <1>7, <1>8 DEF Heir
<1> QED BY <1>9 DEF d

\* A rename whose request is served has the content under one of its names.
LEMMA AnsweredLasting ==
    ASSUME NEW k, NEW obj, NEW c, Sound(k, c), c.served = "sent", c.op = "rename",
           NEW e, Effect(k, obj, c, e), NEW batch, NEW v, Lasting(k, obj, c, v)
    PROVE  /\ Lasting(k, e.left, Answered(k, c, e, batch), v)
           /\ \/ e.left[c.name] = v
              \/ e.left[LandingIn(k, c)] = v /\ LandingIn(k, c) \in Names
<1> DEFINE d == Answered(k, c, e, batch)
<1>1. /\ c \in Call /\ e.ok \in BOOLEAN /\ c.step \in 1 .. 2
      /\ c.name \in Names /\ c.to \in Names /\ c.name # c.to
  BY DEF Sound, Effect, Call
<1>2. /\ d.op = c.op /\ d.name = c.name /\ d.to = c.to /\ d.step = c.step
      /\ d.served = IF e.ok THEN "ok" ELSE "failed"
  BY <1>1 DEF Call, Answered
<1> HIDE DEF d
<1>3. LandingIn(k, d) = LandingIn(k, c)
  BY <1>2, AlikeNames
<1>4. c.step = 2 => k = "s3" /\ LandingIn(k, c) = c.to /\ Changes(k, c) = {c.name}
  BY <1>1 DEF Sound, LandingIn, Changes
<1>5. c.step = 2 => e.left[LandingIn(k, c)] = v /\ LandingIn(k, c) \in Names
  <2>1. c.step = 2 => obj[LandingIn(k, c)] = v
    BY DEF Lasting
  <2>2. \A n \in Names \ Changes(k, c) : e.left[n] = obj[n]
    BY DEF Effect
  <2> QED BY <1>1, <1>4, <2>1, <2>2
<1>6. c.step = 1 => obj[c.name] = v
  BY DEF Lasting
<1>7. c.step = 1 /\ e.ok => e.left[LandingIn(k, c)] = v /\ LandingIn(k, c) \in Names
                            /\ (k = "s3" => e.left[c.name] = v)
  BY <1>6 DEF Effect
<1>8. ~ e.ok => e.left = obj
  BY DEF Effect
<1>9. Lasting(k, e.left, d, v)
  BY <1>1, <1>2, <1>3, <1>5, <1>6, <1>7, <1>8 DEF Lasting
<1>10. \/ e.left[c.name] = v
       \/ e.left[LandingIn(k, c)] = v /\ LandingIn(k, c) \in Names
  BY <1>1, <1>5, <1>6, <1>7, <1>8
<1> QED BY <1>9, <1>10 DEF d

\* A call that is served knows what it has done.
LEMMA AnsweredSure ==
    ASSUME NEW k, NEW obj, NEW c, Sound(k, c), c.served = "sent",
           NEW e, Effect(k, obj, c, e), NEW batch, Sure(k, obj, c)
    PROVE  Sure(k, e.left, Answered(k, c, e, batch))
<1> DEFINE d == Answered(k, c, e, batch)
<1>1. c \in Call /\ e.ok \in BOOLEAN /\ c.step \in 1 .. 2 /\ c.op \in Ops
  BY DEF Sound, Effect, Call
<1>2. /\ d.op = c.op /\ d.name = c.name /\ d.to = c.to /\ d.value = c.value /\ d.step = c.step
      /\ d.was = c.was
      /\ d.served = IF e.ok THEN "ok" ELSE "failed"
      /\ d.batch = IF c.op = "delete_directory" /\ c.step = 1 THEN batch ELSE c.batch
      /\ d.file = IF k = "disk" /\ c.op = "upload" /\ c.step = 1 /\ e.ok THEN c.name ELSE c.file
  BY <1>1 DEF Call, Answered
<1>3. c.op = "rename" => \A v : Lasting(k, obj, c, v) => Lasting(k, e.left, d, v)
  BY AnsweredLasting
<1> HIDE DEF d
<1> SUFFICES Sure(k, e.left, d)
  BY DEF d
<1>12. d.served = "ok" <=> e.ok
  BY <1>1, <1>2
<1>4. CASE c.op = "upload" /\ k = "disk"
  <2>1. c.value \in Values /\ c.name \in Names /\ Absent # Torn /\ c.value # Absent
    BY <1>4, SentinelAssumption DEF Sound, Absent, Torn
  <2>2. CASE c.step = 1
    <3>1. e.ok => e.left[c.name] = Torn
      BY <1>4, <2>2 DEF Effect
    <3>2. e.ok => d.file = d.name /\ e.left[d.name] # Absent
      BY <1>2, <1>4, <2>1, <2>2, <3>1
    <3>3. d.op = "upload" /\ d.step = 1
      BY <1>2, <1>4, <2>2
    <3> QED BY <1>4, <1>12, <3>2, <3>3 DEF Sure
  <2>3. CASE c.step = 2
    <3>1. c.file = c.name /\ obj[c.name] # Absent
      BY <1>4, <2>3 DEF Sure
    <3>2. c.file # NoName
      BY <2>1, <3>1, SentinelAssumption
    <3>3. IF e.ok THEN e.left[c.name] = c.value ELSE e.left = obj
      BY <1>1, <1>4, <2>3, <3>1, <3>2 DEF Effect
    <3>4. /\ d.file = d.name /\ e.left[d.name] # Absent
          /\ e.ok => e.left[d.name] = d.value
      BY <1>1, <1>2, <1>4, <2>1, <2>3, <3>1, <3>3
    <3>5. d.op = "upload"
      BY <1>2, <1>4
    <3> QED BY <1>12, <3>4, <3>5 DEF Sure
  <2> QED BY <1>1, <2>2, <2>3
<1>5. CASE c.op = "upload" /\ k # "disk"
  <2>1. e.ok => e.left[c.name] = c.value
    BY <1>5 DEF Effect
  <2>2. d.op = "upload" /\ (e.ok => e.left[d.name] = d.value)
    BY <1>2, <1>5, <2>1
  <2> QED BY <1>5, <1>12, <2>2 DEF Sure
<1>6. CASE c.op = "delete"
  <2>1. e.ok => e.left[c.name] = Absent
    BY <1>6 DEF Effect
  <2>2. d.op = "delete" /\ (e.ok => e.left[d.name] = Absent)
    BY <1>2, <1>6, <2>1
  <2> QED BY <1>12, <2>2 DEF Sure
<1>7. CASE c.op = "delete_directory" /\ k # "s3"
  <2>1. e.ok => \A n \in Inside : e.left[n] = Absent
    BY <1>7 DEF Effect
  <2>2. d.op = "delete_directory"
    BY <1>2, <1>7
  <2> QED BY <1>7, <1>12, <2>1, <2>2 DEF Sure
<1>8. CASE c.op = "delete_directory" /\ k = "s3"
  <2>1. d.op = "delete_directory"
    BY <1>2, <1>8
  <2> QED BY <1>8, <2>1 DEF Sure
<1>9. CASE c.op = "copy"
  <2> SUFFICES ASSUME k # "onedrive", c.was # Nothing
               PROVE  e.left[c.name] = c.was /\ (e.ok => e.left[c.to] = c.was)
    <3>1. d.op = "copy" /\ d.name = c.name /\ d.to = c.to /\ d.was = c.was
      BY <1>2, <1>9
    <3> QED BY <1>12, <3>1 DEF Sure
  <2>1. obj[c.name] = c.was
    BY <1>9 DEF Sure
  <2>2. c.name \in Names \ Changes(k, c)
    BY <1>9 DEF Sound, Changes, WritesIn, LandingIn
  <2>3. e.left[c.name] = obj[c.name]
    BY <2>2 DEF Effect
  <2>4. e.ok => e.left[c.to] = obj[c.name]
    BY <1>9 DEF Effect
  <2> QED BY <2>1, <2>3, <2>4
<1>10. CASE c.op = "rename"
  <2>1. c.was # Nothing => Lasting(k, e.left, d, c.was)
    BY <1>3, <1>10 DEF Sure
  <2>2. d.op = "rename" /\ d.was = c.was
    BY <1>2, <1>10
  <2> QED BY <2>1, <2>2 DEF Sure
<1> QED BY <1>1, <1>4, <1>5, <1>6, <1>7, <1>8, <1>9, <1>10 DEF Ops

\* What is known stays so while the names concerned are left alone.
LEMMA SureKept ==
    ASSUME NEW k, NEW obj, NEW new, NEW c, Sound(k, c), NEW d, d = [c EXCEPT !.file = d.file],
           \A n \in TouchesIn(k, c) : new[n] = obj[n],
           c.op = "upload" /\ k = "disk" /\ (c.step = 2 \/ c.served = "ok") => d.file = c.file,
           Sure(k, obj, c)
    PROVE  Sure(k, new, d)
<1>1. c \in Call /\ c.op \in Ops /\ c.step \in 1 .. 2
  BY DEF Sound, Call
<1>2. /\ d.op = c.op /\ d.name = c.name /\ d.to = c.to /\ d.value = c.value /\ d.step = c.step
      /\ d.was = c.was /\ d.served = c.served /\ d.batch = c.batch
  BY <1>1 DEF Call
<1>3. LandingIn(k, d) = LandingIn(k, c)
  BY <1>2, AlikeNames
<1>4. WritesIn(k, c) \subseteq TouchesIn(k, c)
  BY ChangesTouched
<1>5. c.op # "delete_directory" => new[c.name] = obj[c.name]
  <2>1. c.op # "delete_directory" => c.name \in TouchesIn(k, c)
    BY DEF Sound, TouchesIn
  <2> QED BY <2>1
<1>6. CASE c.op \in {"upload", "delete"}
  BY <1>2, <1>5, <1>6 DEF Sure
<1>7. CASE c.op = "delete_directory"
  <2>1. \A n \in Inside : new[n] = obj[n]
    BY <1>4, <1>7 DEF WritesIn
  <2> QED BY <1>2, <1>7, <2>1 DEF Sure
<1>8. CASE c.op = "copy"
  <2>1. k # "onedrive" => new[c.to] = obj[c.to]
    <3>1. k # "onedrive" => c.to \in WritesIn(k, c)
      BY <1>8 DEF Sound, WritesIn, LandingIn
    <3> QED BY <1>4, <3>1
  <2> QED BY <1>2, <1>5, <1>8, <2>1 DEF Sure
<1>9. CASE c.op = "rename"
  <2>1. c.step = 2 \/ c.served = "ok" => new[LandingIn(k, c)] = obj[LandingIn(k, c)]
    <3>1. c.step = 2 \/ c.served = "ok" => LandingIn(k, c) \in WritesIn(k, c)
      BY <1>9 DEF Sound, WritesIn
    <3> QED BY <1>4, <3>1
  <2>2. \A v : Lasting(k, obj, c, v) => Lasting(k, new, d, v)
    BY <1>2, <1>3, <1>5, <1>9, <2>1 DEF Lasting
  <2> QED BY <1>2, <1>9, <2>2 DEF Sure
<1> QED BY <1>1, <1>6, <1>7, <1>8, <1>9 DEF Ops

\* An open file that moves along is one of a name that the rename changes.
LEMMA ShiftedNames ==
    ASSUME NEW k, NEW c, Sound(k, c), NEW left, NEW x, Sound(k, x), NEW d, Shifted(k, c, left, d, x)
    PROVE  /\ d.op = x.op /\ d.name = x.name /\ d.to = x.to /\ d.step = x.step
           /\ d.served = x.served /\ d.clean = x.clean
           /\ LandingIn(k, d) = LandingIn(k, x) /\ WritesIn(k, d) = WritesIn(k, x)
           /\ Changes(k, d) \subseteq Changes(k, x) \cup Changes(k, c)
           /\ TouchesIn(k, d) \subseteq TouchesIn(k, x) \cup TouchesIn(k, c)
           /\ Changes(k, x) \cap Changes(k, c) = {} =>
                /\ Changes(k, d) \subseteq Changes(k, x) /\ TouchesIn(k, d) \subseteq TouchesIn(k, x)
                /\ d.file \in {x.file, NoName}
<1>1. c \in Call /\ x \in Call /\ d = [x EXCEPT !.file = d.file]
  BY DEF Sound, Shifted
<1>2. /\ d.op = x.op /\ d.name = x.name /\ d.to = x.to /\ d.step = x.step
      /\ d.served = x.served /\ d.clean = x.clean
  BY <1>1 DEF Call
<1>3. LandingIn(k, d) = LandingIn(k, x) /\ WritesIn(k, d) = WritesIn(k, x)
  BY <1>2, AlikeNames
<1>4. CASE d.file = x.file
  <2>1. Changes(k, d) = Changes(k, x) /\ TouchesIn(k, d) = TouchesIn(k, x)
    BY <1>2, <1>4, AlikeNames
  <2> QED BY <1>2, <1>3, <1>4, <2>1
<1>5. CASE d.file = NoName
  <2>1. Changes(k, d) \subseteq Changes(k, x)
    BY <1>2, <1>3, <1>5, SentinelAssumption DEF Changes
  <2>2. TouchesIn(k, d) \subseteq TouchesIn(k, x)
    BY <1>2, <1>3, <1>5, SentinelAssumption DEF TouchesIn
  <2> QED BY <1>2, <1>3, <1>5, <2>1, <2>2
<1>6. CASE c.op = "rename" /\ x.file = c.name /\ d.file = c.to /\ k = "disk"
  <2>1. c.name \in Names /\ c.to \in Names /\ c.step # 2 /\ LandingIn(k, c) = c.to
    BY <1>6 DEF Sound, LandingIn
  <2>2. c.name \in Changes(k, c) /\ c.to \in Changes(k, c)
    BY <1>6, <2>1 DEF Changes, WritesIn
  <2>3. x.op = "upload"
    BY <1>6, <2>1, SentinelAssumption DEF Sound
  <2>4. c.name \in Changes(k, x)
    BY <1>6, <2>1, <2>3 DEF Changes
  <2>5. Changes(k, d) \subseteq Changes(k, x) \cup Changes(k, c)
    BY <1>2, <1>6, <2>2, <2>3 DEF Changes
  <2>6. TouchesIn(k, d) \subseteq TouchesIn(k, x) \cup Changes(k, c)
    BY <1>2, <1>3, <1>6, <2>2 DEF TouchesIn
  <2>7. Changes(k, c) \subseteq TouchesIn(k, c)
    BY ChangesTouched
  <2> QED BY <1>2, <1>3, <2>2, <2>4, <2>5, <2>6, <2>7
<1> QED BY <1>4, <1>5, <1>6 DEF Shifted

\* The answer to a request changes none of its names.
LEMMA AnsweredNames ==
    ASSUME NEW k, NEW c, Sound(k, c), NEW e, NEW batch
    PROVE  /\ Answered(k, c, e, batch).op = c.op /\ Answered(k, c, e, batch).clean = c.clean
           /\ WritesIn(k, Answered(k, c, e, batch)) = WritesIn(k, c)
           /\ Changes(k, Answered(k, c, e, batch)) \subseteq Changes(k, c)
           /\ TouchesIn(k, Answered(k, c, e, batch)) \subseteq TouchesIn(k, c)
<1> DEFINE d == Answered(k, c, e, batch)
<1>1. c \in Call
  BY DEF Sound
<1>2. /\ d.op = c.op /\ d.name = c.name /\ d.to = c.to /\ d.step = c.step /\ d.clean = c.clean
      /\ d.file = c.file \/ d.file = c.name
  BY <1>1 DEF Call, Answered
<1> HIDE DEF d
<1>3. WritesIn(k, d) = WritesIn(k, c)
  BY <1>2, AlikeNames
<1>4. Changes(k, d) \subseteq Changes(k, c)
  BY <1>2, <1>3 DEF Changes
<1>5. TouchesIn(k, d) \subseteq TouchesIn(k, c)
  BY <1>2, <1>3 DEF TouchesIn
<1> QED BY <1>2, <1>3, <1>4, <1>5 DEF d

\* The request r is served with the effect e, and what was in A becomes what is
\* in B: f tells what has become of every other one.
Serving(k, obj, A, r, e, batch, f, B) ==
    /\ \A p \in A : Sound(k, p.req)
    /\ r \in A /\ r.req.served = "sent" /\ Effect(k, obj, r.req, e)
    /\ \A p \in A : p # r =>
          (f[p].late <=> p.late) /\ Shifted(k, r.req, e.left, f[p].req, p.req)
    /\ \A q \in B :
          \/ \E p \in A : p # r /\ q = f[p]
          \/ ~ r.late /\ q = Run(r.by, Answered(k, r.req, e, batch))
          \/ /\ q.late /\ q.req.served = "sent" /\ Copying(k, r.req) /\ q.req.op = "copy"
             /\ q.req.name = r.req.name /\ q.req.to = r.req.to /\ q.req.file = r.req.file

\* A request that is served breaks no promise, and lets no one lose what he knows.
LEMMA ServedHistory ==
    ASSUME NEW k, NEW obj, NEW A, NEW ow, NEW gn, NEW r, NEW e, NEW batch, NEW f, NEW B,
           History(k, obj, A, ow, gn), Serving(k, obj, A, r, e, batch, f, B),
           \A o \in ow : o.at \subseteq Names, gn \subseteq Names
    PROVE  History(k, e.left, B, ow, gn)
<1>0. /\ \A p \in A : Sound(k, p.req)
      /\ r \in A /\ r.req.served = "sent" /\ Effect(k, obj, r.req, e)
      /\ \A p \in A : p # r =>
            (f[p].late <=> p.late) /\ Shifted(k, r.req, e.left, f[p].req, p.req)
  BY DEF Serving
<1> DEFINE N  == Run(r.by, Answered(k, r.req, e, batch))
           ch == Changes(k, r.req)
           Offspring(q) == /\ q.late /\ q.req.served = "sent" /\ Copying(k, r.req) /\ q.req.op = "copy"
                           /\ q.req.name = r.req.name /\ q.req.to = r.req.to /\ q.req.file = r.req.file
<1>1. /\ Sound(k, r.req) /\ ch \subseteq TouchesIn(k, r.req) /\ TouchesIn(k, r.req) \subseteq Names
      /\ r.req.served = "sent" /\ Effect(k, obj, r.req, e) /\ r \in A
  BY <1>0, ChangesTouched
<1>2. \A n \in Names \ ch : e.left[n] = obj[n]
  BY <1>0 DEF Effect
<1>3. ASSUME NEW p \in A, p # r
      PROVE  /\ f[p].req.op = p.req.op /\ f[p].req.name = p.req.name
             /\ f[p].req.to = p.req.to /\ f[p].req.step = p.req.step
             /\ f[p].req.served = p.req.served /\ f[p].req.clean = p.req.clean
             /\ LandingIn(k, f[p].req) = LandingIn(k, p.req)
             /\ WritesIn(k, f[p].req) = WritesIn(k, p.req)
             /\ Changes(k, f[p].req) \subseteq Changes(k, p.req) \cup ch
             /\ TouchesIn(k, f[p].req) \subseteq TouchesIn(k, p.req) \cup TouchesIn(k, r.req)
             /\ Changes(k, p.req) \cap ch = {} =>
                  /\ Changes(k, f[p].req) \subseteq Changes(k, p.req)
                  /\ TouchesIn(k, f[p].req) \subseteq TouchesIn(k, p.req)
                  /\ f[p].req.file \in {p.req.file, NoName}
             /\ Changes(k, p.req) \subseteq TouchesIn(k, p.req)
  <2>1. Sound(k, p.req) /\ Shifted(k, r.req, e.left, f[p].req, p.req)
    BY <1>0, <1>3
  <2>2. Changes(k, p.req) \subseteq TouchesIn(k, p.req)
    BY <2>1, ChangesTouched
  <2>3. PICK x, d, c, left : x = p.req /\ d = f[p].req /\ c = r.req /\ left = e.left
    OBVIOUS
  <2>5. Sound(k, c) /\ Sound(k, x) /\ Shifted(k, c, left, d, x)
    BY <1>1, <2>1, <2>3
  <2>4. /\ d.op = x.op /\ d.name = x.name /\ d.to = x.to /\ d.step = x.step
        /\ d.served = x.served /\ d.clean = x.clean
        /\ LandingIn(k, d) = LandingIn(k, x) /\ WritesIn(k, d) = WritesIn(k, x)
        /\ Changes(k, d) \subseteq Changes(k, x) \cup Changes(k, c)
        /\ TouchesIn(k, d) \subseteq TouchesIn(k, x) \cup TouchesIn(k, c)
        /\ Changes(k, x) \cap Changes(k, c) = {} =>
             /\ Changes(k, d) \subseteq Changes(k, x) /\ TouchesIn(k, d) \subseteq TouchesIn(k, x)
             /\ d.file \in {x.file, NoName}
    BY <2>5, ShiftedNames
  <2> QED BY <2>2, <2>3, <2>4
<1>4. /\ N.req = Answered(k, r.req, e, batch) /\ ~ N.late
      /\ N.req.op = r.req.op /\ N.req.clean = r.req.clean
      /\ WritesIn(k, N.req) = WritesIn(k, r.req)
      /\ Changes(k, N.req) \subseteq ch /\ TouchesIn(k, N.req) \subseteq TouchesIn(k, r.req)
  BY <1>1, AnsweredNames DEF Run
<1>5. ASSUME NEW q, Offspring(q)
      PROVE  Changes(k, q.req) = ch /\ TouchesIn(k, q.req) = TouchesIn(k, r.req)
  <2>1. /\ q.req.op = r.req.op /\ q.req.name = r.req.name /\ q.req.to = r.req.to
        /\ q.req.file = r.req.file /\ q.req.op = "copy"
    BY <1>5 DEF Copying
  <2>2. WritesIn(k, q.req) = WritesIn(k, r.req) /\ TouchesIn(k, q.req) = TouchesIn(k, r.req)
    <3>1. PICK c, d : c = r.req /\ d = q.req
      OBVIOUS
    <3>2. d.op = c.op /\ d.name = c.name /\ d.to = c.to /\ d.file = c.file
      BY <2>1, <3>1
    <3>3. WritesIn(k, d) = WritesIn(k, c) /\ TouchesIn(k, d) = TouchesIn(k, c)
      BY <3>2, AlikeNames
    <3> QED BY <3>1, <3>3
  <2>3. Changes(k, q.req) = WritesIn(k, q.req) /\ Changes(k, r.req) = WritesIn(k, r.req)
    <3> HIDE DEF Offspring
    <3> QED BY <2>1 DEF Changes
  <2> QED BY <2>2, <2>3
<1>6. \A q \in B : \/ \E p \in A : p # r /\ q = f[p]
                   \/ ~ r.late /\ q = N
                   \/ Offspring(q)
  BY DEF Serving
<1> HIDE DEF N, ch, Offspring
<1>7. CleanIn(k, e.left, B)
  <2>1. ASSUME NEW q \in B, Minding(k, q), ~ r.late, q = N
        PROVE  Sure(k, e.left, q.req) /\ Alone(k, B, q)
    <3>1. Minding(k, r)
      BY <1>4, <2>1 DEF Minding, Copying
    <3>2. Sure(k, obj, r.req) /\ Alone(k, A, r)
      BY <1>1, <3>1 DEF History, CleanIn
    <3>3. Sure(k, e.left, q.req)
      BY <1>0, <1>1, <1>4, <2>1, <3>2, AnsweredSure
    <3>4. ASSUME NEW q2 \in B, q2 # q
          PROVE  TouchesIn(k, q2.req) \cap TouchesIn(k, q.req) = {}
      <4>5. ~ Offspring(q2)
        BY <3>1 DEF Offspring, Minding
      <4>1. PICK p2 \in A : p2 # r /\ q2 = f[p2]
        BY <1>6, <2>1, <3>4, <4>5
      <4>2. TouchesIn(k, p2.req) \cap TouchesIn(k, r.req) = {}
        BY <3>2, <4>1 DEF Alone
      <4>3. TouchesIn(k, q2.req) \subseteq TouchesIn(k, p2.req)
        <5>1. Changes(k, p2.req) \cap ch = {}
          BY <1>1, <1>3, <4>1, <4>2
        <5> QED BY <1>3, <4>1, <5>1
      <4> QED BY <1>4, <2>1, <4>2, <4>3
    <3> QED BY <3>3, <3>4 DEF Alone
  <2>2. ASSUME NEW q \in B, Minding(k, q), NEW p \in A, p # r, q = f[p]
        PROVE  Sure(k, e.left, q.req) /\ Alone(k, B, q)
    <3>1. Minding(k, p)
      BY <1>0, <1>3, <2>2 DEF Minding, Copying
    <3>2. Sure(k, obj, p.req) /\ Alone(k, A, p)
      BY <3>1 DEF History, CleanIn
    <3>3. TouchesIn(k, r.req) \cap TouchesIn(k, p.req) = {}
      BY <1>1, <2>2, <3>2 DEF Alone
    <3>4. /\ TouchesIn(k, q.req) \subseteq TouchesIn(k, p.req)
          /\ q.req.file \in {p.req.file, NoName}
      BY <1>1, <1>3, <2>2, <3>3
    <3>5. Sound(k, p.req) /\ Shifted(k, r.req, e.left, q.req, p.req)
      BY <1>0, <2>2
    <3>6. \A n \in TouchesIn(k, p.req) : e.left[n] = obj[n]
      <4>1. TouchesIn(k, p.req) \subseteq Names
        BY <3>5, ChangesTouched
      <4> QED BY <1>1, <1>2, <3>3, <4>1
    <3>7. p.req.op = "upload" /\ k = "disk" /\ (p.req.step = 2 \/ p.req.served = "ok")
             => q.req.file = p.req.file
      <4> SUFFICES ASSUME p.req.op = "upload", k = "disk", p.req.step = 2 \/ p.req.served = "ok",
                          q.req.file # p.req.file
                   PROVE  FALSE
        OBVIOUS
      <4>1. p.req.file = p.req.name /\ obj[p.req.name] # Absent
        BY <3>2 DEF Sure
      <4>2. p.req.file \in TouchesIn(k, p.req)
        BY <3>5, <4>1 DEF Sound, TouchesIn
      <4>3. q.req.file = NoName /\ p.req.file # NoName
        BY <3>4, <4>1
      <4>4. p.req.file \in TouchesIn(k, r.req) \/ e.left[p.req.file] = Absent
        <5>1. r.req.op = "rename" /\ q.req.file = r.req.to => r.req.to \in Names
          BY <1>1 DEF Sound
        <5> QED BY <3>5, <4>3, <5>1, SentinelAssumption DEF Shifted
      <4> QED BY <3>3, <3>6, <4>1, <4>2, <4>4
    <3>8. q.req = [p.req EXCEPT !.file = q.req.file]
      BY <3>5 DEF Shifted
    <3>9. Sure(k, e.left, q.req)
      BY <3>2, <3>5, <3>6, <3>7, <3>8, SureKept
    <3>10. ASSUME NEW q2 \in B, q2 # q
           PROVE  TouchesIn(k, q2.req) \cap TouchesIn(k, q.req) = {}
      <4>1. CASE \E p2 \in A : p2 # r /\ q2 = f[p2]
        <5>1. PICK p2 \in A : p2 # r /\ q2 = f[p2]
          BY <4>1
        <5>2. p2 # p
          BY <2>2, <3>10, <5>1
        <5>3. TouchesIn(k, p2.req) \cap TouchesIn(k, p.req) = {}
          BY <3>2, <5>2 DEF Alone
        <5>4. TouchesIn(k, q2.req) \subseteq TouchesIn(k, p2.req) \cup TouchesIn(k, r.req)
          BY <1>3, <5>1
        <5> QED BY <3>3, <3>4, <5>3, <5>4
      <4>2. CASE q2 = N \/ Offspring(q2)
        <5>1. TouchesIn(k, q2.req) \subseteq TouchesIn(k, r.req)
          BY <1>4, <1>5, <4>2
        <5> QED BY <3>3, <3>4, <5>1
      <4> QED BY <1>6, <4>1, <4>2
    <3> QED BY <3>9, <3>10 DEF Alone
  <2>3. \A q \in B : Offspring(q) => ~ Minding(k, q)
    BY DEF Offspring, Minding
  <2> QED BY <1>6, <2>1, <2>2, <2>3 DEF CleanIn
\* A rename that the promise is about keeps it.
<1>8. ASSUME NEW o \in ow, ch \cap o.at # {}
      PROVE  /\ Owner(k, obj, r.req, o)
             /\ \A p \in A : p # r => Changes(k, p.req) \cap o.at = {}
             /\ \E n \in o.at : e.left[n] = o.value
             /\ Owner(k, e.left, N.req, o)
  <2>1. /\ Owner(k, obj, r.req, o)
        /\ \A p \in A : p # r => Changes(k, p.req) \cap o.at = {}
    BY <1>0, <1>8 DEF ch, History, OwedIn
  <2>2. r.req.op = "rename" /\ WritesIn(k, r.req) = o.at /\ Lasting(k, obj, r.req, o.value)
    BY <2>1 DEF Owner
  <2>3. /\ Lasting(k, e.left, N.req, o.value)
        /\ \/ e.left[r.req.name] = o.value
           \/ e.left[LandingIn(k, r.req)] = o.value /\ LandingIn(k, r.req) \in Names
    BY <1>1, <1>4, <2>2, AnsweredLasting
  <2>4. r.req.name \in o.at /\ (LandingIn(k, r.req) \in Names => LandingIn(k, r.req) \in o.at)
    BY <1>1, <2>2 DEF Sound, WritesIn
  <2>5. Owner(k, e.left, N.req, o)
    BY <1>4, <2>2, <2>3 DEF Owner
  <2> QED BY <2>1, <2>3, <2>4, <2>5
<1>9. ASSUME NEW o \in ow, NEW p \in A, p # r, Changes(k, p.req) \cap o.at = {}
      PROVE  Changes(k, f[p].req) \cap o.at = {}
  <2>1. CASE ch \cap o.at = {}
    BY <1>3, <1>9, <2>1
  <2>2. CASE ch \cap o.at # {}
    <3>1. r.req.op = "rename" /\ WritesIn(k, r.req) = o.at
      BY <1>8, <2>2 DEF Owner
    <3>2. ch \subseteq o.at
      BY <1>1, <3>1, ChangesTouched DEF ch
    <3>3. Changes(k, p.req) \cap ch = {}
      BY <1>9, <3>2
    <3> QED BY <1>3, <1>9, <3>3
  <2> QED BY <2>1, <2>2
<1>10. OwedIn(k, e.left, B, ow)
  <2>1. ASSUME NEW o \in ow
        PROVE  \E n \in o.at : e.left[n] = o.value
    <3>1. CASE ch \cap o.at = {}
      <4>1. PICK n \in o.at : obj[n] = o.value
        BY DEF History, OwedIn
      <4>2. n \in Names \ ch
        BY <3>1
      <4> QED BY <1>2, <4>1, <4>2
    <3>2. CASE ch \cap o.at # {}
      BY <1>8, <3>2
    <3> QED BY <3>1, <3>2
  <2>2. ASSUME NEW o \in ow, NEW q \in B, Changes(k, q.req) \cap o.at # {}, ch \cap o.at = {}
        PROVE  /\ Owner(k, e.left, q.req, o)
               /\ \A q2 \in B : q2 # q => Changes(k, q2.req) \cap o.at = {}
    <3>1. PICK p \in A : p # r /\ q = f[p]
      BY <1>4, <1>5, <1>6, <2>2
    <3>2. Changes(k, p.req) \cap o.at # {}
      BY <1>9, <2>2, <3>1
    <3>3. /\ Owner(k, obj, p.req, o)
          /\ \A p2 \in A : p2 # p => Changes(k, p2.req) \cap o.at = {}
      BY <3>2 DEF History, OwedIn
    <3>4. p.req.op = "rename" /\ WritesIn(k, p.req) = o.at /\ Lasting(k, obj, p.req, o.value)
      BY <3>3 DEF Owner
    <3>5. Sound(k, p.req)
      BY <1>0
    <3>6. /\ e.left[p.req.name] = obj[p.req.name]
          /\ p.req.step = 2 \/ p.req.served = "ok" =>
               e.left[LandingIn(k, p.req)] = obj[LandingIn(k, p.req)]
      <4>1. \A n \in o.at : e.left[n] = obj[n]
        BY <1>2, <2>2
      <4>2. p.req.name \in o.at
        BY <3>4, <3>5 DEF Sound, WritesIn
      <4>3. p.req.step = 2 \/ p.req.served = "ok" => LandingIn(k, p.req) \in o.at
        BY <3>4, <3>5 DEF Sound, WritesIn
      <4> QED BY <4>1, <4>2, <4>3
    <3>7. Lasting(k, e.left, q.req, o.value)
      BY <1>3, <3>1, <3>4, <3>6 DEF Lasting
    <3>8. Owner(k, e.left, q.req, o)
      BY <1>3, <3>1, <3>4, <3>7 DEF Owner
    <3>9. ASSUME NEW q2 \in B, q2 # q
          PROVE  Changes(k, q2.req) \cap o.at = {}
      <4>1. CASE q2 = N \/ Offspring(q2)
        BY <1>4, <1>5, <2>2, <4>1
      <4>2. CASE \E p2 \in A : p2 # r /\ q2 = f[p2]
        <5>1. PICK p2 \in A : p2 # r /\ q2 = f[p2]
          BY <4>2
        <5>2. Changes(k, p2.req) \cap o.at = {}
          BY <3>1, <3>3, <3>9, <5>1
        <5> QED BY <1>9, <5>1, <5>2
      <4> QED BY <1>6, <4>1, <4>2
    <3> QED BY <3>8, <3>9
  <2>3. ASSUME NEW o \in ow, NEW q \in B, Changes(k, q.req) \cap o.at # {}, ch \cap o.at # {}
        PROVE  /\ Owner(k, e.left, q.req, o)
               /\ \A q2 \in B : q2 # q => Changes(k, q2.req) \cap o.at = {}
    <3>1. ~ \E p \in A : p # r /\ q = f[p]
      BY <1>8, <1>9, <2>3
    <3>2. \A q2 \in B : ~ Offspring(q2)
      BY <1>8, <2>3 DEF Owner, Offspring, Copying
    <3>3. q = N
      BY <1>6, <3>1, <3>2
    <3>4. \A q2 \in B : q2 # q => Changes(k, q2.req) \cap o.at = {}
      BY <1>6, <1>8, <1>9, <2>3, <3>2, <3>3
    <3> QED BY <1>8, <2>3, <3>3, <3>4
  <2> QED BY <2>1, <2>2, <2>3 DEF OwedIn
<1>11. GoneIn(k, e.left, B, gn)
  <2>1. ASSUME NEW n \in gn
        PROVE  e.left[n] = Absent /\ \A q \in B : n \notin Changes(k, q.req)
    <3>1. obj[n] = Absent /\ n \in Names \ ch /\ \A p \in A : n \notin Changes(k, p.req)
      BY <1>0 DEF ch, History, GoneIn
    <3>2. \A q \in B : n \notin Changes(k, q.req)
      BY <1>3, <1>4, <1>5, <1>6, <3>1
    <3> QED BY <1>2, <3>1, <3>2
  <2> QED BY <2>1 DEF GoneIn
<1>12. ASSUME NEW q \in B, q.late
       PROVE  q.req.served = "sent"
  <2>1. CASE Offspring(q)
    BY <2>1 DEF Offspring
  <2>2. CASE \E p \in A : p # r /\ q = f[p]
    BY <1>0, <1>3, <1>12, <2>2 DEF History
  <2> QED BY <1>4, <1>6, <1>12, <2>1, <2>2
<1> QED BY <1>7, <1>10, <1>11, <1>12 DEF History

\* What the base invariant says of all requests alike.
LEMMA ActiveSound ==
    ASSUME BaseInv
    PROVE  /\ \A p \in Active(calls, late) : Sound(Kind, p.req)
           /\ \A o \in owed : o \in [value : Values, at : SUBSET Names] /\ o.at \subseteq Names
           /\ gone \subseteq Names
<1>1. ASSUME NEW p \in Active(calls, late)
      PROVE  Sound(Kind, p.req)
  <2>1. \/ p.by \in Callers /\ calls[p.by] # Idle /\ p.req = calls[p.by]
        \/ p.req \in late
    BY ActiveOf
  <2> QED BY <2>1 DEF BaseInv
<1>2. owed \subseteq [value : Values, at : SUBSET Names] /\ gone \subseteq Names
  BY DEF BaseInv, TypeOK
<1> QED BY <1>1, <1>2

\* Serving a request keeps the promises: it changes only its own names.
LEMMA ServeHistory ==
    ASSUME HistoryInv, NEW h \in Callers, Serve(h)
    PROVE  HistoryInv'
<1>0. BaseInv /\ BaseInv'
  BY ServeBase DEF HistoryInv
<1>1. PICK c \in Call : \E e \in Serves(c), batch \in Listings :
        /\ c = calls[h] /\ c # Idle /\ c.served = "sent" /\ Sound(Kind, c)
        /\ Effect(Kind, objects, c, e)
        /\ objects' = e.left
        /\ calls' = [g \in Callers |->
                        IF g = h THEN Answered(Kind, c, e, batch)
                        ELSE IF calls[g] # Idle THEN Served(calls[g], c, e.left) ELSE Idle]
        /\ late' = {Served(d, c, e.left) : d \in late} \cup Accepted(c, e)
  BY <1>0, ServeFacts
<1>2. PICK e \in Serves(c), batch \in Listings :
        /\ c = calls[h] /\ c # Idle /\ c.served = "sent" /\ Sound(Kind, c)
        /\ Effect(Kind, objects, c, e)
        /\ objects' = e.left
        /\ calls' = [g \in Callers |->
                        IF g = h THEN Answered(Kind, c, e, batch)
                        ELSE IF calls[g] # Idle THEN Served(calls[g], c, e.left) ELSE Idle]
        /\ late' = {Served(d, c, e.left) : d \in late} \cup Accepted(c, e)
  BY <1>1
<1>3. driver' = driver /\ secret' = secret /\ owed' = owed /\ gone' = gone
  BY DEF Serve
<1>4. Kind' = Kind
  BY <1>3, KindKept
<1>5. PICK cs, ls : cs = calls' /\ ls = late'
  OBVIOUS
<1> DEFINE A == Active(calls, late)
           B == Active(cs, ls)
           r == Run(h, c)
           f == [p \in A |-> IF p.late THEN Behind(Served(p.req, c, e.left))
                             ELSE Run(p.by, Served(p.req, c, e.left))]
<1>6. r \in A /\ r.req = c /\ r.by = h /\ ~ r.late
  BY <1>2, ActiveRun
<1>7. ASSUME NEW p \in A, p # r
      PROVE  (f[p].late <=> p.late) /\ Shifted(Kind, r.req, e.left, f[p].req, p.req)
  <2>1. Sound(Kind, p.req)
    BY <1>0, ActiveSound
  <2>2. f[p].req = Served(p.req, c, e.left)
    BY DEF Run, Behind
  <2>3. f[p].late <=> p.late
    <3>1. CASE p.late
      <4>1. f[p] = Behind(Served(p.req, c, e.left))
        BY <3>1
      <4> QED BY <3>1, <4>1 DEF Behind
    <3>2. CASE ~ p.late
      <4>1. f[p] = Run(p.by, Served(p.req, c, e.left))
        BY <3>2
      <4> QED BY <3>2, <4>1 DEF Run
    <3> QED BY <3>1, <3>2
  <2> QED BY <1>2, <1>6, <2>1, <2>2, <2>3, ServedShifts
<1>8. ASSUME NEW q \in B
      PROVE  \/ \E p \in A : p # r /\ q = f[p]
             \/ ~ r.late /\ q = Run(r.by, Answered(Kind, r.req, e, batch))
             \/ /\ q.late /\ q.req.served = "sent" /\ Copying(Kind, r.req) /\ q.req.op = "copy"
                /\ q.req.name = r.req.name /\ q.req.to = r.req.to /\ q.req.file = r.req.file
  <2>1. CASE ~ q.late /\ q.by \in Callers /\ cs[q.by] # Idle /\ q = Run(q.by, cs[q.by])
    <3>1. CASE q.by = h
      BY <1>2, <1>5, <1>6, <2>1, <3>1
    <3>2. CASE q.by # h
      <4>1. PICK g \in Callers : g = q.by
        BY <2>1
      <4>2. cs[g] = Served(calls[g], c, e.left) /\ calls[g] # Idle
        BY <1>2, <1>5, <2>1, <3>2, <4>1
      <4>3. PICK p \in A : p = Run(g, calls[g]) /\ p.req = calls[g] /\ p.by = g /\ ~ p.late
        BY <4>2, ActiveRun
      <4>4. p # r
        BY <1>6, <3>2, <4>1, <4>3
      <4>5. f[p] = Run(g, Served(calls[g], c, e.left))
        BY <4>3
      <4>6. q = f[p]
        BY <2>1, <4>1, <4>2, <4>5
      <4> QED BY <4>4, <4>6
    <3> QED BY <3>1, <3>2
  <2>2. CASE q.late /\ q.by \in ls /\ q = Behind(q.by)
    <3>1. PICK d \in ls : d = q.by
      BY <2>2
    <3>2. CASE \E d0 \in late : d = Served(d0, c, e.left)
      <4>1. PICK d0 \in late : d = Served(d0, c, e.left)
        BY <3>2
      <4>2. PICK p \in A : p = Behind(d0) /\ p.req = d0 /\ p.late
        BY ActiveBehind
      <4>3. p # r
        BY <1>6, <4>2
      <4>4. f[p] = Behind(Served(d0, c, e.left))
        BY <4>2
      <4>5. q = f[p]
        BY <2>2, <3>1, <4>1, <4>4
      <4> QED BY <4>3, <4>5
    <3>3. CASE d \in Accepted(c, e)
      <4>1. /\ driver \in {"disk", "s3", "dropbox", "onedrive"}
            /\ objects \in [Names -> Stored]
            /\ ~ Local => objects \in [Names -> Values \cup {Absent}]
        BY <1>0 DEF BaseInv, TypeOK
      <4>2. /\ d.served = "sent" /\ d.file = c.file
            /\ driver = "onedrive" /\ c.op = "copy"
            /\ d.op = "copy" /\ d.name = c.name /\ d.to = c.to
        BY <1>2, <3>3, <4>1, AcceptedSound
      <4>3. Copying(Kind, c) /\ q.req = d
        BY <2>2, <3>1, <4>2, KindTyped DEF Copying, Behind
      <4> QED BY <1>6, <2>2, <4>2, <4>3
    <3> QED BY <1>2, <1>5, <3>2, <3>3
  <2> QED BY <2>1, <2>2, ActiveOf
<1>9. /\ \A p \in A : Sound(Kind, p.req)
      /\ \A o \in owed : o.at \subseteq Names
      /\ gone \subseteq Names
  BY <1>0, ActiveSound
<1>11. History(Kind, objects, A, owed, gone)
  BY DEF HistoryInv
<1>12. Effect(Kind, objects, r.req, e) /\ r.req.served = "sent"
  BY <1>2, <1>6
<1> HIDE DEF A, B, r, f
<1>14. Serving(Kind, objects, A, r, e, batch, f, B)
  BY <1>6, <1>7, <1>8, <1>9, <1>12 DEF Serving
<1>13. History(Kind, e.left, B, owed, gone)
  BY <1>9, <1>11, <1>14, ServedHistory
<1> QED BY <1>0, <1>2, <1>3, <1>4, <1>5, <1>13 DEF B, HistoryInv

\* So does serving one whose caller has left.
LEMMA ServeLateHistory ==
    ASSUME HistoryInv, NEW c \in late, ServeLate(c)
    PROVE  HistoryInv'
<1>0. BaseInv /\ BaseInv'
  BY ServeLateBase DEF HistoryInv
<1>1. PICK e \in Serves(c) :
        /\ Sound(Kind, c) /\ Effect(Kind, objects, c, e)
        /\ objects' = e.left /\ calls' = calls /\ owed' = owed /\ gone' = gone
        /\ late' = (late \ {c}) \cup Accepted(c, e)
  BY <1>0, ServeLateFacts
<1>2. Kind' = Kind
  BY KindKept DEF ServeLate
<1>3. PICK ls : ls = late'
  OBVIOUS
<1> DEFINE A == Active(calls, late)
           B == Active(calls, ls)
           r == Behind(c)
           f == [p \in A |-> p]
<1>4. r \in A /\ r.req = c /\ r.by = c /\ r.late
  BY ActiveBehind
<1>5. ASSUME NEW p \in A, p # r
      PROVE  (f[p].late <=> p.late) /\ Shifted(Kind, r.req, e.left, f[p].req, p.req)
  <2>1. p.req \in Call
    BY <1>0, ActiveSound DEF Sound
  <2>2. p.req = [p.req EXCEPT !.file = p.req.file]
    BY <2>1 DEF Call
  <2> QED BY <2>2 DEF Shifted
<1>6. ASSUME NEW q \in B
      PROVE  \/ \E p \in A : p # r /\ q = f[p]
             \/ /\ q.late /\ q.req.served = "sent" /\ Copying(Kind, r.req) /\ q.req.op = "copy"
                /\ q.req.name = r.req.name /\ q.req.to = r.req.to /\ q.req.file = r.req.file
  <2>1. CASE ~ q.late /\ q.by \in Callers /\ calls[q.by] # Idle /\ q = Run(q.by, calls[q.by])
    <3>1. q \in A /\ q # r
      BY <1>4, <2>1, ActiveRun
    <3> QED BY <3>1
  <2>2. CASE q.late /\ q.by \in ls /\ q = Behind(q.by)
    <3>1. PICK d \in ls : d = q.by
      BY <2>2
    <3>2. CASE d \in late \ {c}
      <4>1. q \in A /\ q # r
        BY <1>4, <2>2, <3>1, <3>2, ActiveBehind
      <4> QED BY <4>1
    <3>3. CASE d \in Accepted(c, e)
      <4>1. /\ driver \in {"disk", "s3", "dropbox", "onedrive"}
            /\ objects \in [Names -> Stored]
            /\ ~ Local => objects \in [Names -> Values \cup {Absent}]
        BY <1>0 DEF BaseInv, TypeOK
      <4>2. /\ d.served = "sent" /\ d.file = c.file
            /\ driver = "onedrive" /\ c.op = "copy"
            /\ d.op = "copy" /\ d.name = c.name /\ d.to = c.to
        BY <1>1, <3>3, <4>1, AcceptedSound
      <4>3. Copying(Kind, c) /\ q.req = d
        BY <2>2, <3>1, <4>2, KindTyped DEF Copying, Behind
      <4> QED BY <1>4, <2>2, <4>2, <4>3
    <3> QED BY <1>1, <1>3, <3>2, <3>3
  <2> QED BY <2>1, <2>2, ActiveOf
<1>7. /\ \A p \in A : Sound(Kind, p.req)
      /\ \A o \in owed : o.at \subseteq Names
      /\ gone \subseteq Names
  BY <1>0, ActiveSound
<1>8. History(Kind, objects, A, owed, gone) /\ r.req.served = "sent"
  BY <1>4 DEF HistoryInv, History
<1>9. Effect(Kind, objects, r.req, e)
  BY <1>1, <1>4
<1>10. PICK batch : batch = {}
  OBVIOUS
<1> HIDE DEF A, B, r, f
<1>12. Serving(Kind, objects, A, r, e, batch, f, B)
  BY <1>4, <1>5, <1>6, <1>7, <1>8, <1>9 DEF Serving
<1>11. History(Kind, e.left, B, owed, gone)
  BY <1>7, <1>8, <1>12, ServedHistory
<1> QED BY <1>0, <1>1, <1>2, <1>3, <1>11 DEF B, HistoryInv

\* What a call that returns promises holds, and no other request can break it.
LEMMA ReturnHistory ==
    ASSUME NEW k, NEW obj, NEW A, NEW B, NEW ow, NEW gn, NEW ow2, NEW gn2, NEW r \in A,
           History(k, obj, A, ow, gn), History(k, obj, B, ow, gn),
           \A p \in A : Sound(k, p.req),
           ~ r.late, r.req.clean, Settled(k, r.req),
           \A o \in ow2 : o \in ow \/ Vouches(k, r.req, o),
           \A n \in gn2 : n \in gn \/ Clears(k, r.req, n),
           \A q \in B :
              \/ q \in A /\ q # r
              \/ q.req = Left(r.req) /\ k = "s3" /\ r.req.op = "rename" /\ r.req.step = 2
    PROVE  History(k, obj, B, ow2, gn2)
<1> DEFINE c == r.req
<1>1. Sound(k, c) /\ c \in Call /\ WritesIn(k, c) \subseteq TouchesIn(k, c)
  BY ChangesTouched DEF Sound
<1>2. ~ Copying(k, c) => Sure(k, obj, c) /\ Alone(k, A, r)
  BY DEF History, CleanIn, Minding
\* Whoever else is there changes nothing that the call has written.
<1>3. ASSUME NEW q \in B, ~ Copying(k, c), NEW n \in WritesIn(k, c),
             k = "s3" /\ c.op = "rename" /\ c.step = 2 => n = c.to
      PROVE  n \notin Changes(k, q.req)
  <2>1. CASE q \in A /\ q # r
    <3>1. TouchesIn(k, q.req) \cap TouchesIn(k, c) = {}
      BY <1>2, <1>3, <2>1 DEF Alone
    <3>2. Changes(k, q.req) \subseteq TouchesIn(k, q.req)
      BY <2>1, ChangesTouched
    <3> QED BY <1>1, <3>1, <3>2
  <2>2. CASE q.req = Left(c) /\ k = "s3" /\ c.op = "rename" /\ c.step = 2
    <3>1. Left(c).op = c.op /\ Left(c).step = c.step /\ Left(c).name = c.name
      BY <1>1 DEF Left, Call
    <3>2. Changes(k, q.req) = {c.name}
      BY <2>2, <3>1 DEF Changes
    <3>3. c.name # c.to
      BY <1>1, <2>2 DEF Sound
    <3> QED BY <1>3, <2>2, <3>2, <3>3
  <2> QED BY <2>1, <2>2
<1>4. ASSUME NEW o \in ow2, Vouches(k, c, o)
      PROVE  /\ \E n \in o.at : obj[n] = o.value
             /\ \A q \in B : Changes(k, q.req) \cap o.at = {}
  <2>1. /\ o \in [value : Values, at : SUBSET Names] /\ ~ Copying(k, c)
        /\ \/ c.op = "upload" /\ o.value = c.value /\ o.at = {c.name}
           \/ c.op = "copy" /\ k # "onedrive" /\ c.was # Nothing /\ o.value = c.was /\ o.at = {c.to}
           \/ c.op = "rename" /\ c.was # Nothing /\ o.value = c.was /\ o.at = {LandingIn(k, c)}
    BY <1>4 DEF Vouches, Copying
  <2>2. Sure(k, obj, c)
    BY <1>2, <2>1
  <2>3. PICK n : o.at = {n}
    BY <2>1
  <2>4. n \in Names
    BY <2>1, <2>3
  <2>5. n \in WritesIn(k, c)
    BY <2>1, <2>3, <2>4 DEF WritesIn, LandingIn
  <2>6. k = "s3" /\ c.op = "rename" /\ c.step = 2 => n = c.to
    BY <2>1, <2>3 DEF LandingIn
  <2>7. obj[n] = o.value
    <3>1. CASE c.op = "upload"
      <4>1. c.served = "ok" /\ (k = "disk" => c.step = 2)
        BY <3>1 DEF Settled
      <4> QED BY <2>1, <2>2, <2>3, <3>1, <4>1 DEF Sure
    <3>2. CASE c.op = "copy"
      <4>1. c.served = "ok"
        BY <3>2 DEF Settled
      <4> QED BY <2>1, <2>2, <2>3, <3>2, <4>1 DEF Sure
    <3>3. CASE c.op = "rename"
      <4>1. c.step = 2 \/ c.served = "ok"
        BY <3>3 DEF Settled
      <4>2. Lasting(k, obj, c, c.was)
        BY <2>1, <2>2, <3>3 DEF Sure
      <4>3. obj[LandingIn(k, c)] = c.was
        BY <4>1, <4>2 DEF Lasting
      <4> QED BY <2>1, <2>3, <3>3, <4>3
    <3> QED BY <2>1, <3>1, <3>2, <3>3
  <2>8. \A q \in B : n \notin Changes(k, q.req)
    BY <1>3, <2>1, <2>5, <2>6
  <2> QED BY <2>3, <2>7, <2>8
<1>5. ASSUME NEW n \in gn2, Clears(k, c, n)
      PROVE  obj[n] = Absent /\ \A q \in B : n \notin Changes(k, q.req)
  <2>1. /\ n \in Names /\ ~ Copying(k, c)
        /\ \/ c.op = "delete" /\ n = c.name
           \/ c.op = "delete_directory" /\ n \in Inside /\ k # "s3"
    BY <1>5 DEF Clears, Copying
  <2>2. Sure(k, obj, c)
    BY <1>2, <2>1
  <2>3. n \in WritesIn(k, c)
    BY <2>1 DEF WritesIn
  <2>4. c.served = "ok"
    BY <2>1 DEF Settled
  <2>5. obj[n] = Absent
    <3>1. CASE c.op = "delete"
      BY <2>1, <2>2, <2>4, <3>1 DEF Sure
    <3>2. CASE c.op = "delete_directory" /\ k # "s3"
      BY <2>1, <2>2, <2>4, <3>2 DEF Sure
    <3> QED BY <2>1, <3>1, <3>2
  <2> QED BY <1>3, <2>1, <2>3, <2>5
<1> HIDE DEF c
<1>6. OwedIn(k, obj, B, ow2)
  <2>1. ASSUME NEW o \in ow2
        PROVE  /\ \E n \in o.at : obj[n] = o.value
               /\ \A p \in B : Changes(k, p.req) \cap o.at # {} =>
                    /\ Owner(k, obj, p.req, o)
                    /\ \A q \in B : q # p => Changes(k, q.req) \cap o.at = {}
    <3>1. CASE o \in ow
      BY <3>1 DEF History, OwedIn
    <3>2. CASE Vouches(k, c, o)
      BY <1>4, <3>2
    <3> QED BY <3>1, <3>2 DEF c
  <2> QED BY <2>1 DEF OwedIn
<1>7. GoneIn(k, obj, B, gn2)
  <2>1. ASSUME NEW n \in gn2
        PROVE  obj[n] = Absent /\ \A q \in B : n \notin Changes(k, q.req)
    <3>1. CASE n \in gn
      BY <3>1 DEF History, GoneIn
    <3>2. CASE Clears(k, c, n)
      BY <1>5, <3>2
    <3> QED BY <3>1, <3>2 DEF c
  <2> QED BY <2>1 DEF GoneIn
<1> QED BY <1>6, <1>7 DEF History

\* What a request left behind has in common with its call.
LEMMA LeftAlike ==
    ASSUME NEW c \in Call
    PROVE  /\ Left(c).op = c.op /\ Left(c).name = c.name /\ Left(c).to = c.to
           /\ Left(c).step = c.step /\ Left(c).file = c.file /\ Left(c).served = "sent"
  BY DEF Left, Call

\* Of a caller that goes, the others are as they were.
LEMMA GoneCaller ==
    ASSUME NEW k, NEW obj, NEW cs, NEW ls, NEW h \in Callers, NEW c \in Call, c = cs[h], c # Idle,
           NEW ls2, ls2 = ls \/ (ls2 = ls \cup {Left(c)} /\ c.served = "sent"),
           NEW cs2, cs2 = [cs EXCEPT ![h] = Idle], cs = [g \in Callers |-> cs[g]],
           NEW ow, NEW gn, History(k, obj, Active(cs, ls), ow, gn)
    PROVE  /\ History(k, obj, Active(cs2, ls2), ow, gn)
           /\ \A q \in Active(cs2, ls2) :
                 \/ q \in Active(cs, ls) /\ q # Run(h, c)
                 \/ q = Behind(Left(c)) /\ ls2 # ls /\ c.served = "sent"
<1> DEFINE A == Active(cs, ls)
           B == Active(cs2, ls2)
           r == Run(h, c)
           f == [p \in A |-> IF p = r THEN Behind(Left(c)) ELSE p]
<1>1. r \in A /\ r.req = c /\ r.by = h /\ ~ r.late
  BY ActiveRun
<1>2. \A g \in Callers : cs2[g] # Idle => g # h /\ cs2[g] = cs[g]
  OBVIOUS
<1>3. ASSUME NEW q \in B
      PROVE  \/ q \in A /\ q # r
             \/ q = Behind(Left(c)) /\ ls2 # ls /\ c.served = "sent"
  <2>1. CASE ~ q.late /\ q.by \in Callers /\ cs2[q.by] # Idle /\ q = Run(q.by, cs2[q.by])
    <3>1. PICK g \in Callers : g = q.by
      BY <2>1
    <3>2. g # h /\ cs[g] # Idle /\ q = Run(g, cs[g])
      BY <1>2, <2>1, <3>1
    <3>3. q \in A
      BY <3>2, ActiveRun
    <3> QED BY <1>1, <3>1, <3>2, <3>3
  <2>2. CASE q.late /\ q.by \in ls2 /\ q = Behind(q.by)
    <3>1. PICK d \in ls2 : d = q.by
      BY <2>2
    <3>2. CASE d \in ls
      <4>1. Behind(d) \in A
        BY <3>2, ActiveBehind
      <4> QED BY <1>1, <2>2, <3>1, <4>1
    <3>3. CASE d \notin ls
      <4>1. d = Left(c) /\ ls2 # ls /\ c.served = "sent"
        BY <3>3
      <4> QED BY <2>2, <3>1, <4>1
    <3> QED BY <3>2, <3>3
  <2> QED BY <2>1, <2>2, ActiveOf
<1>4. History(k, obj, A, ow, gn)
  OBVIOUS
<1>5. ASSUME NEW q \in B
      PROVE  \E p \in A : q = f[p] /\ Heir(k, obj, q, p)
  <2>1. CASE q \in A /\ q # r
    <3>1. q = f[q]
      BY <2>1
    <3>2. Heir(k, obj, q, q)
      BY <1>4, <2>1, OwnHeir DEF History
    <3> QED BY <2>1, <3>1, <3>2
  <2>2. CASE q = Behind(Left(c)) /\ c.served = "sent"
    <3>1. q = f[r]
      BY <1>1, <2>2
    <3>2. q.req = Left(c) /\ q.late
      BY <2>2 DEF Behind
    <3>3. /\ q.req.op = r.req.op /\ q.req.name = r.req.name /\ q.req.to = r.req.to
          /\ q.req.step = r.req.step /\ q.req.served = r.req.served /\ q.req.file = r.req.file
          /\ q.req.served = "sent"
      BY <1>1, <2>2, <3>2, LeftAlike
    <3> HIDE DEF r
    <3>4. Heir(k, obj, q, r)
      BY <3>2, <3>3, AlikeHeir
    <3> QED BY <1>1, <3>1, <3>4
  <2> QED BY <1>3, <2>1, <2>2
<1> HIDE DEF A, B, f
<1>6. History(k, obj, B, ow, gn)
  BY <1>4, <1>5, HeirsHistory
<1> QED BY <1>3, <1>6 DEF A, B

\* A caller that leaves takes no promise along.
LEMMA AbandonHistory ==
    ASSUME HistoryInv, NEW h \in Callers, Abandon(h)
    PROVE  HistoryInv'
<1>0. BaseInv /\ BaseInv'
  BY AbandonBase DEF HistoryInv
<1>1. /\ driver' = driver /\ secret' = secret /\ objects' = objects
      /\ owed' = owed /\ gone' = gone
      /\ calls[h] # Idle /\ calls' = [calls EXCEPT ![h] = Idle]
      /\ late' = late \/ (late' = late \cup {Left(calls[h])} /\ calls[h].served = "sent")
  BY DEF Abandon
<1>2. Kind' = Kind
  BY <1>1, KindKept
<1>3. calls = [g \in Callers |-> calls[g]] /\ calls[h] \in Call
  BY <1>0, <1>1 DEF BaseInv, TypeOK
<1>4. PICK c, cs, ls : c = calls[h] /\ cs = calls' /\ ls = late'
  OBVIOUS
<1>5. History(Kind, objects, Active(calls, late), owed, gone)
  BY DEF HistoryInv
<1>6. History(Kind, objects, Active(cs, ls), owed, gone)
  <2>1. /\ ls = late \/ (ls = late \cup {Left(c)} /\ c.served = "sent")
        /\ cs = [calls EXCEPT ![h] = Idle] /\ c # Idle
    BY <1>1, <1>4
  <2> QED BY <1>3, <1>4, <1>5, <2>1, GoneCaller
<1> QED BY <1>0, <1>1, <1>2, <1>4, <1>6 DEF HistoryInv

\* Nor does a process that ends.
LEMMA RestartHistory ==
    ASSUME HistoryInv, Restart
    PROVE  HistoryInv'
<1>0. BaseInv /\ BaseInv'
  BY RestartBase DEF HistoryInv
<1>1. /\ driver' = driver /\ secret' = secret /\ objects' = objects
      /\ owed' = owed /\ gone' = gone /\ calls' = [g \in Callers |-> Idle]
      /\ \A d \in late' : \/ d \in late
                          \/ \E g \in Callers : calls[g] # Idle /\ calls[g].served = "sent" /\ d = Left(calls[g])
  BY DEF Restart, Running
<1>2. Kind' = Kind
  BY <1>1, KindKept
<1>3. PICK cs, ls : cs = calls' /\ ls = late'
  OBVIOUS
<1> DEFINE A == Active(calls, late)
           B == Active(cs, ls)
           f == [p \in A |-> IF p.late THEN p ELSE Behind(Left(p.req))]
<1>4. History(Kind, objects, A, owed, gone)
  BY DEF HistoryInv
<1>5. ASSUME NEW q \in B
      PROVE  \E p \in A : q = f[p] /\ Heir(Kind, objects, q, p)
  <2>1. q.late /\ q.by \in ls /\ q = Behind(q.by)
    BY <1>1, <1>3, ActiveOf
  <2>2. PICK d \in ls : d = q.by
    BY <2>1
  <2>3. CASE d \in late
    <3>1. q \in A
      BY <2>1, <2>2, <2>3, ActiveBehind
    <3>2. q = f[q]
      BY <2>1, <3>1
    <3>3. Heir(Kind, objects, q, q)
      BY <1>4, <3>1, OwnHeir DEF History
    <3> QED BY <3>1, <3>2, <3>3
  <2>4. CASE \E g \in Callers : calls[g] # Idle /\ calls[g].served = "sent" /\ d = Left(calls[g])
    <3>1. PICK g \in Callers : calls[g] # Idle /\ calls[g].served = "sent" /\ d = Left(calls[g])
      BY <2>4
    <3>2. calls[g] \in Call
      BY <1>0, <3>1 DEF BaseInv, TypeOK
    <3>3. PICK p \in A : p = Run(g, calls[g]) /\ p.req = calls[g] /\ ~ p.late
      BY <3>1, ActiveRun
    <3>4. q = f[p]
      BY <2>1, <2>2, <3>1, <3>3
    <3>5. q.req = Left(p.req) /\ q.late
      BY <2>1, <2>2, <3>1, <3>3 DEF Behind
    <3>6. /\ q.req.op = p.req.op /\ q.req.name = p.req.name /\ q.req.to = p.req.to
          /\ q.req.step = p.req.step /\ q.req.served = p.req.served /\ q.req.file = p.req.file
          /\ q.req.served = "sent"
      BY <3>1, <3>2, <3>3, <3>5, LeftAlike
    <3>7. Heir(Kind, objects, q, p)
      BY <3>5, <3>6, AlikeHeir
    <3> QED BY <3>4, <3>7
  <2> QED BY <1>1, <1>3, <2>2, <2>3, <2>4
<1> HIDE DEF A, B, f
<1>6. History(Kind, objects, B, owed, gone)
  BY <1>4, <1>5, HeirsHistory
<1> QED BY <1>0, <1>1, <1>2, <1>3, <1>6 DEF B, HistoryInv

\* An answer of a clean call promises what is there.
LEMMA AnswerHistory ==
    ASSUME HistoryInv, NEW h \in Callers, Answer(h)
    PROVE  HistoryInv'
<1>0. BaseInv /\ BaseInv'
  BY AnswerBase DEF HistoryInv
<1>1. PICK c \in Call :
        /\ c = calls[h] /\ c # Idle /\ Sound(Kind, c)
        /\ \/ /\ c.served = "ok" /\ c.step = 1
              /\ \/ Kind = "disk" /\ c.op = "upload"
                 \/ Kind = "s3" /\ c.op \in {"rename", "delete_directory"}
              /\ calls' = [calls EXCEPT ![h] = [c EXCEPT !.step = 2, !.served = "sent"]]
              /\ late' = late /\ owed' = owed /\ gone' = gone
           \/ /\ calls' = [calls EXCEPT ![h] = Idle]
              /\ late' = late \/ (late' = late \cup {Left(c)} /\ c.served = "sent")
              /\ \/ owed' = owed /\ gone' = gone
                 \/ /\ c.clean /\ Settled(Kind, c)
                    /\ late' = late \/ (Kind = "s3" /\ c.op = "rename" /\ c.step = 2)
                    /\ \A o \in owed' :
                          \/ o \in owed /\ o.at \cap WritesIn(Kind, c) = {}
                          \/ Vouches(Kind, c, o)
                    /\ \A n \in gone' : n \in gone \/ Clears(Kind, c, n)
  BY <1>0, AnswerFacts
<1>2. driver' = driver /\ secret' = secret /\ objects' = objects
  BY DEF Answer
<1>3. Kind' = Kind
  BY <1>2, KindKept
<1>4. PICK cs, ls, ow, gn : cs = calls' /\ ls = late' /\ ow = owed' /\ gn = gone'
  OBVIOUS
<1>5. calls = [g \in Callers |-> calls[g]]
  BY <1>0 DEF BaseInv, TypeOK
<1>6. History(Kind, objects, Active(calls, late), owed, gone)
  BY DEF HistoryInv
<1>7. CASE /\ c.served = "ok" /\ c.step = 1
           /\ \/ Kind = "disk" /\ c.op = "upload"
              \/ Kind = "s3" /\ c.op \in {"rename", "delete_directory"}
           /\ calls' = [calls EXCEPT ![h] = [c EXCEPT !.step = 2, !.served = "sent"]]
           /\ late' = late /\ owed' = owed /\ gone' = gone
  <2> DEFINE d == [c EXCEPT !.step = 2, !.served = "sent"]
             A == Active(calls, late)
             B == Active(cs, late)
             f == [p \in A |-> IF p = Run(h, c) THEN Run(h, d) ELSE p]
  <2>1. Run(h, c) \in A /\ Run(h, c).by = h
    BY <1>1, ActiveRun
  <2>2. Heir(Kind, objects, Run(h, d), Run(h, c))
    BY <1>1, <1>7, ContinuedHeir
  <2>3. ASSUME NEW q \in B
        PROVE  \E p \in A : q = f[p] /\ Heir(Kind, objects, q, p)
    <3>1. CASE q = Run(h, d)
      <4>1. q = f[Run(h, c)]
        BY <2>1, <3>1
      <4> QED BY <2>1, <2>2, <3>1, <4>1
    <3>2. CASE q \in A /\ q # Run(h, c)
      <4>1. q = f[q]
        BY <3>2
      <4>2. Heir(Kind, objects, q, q)
        BY <1>6, <3>2, OwnHeir DEF History
      <4> QED BY <3>2, <4>1, <4>2
    <3>3. q = Run(h, d) \/ (q \in A /\ q # Run(h, c))
      <4>1. CASE ~ q.late /\ q.by \in Callers /\ cs[q.by] # Idle /\ q = Run(q.by, cs[q.by])
        <5>1. PICK g \in Callers : g = q.by
          BY <4>1
        <5>2. CASE g = h
          <6>1. cs[g] = d
            BY <1>4, <1>5, <1>7, <5>2
          <6> QED BY <4>1, <5>1, <5>2, <6>1
        <5>3. CASE g # h
          <6>1. cs[g] = calls[g]
            BY <1>4, <1>5, <1>7, <5>3
          <6>2. Run(g, calls[g]) \in A
            BY <4>1, <5>1, <6>1, ActiveRun
          <6>3. q = Run(g, calls[g])
            BY <4>1, <5>1, <6>1
          <6>4. q # Run(h, c)
            BY <2>1, <5>1, <5>3
          <6> QED BY <6>2, <6>3, <6>4
        <5> QED BY <5>2, <5>3
      <4>2. CASE q.late /\ q.by \in late /\ q = Behind(q.by)
        <5>1. PICK x \in late : x = q.by
          BY <4>2
        <5>2. Behind(x) \in A
          BY ActiveBehind
        <5>3. ~ Run(h, c).late
          BY <1>1, ActiveRun
        <5> QED BY <4>2, <5>1, <5>2, <5>3
      <4> QED BY <4>1, <4>2, ActiveOf
    <3> QED BY <3>1, <3>2, <3>3
  <2> HIDE DEF A, B, f
  <2>4. History(Kind, objects, B, owed, gone)
    BY <1>6, <2>3, HeirsHistory DEF A
  <2> QED BY <1>0, <1>2, <1>3, <1>4, <1>7, <2>4 DEF B, HistoryInv
<1>8. CASE /\ calls' = [calls EXCEPT ![h] = Idle]
           /\ late' = late \/ (late' = late \cup {Left(c)} /\ c.served = "sent")
           /\ \/ owed' = owed /\ gone' = gone
              \/ /\ c.clean /\ Settled(Kind, c)
                 /\ late' = late \/ (Kind = "s3" /\ c.op = "rename" /\ c.step = 2)
                 /\ \A o \in owed' :
                       \/ o \in owed /\ o.at \cap WritesIn(Kind, c) = {}
                       \/ Vouches(Kind, c, o)
                 /\ \A n \in gone' : n \in gone \/ Clears(Kind, c, n)
  <2> DEFINE A == Active(calls, late)
             B == Active(cs, ls)
             r == Run(h, c)
  <2>1. /\ History(Kind, objects, B, owed, gone)
        /\ \A q \in B : \/ q \in A /\ q # r
                        \/ q = Behind(Left(c)) /\ ls # late /\ c.served = "sent"
    <3>1. /\ ls = late \/ (ls = late \cup {Left(c)} /\ c.served = "sent")
          /\ cs = [calls EXCEPT ![h] = Idle] /\ c # Idle /\ c = calls[h]
      BY <1>1, <1>4, <1>8
    <3> QED BY <1>5, <1>6, <3>1, GoneCaller
  <2>2. r \in A /\ r.req = c /\ ~ r.late
    BY <1>1, ActiveRun
  <2>3. CASE owed' = owed /\ gone' = gone
    BY <1>0, <1>2, <1>3, <1>4, <2>1, <2>3 DEF HistoryInv
  <2>4. CASE /\ c.clean /\ Settled(Kind, c)
             /\ late' = late \/ (Kind = "s3" /\ c.op = "rename" /\ c.step = 2)
             /\ \A o \in owed' :
                   \/ o \in owed /\ o.at \cap WritesIn(Kind, c) = {}
                   \/ Vouches(Kind, c, o)
             /\ \A n \in gone' : n \in gone \/ Clears(Kind, c, n)
    <3>1. \A q \in B : \/ q \in A /\ q # r
                       \/ q.req = Left(r.req) /\ Kind = "s3" /\ r.req.op = "rename" /\ r.req.step = 2
      <4>1. \A q \in B : q = Behind(Left(c)) => q.req = Left(c)
        BY DEF Behind
      <4>2. ls # late => Kind = "s3" /\ c.op = "rename" /\ c.step = 2
        BY <1>4, <2>4
      <4> HIDE DEF A, B, r
      <4> QED BY <2>1, <2>2, <4>1, <4>2
    <3>2. /\ \A o \in ow : o \in owed \/ Vouches(Kind, r.req, o)
          /\ \A n \in gn : n \in gone \/ Clears(Kind, r.req, n)
          /\ r.req.clean /\ Settled(Kind, r.req)
      BY <1>4, <2>2, <2>4
    <3>3. \A p \in A : Sound(Kind, p.req)
      BY <1>0, ActiveSound
    <3>4. History(Kind, objects, A, owed, gone)
      BY <1>6
    <3> HIDE DEF A, B, r
    <3>5. History(Kind, objects, B, ow, gn)
      BY <2>1, <2>2, <3>1, <3>2, <3>3, <3>4, ReturnHistory
    <3> QED BY <1>0, <1>2, <1>3, <1>4, <3>5 DEF B, HistoryInv
  <2> QED BY <1>8, <2>3, <2>4
<1> QED BY <1>1, <1>7, <1>8

\* The call c of h begins: cl tells whether it has its names for itself, and kn
\* what is known of the name it starts from.
Beginning(k, cs, ls, ow, h, c, cl, kn, cs2, ow2) ==
    /\ cs[h] = Idle /\ Sound(k, c) /\ c.served = "sent" /\ c.step = 1 /\ c.file = NoName
    /\ cl \in BOOLEAN
    /\ cl <=> \A p \in Active(cs, ls) : TouchesIn(k, p.req) \cap TouchesIn(k, c) = {}
    /\ kn # Nothing => \E q \in ow : q.value = kn /\ q.at = {c.name}
    /\ cs2 = [g \in Callers |->
                IF g = h THEN [c EXCEPT !.clean = cl, !.was = IF cl THEN kn ELSE Nothing]
                ELSE IF cs[g] # Idle /\ TouchesIn(k, cs[g]) \cap TouchesIn(k, c) # {}
                     THEN [cs[g] EXCEPT !.clean = FALSE, !.was = Nothing] ELSE cs[g]]
    /\ \A o \in ow2 :
          \/ o \in ow /\ o.at \cap WritesIn(k, c) = {}
          \/ /\ c.op = "rename" /\ cl /\ o = [value |-> kn, at |-> WritesIn(k, c)]
             /\ \E q \in ow : q.value = kn /\ q.at = {c.name}

\* A call that begins soils those it meets, and takes over what is known of its name.
LEMMA BegunHistory ==
    ASSUME NEW k, NEW obj, NEW cs, NEW ls, NEW ow, NEW gn, NEW h \in Callers, NEW c,
           NEW cl, NEW kn, NEW cs2, NEW ow2,
           History(k, obj, Active(cs, ls), ow, gn),
           \A p \in Active(cs, ls) : Sound(k, p.req),
           Beginning(k, cs, ls, ow, h, c, cl, kn, cs2, ow2)
    PROVE  History(k, obj, Active(cs2, ls), ow2, gn \ WritesIn(k, c))
<1>0. /\ cs[h] = Idle /\ Sound(k, c) /\ c.served = "sent" /\ c.step = 1 /\ c.file = NoName
      /\ cl \in BOOLEAN
      /\ cl <=> \A p \in Active(cs, ls) : TouchesIn(k, p.req) \cap TouchesIn(k, c) = {}
      /\ kn # Nothing => \E q \in ow : q.value = kn /\ q.at = {c.name}
      /\ cs2 = [g \in Callers |->
                  IF g = h THEN [c EXCEPT !.clean = cl, !.was = IF cl THEN kn ELSE Nothing]
                  ELSE IF cs[g] # Idle /\ TouchesIn(k, cs[g]) \cap TouchesIn(k, c) # {}
                       THEN [cs[g] EXCEPT !.clean = FALSE, !.was = Nothing] ELSE cs[g]]
  BY DEF Beginning
<1> DEFINE A == Active(cs, ls)
           B == Active(cs2, ls)
           r == Run(h, cs2[h])
           met(p) == TouchesIn(k, p.req) \cap TouchesIn(k, c) # {}
           f == [p \in A |-> IF p.late \/ ~ met(p) THEN p
                             ELSE Run(p.by, [p.req EXCEPT !.clean = FALSE, !.was = Nothing])]
<1>1. c \in Call
  BY <1>0 DEF Sound
<1>2. /\ cs2[h] = [c EXCEPT !.clean = cl, !.was = IF cl THEN kn ELSE Nothing]
      /\ r.req = cs2[h] /\ r.by = h /\ ~ r.late
  BY <1>0 DEF Run
<1>3. /\ r.req.op = c.op /\ r.req.name = c.name /\ r.req.to = c.to /\ r.req.value = c.value
      /\ r.req.file = c.file /\ r.req.step = 1 /\ r.req.served = "sent"
      /\ r.req.clean = cl /\ r.req.was = IF cl THEN kn ELSE Nothing
  <2>1. PICK w, d : w = (IF cl THEN kn ELSE Nothing) /\ d = [c EXCEPT !.clean = cl, !.was = w]
    OBVIOUS
  <2>2. /\ d.op = c.op /\ d.name = c.name /\ d.to = c.to /\ d.value = c.value
        /\ d.file = c.file /\ d.step = c.step /\ d.served = c.served
        /\ d.clean = cl /\ d.was = w
    BY <1>0, <1>1, <2>1 DEF Call
  <2>3. r.req = d
    BY <1>2, <2>1
  <2> HIDE DEF r
  <2> QED BY <1>0, <2>1, <2>2, <2>3
<1>16. r.req.step = 1 /\ r.req.served = "sent" /\ r.req.name = c.name /\ r.req.op = c.op
  <2> HIDE DEF r
  <2> QED BY <1>3
<1>4. /\ LandingIn(k, r.req) = LandingIn(k, c) /\ WritesIn(k, r.req) = WritesIn(k, c)
      /\ TouchesIn(k, r.req) = TouchesIn(k, c) /\ Changes(k, r.req) = Changes(k, c)
  <2> HIDE DEF r
  <2>1. PICK d : d = r.req
    OBVIOUS
  <2>2. /\ d.op = c.op /\ d.name = c.name /\ d.to = c.to /\ d.file = c.file /\ d.step = c.step
    BY <1>0, <1>3, <2>1
  <2>3. /\ LandingIn(k, d) = LandingIn(k, c) /\ WritesIn(k, d) = WritesIn(k, c)
        /\ TouchesIn(k, d) = TouchesIn(k, c) /\ Changes(k, d) = Changes(k, c)
    BY <2>2, AlikeNames
  <2> QED BY <2>1, <2>3
<1>5. /\ Changes(k, c) \subseteq WritesIn(k, c) /\ WritesIn(k, c) \subseteq TouchesIn(k, c)
      /\ c.op # "delete_directory" => c.name \in Names
  <2>1. Changes(k, c) \subseteq WritesIn(k, c) \cup {c.file} /\ Changes(k, c) \subseteq Names
    BY <1>0, ChangesTouched
  <2>2. c.file \notin Names
    BY <1>0, SentinelAssumption
  <2>3. WritesIn(k, c) \subseteq TouchesIn(k, c)
    BY <1>0, ChangesTouched
  <2>4. c.op # "delete_directory" => c.name \in Names
    BY <1>0 DEF Sound
  <2> QED BY <2>1, <2>2, <2>3, <2>4
<1>6. History(k, obj, A, ow, gn)
  OBVIOUS
\* Those that were there before.
<1>7. ASSUME NEW q \in B, q # r
      PROVE  \E p \in A : /\ q = f[p] /\ Heir(k, obj, q, p)
                          /\ Minding(k, q) => TouchesIn(k, q.req) \cap TouchesIn(k, c) = {}
                          /\ TouchesIn(k, q.req) = TouchesIn(k, p.req)
                          /\ Changes(k, q.req) \subseteq TouchesIn(k, p.req)
  <2>1. CASE ~ q.late /\ q.by \in Callers /\ cs2[q.by] # Idle /\ q = Run(q.by, cs2[q.by])
    <3>1. PICK g \in Callers : g = q.by
      BY <2>1
    <3>2. g # h
      BY <1>7, <2>1, <3>1
    <3>3. cs[g] # Idle
      BY <1>0, <2>1, <3>1, <3>2
    <3>4. PICK p \in A : p = Run(g, cs[g]) /\ p.req = cs[g] /\ p.by = g /\ ~ p.late
      BY <3>3, ActiveRun
    <3>5. Sound(k, p.req) /\ Changes(k, p.req) \subseteq TouchesIn(k, p.req)
      BY ChangesTouched
    <3>6. CASE ~ met(p)
      <4>1. q = p
        BY <1>0, <2>1, <3>1, <3>2, <3>3, <3>4, <3>6
      <4>2. q = f[p]
        BY <3>6, <4>1
      <4>3. Heir(k, obj, q, p)
        BY <3>4, <4>1, OwnHeir
      <4> QED BY <3>5, <3>6, <4>1, <4>2, <4>3
    <3>7. CASE met(p)
      <4>1. cs2[g] = [cs[g] EXCEPT !.clean = FALSE, !.was = Nothing]
        BY <1>0, <3>2, <3>3, <3>4, <3>7
      <4>2. q = Run(g, [p.req EXCEPT !.clean = FALSE, !.was = Nothing])
        BY <2>1, <3>1, <3>4, <4>1
      <4>3. q = f[p]
        BY <3>4, <3>7, <4>2
      <4>4. p.req \in Call
        BY <3>5 DEF Sound
      <4>5. q.req = [p.req EXCEPT !.clean = FALSE, !.was = Nothing] /\ ~ q.late
        BY <4>2 DEF Run
      <4>6. PICK x, y : x = p.req /\ y = q.req
        OBVIOUS
      <4>7. /\ y.op = x.op /\ y.name = x.name /\ y.to = x.to /\ y.step = x.step
            /\ y.served = x.served /\ y.file = x.file /\ y.clean = FALSE
        BY <4>4, <4>5, <4>6 DEF Call
      <4>8. TouchesIn(k, y) = TouchesIn(k, x) /\ Changes(k, y) = Changes(k, x)
        BY <4>7, AlikeNames
      <4>9. Heir(k, obj, q, p)
        BY <4>5, <4>6, <4>7, AlikeHeir
      <4>10. ~ Minding(k, q)
        BY <4>6, <4>7 DEF Minding
      <4> QED BY <3>5, <4>3, <4>6, <4>8, <4>9, <4>10
    <3> QED BY <3>6, <3>7
  <2>2. CASE q.late /\ q.by \in ls /\ q = Behind(q.by)
    <3>1. PICK d \in ls : d = q.by
      BY <2>2
    <3>7. Behind(d) \in A
      BY ActiveBehind
    <3>2. q \in A
      BY <2>2, <3>1, <3>7
    <3>3. q = f[q]
      BY <2>2, <3>2
    <3>4. Heir(k, obj, q, q)
      BY <1>6, <3>2, OwnHeir DEF History
    <3>5. Sound(k, q.req) /\ Changes(k, q.req) \subseteq TouchesIn(k, q.req)
      BY <3>2, ChangesTouched
    <3>6. ~ Minding(k, q)
      BY <2>2 DEF Minding
    <3> QED BY <3>2, <3>3, <3>4, <3>5, <3>6
  <2>3. \/ ~ q.late /\ q.by \in Callers /\ cs2[q.by] # Idle /\ q = Run(q.by, cs2[q.by])
        \/ q.late /\ q.by \in ls /\ q = Behind(q.by)
    BY ActiveOf
  <2> HIDE DEF A, B, r, f
  <2> QED BY <2>1, <2>2, <2>3
<1>8. History(k, obj, B \ {r}, ow, gn)
  <2> HIDE DEF A, B, r, f
  <2>1. \A q \in B \ {r} : \E p \in A : q = f[p] /\ Heir(k, obj, q, p)
    BY <1>7
  <2> QED BY <1>6, <2>1, HeirsHistory
<1>9. cl => \A q \in B : q # r => TouchesIn(k, q.req) \cap TouchesIn(k, c) = {}
                               /\ Changes(k, q.req) \cap TouchesIn(k, c) = {}
  BY <1>0, <1>7
<1>10. kn # Nothing => obj[c.name] = kn
  <2>1. ASSUME NEW q \in ow, q.at = {c.name}
        PROVE  obj[c.name] = q.value
    <3>1. \E n \in q.at : obj[n] = q.value
      BY <1>6 DEF History, OwedIn
    <3> QED BY <2>1, <3>1
  <2> QED BY <1>0, <2>1
<1> HIDE DEF A, B, r, f
<1>11. CleanIn(k, obj, B)
  <2>1. ASSUME NEW q \in B, Minding(k, q), q = r
        PROVE  Sure(k, obj, q.req) /\ Alone(k, B, q)
    <3>1. cl
      BY <1>3, <2>1 DEF Minding
    <3>2. Alone(k, B, q)
      BY <1>4, <1>9, <2>1, <3>1 DEF Alone
    <3>3. \A v : obj[c.name] = v => Lasting(k, obj, r.req, v)
      BY <1>16 DEF Lasting
    <3>4. Sure(k, obj, r.req)
      BY <1>3, <1>16, <1>10, <3>1, <3>3 DEF Sure
    <3> QED BY <2>1, <3>2, <3>4
  <2>2. ASSUME NEW q \in B, Minding(k, q), q # r
        PROVE  Sure(k, obj, q.req) /\ Alone(k, B, q)
    <3>1. Sure(k, obj, q.req) /\ Alone(k, B \ {r}, q)
      BY <1>8, <2>2 DEF History, CleanIn
    <3>2. TouchesIn(k, q.req) \cap TouchesIn(k, c) = {}
      BY <1>7, <2>2
    <3> QED BY <1>4, <3>1, <3>2 DEF Alone
  <2> QED BY <2>1, <2>2 DEF CleanIn
<1>12. OwedIn(k, obj, B, ow2)
  <2>1. ASSUME NEW o \in ow2, o \in ow, o.at \cap WritesIn(k, c) = {}
        PROVE  /\ \E n \in o.at : obj[n] = o.value
               /\ \A p \in B : Changes(k, p.req) \cap o.at # {} =>
                    /\ Owner(k, obj, p.req, o)
                    /\ \A q \in B : q # p => Changes(k, q.req) \cap o.at = {}
    <3>1. Changes(k, r.req) \cap o.at = {}
      BY <1>4, <1>5, <2>1
    <3>2. /\ \E n \in o.at : obj[n] = o.value
          /\ \A p \in B \ {r} : Changes(k, p.req) \cap o.at # {} =>
                /\ Owner(k, obj, p.req, o)
                /\ \A q \in B \ {r} : q # p => Changes(k, q.req) \cap o.at = {}
      BY <1>8, <2>1 DEF History, OwedIn
    <3> QED BY <3>1, <3>2
  <2>2. ASSUME NEW o \in ow2, c.op = "rename", cl, o.value = kn, o.at = WritesIn(k, c),
               NEW q0 \in ow, q0.value = kn, q0.at = {c.name}
        PROVE  /\ \E n \in o.at : obj[n] = o.value
               /\ \A p \in B : Changes(k, p.req) \cap o.at # {} =>
                    /\ Owner(k, obj, p.req, o)
                    /\ \A q \in B : q # p => Changes(k, q.req) \cap o.at = {}
    <3>1. obj[c.name] = kn
      BY <1>6, <2>2 DEF History, OwedIn
    <3>2. c.name \in o.at
      BY <1>5, <2>2 DEF WritesIn
    <3>3. Lasting(k, obj, r.req, kn)
      BY <1>16, <3>1 DEF Lasting
    <3>4. Owner(k, obj, r.req, o)
      BY <1>3, <1>4, <2>2, <3>3 DEF Owner
    <3>5. \A q \in B : q # r => Changes(k, q.req) \cap o.at = {}
      BY <1>5, <1>9, <2>2
    <3>6. \E n \in o.at : obj[n] = o.value
      BY <2>2, <3>1, <3>2
    <3> QED BY <3>4, <3>5, <3>6
  <2>3. \A o \in ow2 :
          \/ o \in ow /\ o.at \cap WritesIn(k, c) = {}
          \/ /\ c.op = "rename" /\ cl /\ o.value = kn /\ o.at = WritesIn(k, c)
             /\ \E q \in ow : q.value = kn /\ q.at = {c.name}
    <3>1. [value |-> kn, at |-> WritesIn(k, c)].value = kn
          /\ [value |-> kn, at |-> WritesIn(k, c)].at = WritesIn(k, c)
      OBVIOUS
    <3> QED BY <3>1 DEF Beginning
  <2> QED BY <2>1, <2>2, <2>3 DEF OwedIn
<1>13. GoneIn(k, obj, B, gn \ WritesIn(k, c))
  <2>1. ASSUME NEW n \in gn \ WritesIn(k, c)
        PROVE  obj[n] = Absent /\ \A p \in B : n \notin Changes(k, p.req)
    <3>1. n \in gn /\ n \notin Changes(k, r.req)
      BY <1>4, <1>5
    <3>2. obj[n] = Absent /\ \A p \in B \ {r} : n \notin Changes(k, p.req)
      BY <1>8, <3>1 DEF History, GoneIn
    <3> QED BY <3>1, <3>2
  <2> QED BY <2>1 DEF GoneIn
<1>14. \A q \in B : q.late => q.req.served = "sent"
  BY <1>2, <1>8 DEF History
<1>15. History(k, obj, B, ow2, gn \ WritesIn(k, c))
  BY <1>11, <1>12, <1>13, <1>14 DEF History
<1> QED BY <1>15 DEF B

\* A call that begins takes back the promises for its names.
LEMMA BeginHistory ==
    ASSUME HistoryInv, NEW h \in Callers, NEW c \in Requests, Begin(h, c)
    PROVE  HistoryInv'
<1>0. BaseInv /\ BaseInv'
  BY BeginBase DEF HistoryInv
<1>1. PICK cl \in BOOLEAN, kn \in Values \cup {Nothing} :
        /\ calls[h] = Idle /\ Sound(Kind, c)
        /\ c.served = "sent" /\ c.step = 1 /\ c.file = NoName
        /\ cl <=> \A p \in Active(calls, late) : TouchesIn(Kind, p.req) \cap TouchesIn(Kind, c) = {}
        /\ calls' = [g \in Callers |->
             IF g = h THEN [c EXCEPT !.clean = cl, !.was = IF cl THEN kn ELSE Nothing]
             ELSE IF calls[g] # Idle /\ TouchesIn(Kind, calls[g]) \cap TouchesIn(Kind, c) # {}
                  THEN [calls[g] EXCEPT !.clean = FALSE, !.was = Nothing] ELSE calls[g]]
        /\ kn # Nothing => \E q \in owed : q.value = kn /\ q.at = {c.name}
        /\ \A o \in owed' :
              \/ o \in owed /\ o.at \cap WritesIn(Kind, c) = {}
              \/ /\ c.op = "rename" /\ cl /\ o = [value |-> kn, at |-> WritesIn(Kind, c)]
                 /\ \E q \in owed : q.value = kn /\ q.at = {c.name}
        /\ gone' = gone \ WritesIn(Kind, c)
  BY <1>0, BeginFacts
<1>2. driver' = driver /\ secret' = secret /\ objects' = objects /\ late' = late
  BY DEF Begin
<1>3. Kind' = Kind
  BY <1>2, KindKept
<1>4. PICK cs2, ow2 : cs2 = calls' /\ ow2 = owed'
  OBVIOUS
<1>5. Beginning(Kind, calls, late, owed, h, c, cl, kn, cs2, ow2)
  BY <1>1, <1>4 DEF Beginning
<1>6. \A p \in Active(calls, late) : Sound(Kind, p.req)
  BY <1>0, ActiveSound
<1>7. History(Kind, objects, Active(calls, late), owed, gone)
  BY DEF HistoryInv
<1>8. History(Kind, objects, Active(cs2, late), ow2, gone \ WritesIn(Kind, c))
  BY <1>5, <1>6, <1>7, BegunHistory
<1> QED BY <1>0, <1>1, <1>2, <1>3, <1>4, <1>8 DEF HistoryInv

\* The history holds before the first call.
LEMMA InitHistory == Init => HistoryInv
<1> SUFFICES ASSUME Init PROVE HistoryInv
  OBVIOUS
<1>1. BaseInv
  BY InitBase
<1>2. calls = [c \in Callers |-> Idle] /\ late = {} /\ owed = {} /\ gone = {}
  BY DEF Init
<1>3. Active(calls, late) = {}
  BY <1>2 DEF Active
<1>4. History(Kind, objects, Active(calls, late), owed, gone)
  BY <1>2, <1>3 DEF History, CleanIn, OwedIn, GoneIn
<1> QED BY <1>1, <1>4 DEF HistoryInv

\* Every step keeps the history.
LEMMA HistoryStep == HistoryInv /\ [Next]_vars => HistoryInv'
<1> SUFFICES ASSUME HistoryInv, [Next]_vars PROVE HistoryInv'
  OBVIOUS
<1>1. ASSUME NEW h \in Callers, NEW c \in Requests, Begin(h, c) PROVE HistoryInv'
  BY <1>1, BeginHistory
<1>2. ASSUME NEW h \in Callers, Serve(h) PROVE HistoryInv'
  BY <1>2, ServeHistory
<1>3. ASSUME NEW h \in Callers, Answer(h) PROVE HistoryInv'
  BY <1>3, AnswerHistory
<1>4. ASSUME NEW h \in Callers, Abandon(h) PROVE HistoryInv'
  BY <1>4, AbandonHistory
<1>5. ASSUME NEW c \in late, ServeLate(c) PROVE HistoryInv'
  BY <1>5, ServeLateHistory
<1>6. CASE Restart
  BY <1>6, RestartHistory
<1>7. CASE UNCHANGED vars
  <2>1. Kind' = Kind
    BY <1>7, KindKept DEF vars
  <2>2. BaseInv'
    BY <1>7, BaseStep DEF HistoryInv
  <2> QED BY <1>7, <2>1, <2>2 DEF vars, HistoryInv
<1> QED BY <1>1, <1>2, <1>3, <1>4, <1>5, <1>6, <1>7 DEF Next

\* The history holds in every behaviour.
LEMMA HistoryCorrect == Spec => []HistoryInv
  BY InitHistory, HistoryStep, PTL DEF Spec

------------------------------------------------------------------------------

\* What is read of an object that is there is its content, or nothing at all.
LEMMA ReadsOfThere ==
    ASSUME driver \in {"disk", "s3", "dropbox", "onedrive"}, NEW n, objects[n] # Absent,
           NEW op \in ReadOps \ {"exists", "list"}
    PROVE  Reads(op, n) \subseteq {objects[n], Nothing, Raised} \cup Misread(op)
<1>1. op \in {"download", "stream", "metadata", "checksum"}
  BY DEF ReadOps
<1>2. CASE ~ Usable
  BY <1>2 DEF Reads, Unsent
<1>3. CASE Usable
  <2>1. Reads(op, n) = Asked(op, n)
    BY <1>1, <1>3 DEF Reads
  <2>2. CASE op \in {"download", "stream"}
    BY <2>1, <2>2 DEF Asked, DiskBytes, S3Bytes, DropboxBytes, OneDriveBytes, Found, Got
  <2>3. CASE op \in {"metadata", "checksum"}
    BY <2>1, <2>3 DEF Asked, DiskTells, S3Tells, DropboxTells, OneDriveTells, Got, Misread
  <2> QED BY <1>1, <2>2, <2>3
<1> QED BY <1>2, <1>3

\* What is read of an object that is absent.
LEMMA ReadsOfGone ==
    ASSUME driver \in {"disk", "s3", "dropbox", "onedrive"}, NEW n, objects[n] = Absent,
           NEW op \in ReadOps
    PROVE  Reads(op, n) \subseteq {Nothing, Raised} \cup Misread(op)
<1>1. CASE ~ Usable
  BY <1>1 DEF Reads, Unsent
<1>2. CASE Usable /\ op = "list"
  BY <1>2 DEF Reads, Listed, Found
<1>3. CASE Usable /\ op # "list"
  <2>1. Reads(op, n) = Asked(op, n)
    BY <1>3 DEF Reads
  <2>2. CASE op \in {"download", "stream"}
    BY <2>1, <2>2 DEF Asked, DiskBytes, S3Bytes, DropboxBytes, OneDriveBytes, Found, Got
  <2>3. CASE op = "exists"
    BY <2>1, <2>3 DEF Asked, DiskTells, S3Tells, DropboxTells, OneDriveTells, Found
  <2>4. CASE op \in {"metadata", "checksum"}
    BY <2>1, <2>4 DEF Asked, DiskTells, S3Tells, DropboxTells, OneDriveTells, Got, Misread
  <2> QED BY <1>3, <2>2, <2>3, <2>4 DEF ReadOps
<1> QED BY <1>1, <1>2, <1>3

\* AckedIsStored: what a call answered True for stays, and no reader gets
\* anything else, until the next call for that name.
THEOREM AckedCorrect == Spec => []AckedIsStored
<1>1. HistoryInv => AckedIsStored
  <2> SUFFICES ASSUME HistoryInv, NEW o \in owed, NEW n \in Names, o.at = {n}
               PROVE  /\ objects[n] = o.value
                      /\ \A op \in ReadOps \ {"exists", "list"} :
                            Reads(op, n) \subseteq {o.value, Nothing, Raised} \cup Misread(op)
    BY DEF AckedIsStored
  <2>1. /\ driver \in {"disk", "s3", "dropbox", "onedrive"}
        /\ o \in [value : Values, at : SUBSET Names]
    BY DEF HistoryInv, BaseInv, TypeOK
  <2>2. objects[n] = o.value
    BY DEF HistoryInv, History, OwedIn
  <2>3. objects[n] # Absent
    BY <2>1, <2>2, SentinelAssumption
  <2> QED BY <2>1, <2>2, <2>3, ReadsOfThere
<1> QED BY <1>1, HistoryCorrect, PTL

\* RenameLosesNothing: a rename that fails, is given up or cut by a restart has
\* left the object under one of its two names.
THEOREM RenameCorrect == Spec => []RenameLosesNothing
<1>1. HistoryInv => RenameLosesNothing
  BY DEF HistoryInv, History, OwedIn, RenameLosesNothing
<1> QED BY <1>1, HistoryCorrect, PTL

\* DeletedIsGone: a name whose deletion was answered with True, its own or, but for
\* S3, that of its directory, stays free, and no reader is told otherwise, until the
\* next call for it.
THEOREM DeletedCorrect == Spec => []DeletedIsGone
<1>1. HistoryInv => DeletedIsGone
  <2> SUFFICES ASSUME HistoryInv, NEW n \in gone, NEW op \in ReadOps
               PROVE  Reads(op, n) \subseteq {Nothing, Raised} \cup Misread(op)
    BY DEF DeletedIsGone
  <2>1. driver \in {"disk", "s3", "dropbox", "onedrive"}
    BY DEF HistoryInv, BaseInv, TypeOK
  <2>2. objects[n] = Absent
    BY DEF HistoryInv, History, GoneIn
  <2> QED BY <2>1, <2>2, ReadsOfGone
<1> QED BY <1>1, HistoryCorrect, PTL
==============================================================================
