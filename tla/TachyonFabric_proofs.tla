------------------------- MODULE TachyonFabric_proofs -------------------------
(***************************************************************************)
(* Proofs about TachyonFabric, for any shard counts, providers, sessions   *)
(* and files.                                                              *)
(***************************************************************************)
EXTENDS TachyonFabric, FiniteSetTheorems, TLAPS

(***************************************************************************)
(* Sets of shard indices.                                                  *)
(***************************************************************************)

\* There are D + P indices, and a subset of them has no more.
LEMMA IdxSize == IsFiniteSet(Idx) /\ Cardinality(Idx) = D + P
<1>1. D + P - 1 \in Int /\ 0 <= D + P - 1
  BY ShardAssumption
<1> QED BY <1>1, FS_Interval, ShardAssumption DEF Idx

LEMMA SubsetSize ==
  ASSUME NEW S \in SUBSET Idx
  PROVE  IsFiniteSet(S) /\ Cardinality(S) \in Nat
BY IdxSize, FS_Subset, FS_CardinalityType

LEMMA SizeMonotone ==
  ASSUME NEW S \in SUBSET Idx, NEW T \in SUBSET S
  PROVE  Cardinality(T) <= Cardinality(S)
BY SubsetSize, FS_Subset

\* Losing one index costs one.
LEMMA SizeButOne ==
  ASSUME NEW S \in SUBSET Idx, NEW T \in SUBSET Idx, NEW i, S \ {i} \subseteq T
  PROVE  Cardinality(S) <= Cardinality(T) + 1
<1>1. S \ {i} \in SUBSET T /\ S \ {i} \in SUBSET Idx
  OBVIOUS
<1>2. Cardinality(S \ {i}) <= Cardinality(T)
  BY <1>1, SizeMonotone
<1>3. Cardinality(S) \in Nat /\ Cardinality(T) \in Nat /\ Cardinality(S \ {i}) \in Nat
  BY <1>1, SubsetSize
<1>4. Cardinality(S \ {i}) = IF i \in S THEN Cardinality(S) - 1 ELSE Cardinality(S)
  BY SubsetSize, FS_RemoveElement
<1> QED BY <1>2, <1>3, <1>4

\* At most P indices missing leaves at least D.
LEMMA EnoughLeft ==
  ASSUME NEW S \in SUBSET Idx, Cardinality(Idx \ S) <= P
  PROVE  Cardinality(S) >= D
<1>1. Cardinality(Idx \ S) = Cardinality(Idx) - Cardinality(Idx \cap S)
  BY IdxSize, FS_Difference
<1>2. Idx \cap S = S
  OBVIOUS
<1>3. Cardinality(S) \in Nat
  BY SubsetSize
<1> QED BY <1>1, <1>2, <1>3, IdxSize, ShardAssumption

------------------------------------------------------------------------------
(***************************************************************************)
(* Types.                                                                  *)
(***************************************************************************)

LEMMA RecordedType == ASSUME NEW list PROVE Recorded(list) \in SUBSET Idx
BY DEF Recorded

LEMMA NoRowType == NoRow \in Row
BY DEF NoRow, Row, NoShards, Lists

LEMMA ReadsType ==
  ASSUME NEW f, NEW list, NEW read \in Reads(f, list)
  PROVE  read \in SUBSET Present(f, list) /\ Present(f, list) \in SUBSET Idx
BY DEF Reads, Present

LEMMA VerdictType ==
  ASSUME NEW f, NEW list, NEW h \in Verdicts(f, list)
  PROVE  h \in {"full", "low"}
BY DEF Verdicts

ReqType == [pc : {"idle", "placing", "placed", "deleting", "verifying"},
            file : Files, row : Row, left : SUBSET Idx]

CloudType == [Files -> [Idx -> [Providers -> Objects]]]

LEMMA IdleType == ASSUME NEW f \in Files PROVE IdleRequest(f) \in ReqType
BY NoRowType DEF IdleRequest, ReqType

\* The parts of TypeOK, to be used one at a time.
RowsOK   == rows \in [Files -> Row]
CloudOK  == cloud \in CloudType
ReqOK    == req \in [Sessions -> ReqType]
SnapOK   == snap \in [Files -> Row]
AuditOK  == /\ audit \in {"idle", "audit", "heal", "repair"}
            /\ todo \subseteq Files /\ dirty \subseteq Files /\ target \in Files
            /\ got \subseteq Idx /\ decoded \in Objects
BookOK   == /\ born \subseteq Files /\ acked \subseteq Files /\ unwanted \subseteq Files
            /\ misled \subseteq Files
            /\ lost \in [Files -> Nat] /\ faults \in [Files -> Nat]

LEMMA TypeParts == TypeOK <=> RowsOK /\ CloudOK /\ ReqOK /\ SnapOK /\ AuditOK /\ BookOK
BY DEF TypeOK, RowsOK, CloudOK, ReqOK, SnapOK, AuditOK, BookOK, ReqType, CloudType

\* The objects of one file change, a session changes, a row changes.
LEMMA CloudUpdate ==
  ASSUME CloudOK, NEW f \in Files, NEW m \in [Idx -> [Providers -> Objects]],
         cloud' = [cloud EXCEPT ![f] = m]
  PROVE  CloudOK'
BY DEF CloudOK, CloudType

LEMMA ReqUpdate ==
  ASSUME ReqOK, NEW s \in Sessions, NEW r \in ReqType, req' = [req EXCEPT ![s] = r]
  PROVE  ReqOK'
BY DEF ReqOK

LEMMA RowUpdate ==
  ASSUME RowsOK, NEW f \in Files, NEW r \in Row, rows' = [rows EXCEPT ![f] = r]
  PROVE  RowsOK'
BY DEF RowsOK

LEMMA SnapUpdate ==
  ASSUME SnapOK, NEW f \in Files, NEW r \in Row, snap' = [snap EXCEPT ![f] = r]
  PROVE  SnapOK'
BY DEF SnapOK

LEMMA ReqField ==
  ASSUME ReqOK, NEW s \in Sessions
  PROVE  /\ req[s] \in ReqType
         /\ req[s].file \in Files /\ req[s].row \in Row /\ req[s].left \subseteq Idx
BY DEF ReqOK, ReqType

LEMMA RowFields ==
  ASSUME NEW r \in Row
  PROVE  /\ r.shards \in Lists
         /\ \A h \in {"full", "low"} : [r EXCEPT !.health = h] \in Row
         /\ [r EXCEPT !.status = "deleted"] \in Row
BY DEF Row

\* Repairing a list yields a list.
LEMMA RepairedType ==
  ASSUME NEW list \in Lists, NEW missing \in SUBSET Idx,
         NEW placed \in [missing -> Providers \cup {None}]
  PROVE  Repaired(list, missing, placed) \in Lists
BY DEF Repaired, Lists

LEMMA CycleOverType == ASSUME CycleOver, AuditOK PROVE SnapOK' /\ AuditOK'
BY NoRowType DEF CycleOver, SnapOK, AuditOK, Objects

\* Type correctness of the rows, the objects, the requests and the audit.
THEOREM TypeCorrect == Spec => []TypeOK
<1>1. Init => TypeOK
  <2> SUFFICES ASSUME Init PROVE TypeOK
    OBVIOUS
  <2>1. RowsOK /\ SnapOK
    BY NoRowType DEF Init, RowsOK, SnapOK
  <2>2. CloudOK
    BY DEF Init, CloudOK, CloudType, Objects
  <2>3. ReqOK
    BY IdleType DEF Init, ReqOK
  <2>4. AuditOK /\ BookOK
    BY DEF Init, AuditOK, BookOK, Objects
  <2> QED BY <2>1, <2>2, <2>3, <2>4, TypeParts
<1>2. TypeOK /\ [Next]_vars => TypeOK'
  <2> SUFFICES ASSUME RowsOK, CloudOK, ReqOK, SnapOK, AuditOK, BookOK, [Next]_vars
               PROVE  RowsOK' /\ CloudOK' /\ ReqOK' /\ SnapOK' /\ AuditOK' /\ BookOK'
    BY TypeParts, PTL
  <2> DEFINE Goal == RowsOK' /\ CloudOK' /\ ReqOK' /\ SnapOK' /\ AuditOK' /\ BookOK'
  <2>a. ASSUME UNCHANGED rows PROVE RowsOK'
    BY <2>a DEF RowsOK
  <2>b. ASSUME UNCHANGED cloud PROVE CloudOK'
    BY <2>b DEF CloudOK
  <2>c. ASSUME UNCHANGED req PROVE ReqOK'
    BY <2>c DEF ReqOK
  <2>d. ASSUME UNCHANGED auditVars PROVE SnapOK' /\ AuditOK'
    BY <2>d DEF auditVars, SnapOK, AuditOK
  <2>e. ASSUME UNCHANGED <<history, lost, faults>> PROVE BookOK'
    BY <2>e DEF history, BookOK
  <2>1. ASSUME NEW s \in Sessions, NEW f \in Files, UploadDedup(s, f) PROVE Goal
    <3>1. BookOK'
      BY <2>1 DEF UploadDedup, Duplicates, BookOK
    <3> QED BY <2>1, <3>1, <2>a, <2>b, <2>c, <2>d DEF UploadDedup
  <2>2. ASSUME NEW s \in Sessions, NEW f \in Files, UploadBegin(s, f) PROVE Goal
    <3>1. BookOK'
      BY <2>2 DEF UploadBegin, BookOK
    <3>2. [pc |-> "placing", file |-> f, row |-> NoRow, left |-> {}] \in ReqType
      BY NoRowType DEF ReqType
    <3>3. ReqOK'
      BY <2>2, <3>2, ReqUpdate DEF UploadBegin
    <3> QED BY <2>2, <3>1, <3>3, <2>a, <2>b, <2>d DEF UploadBegin
  <2>3. ASSUME NEW s \in Sessions, PlaceShards(s) PROVE Goal
    <3> DEFINE f == req[s].file
    <3>1. f \in Files
      BY ReqField
    <3>2. PICK list \in Lists :
            /\ cloud' = Stored(f, list, "good")
            /\ req' = [req EXCEPT ![s] =
                 IF TooManyFailures(list)
                 THEN IdleRequest(f)
                 ELSE [pc |-> "placed", file |-> f, left |-> {},
                       row |-> [status |-> "active", shards |-> list, health |-> "full"]]]
      BY <2>3 DEF PlaceShards
    <3>3. [i \in Idx |-> [p \in Providers |-> IF list[i] = p THEN "good" ELSE cloud[f][i][p]]]
            \in [Idx -> [Providers -> Objects]]
      BY <3>1 DEF CloudOK, CloudType, Objects
    <3>4. CloudOK'
      BY <3>1, <3>2, <3>3, CloudUpdate DEF Stored
    <3>5. [pc |-> "placed", file |-> f, left |-> {},
           row |-> [status |-> "active", shards |-> list, health |-> "full"]] \in ReqType
      BY <3>1, <3>2 DEF ReqType, Row
    <3>6. ReqOK'
      BY <3>1, <3>2, <3>5, IdleType, ReqUpdate
    <3> QED BY <2>3, <3>4, <3>6, <2>a, <2>d, <2>e DEF PlaceShards
  <2>4. ASSUME NEW s \in Sessions, UploadCommit(s) PROVE Goal
    <3>1. RowsOK'
      BY <2>4, ReqField, RowUpdate DEF UploadCommit
    <3>2. ReqOK'
      BY <2>4, ReqField, IdleType, ReqUpdate DEF UploadCommit
    <3>3. BookOK'
      BY <2>4, ReqField DEF UploadCommit, BookOK
    <3> QED BY <2>4, <3>1, <3>2, <3>3, <2>b, <2>d DEF UploadCommit
  <2>5. ASSUME NEW s \in Sessions, NEW f \in Files, DeleteBegin(s, f) PROVE Goal
    <3>1. BookOK'
      BY <2>5 DEF DeleteBegin, BookOK
    <3>2. [pc |-> "deleting", file |-> f, row |-> rows[f],
           left |-> Recorded(rows[f].shards)] \in ReqType
      BY RecordedType DEF ReqType, RowsOK
    <3>3. ReqOK'
      BY <2>5, <3>2, ReqUpdate DEF DeleteBegin
    <3> QED BY <2>5, <3>1, <3>3, <2>a, <2>b, <2>d DEF DeleteBegin
  <2>6. ASSUME NEW s \in Sessions, NEW i \in Idx, DeleteShard(s, i) PROVE Goal
    <3> DEFINE f == req[s].file
               m == [cloud[f] EXCEPT ![i][req[s].row.shards[i]] = "none"]
               r == [req[s] EXCEPT !.left = @ \ {i}]
    <3>1. f \in Files /\ req[s] \in ReqType
      BY ReqField
    <3>2. cloud' = [cloud EXCEPT ![f] = m] /\ req' = [req EXCEPT ![s] = r]
      BY <2>6 DEF DeleteShard
    <3>3. cloud[f] \in [Idx -> [Providers -> Objects]]
      BY <3>1 DEF CloudOK, CloudType
    <3>4. m \in [Idx -> [Providers -> Objects]]
      BY <3>3 DEF Objects
    <3>5. r \in ReqType
      BY <3>1 DEF ReqType
    <3>6. CloudOK' /\ ReqOK'
      <4> HIDE DEF m, r, f
      <4> QED BY <3>1, <3>2, <3>4, <3>5, CloudUpdate, ReqUpdate
    <3> QED BY <2>6, <3>6, <2>a, <2>d, <2>e DEF DeleteShard
  <2>7. ASSUME NEW s \in Sessions, NEW i \in Idx, DeleteShardFails(s, i) PROVE Goal
    <3> DEFINE r == [req[s] EXCEPT !.left = @ \ {i}]
    <3>1. r \in ReqType
      BY ReqField DEF ReqType
    <3>2. req' = [req EXCEPT ![s] = r]
      BY <2>7 DEF DeleteShardFails
    <3>3. ReqOK'
      BY <3>1, <3>2, ReqUpdate
    <3> QED BY <2>7, <3>3, <2>a, <2>b, <2>d, <2>e DEF DeleteShardFails
  <2>8. ASSUME NEW s \in Sessions, DeleteCommit(s) PROVE Goal
    <3>1. RowsOK'
      BY <2>8, ReqField, RowFields, RowUpdate DEF DeleteCommit
    <3>2. ReqOK'
      BY <2>8, ReqField, IdleType, ReqUpdate DEF DeleteCommit
    <3> QED BY <2>8, <3>1, <3>2, <2>b, <2>d, <2>e DEF DeleteCommit
  <2>9. ASSUME NEW s \in Sessions, NEW f \in Files, VerifyBegin(s, f) PROVE Goal
    <3>1. [pc |-> "verifying", file |-> f, row |-> rows[f], left |-> {}] \in ReqType
      BY DEF ReqType, RowsOK
    <3>2. ReqOK'
      BY <2>9, <3>1, ReqUpdate DEF VerifyBegin
    <3> QED BY <2>9, <3>2, <2>a, <2>b, <2>d, <2>e DEF VerifyBegin
  <2>10. ASSUME NEW s \in Sessions, VerifyCommit(s) PROVE Goal
    <3>1. PICK h \in {"full", "low"} :
            rows' = [rows EXCEPT ![req[s].file] = [req[s].row EXCEPT !.health = h]]
      BY <2>10, VerdictType DEF VerifyCommit
    <3>2. RowsOK'
      BY <3>1, ReqField, RowFields, RowUpdate
    <3>3. ReqOK'
      BY <2>10, ReqField, IdleType, ReqUpdate DEF VerifyCommit
    <3> QED BY <2>10, <3>2, <3>3, <2>b, <2>d, <2>e DEF VerifyCommit
  <2>11. ASSUME NEW s \in Sessions, CommitFails(s) PROVE Goal
    <3>1. ReqOK'
      BY <2>11, ReqField, IdleType, ReqUpdate DEF CommitFails
    <3> QED BY <2>11, <3>1, <2>a, <2>b, <2>d, <2>e DEF CommitFails
  <2>12. CASE CycleStart
    <3>1. SnapOK' /\ AuditOK'
      BY <2>12 DEF CycleStart, SnapOK, RowsOK, AuditOK
    <3> QED BY <2>12, <3>1, <2>a, <2>b, <2>c, <2>e DEF CycleStart
  <2>13. ASSUME NEW f \in Files, AuditVerify(f) PROVE Goal
    <3>1. PICK h \in {"full", "low"} :
            /\ snap' = [snap EXCEPT ![f].health = h]
            /\ audit' = IF h = "full" THEN "audit" ELSE "heal"
            /\ target' = IF h = "full" THEN target ELSE f
      BY <2>13, VerdictType DEF AuditVerify
    <3>2. SnapOK'
      BY <3>1, RowFields, SnapUpdate DEF SnapOK
    <3>3. AuditOK'
      BY <2>13, <3>1 DEF AuditVerify, AuditOK
    <3> QED BY <2>13, <3>2, <3>3, <2>a, <2>b, <2>c, <2>e DEF AuditVerify
  <2>14. CASE HealIntact
    <3>1. SnapOK'
      BY <2>14, RowFields, SnapUpdate DEF HealIntact, SnapOK, AuditOK
    <3>2. AuditOK' /\ BookOK'
      BY <2>14 DEF HealIntact, AuditOK, BookOK, history
    <3> QED BY <2>14, <3>1, <3>2, <2>a, <2>b, <2>c DEF HealIntact
  <2>15. CASE HealGivesUp
    <3>1. SnapOK' /\ AuditOK'
      BY <2>15 DEF HealGivesUp, AuditOK, SnapOK
    <3> QED BY <2>15, <3>1, <2>a, <2>b, <2>c, <2>e DEF HealGivesUp
  <2>16. CASE HealDecode
    <3>1. got' \subseteq Idx
      BY <2>16, ReadsType DEF HealDecode
    <3>2. decoded' \in Objects
      BY <2>16 DEF HealDecode, Objects
    <3>3. SnapOK' /\ AuditOK' /\ BookOK'
      BY <2>16, <3>1, <3>2 DEF HealDecode, AuditOK, SnapOK, BookOK, history
    <3> QED BY <2>16, <3>3, <2>a, <2>b, <2>c DEF HealDecode
  <2>17. CASE HealUpload
    <3> DEFINE f       == target
               list    == snap[f].shards
               missing == Recorded(list) \ got
    <3>1. f \in Files /\ snap[f] \in Row /\ list \in Lists /\ missing \in SUBSET Idx
      BY RecordedType, RowFields DEF AuditOK, SnapOK
    <3>2. PICK placed \in [missing -> Providers \cup {None}],
               wiped \in SUBSET (missing \X DeleteFirst),
               cut \in SUBSET (missing \X Truncating) :
            /\ cloud' = [cloud EXCEPT ![f] = Uploaded(missing, placed, wiped, cut)]
            /\ snap' = [snap EXCEPT ![f] =
                 [@ EXCEPT !.health = "full",
                           !.shards = Repaired(list, missing, placed)]]
      BY <2>17 DEF HealUpload
    <3>3. Uploaded(missing, placed, wiped, cut) \in [Idx -> [Providers -> Objects]]
      BY <3>1 DEF Uploaded, CloudOK, CloudType, AuditOK, Objects
    <3>4. CloudOK'
      <4> HIDE DEF f, list, missing
      <4> QED BY <3>1, <3>2, <3>3, CloudUpdate
    <3>5. Repaired(list, missing, placed) \in Lists
      <4> HIDE DEF list, missing
      <4> QED BY <3>1, <3>2, RepairedType
    <3>6. [snap[f] EXCEPT !.health = "full", !.shards = Repaired(list, missing, placed)] \in Row
      <4> HIDE DEF f, list, missing
      <4> QED BY <3>1, <3>5 DEF Row
    <3>7. SnapOK'
      <4> HIDE DEF f, list, missing
      <4> QED BY <3>1, <3>2, <3>6, SnapUpdate
    <3>8. AuditOK'
      BY <2>17 DEF HealUpload, AuditOK, Objects
    <3> QED BY <2>17, <3>4, <3>7, <3>8, <2>a, <2>c, <2>e DEF HealUpload
  <2>18. CASE CycleCommit
    <3>1. RowsOK'
      BY <2>18 DEF CycleCommit, RowsOK, SnapOK
    <3> QED BY <2>18, <3>1, CycleOverType, <2>b, <2>c, <2>e DEF CycleCommit
  <2>19. CASE CycleAborts
    BY <2>19, CycleOverType, <2>a, <2>b, <2>c, <2>e DEF CycleAborts
  <2>20. CASE Restart
    <3>1. ReqOK'
      BY <2>20, ReqField, IdleType DEF Restart, ReqOK
    <3> QED BY <2>20, <3>1, CycleOverType, <2>a, <2>b, <2>e DEF Restart
  <2>21. ASSUME NEW f \in Files, NEW i \in Idx, NEW p \in Providers, DamageObject(f, i, p)
         PROVE  Goal
    <3>1. PICK v \in {"none", "bad"} : cloud' = [cloud EXCEPT ![f][i][p] = v]
      BY <2>21 DEF DamageObject
    <3> DEFINE m == [cloud[f] EXCEPT ![i][p] = v]
    <3>2. cloud[f] \in [Idx -> [Providers -> Objects]]
      BY DEF CloudOK, CloudType
    <3>3. m \in [Idx -> [Providers -> Objects]]
      BY <3>2 DEF Objects
    <3>4. cloud' = [cloud EXCEPT ![f] = m]
      BY <3>1
    <3>5. CloudOK'
      <4> HIDE DEF m
      <4> QED BY <3>3, <3>4, CloudUpdate
    <3>6. BookOK'
      BY <2>21 DEF DamageObject, BookOK, history
    <3> QED BY <2>21, <3>5, <3>6, <2>a, <2>c, <2>d DEF DamageObject
  <2>22. CASE UNCHANGED vars
    BY <2>22, <2>a, <2>b, <2>c, <2>d, <2>e DEF vars
  <2> QED BY <2>1, <2>2, <2>3, <2>4, <2>5, <2>6, <2>7, <2>8, <2>9, <2>10, <2>11,
             <2>12, <2>13, <2>14, <2>15, <2>16, <2>17, <2>18, <2>19, <2>20, <2>21, <2>22
          DEF Next, SessionStep, AuditStep
<1> QED BY <1>1, <1>2, PTL DEF Spec

------------------------------------------------------------------------------
(***************************************************************************)
(* Lists long enough to decode.                                            *)
(***************************************************************************)
Long(list) == Cardinality(Recorded(list)) >= D

\* Wherever a manifest is held, its list has D shards; what a repair has read is
\* part of the list it works on and enough to decode.
LongInv ==
    /\ \A f \in Files : Exists(f) => Long(rows[f].shards)
    /\ \A s \in Sessions : req[s].pc \in {"placed", "deleting", "verifying"} =>
         req[s].row.status # "absent" /\ Long(req[s].row.shards)
    /\ audit # "idle" => \A f \in Files : snap[f].status # "absent" => Long(snap[f].shards)
    /\ audit = "idle" => todo = {} /\ dirty = {}
    /\ \A f \in todo \cup dirty : snap[f].status # "absent"
    /\ audit \in {"heal", "repair"} => snap[target].status # "absent"
    /\ audit = "repair" =>
         got \subseteq Recorded(snap[target].shards) /\ Cardinality(got) >= D

LEMMA RepairedSame ==
  ASSUME NEW list, NEW missing, NEW placed, NEW i \in Idx, i \notin missing
  PROVE  Repaired(list, missing, placed)[i] = list[i]
BY DEF Repaired

\* A repaired list still has everything that was read.
LEMMA RepairedLong ==
  ASSUME NEW list, NEW placed, got \subseteq Recorded(list), Cardinality(got) >= D
  PROVE  Long(Repaired(list, Recorded(list) \ got, placed))
<1> DEFINE new == Repaired(list, Recorded(list) \ got, placed)
<1>1. got \in SUBSET Recorded(new) /\ Recorded(new) \in SUBSET Idx
  BY RepairedSame DEF Recorded
<1>2. Cardinality(got) <= Cardinality(Recorded(new))
  BY <1>1, SizeMonotone
<1>3. Cardinality(got) \in Nat /\ Cardinality(Recorded(new)) \in Nat
  BY <1>1, SubsetSize
<1> QED BY <1>2, <1>3, ShardAssumption DEF Long

LEMMA LongInvariance == Spec => []LongInv
<1>1. Init => LongInv
  BY DEF Init, LongInv, Exists, NoRow, IdleRequest
<1>2. TypeOK /\ LongInv /\ [Next]_vars => LongInv'
  <2> SUFFICES ASSUME RowsOK, ReqOK, SnapOK, AuditOK, LongInv, [Next]_vars PROVE LongInv'
    BY TypeParts
  <2> USE DEF LongInv, Exists, RowsOK, ReqOK, SnapOK, IdleRequest
  <2>1. ASSUME NEW s \in Sessions, NEW f \in Files, UploadDedup(s, f) PROVE LongInv'
    BY <2>1 DEF UploadDedup, auditVars
  <2>2. ASSUME NEW s \in Sessions, NEW f \in Files, UploadBegin(s, f) PROVE LongInv'
    BY <2>2 DEF UploadBegin, auditVars
  <2>3. ASSUME NEW s \in Sessions, PlaceShards(s) PROVE LongInv'
    <3>1. PICK list \in Lists :
            req' = [req EXCEPT ![s] =
                 IF TooManyFailures(list)
                 THEN IdleRequest(req[s].file)
                 ELSE [pc |-> "placed", file |-> req[s].file, left |-> {},
                       row |-> [status |-> "active", shards |-> list, health |-> "full"]]]
      BY <2>3 DEF PlaceShards
    <3>2. ~TooManyFailures(list) => Long(list)
      <4> SUFFICES ASSUME ~(Cardinality(Idx \ Recorded(list)) > P) PROVE Long(list)
        BY DEF TooManyFailures
      <4>1. Cardinality(Idx \ Recorded(list)) \in Nat
        BY SubsetSize
      <4> QED BY <4>1, RecordedType, EnoughLeft, ShardAssumption DEF Long
    <3> QED BY <2>3, <3>1, <3>2 DEF PlaceShards, auditVars
  <2>4. ASSUME NEW s \in Sessions, UploadCommit(s) PROVE LongInv'
    BY <2>4 DEF UploadCommit, auditVars
  <2>5. ASSUME NEW s \in Sessions, NEW f \in Files, DeleteBegin(s, f) PROVE LongInv'
    BY <2>5 DEF DeleteBegin, auditVars
  <2>6. ASSUME NEW s \in Sessions, NEW i \in Idx, DeleteShard(s, i) PROVE LongInv'
    BY <2>6 DEF DeleteShard, auditVars
  <2>7. ASSUME NEW s \in Sessions, NEW i \in Idx, DeleteShardFails(s, i) PROVE LongInv'
    BY <2>7 DEF DeleteShardFails, auditVars
  <2>8. ASSUME NEW s \in Sessions, DeleteCommit(s) PROVE LongInv'
    BY <2>8, ReqField DEF DeleteCommit, auditVars, Row
  <2>9. ASSUME NEW s \in Sessions, NEW f \in Files, VerifyBegin(s, f) PROVE LongInv'
    BY <2>9 DEF VerifyBegin, auditVars
  <2>10. ASSUME NEW s \in Sessions, VerifyCommit(s) PROVE LongInv'
    BY <2>10, ReqField DEF VerifyCommit, auditVars, Row
  <2>11. ASSUME NEW s \in Sessions, CommitFails(s) PROVE LongInv'
    BY <2>11 DEF CommitFails, auditVars
  <2>12. CASE CycleStart
    BY <2>12 DEF CycleStart
  <2>13. ASSUME NEW f \in Files, AuditVerify(f) PROVE LongInv'
    BY <2>13 DEF AuditVerify, Row
  <2>14. CASE HealIntact
    BY <2>14 DEF HealIntact, Row, AuditOK
  <2>15. CASE HealGivesUp
    BY <2>15 DEF HealGivesUp
  <2>16. CASE HealDecode
    <3>1. got' \subseteq Recorded(snap[target].shards)
      BY <2>16, ReadsType DEF HealDecode, Present, Recorded
    <3>2. got' \subseteq Idx /\ Cardinality(Idx \ got') <= P
      BY <2>16, ReadsType DEF HealDecode, Erased
    <3>3. Cardinality(got') >= D
      BY <3>2, EnoughLeft
    <3> QED BY <2>16, <3>1, <3>3 DEF HealDecode
  <2>17. CASE HealUpload
    <3>1. PICK placed :
            snap' = [snap EXCEPT ![target] =
                 [@ EXCEPT !.health = "full",
                           !.shards = Repaired(snap[target].shards,
                                         Recorded(snap[target].shards) \ got, placed)]]
      BY <2>17 DEF HealUpload
    <3>2. Long(Repaired(snap[target].shards, Recorded(snap[target].shards) \ got, placed))
      BY <2>17, RepairedLong DEF HealUpload
    <3>3. /\ snap'[target].status = snap[target].status
          /\ Long(snap'[target].shards)
          /\ \A g \in Files \ {target} : snap'[g] = snap[g]
      BY <3>1, <3>2 DEF AuditOK, Row
    <3>4. audit = "repair" /\ audit' = "audit" /\ UNCHANGED <<rows, req, todo, dirty>>
      BY <2>17 DEF HealUpload
    <3>5. \A g \in Files : snap'[g].status # "absent" =>
             snap[g].status # "absent" /\ Long(snap'[g].shards)
      BY <3>3, <3>4
    <3>6. \A g \in Files : snap'[g].status = snap[g].status
      BY <3>3
    <3> QED BY <3>4, <3>5, <3>6 DEF AuditOK
  <2>18. CASE CycleCommit
    BY <2>18 DEF CycleCommit, CycleOver, NoRow
  <2>19. CASE CycleAborts
    BY <2>19 DEF CycleAborts, CycleOver, NoRow
  <2>20. CASE Restart
    BY <2>20 DEF Restart, CycleOver, NoRow
  <2>21. ASSUME NEW f \in Files, NEW i \in Idx, NEW p \in Providers, DamageObject(f, i, p)
         PROVE  LongInv'
    BY <2>21 DEF DamageObject, auditVars
  <2>22. CASE UNCHANGED vars
    BY <2>22 DEF vars, auditVars
  <2> QED BY <2>1, <2>2, <2>3, <2>4, <2>5, <2>6, <2>7, <2>8, <2>9, <2>10, <2>11,
             <2>12, <2>13, <2>14, <2>15, <2>16, <2>17, <2>18, <2>19, <2>20, <2>21, <2>22
          DEF Next, SessionStep, AuditStep
<1> QED BY <1>1, <1>2, TypeCorrect, PTL DEF Spec

\* No committed manifest lists fewer than D shards.
THEOREM CompleteCorrect == Spec => []RowsComplete
<1>1. LongInv => RowsComplete
  BY DEF LongInv, RowsComplete, Long
<1> QED BY <1>1, LongInvariance, PTL

------------------------------------------------------------------------------
(***************************************************************************)
(* File ids.                                                               *)
(***************************************************************************)

\* A file id belongs to one upload, which is over once the row exists; rows never
\* vanish, so what a session or the audit holds still exists.
BookInv ==
    /\ \A f \in Files : Exists(f) => f \in born
    /\ \A s \in Sessions : req[s].pc \in {"placing", "placed"} =>
         /\ req[s].file \in born /\ ~Exists(req[s].file)
         /\ \A t \in Sessions : req[t].pc \in {"placing", "placed"}
                                /\ req[t].file = req[s].file => t = s
    /\ \A s \in Sessions : req[s].pc \in {"deleting", "verifying"} => Exists(req[s].file)
    /\ \A s \in Sessions : req[s].pc = "deleting" => req[s].file \in unwanted
    /\ audit # "idle" => \A f \in Files : snap[f].status # "absent" => Exists(f)
    /\ audit \in {"heal", "repair"} => target \notin todo

LEMMA BookInvariance == Spec => []BookInv
<1>1. Init => BookInv
  BY DEF Init, BookInv, Exists, NoRow, IdleRequest
<1>2. TypeOK /\ LongInv /\ BookInv /\ [Next]_vars => BookInv'
  <2> SUFFICES ASSUME RowsOK, ReqOK, SnapOK, AuditOK, LongInv, BookInv, [Next]_vars
               PROVE  BookInv'
    BY TypeParts
  <2> USE DEF BookInv, Exists, RowsOK, ReqOK, SnapOK, IdleRequest
  <2>1. ASSUME NEW s \in Sessions, NEW f \in Files, UploadDedup(s, f) PROVE BookInv'
    BY <2>1 DEF UploadDedup, auditVars, history
  <2>2. ASSUME NEW s \in Sessions, NEW f \in Files, UploadBegin(s, f) PROVE BookInv'
    BY <2>2 DEF UploadBegin, auditVars
  <2>3. ASSUME NEW s \in Sessions, PlaceShards(s) PROVE BookInv'
    BY <2>3 DEF PlaceShards, auditVars, history
  <2>4. ASSUME NEW s \in Sessions, UploadCommit(s) PROVE BookInv'
    BY <2>4, ReqField DEF UploadCommit, auditVars, Row, LongInv
  <2>5. ASSUME NEW s \in Sessions, NEW f \in Files, DeleteBegin(s, f) PROVE BookInv'
    BY <2>5 DEF DeleteBegin, auditVars
  <2>6. ASSUME NEW s \in Sessions, NEW i \in Idx, DeleteShard(s, i) PROVE BookInv'
    BY <2>6 DEF DeleteShard, auditVars, history
  <2>7. ASSUME NEW s \in Sessions, NEW i \in Idx, DeleteShardFails(s, i) PROVE BookInv'
    BY <2>7 DEF DeleteShardFails, auditVars, history
  <2>8. ASSUME NEW s \in Sessions, DeleteCommit(s) PROVE BookInv'
    BY <2>8, ReqField DEF DeleteCommit, auditVars, history, LongInv, Row
  <2>9. ASSUME NEW s \in Sessions, NEW f \in Files, VerifyBegin(s, f) PROVE BookInv'
    BY <2>9 DEF VerifyBegin, auditVars, history
  <2>10. ASSUME NEW s \in Sessions, VerifyCommit(s) PROVE BookInv'
    BY <2>10, ReqField DEF VerifyCommit, auditVars, history, LongInv, Row
  <2>11. ASSUME NEW s \in Sessions, CommitFails(s) PROVE BookInv'
    BY <2>11 DEF CommitFails, auditVars, history
  <2>12. CASE CycleStart
    BY <2>12 DEF CycleStart, history
  <2>13. ASSUME NEW f \in Files, AuditVerify(f) PROVE BookInv'
    BY <2>13 DEF AuditVerify, history, LongInv, Row
  <2>14. CASE HealIntact
    BY <2>14 DEF HealIntact, history, LongInv, AuditOK, Row
  <2>15. CASE HealGivesUp
    BY <2>15 DEF HealGivesUp, history
  <2>16. CASE HealDecode
    BY <2>16 DEF HealDecode, history
  <2>17. CASE HealUpload
    BY <2>17 DEF HealUpload, history, AuditOK, LongInv, Row
  <2>18. CASE CycleCommit
    <3>1. \A f \in Files : rows'[f] = IF f \in dirty THEN snap[f] ELSE rows[f]
      BY <2>18 DEF CycleCommit
    <3>2. \A f \in Files : (rows'[f].status # "absent") <=> (rows[f].status # "absent")
      <4> SUFFICES ASSUME NEW f \in Files, f \in dirty
                   PROVE  snap[f].status # "absent" /\ rows[f].status # "absent"
        BY <3>1
      <4> QED BY <2>18 DEF CycleCommit, LongInv
    <3> QED BY <2>18, <3>2, ReqField DEF CycleCommit, CycleOver, NoRow, history
  <2>19. CASE CycleAborts
    BY <2>19 DEF CycleAborts, CycleOver, NoRow, history
  <2>20. CASE Restart
    BY <2>20, ReqField DEF Restart, CycleOver, NoRow, history, ReqType
  <2>21. ASSUME NEW f \in Files, NEW i \in Idx, NEW p \in Providers, DamageObject(f, i, p)
         PROVE  BookInv'
    BY <2>21 DEF DamageObject, auditVars, history
  <2>22. CASE UNCHANGED vars
    BY <2>22 DEF vars, auditVars, history
  <2> QED BY <2>1, <2>2, <2>3, <2>4, <2>5, <2>6, <2>7, <2>8, <2>9, <2>10, <2>11,
             <2>12, <2>13, <2>14, <2>15, <2>16, <2>17, <2>18, <2>19, <2>20, <2>21, <2>22
          DEF Next, SessionStep, AuditStep
<1> QED BY <1>1, <1>2, TypeCorrect, LongInvariance, PTL DEF Spec

------------------------------------------------------------------------------
(***************************************************************************)
(* No wrong object.                                                        *)
(***************************************************************************)
Clean == Files \ (NulTail \cup BitRot)

\* Whatever is stored for a clean file is what was uploaded, or cut off, until a repair
\* decodes from what was cut off.
CleanInv ==
    /\ \A f \in Clean \ misled, i \in Idx, p \in Providers : cloud[f][i][p] # "bad"
    /\ audit = "repair" /\ target \in Clean \ misled => decoded = "good"

\* What a clean file's repair reads is intact, but for what was cut off.
LEMMA CleanRead ==
  ASSUME CloudOK, CleanInv, NEW f \in Clean \ misled, NEW list \in Lists
  PROVE  Present(f, list) \ Short(f, list) = Good(f, list)
<1>1. \A i \in Idx : list[i] # None => list[i] \in Providers
  BY DEF Lists
<1>2. f \in Files
  BY DEF Clean
<1> QED BY <1>1, <1>2 DEF CloudOK, CloudType, CleanInv, Present, Good, Short, Objects

\* What a repair decoded from, as long as it is not misled.
LEMMA CleanDecode ==
  ASSUME CloudOK, SnapOK, AuditOK, CleanInv, HealDecode, target \in Clean, target \notin misled'
  PROVE  /\ got' \in SUBSET Good(target, snap[target].shards)
         /\ Cardinality(Idx \ got') <= P
         /\ decoded' = "good"
<1>1. target \in Files /\ snap[target].shards \in Lists
  BY RowFields DEF AuditOK, SnapOK
<1>2. PICK read \in Reads(target, snap[target].shards) :
        /\ Erased(read) <= P /\ got' = read
        /\ decoded' \in IF Cut(target, read) = {} /\ Decodable(target, read) /\ target \notin NulTail
                        THEN {"good"} ELSE {"bad", "short"}
        /\ misled' = IF Cut(target, read) = {} THEN misled ELSE misled \cup {target}
  BY DEF HealDecode
<1>3. Cut(target, read) = {} /\ target \in Clean \ misled
  BY <1>2
<1>4. read \in SUBSET Good(target, snap[target].shards)
  BY <1>1, <1>3, ReadsType, CleanRead DEF Cut
<1>5. Decodable(target, read)
  <2>1. read \ Good(target, snap[target].shards) = {}
    BY <1>4
  <2> QED BY <2>1, FS_EmptySet DEF Decodable, Wrong
<1> QED BY <1>2, <1>3, <1>4, <1>5 DEF Clean, Erased

LEMMA CleanInvariance == Spec => []CleanInv
<1>1. Init => CleanInv
  BY DEF Init, CleanInv, Clean
<1>2. TypeOK /\ CleanInv /\ [Next]_vars => CleanInv'
  <2> SUFFICES ASSUME RowsOK, CloudOK, ReqOK, SnapOK, AuditOK, CleanInv, [Next]_vars
               PROVE  CleanInv'
    BY TypeParts
  <2> USE DEF CleanInv, Clean, CloudOK, CloudType, history
  <2>1. ASSUME NEW s \in Sessions, NEW f \in Files, UploadDedup(s, f) PROVE CleanInv'
    BY <2>1 DEF UploadDedup, auditVars
  <2>2. ASSUME NEW s \in Sessions, NEW f \in Files, UploadBegin(s, f) PROVE CleanInv'
    BY <2>2 DEF UploadBegin, auditVars
  <2>3. ASSUME NEW s \in Sessions, PlaceShards(s) PROVE CleanInv'
    BY <2>3, ReqField DEF PlaceShards, auditVars, Stored
  <2>4. ASSUME NEW s \in Sessions, UploadCommit(s) PROVE CleanInv'
    BY <2>4 DEF UploadCommit, auditVars
  <2>5. ASSUME NEW s \in Sessions, NEW f \in Files, DeleteBegin(s, f) PROVE CleanInv'
    BY <2>5 DEF DeleteBegin, auditVars
  <2>6. ASSUME NEW s \in Sessions, NEW i \in Idx, DeleteShard(s, i) PROVE CleanInv'
    BY <2>6, ReqField DEF DeleteShard, auditVars
  <2>7. ASSUME NEW s \in Sessions, NEW i \in Idx, DeleteShardFails(s, i) PROVE CleanInv'
    BY <2>7 DEF DeleteShardFails, auditVars
  <2>8. ASSUME NEW s \in Sessions, DeleteCommit(s) PROVE CleanInv'
    BY <2>8 DEF DeleteCommit, auditVars
  <2>9. ASSUME NEW s \in Sessions, NEW f \in Files, VerifyBegin(s, f) PROVE CleanInv'
    BY <2>9 DEF VerifyBegin, auditVars
  <2>10. ASSUME NEW s \in Sessions, VerifyCommit(s) PROVE CleanInv'
    BY <2>10 DEF VerifyCommit, auditVars
  <2>11. ASSUME NEW s \in Sessions, CommitFails(s) PROVE CleanInv'
    BY <2>11 DEF CommitFails, auditVars
  <2>12. CASE CycleStart
    BY <2>12 DEF CycleStart
  <2>13. ASSUME NEW f \in Files, AuditVerify(f) PROVE CleanInv'
    BY <2>13 DEF AuditVerify
  <2>14. CASE HealIntact
    BY <2>14 DEF HealIntact
  <2>15. CASE HealGivesUp
    BY <2>15 DEF HealGivesUp
  <2>16. CASE HealDecode
    <3>1. target' = target /\ cloud' = cloud /\ misled \subseteq misled'
      BY <2>16 DEF HealDecode
    <3>2. target \in Clean \ misled' => decoded' = "good"
      BY <2>16, CleanDecode
    <3> QED BY <3>1, <3>2
  <2>17. CASE HealUpload
    <3> DEFINE list    == snap[target].shards
               missing == Recorded(list) \ got
    <3>1. PICK placed \in [missing -> Providers \cup {None}],
               wiped \in SUBSET (missing \X DeleteFirst),
               cut \in SUBSET (missing \X Truncating) :
            /\ cloud' = [cloud EXCEPT ![target] = Uploaded(missing, placed, wiped, cut)]
            /\ snap' = [snap EXCEPT ![target] =
                 [@ EXCEPT !.health = "full",
                           !.shards = Repaired(list, missing, placed)]]
      BY <2>17 DEF HealUpload
    <3>2. target \in Files /\ audit = "repair" /\ audit' = "audit" /\ misled' = misled
      BY <2>17 DEF HealUpload, AuditOK
    <3>3. \A i \in Idx, p \in Providers :
             cloud'[target][i][p] \in {decoded, "none", "short", cloud[target][i][p]}
      <4>1. cloud'[target] = Uploaded(missing, placed, wiped, cut)
        BY <3>1, <3>2
      <4> QED BY <4>1 DEF Uploaded
    <3>4. \A f \in Files : f # target => cloud'[f] = cloud[f]
      BY <3>1, <3>2
    <3> QED BY <3>2, <3>3, <3>4
  <2>18. CASE CycleCommit
    BY <2>18 DEF CycleCommit, CycleOver, NoRow
  <2>19. CASE CycleAborts
    BY <2>19 DEF CycleAborts, CycleOver, NoRow
  <2>20. CASE Restart
    BY <2>20 DEF Restart, CycleOver, NoRow
  <2>21. ASSUME NEW f \in Files, NEW i \in Idx, NEW p \in Providers, DamageObject(f, i, p)
         PROVE  CleanInv'
    BY <2>21 DEF DamageObject, auditVars
  <2>22. CASE UNCHANGED vars
    BY <2>22 DEF vars, auditVars
  <2> QED BY <2>1, <2>2, <2>3, <2>4, <2>5, <2>6, <2>7, <2>8, <2>9, <2>10, <2>11,
             <2>12, <2>13, <2>14, <2>15, <2>16, <2>17, <2>18, <2>19, <2>20, <2>21, <2>22
          DEF Next, SessionStep, AuditStep
<1> QED BY <1>1, <1>2, TypeCorrect, PTL DEF Spec

------------------------------------------------------------------------------
(***************************************************************************)
(* Agreement while a file waits for its repair.                            *)
(***************************************************************************)
Pending(f) == f \in todo \/ (audit \in {"heal", "repair"} /\ f = target)

\* Until a file is repaired, the committed row and every verification in progress
\* have the list the audit has.
AgreeInv ==
    \A f \in Files \ unwanted : audit # "idle" /\ Pending(f) =>
        /\ rows[f].shards = snap[f].shards
        /\ \A s \in Sessions : req[s].pc = "verifying" /\ req[s].file = f =>
             req[s].row.shards = snap[f].shards

LEMMA AgreeInvariance == Spec => []AgreeInv
<1>1. Init => AgreeInv
  BY DEF Init, AgreeInv
<1>2. TypeOK /\ LongInv /\ BookInv /\ AgreeInv /\ [Next]_vars => AgreeInv'
  <2> SUFFICES ASSUME RowsOK, ReqOK, SnapOK, AuditOK, LongInv, BookInv, AgreeInv, [Next]_vars
               PROVE  AgreeInv'
    BY TypeParts
  <2> USE DEF AgreeInv, Pending, RowsOK, ReqOK, SnapOK, IdleRequest
  <2>1. ASSUME NEW s \in Sessions, NEW f \in Files, UploadDedup(s, f) PROVE AgreeInv'
    BY <2>1 DEF UploadDedup, auditVars, history
  <2>2. ASSUME NEW s \in Sessions, NEW f \in Files, UploadBegin(s, f) PROVE AgreeInv'
    BY <2>2 DEF UploadBegin, auditVars, history
  <2>3. ASSUME NEW s \in Sessions, PlaceShards(s) PROVE AgreeInv'
    BY <2>3 DEF PlaceShards, auditVars, history
  <2>4. ASSUME NEW s \in Sessions, UploadCommit(s) PROVE AgreeInv'
    BY <2>4, ReqField DEF UploadCommit, auditVars, BookInv, LongInv, Exists
  <2>5. ASSUME NEW s \in Sessions, NEW f \in Files, DeleteBegin(s, f) PROVE AgreeInv'
    BY <2>5 DEF DeleteBegin, auditVars, history
  <2>6. ASSUME NEW s \in Sessions, NEW i \in Idx, DeleteShard(s, i) PROVE AgreeInv'
    BY <2>6 DEF DeleteShard, auditVars, history
  <2>7. ASSUME NEW s \in Sessions, NEW i \in Idx, DeleteShardFails(s, i) PROVE AgreeInv'
    BY <2>7 DEF DeleteShardFails, auditVars, history
  <2>8. ASSUME NEW s \in Sessions, DeleteCommit(s) PROVE AgreeInv'
    BY <2>8, ReqField DEF DeleteCommit, auditVars, history, BookInv
  <2>9. ASSUME NEW s \in Sessions, NEW f \in Files, VerifyBegin(s, f) PROVE AgreeInv'
    BY <2>9 DEF VerifyBegin, auditVars, history
  <2>10. ASSUME NEW s \in Sessions, VerifyCommit(s) PROVE AgreeInv'
    BY <2>10, ReqField DEF VerifyCommit, auditVars, history, Row
  <2>11. ASSUME NEW s \in Sessions, CommitFails(s) PROVE AgreeInv'
    BY <2>11 DEF CommitFails, auditVars, history
  <2>12. CASE CycleStart
    BY <2>12 DEF CycleStart, NoStaleVerification, history
  <2>13. ASSUME NEW f \in Files, AuditVerify(f) PROVE AgreeInv'
    BY <2>13 DEF AuditVerify, history, Row
  <2>14. CASE HealIntact
    BY <2>14 DEF HealIntact, history, Row, AuditOK
  <2>15. CASE HealGivesUp
    BY <2>15 DEF HealGivesUp, auditVars, history
  <2>16. CASE HealDecode
    BY <2>16 DEF HealDecode, auditVars, history
  <2>17. CASE HealUpload
    <3>1. \A g \in Files \ {target} : snap'[g] = snap[g]
      BY <2>17 DEF HealUpload
    <3>2. target \notin todo
      BY <2>17 DEF HealUpload, BookInv
    <3> QED BY <2>17, <3>1, <3>2 DEF HealUpload, history
  <2>18. CASE CycleCommit
    BY <2>18 DEF CycleCommit, CycleOver
  <2>19. CASE CycleAborts
    BY <2>19 DEF CycleAborts, CycleOver
  <2>20. CASE Restart
    BY <2>20 DEF Restart, CycleOver
  <2>21. ASSUME NEW f \in Files, NEW i \in Idx, NEW p \in Providers, DamageObject(f, i, p)
         PROVE  AgreeInv'
    BY <2>21 DEF DamageObject, auditVars, history
  <2>22. CASE UNCHANGED vars
    BY <2>22 DEF vars, auditVars, history
  <2> QED BY <2>1, <2>2, <2>3, <2>4, <2>5, <2>6, <2>7, <2>8, <2>9, <2>10, <2>11,
             <2>12, <2>13, <2>14, <2>15, <2>16, <2>17, <2>18, <2>19, <2>20, <2>21, <2>22
          DEF Next, SessionStep, AuditStep
<1> QED BY <1>1, <1>2, TypeCorrect, LongInvariance, BookInvariance, PTL DEF Spec

------------------------------------------------------------------------------
(***************************************************************************)
(* Durability.  m is where the objects of a file are, n how many of them   *)
(* were lost.                                                              *)
(***************************************************************************)
GoodIn(m, list) == {i \in Idx : list[i] # None /\ m[i][list[i]] = "good"}

\* Two places, or two lists, agree on the indices in S.
Alike(x, y, S) == \A i \in S : x[i] = y[i]

Intact(m, n, S, list) == Cardinality(S \cap GoodIn(m, list)) + n >= D

LEMMA IntactMonotone ==
  ASSUME NEW m, NEW m2, NEW n \in Nat, NEW S \in SUBSET Idx, NEW T \in SUBSET Idx,
         NEW list, NEW list2, Intact(m, n, S, list),
         S \cap GoodIn(m, list) \subseteq T \cap GoodIn(m2, list2)
  PROVE  Intact(m2, n, T, list2)
<1> DEFINE A == S \cap GoodIn(m, list)
           B == T \cap GoodIn(m2, list2)
<1>1. A \in SUBSET B /\ B \in SUBSET Idx /\ A \in SUBSET Idx
  OBVIOUS
<1>2. Cardinality(A) <= Cardinality(B) /\ Cardinality(A) \in Nat /\ Cardinality(B) \in Nat
  BY <1>1, SizeMonotone, SubsetSize
<1>3. Cardinality(A) + n >= D
  BY DEF Intact
<1> QED BY <1>2, <1>3, ShardAssumption DEF Intact

\* More intact objects do no harm.
LEMMA IntactMore ==
  ASSUME NEW m, NEW m2, NEW n \in Nat, NEW S \in SUBSET Idx, NEW list \in Lists,
         \A i \in Idx, p \in Providers : m[i][p] = "good" => m2[i][p] = "good",
         Intact(m, n, S, list)
  PROVE  Intact(m2, n, S, list)
<1>1. GoodIn(m, list) \subseteq GoodIn(m2, list)
  BY DEF GoodIn, Lists
<1> QED BY <1>1, IntactMonotone

\* The objects read stay, and so does their place in the list.
LEMMA IntactKept ==
  ASSUME NEW m, NEW m2, NEW n \in Nat, NEW S \in SUBSET Idx, NEW list, NEW list2,
         Alike(m, m2, S), Alike(list, list2, S), Intact(m, n, S, list)
  PROVE  Intact(m2, n, Idx, list2)
<1>1. S \cap GoodIn(m, list) \subseteq Idx \cap GoodIn(m2, list2)
  BY DEF GoodIn, Alike
<1> QED BY <1>1, IntactMonotone

\* One object less and one more loss counted.
LEMMA IntactButOne ==
  ASSUME NEW m, NEW m2, NEW n \in Nat, NEW S \in SUBSET Idx, NEW list, NEW i,
         Alike(m, m2, Idx \ {i}),
         Intact(m, n, S, list)
  PROVE  Intact(m2, n + 1, S, list)
<1> DEFINE A == S \cap GoodIn(m, list)
           B == S \cap GoodIn(m2, list)
<1>1. A \in SUBSET Idx /\ B \in SUBSET Idx /\ A \ {i} \subseteq B
  BY DEF GoodIn, Alike
<1>2. Cardinality(A) <= Cardinality(B) + 1 /\ Cardinality(A) \in Nat /\ Cardinality(B) \in Nat
  <2> HIDE DEF A, B
  <2> QED BY <1>1, SizeButOne, SubsetSize
<1>3. Cardinality(A) + n >= D
  BY DEF Intact
<1> QED BY <1>2, <1>3, ShardAssumption DEF Intact

\* What was just placed is there.
LEMMA IntactPlaced ==
  ASSUME NEW m, NEW n \in Nat, NEW list, Long(list),
         \A i \in Idx : list[i] # None => m[i][list[i]] = "good"
  PROVE  Intact(m, n, Idx, list)
<1>1. Idx \cap GoodIn(m, list) = Recorded(list)
  BY DEF GoodIn, Recorded
<1>2. Cardinality(Recorded(list)) \in Nat
  BY RecordedType, SubsetSize
<1> QED BY <1>1, <1>2, ShardAssumption DEF Intact, Long

\* What was read and found intact is enough by itself.
LEMMA IntactRead ==
  ASSUME NEW m, NEW list, NEW S \in SUBSET GoodIn(m, list), Cardinality(S) >= D
  PROVE  Intact(m, 0, S, list) /\ Intact(m, 0, Idx, list)
<1>1. S \cap GoodIn(m, list) = S /\ S \in SUBSET Idx
  BY DEF GoodIn
<1>2. Cardinality(S) \in Nat
  BY <1>1, SubsetSize
<1>3. Intact(m, 0, S, list)
  BY <1>1, <1>2, ShardAssumption DEF Intact
<1>4. S \cap GoodIn(m, list) \subseteq Idx \cap GoodIn(m, list)
  BY <1>1
<1> QED BY <1>1, <1>3, <1>4, IntactMonotone

Kept == Clean \ (unwanted \cup misled)

\* Every list of a file that may still become the committed one leads to enough
\* intact shards, and so do the shards a repair keeps.
DurableInv ==
    \A f \in Kept :
        /\ Exists(f) => Intact(cloud[f], lost[f], Idx, rows[f].shards)
        /\ \A s \in Sessions : req[s].pc \in {"placed", "verifying"} /\ req[s].file = f =>
             Intact(cloud[f], lost[f], Idx, req[s].row.shards)
        /\ audit # "idle" /\ snap[f].status # "absent" =>
             Intact(cloud[f], lost[f], Idx, snap[f].shards)
        /\ audit = "repair" /\ target = f =>
             Intact(cloud[f], lost[f], got, snap[f].shards)

LEMMA KeptFile == \A f \in Kept : f \in Files /\ f \in Clean /\ f \notin unwanted /\ f \notin misled
BY DEF Kept, Clean

LEMMA LostType == ASSUME BookOK PROVE \A f \in Kept : lost[f] \in Nat
BY KeptFile DEF BookOK

\* While a kept file is repaired there is one list of it.
LEMMA OneList ==
  ASSUME LongInv, BookInv, AgreeInv, ReqOK, audit \in {"heal", "repair"}, target \in Kept
  PROVE  /\ rows[target].shards = snap[target].shards
         /\ \A s \in Sessions : req[s].pc \in {"placed", "verifying"} /\ req[s].file = target =>
              req[s].row.shards = snap[target].shards
<1>1. snap[target].status # "absent" /\ target \in Files \ unwanted
  BY KeptFile DEF LongInv
<1>2. Exists(target)
  BY <1>1 DEF BookInv
<1>3. \A s \in Sessions : req[s].pc = "placed" => req[s].file # target
  BY <1>2 DEF BookInv
<1> QED BY <1>1, <1>3 DEF AgreeInv, Pending

LEMMA DurableInvariance == Spec => []DurableInv
<1>1. Init => DurableInv
  BY DEF Init, DurableInv, Exists, NoRow, IdleRequest, Kept, Clean
<1>2. /\ TypeOK /\ LongInv /\ LongInv' /\ BookInv /\ CleanInv /\ AgreeInv /\ DurableInv
      /\ [Next]_vars
      => DurableInv'
  <2> SUFFICES ASSUME RowsOK, CloudOK, ReqOK, SnapOK, AuditOK, BookOK, LongInv, LongInv',
                      BookInv, CleanInv, AgreeInv, DurableInv, [Next]_vars
               PROVE  DurableInv'
    BY TypeParts
  <2> USE DEF DurableInv, Kept, Exists
  <2>1. ASSUME NEW s \in Sessions, NEW f \in Files, UploadDedup(s, f) PROVE DurableInv'
    BY <2>1 DEF UploadDedup, auditVars, history
  <2>2. ASSUME NEW s \in Sessions, NEW f \in Files, UploadBegin(s, f) PROVE DurableInv'
    BY <2>2 DEF UploadBegin, auditVars
  <2>3. ASSUME NEW s \in Sessions, PlaceShards(s) PROVE DurableInv'
    <3> DEFINE f == req[s].file
    <3>1. f \in Files
      BY ReqField
    <3>2. PICK list \in Lists :
            /\ cloud' = Stored(f, list, "good")
            /\ req' = [req EXCEPT ![s] =
                 IF TooManyFailures(list)
                 THEN IdleRequest(f)
                 ELSE [pc |-> "placed", file |-> f, left |-> {},
                       row |-> [status |-> "active", shards |-> list, health |-> "full"]]]
      BY <2>3 DEF PlaceShards
    <3>3. /\ \A g \in Files \ {f} : cloud'[g] = cloud[g]
          /\ \A i \in Idx, p \in Providers : cloud[f][i][p] = "good" => cloud'[f][i][p] = "good"
          /\ \A i \in Idx : list[i] # None => cloud'[f][i][list[i]] = "good"
      BY <3>1, <3>2 DEF Stored, CloudOK, CloudType, Lists
    <3>4. \A g \in Kept, S \in SUBSET Idx, l \in Lists :
            Intact(cloud[g], lost[g], S, l) => Intact(cloud'[g], lost[g], S, l)
      <4> SUFFICES ASSUME NEW g \in Kept, NEW S \in SUBSET Idx, NEW l \in Lists,
                          Intact(cloud[g], lost[g], S, l)
                   PROVE  Intact(cloud'[g], lost[g], S, l)
        OBVIOUS
      <4>1. g \in Files /\ lost[g] \in Nat
        BY KeptFile, LostType
      <4>2. \A i \in Idx, p \in Providers : cloud[g][i][p] = "good" => cloud'[g][i][p] = "good"
        BY <3>3, <4>1
      <4> QED BY <4>1, <4>2, IntactMore
    <3>5. req'[s].pc = "placed" => req'[s].file = f /\ req'[s].row.shards = list /\ Long(list)
      BY <2>3, <3>2, RecordedType DEF LongInv, ReqOK, IdleRequest
    <3>6. f \in Kept /\ Long(list) => Intact(cloud'[f], lost[f], Idx, list)
      BY <3>3, LostType, IntactPlaced
    <3>7. /\ UNCHANGED <<rows, audit, snap, got, target, lost, unwanted, misled>>
          /\ \A t \in Sessions \ {s} : req'[t] = req[t]
          /\ req'[s].pc # "verifying"
      BY <2>3, <3>2 DEF PlaceShards, auditVars, history, ReqOK, IdleRequest
    <3>8. \A g \in Kept : got \in SUBSET Idx /\ snap[g].shards \in Lists /\ rows[g].shards \in Lists
      BY KeptFile, RowFields DEF AuditOK, SnapOK, RowsOK
    <3>9. \A t \in Sessions : req[t].row.shards \in Lists
      BY ReqField, RowFields
    <3> QED
      <4> HIDE DEF f
      <4> QED BY <3>1, <3>4, <3>5, <3>6, <3>7, <3>8, <3>9
  <2>4. ASSUME NEW s \in Sessions, UploadCommit(s) PROVE DurableInv'
    BY <2>4, ReqField DEF UploadCommit, auditVars, history, RowsOK, ReqOK, IdleRequest
  <2>5. ASSUME NEW s \in Sessions, NEW f \in Files, DeleteBegin(s, f) PROVE DurableInv'
    BY <2>5 DEF DeleteBegin, auditVars, ReqOK
  <2>6. ASSUME NEW s \in Sessions, NEW i \in Idx, DeleteShard(s, i) PROVE DurableInv'
    <3>1. req[s].file \in unwanted
      BY <2>6 DEF DeleteShard, BookInv
    <3>2. \A g \in Kept : cloud'[g] = cloud[g]
      BY <2>6, <3>1 DEF DeleteShard, CloudOK, CloudType
    <3>3. \A t \in Sessions : /\ req'[t].pc = req[t].pc /\ req'[t].file = req[t].file
                               /\ req'[t].row = req[t].row
      BY <2>6 DEF DeleteShard, ReqOK, ReqType
    <3> QED BY <2>6, <3>2, <3>3 DEF DeleteShard, auditVars, history
  <2>7. ASSUME NEW s \in Sessions, NEW i \in Idx, DeleteShardFails(s, i) PROVE DurableInv'
    BY <2>7 DEF DeleteShardFails, auditVars, history, ReqOK, ReqType
  <2>8. ASSUME NEW s \in Sessions, DeleteCommit(s) PROVE DurableInv'
    BY <2>8, ReqField DEF DeleteCommit, auditVars, history, BookInv, RowsOK, ReqOK, IdleRequest
  <2>9. ASSUME NEW s \in Sessions, NEW f \in Files, VerifyBegin(s, f) PROVE DurableInv'
    BY <2>9 DEF VerifyBegin, auditVars, history, ReqOK, Exists
  <2>10. ASSUME NEW s \in Sessions, VerifyCommit(s) PROVE DurableInv'
    <3> DEFINE f == req[s].file
    <3>1. f \in Files /\ req[s].row \in Row
      BY ReqField
    <3>2. PICK h : rows' = [rows EXCEPT ![f] = [req[s].row EXCEPT !.health = h]]
      BY <2>10 DEF VerifyCommit
    <3>3. /\ rows'[f].shards = req[s].row.shards
          /\ \A g \in Files \ {f} : rows'[g] = rows[g]
      BY <3>1, <3>2 DEF RowsOK, Row
    <3>4. req[s].pc = "verifying" /\ req' = [req EXCEPT ![s] = IdleRequest(f)]
      BY <2>10 DEF VerifyCommit
    <3> QED BY <2>10, <3>1, <3>3, <3>4 DEF VerifyCommit, auditVars, history, ReqOK, IdleRequest
  <2>11. ASSUME NEW s \in Sessions, CommitFails(s) PROVE DurableInv'
    BY <2>11 DEF CommitFails, auditVars, history, ReqOK, IdleRequest
  <2>12. CASE CycleStart
    BY <2>12 DEF CycleStart, history, Exists
  <2>13. ASSUME NEW f \in Files, AuditVerify(f) PROVE DurableInv'
    <3>1. \A g \in Files : /\ snap'[g].shards = snap[g].shards
                            /\ snap'[g].status = snap[g].status
      BY <2>13 DEF AuditVerify, SnapOK, Row
    <3> QED BY <2>13, <3>1 DEF AuditVerify, history
  <2>14. CASE HealIntact
    <3>1. \A g \in Files : /\ snap'[g].shards = snap[g].shards
                            /\ snap'[g].status = snap[g].status
      BY <2>14 DEF HealIntact, SnapOK, Row
    <3>2. Good(target, snap[target].shards) = Idx =>
             Intact(cloud[target], 0, Idx, snap[target].shards)
      <4> SUFFICES ASSUME Good(target, snap[target].shards) = Idx
                   PROVE  Intact(cloud[target], 0, Idx, snap[target].shards)
        OBVIOUS
      <4>1. Idx \in SUBSET GoodIn(cloud[target], snap[target].shards)
        BY DEF Good, GoodIn
      <4>2. Cardinality(Idx) >= D
        BY IdxSize, ShardAssumption
      <4> QED BY <4>1, <4>2, IntactRead
    <3>3. UNCHANGED <<rows, cloud, req, unwanted, misled>> /\ audit' = "audit" /\ audit = "heal"
      BY <2>14 DEF HealIntact, history
    <3>4. /\ lost'[target] = lost[target] \/ (lost'[target] = 0 /\ Good(target, snap[target].shards) = Idx)
          /\ \A g \in Files \ {target} : lost'[g] = lost[g]
      BY <2>14 DEF HealIntact, BookOK, AuditOK
    <3> QED BY <3>1, <3>2, <3>3, <3>4, OneList, KeptFile
  <2>15. CASE HealGivesUp
    BY <2>15 DEF HealGivesUp, history
  <2>16. CASE HealDecode
    <3>1. /\ UNCHANGED <<rows, cloud, req, snap, target, unwanted>>
          /\ audit' = "repair" /\ audit = "heal" /\ misled \subseteq misled'
      BY <2>16 DEF HealDecode
    <3>2. target \in Kept' => /\ Intact(cloud[target], 0, got', snap[target].shards)
                              /\ Intact(cloud[target], 0, Idx, snap[target].shards)
                              /\ decoded' = "good"
      <4> SUFFICES ASSUME target \in Clean, target \notin misled'
                   PROVE  /\ Intact(cloud[target], 0, got', snap[target].shards)
                          /\ Intact(cloud[target], 0, Idx, snap[target].shards)
                          /\ decoded' = "good"
        OBVIOUS
      <4>1. /\ got' \in SUBSET GoodIn(cloud[target], snap[target].shards)
            /\ Cardinality(Idx \ got') <= P /\ decoded' = "good"
        BY <2>16, CleanDecode DEF Good, GoodIn
      <4>2. got' \in SUBSET Idx
        BY <4>1 DEF GoodIn
      <4>3. Cardinality(got') >= D
        BY <4>1, <4>2, EnoughLeft
      <4> QED BY <4>1, <4>3, IntactRead
    <3>3. /\ decoded' = "good" => lost'[target] = 0
          /\ \A g \in Files \ {target} : lost'[g] = lost[g]
      BY <2>16 DEF HealDecode, BookOK, AuditOK
    <3> QED BY <3>1, <3>2, <3>3, OneList, KeptFile
  <2>17. CASE HealUpload
    <3> DEFINE list    == snap[target].shards
               missing == Recorded(list) \ got
    <3>1. PICK placed \in [missing -> Providers \cup {None}],
               wiped \in SUBSET (missing \X DeleteFirst),
               cut \in SUBSET (missing \X Truncating) :
            /\ cloud' = [cloud EXCEPT ![target] = Uploaded(missing, placed, wiped, cut)]
            /\ snap' = [snap EXCEPT ![target] =
                 [@ EXCEPT !.health = "full",
                           !.shards = Repaired(list, missing, placed)]]
      BY <2>17 DEF HealUpload
    <3> DEFINE new == Repaired(list, missing, placed)
    <3>2. /\ audit = "repair" /\ audit' = "audit"
          /\ UNCHANGED <<rows, req, target, lost, unwanted, misled>>
      BY <2>17 DEF HealUpload, history
    <3>3. target \in Files /\ got \in SUBSET Idx /\ list \in Lists /\ missing \in SUBSET Idx
      BY RowFields, RecordedType DEF AuditOK, SnapOK
    <3>4. new \in Lists
      BY <3>1, <3>3, RepairedType
    <3>5. /\ snap'[target].shards = new
          /\ \A g \in Files \ {target} : snap'[g] = snap[g]
      BY <3>1, <3>3 DEF SnapOK, Row
    <3>6. /\ \A g \in Files \ {target} : cloud'[g] = cloud[g]
          /\ Alike(cloud[target], cloud'[target], got)
      <4>1. \A i \in got : cloud'[target][i] = [p \in Providers |->
              IF <<i, p>> \in wiped THEN "none"
              ELSE IF <<i, p>> \in cut THEN "short" ELSE cloud[target][i][p]]
        BY <3>1, <3>3 DEF Uploaded, CloudOK, CloudType
      <4>2. \A i \in got, p \in Providers : <<i, p>> \notin wiped /\ <<i, p>> \notin cut
        OBVIOUS
      <4>3. \A i \in got : cloud[target][i] \in [Providers -> Objects]
        BY <3>3 DEF CloudOK, CloudType
      <4>4. \A i \in got : cloud[target][i] = cloud'[target][i]
        BY <4>1, <4>2, <4>3
      <4> QED BY <3>1, <3>3, <4>4 DEF CloudOK, CloudType, Alike
    <3>7. Alike(list, list, got) /\ Alike(list, new, got)
      BY <3>3, RepairedSame DEF Alike
    <3>8. target \in Kept => /\ Intact(cloud'[target], lost[target], Idx, list)
                             /\ Intact(cloud'[target], lost[target], Idx, new)
      <4> SUFFICES ASSUME target \in Kept
                   PROVE  /\ Intact(cloud'[target], lost[target], Idx, list)
                          /\ Intact(cloud'[target], lost[target], Idx, new)
        OBVIOUS
      <4>1. Intact(cloud[target], lost[target], got, list)
        BY <3>2
      <4> HIDE DEF list, missing, new
      <4>3. lost[target] \in Nat
        BY LostType
      <4>4. Intact(cloud'[target], lost[target], Idx, list)
        BY <3>3, <3>6, <3>7, <4>1, <4>3, IntactKept
      <4>5. Intact(cloud'[target], lost[target], Idx, new)
        BY <3>3, <3>6, <3>7, <4>1, <4>3, IntactKept
      <4> QED BY <4>4, <4>5
    <3> QED
      <4> HIDE DEF list, missing, new
      <4>1. target \in Kept => /\ rows[target].shards = list
                               /\ \A s \in Sessions : req[s].pc \in {"placed", "verifying"}
                                     /\ req[s].file = target => req[s].row.shards = list
        BY <3>2, OneList DEF list
      <4> QED BY <3>2, <3>3, <3>5, <3>6, <3>8, <4>1, KeptFile
  <2>18. CASE CycleCommit
    <3>1. \A g \in Files : rows'[g] = IF g \in dirty THEN snap[g] ELSE rows[g]
      BY <2>18 DEF CycleCommit
    <3>2. \A g \in dirty : snap[g].status # "absent"
      BY DEF LongInv
    <3> QED BY <2>18, <3>1, <3>2, KeptFile DEF CycleCommit, CycleOver, history, Exists
  <2>19. CASE CycleAborts
    BY <2>19 DEF CycleAborts, CycleOver, history
  <2>20. CASE Restart
    BY <2>20 DEF Restart, CycleOver, history, IdleRequest
  <2>21. ASSUME NEW f \in Files, NEW i \in Idx, NEW p \in Providers, DamageObject(f, i, p)
         PROVE  DurableInv'
    <3>1. PICK v : cloud' = [cloud EXCEPT ![f][i][p] = v]
      BY <2>21 DEF DamageObject
    <3>2. /\ \A g \in Files \ {f} : cloud'[g] = cloud[g] /\ lost'[g] = lost[g]
          /\ \A j \in Idx \ {i} : cloud[f][j] = cloud'[f][j]
          /\ lost'[f] = lost[f] + 1
      BY <2>21, <3>1 DEF DamageObject, CloudOK, CloudType, BookOK
    <3>3. \A g \in Kept, S \in SUBSET Idx, l \in Lists :
            Intact(cloud[g], lost[g], S, l) => Intact(cloud'[g], lost'[g], S, l)
      <4> SUFFICES ASSUME NEW g \in Kept, NEW S \in SUBSET Idx, NEW l \in Lists,
                          Intact(cloud[g], lost[g], S, l)
                   PROVE  Intact(cloud'[g], lost'[g], S, l)
        OBVIOUS
      <4>1. g \in Files /\ lost[g] \in Nat
        BY KeptFile, LostType
      <4>2. CASE g = f
        <5>1. Alike(cloud[g], cloud'[g], Idx \ {i})
          BY <3>2, <4>2 DEF Alike
        <5>2. Intact(cloud'[g], lost[g] + 1, S, l)
          BY <4>1, <5>1, IntactButOne
        <5> QED BY <3>2, <4>2, <5>2
      <4>3. CASE g # f
        BY <3>2, <4>1, <4>3
      <4> QED BY <4>2, <4>3
    <3>4. \A g \in Kept : got \in SUBSET Idx /\ snap[g].shards \in Lists /\ rows[g].shards \in Lists
      BY KeptFile, RowFields DEF AuditOK, SnapOK, RowsOK
    <3>5. \A t \in Sessions : req[t].row.shards \in Lists
      BY ReqField, RowFields
    <3> QED BY <2>21, <3>3, <3>4, <3>5 DEF DamageObject, auditVars, history
  <2>22. CASE UNCHANGED vars
    BY <2>22 DEF vars, auditVars, history
  <2> QED BY <2>1, <2>2, <2>3, <2>4, <2>5, <2>6, <2>7, <2>8, <2>9, <2>10, <2>11,
             <2>12, <2>13, <2>14, <2>15, <2>16, <2>17, <2>18, <2>19, <2>20, <2>21, <2>22
          DEF Next, SessionStep, AuditStep
<1> QED BY <1>1, <1>2, TypeCorrect, LongInvariance, BookInvariance, CleanInvariance,
           AgreeInvariance, PTL DEF Spec

\* No file is lost to the system itself: whatever repairs, failed and torn ones too,
\* rollbacks, crashes and overlapping verifications did, D shards of it are intact, less
\* those lost since; but for the files a repair stores something else of, which Durable
\* names.
THEOREM DurableCorrect == Spec => []Durable
<1>1. BookOK /\ DurableInv => Durable
  <2> SUFFICES ASSUME BookOK, DurableInv,
                      NEW f \in Files \ (unwanted \cup NulTail \cup BitRot \cup misled), Exists(f)
               PROVE  Cardinality(Good(f, rows[f].shards)) + lost[f] >= D
    BY DEF Durable, Enough
  <2>1. Intact(cloud[f], lost[f], Idx, rows[f].shards)
    BY DEF DurableInv, Kept, Clean
  <2>2. Idx \cap GoodIn(cloud[f], rows[f].shards) = Good(f, rows[f].shards)
    BY DEF GoodIn, Good
  <2> QED BY <2>1, <2>2 DEF Intact
<1>2. TypeOK => BookOK
  BY TypeParts
<1> QED BY <1>1, <1>2, TypeCorrect, DurableInvariance, PTL
==============================================================================
