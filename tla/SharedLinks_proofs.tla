-------------------------- MODULE SharedLinks_proofs --------------------------
(***************************************************************************)
(* Proofs about SharedLinks, for any links, clients and bounds.            *)
(***************************************************************************)
EXTENDS SharedLinks, TLAPS

USE LimitsAssumption, NoLimitAssumption, LifetimesAssumption, BoundsAssumption

\* Type correctness of the link table and of the requests in progress.
THEOREM TypeCorrect == Spec => []TypeOK
<1>1. Init => TypeOK
  BY DEF Init, TypeOK, NoRow, Idle
<1>2. TypeOK /\ [Next]_vars => TypeOK'
  <2> SUFFICES ASSUME TypeOK, [Next]_vars PROVE TypeOK'
    OBVIOUS
  <2> USE DEF TypeOK
  <2>1. ASSUME NEW l \in Links, NEW limit \in Limits, NEW life \in Lifetimes,
               CreateLink(l, limit, life)
        PROVE  TypeOK'
    <3>1. [status |-> "live", limit |-> limit, count |-> 0,
           expires |-> IF life = Never THEN Never ELSE now + life]
             \in [status : {"absent", "live", "revoked"}, limit : Int \cup {NoLimit},
                  count : Nat, expires : Int \cup {Never}]
      OBVIOUS
    <3> QED BY <2>1, <3>1 DEF CreateLink
  <2>2. ASSUME NEW l \in Links, RevokeLink(l) PROVE TypeOK'
    BY <2>2 DEF RevokeLink
  <2>3. ASSUME NEW c \in Clients, NEW l \in Links, BeginDownload(c, l) PROVE TypeOK'
    BY <2>3 DEF BeginDownload
  <2>4. ASSUME NEW c \in Clients, DownloadFails(c) PROVE TypeOK'
    BY <2>4 DEF DownloadFails
  <2>5. ASSUME NEW c \in Clients, CommitCount(c) PROVE TypeOK'
    <3> DEFINE Rows == [status : {"absent", "live", "revoked"},
                        limit : Int \cup {NoLimit},
                        count : Nat,
                        expires : Int \cup {Never}]
               l == req[c].link
               new == [row[l] EXCEPT !.count = req[c].seen + 1]
    <3>1. l \in Links /\ row[l] \in Rows /\ req[c].seen + 1 \in Nat
      OBVIOUS
    <3>2. row' = [row EXCEPT ![l] = new]
      BY <2>5 DEF CommitCount
    <3>3. new \in Rows
      BY <3>1
    <3>4. row' \in [Links -> Rows]
      <4> HIDE DEF new, l, Rows
      <4>1. row \in [Links -> Rows]
        BY DEF Rows
      <4> QED BY <3>1, <3>2, <3>3, <4>1
    <3>5. req' \in [Clients -> [pc : {"idle", "retrieving", "answering"},
                               link : Links, seen : Nat]]
      BY <2>5 DEF CommitCount
    <3> QED BY <2>5, <3>4, <3>5 DEF CommitCount
  <2>6. ASSUME NEW c \in Clients, Answer(c) PROVE TypeOK'
    BY <2>6 DEF Answer
  <2>7. CASE Restart
    BY <2>7 DEF Restart, Idle
  <2>8. CASE Tick
    BY <2>8 DEF Tick
  <2>9. CASE UNCHANGED vars
    BY <2>9 DEF vars
  <2> QED BY <2>1, <2>2, <2>3, <2>4, <2>5, <2>6, <2>7, <2>8, <2>9 DEF Next
<1> QED BY <1>1, <1>2, PTL DEF Spec

------------------------------------------------------------------------------
(***************************************************************************)
(* What a request has read stays true in one direction only: at most as    *)
(* many downloads were granted as it saw or more, and the count it saw was *)
(* below the limit, which never changes while the row exists.              *)
(***************************************************************************)
RequestInv ==
    \A c \in Clients :
        LET l == req[c].link IN
        req[c].pc = "retrieving" =>
            /\ row[l].status # "absent"
            /\ req[c].seen <= granted[l]
            /\ row[l].limit # NoLimit => req[c].seen < row[l].limit

AbsentInv ==
    \A l \in Links : row[l].status = "absent" => row[l].count = 0

CounterInv == RequestInv /\ AbsentInv /\ CounterWithinLimit /\ NeverOvercharged

\* CounterInv is inductive.
LEMMA CounterInvariance == Spec => []CounterInv
<1>1. Init => CounterInv
  BY DEF Init, CounterInv, RequestInv, AbsentInv, CounterWithinLimit,
         NeverOvercharged, NoRow, Idle
<1>2. TypeOK /\ CounterInv /\ [Next]_vars => CounterInv'
  <2> SUFFICES ASSUME TypeOK, CounterInv, [Next]_vars PROVE CounterInv'
    OBVIOUS
  <2> USE DEF TypeOK, CounterInv, RequestInv, AbsentInv, CounterWithinLimit,
              NeverOvercharged
  <2>1. ASSUME NEW l \in Links, NEW limit \in Limits, NEW life \in Lifetimes,
               CreateLink(l, limit, life)
        PROVE  CounterInv'
    BY <2>1 DEF CreateLink
  <2>2. ASSUME NEW l \in Links, RevokeLink(l) PROVE CounterInv'
    BY <2>2 DEF RevokeLink
  <2>3. ASSUME NEW c \in Clients, NEW l \in Links, BeginDownload(c, l)
        PROVE  CounterInv'
    BY <2>3 DEF BeginDownload, Opens
  <2>4. ASSUME NEW c \in Clients, DownloadFails(c) PROVE CounterInv'
    BY <2>4 DEF DownloadFails
  <2>5. ASSUME NEW c \in Clients, CommitCount(c) PROVE CounterInv'
    BY <2>5 DEF CommitCount
  <2>6. ASSUME NEW c \in Clients, Answer(c) PROVE CounterInv'
    BY <2>6 DEF Answer
  <2>7. CASE Restart
    BY <2>7 DEF Restart, Idle
  <2>8. CASE Tick
    BY <2>8 DEF Tick
  <2>9. CASE UNCHANGED vars
    BY <2>9 DEF vars
  <2> QED BY <2>1, <2>2, <2>3, <2>4, <2>5, <2>6, <2>7, <2>8, <2>9 DEF Next
<1> QED BY <1>1, <1>2, TypeCorrect, PTL DEF Spec

\* However many downloads overlap, the stored counter stays within the limit.
THEOREM CounterCorrect == Spec => []CounterWithinLimit
BY CounterInvariance, PTL DEF CounterInv

\* However many downloads overlap, no link is charged for more than was granted.
THEOREM ChargeCorrect == Spec => []NeverOvercharged
BY CounterInvariance, PTL DEF CounterInv

\* A revoked link stays revoked and grants nothing, whatever is in flight.
THEOREM RevocationCorrect == Spec => RevocationIsFinal
<1> DEFINE Final == \A l \in Links :
                      row[l].status = "revoked" =>
                          /\ granted'[l] = granted[l]
                          /\ row'[l].status = "revoked"
<1>1. TypeOK /\ [Next]_vars => [Final]_vars
  <2> SUFFICES ASSUME TypeOK, Next PROVE Final
    OBVIOUS
  <2> USE DEF TypeOK
  <2>1. ASSUME NEW l \in Links, NEW limit \in Limits, NEW life \in Lifetimes,
               CreateLink(l, limit, life)
        PROVE  Final
    BY <2>1 DEF CreateLink
  <2>2. ASSUME NEW l \in Links, RevokeLink(l) PROVE Final
    BY <2>2 DEF RevokeLink
  <2>3. ASSUME NEW c \in Clients, CommitCount(c) PROVE Final
    BY <2>3 DEF CommitCount
  <2>4. CASE UNCHANGED <<row, granted>>
    BY <2>4
  <2> QED BY <2>1, <2>2, <2>3, <2>4
          DEF Next, BeginDownload, DownloadFails, Answer, Restart, Tick
<1> QED BY <1>1, TypeCorrect, PTL DEF Spec, RevocationIsFinal

------------------------------------------------------------------------------
(***************************************************************************)
(* Links whose downloads never overlapped.                                 *)
(***************************************************************************)

\* Requests of such a link exclude one another, what the only one has read is
\* what the row still holds, and so the counter is the number of grants.
CalmInv ==
    /\ \A l \in Links \ overlapped : row[l].count = granted[l]
    /\ \A l \in Links : row[l].status = "absent" =>
         granted[l] = 0 /\ row[l].limit = NoLimit
    /\ \A c \in Clients :
         LET l == req[c].link IN
         req[c].pc = "retrieving" /\ l \notin overlapped =>
             /\ row[l].status # "absent"
             /\ req[c].seen = row[l].count
             /\ row[l].limit # NoLimit => row[l].count < row[l].limit
             /\ \A d \in Clients :
                  req[d].pc = "retrieving" /\ req[d].link = l => d = c
    /\ \A c \in Clients : req[c].pc = "retrieving" => row[req[c].link].status # "absent"

LEMMA CalmInvariance == Spec => []CalmInv
<1>1. Init => CalmInv
  BY DEF Init, CalmInv, NoRow, Idle
<1>2. TypeOK /\ CalmInv /\ [Next]_vars => CalmInv'
  <2> SUFFICES ASSUME TypeOK, CalmInv, [Next]_vars PROVE CalmInv'
    OBVIOUS
  <2> USE DEF TypeOK, CalmInv
  <2>1. ASSUME NEW l \in Links, NEW limit \in Limits, NEW life \in Lifetimes,
               CreateLink(l, limit, life)
        PROVE  CalmInv'
    BY <2>1 DEF CreateLink
  <2>2. ASSUME NEW l \in Links, RevokeLink(l) PROVE CalmInv'
    BY <2>2 DEF RevokeLink
  <2>3. ASSUME NEW c \in Clients, NEW l \in Links, BeginDownload(c, l)
        PROVE  CalmInv'
    BY <2>3 DEF BeginDownload, Opens
  <2>4. ASSUME NEW c \in Clients, DownloadFails(c) PROVE CalmInv'
    BY <2>4 DEF DownloadFails
  <2>5. ASSUME NEW c \in Clients, CommitCount(c) PROVE CalmInv'
    BY <2>5 DEF CommitCount
  <2>6. ASSUME NEW c \in Clients, Answer(c) PROVE CalmInv'
    BY <2>6 DEF Answer
  <2>7. CASE Restart
    BY <2>7 DEF Restart, Idle
  <2>8. CASE Tick
    BY <2>8 DEF Tick
  <2>9. CASE UNCHANGED vars
    BY <2>9 DEF vars
  <2> QED BY <2>1, <2>2, <2>3, <2>4, <2>5, <2>6, <2>7, <2>8, <2>9 DEF Next
<1> QED BY <1>1, <1>2, TypeCorrect, PTL DEF Spec

\* A link whose downloads never overlapped grants at most download_limit of them.
THEOREM CalmLimit == Spec => []LimitWithoutOverlap
<1>1. CounterWithinLimit /\ CalmInv => LimitWithoutOverlap
  <2> SUFFICES ASSUME CounterWithinLimit, CalmInv, NEW l \in Links \ overlapped
               PROVE  \/ row[l].limit = NoLimit
                      \/ granted[l] = 0
                      \/ granted[l] <= row[l].limit
    BY DEF LimitWithoutOverlap
  <2>1. row[l].count = granted[l]
    BY DEF CalmInv
  <2> QED BY <2>1 DEF CounterWithinLimit
<1> QED BY <1>1, CounterCorrect, CalmInvariance, PTL

\* The links implement the atomic budget: every step of the handlers is a step of
\* the budget or leaves it alone, whatever the number of clients.
THEOREM BudgetRefined == Spec => RefinesBudget
<1>1. Init => Budget!Init
  BY DEF Init, Budget!Init, NoRow
<1>2. TypeOK /\ CalmInv /\ [Next]_vars => [Budget!Next]_(Budget!budgetVars)
  <2> SUFFICES ASSUME TypeOK, CalmInv, [Next]_vars
               PROVE  [Budget!Next]_(Budget!budgetVars)
    OBVIOUS
  <2> USE DEF TypeOK, Budget!budgetVars
  <2>1. ASSUME NEW l \in Links, NEW limit \in Limits, NEW life \in Lifetimes,
               CreateLink(l, limit, life)
        PROVE  Budget!Open(l)
    BY <2>1 DEF CreateLink, Budget!Open
  <2>2. ASSUME NEW l \in Links, RevokeLink(l) PROVE Budget!Revoke(l)
    BY <2>2 DEF RevokeLink, Budget!Revoke
  <2>3. ASSUME NEW c \in Clients, NEW l \in Links, BeginDownload(c, l)
        PROVE  Budget!Contend(l) \/ UNCHANGED <<row, granted, overlapped>>
    BY <2>3 DEF BeginDownload, Opens, Budget!Contend
  <2>4. ASSUME NEW c \in Clients, CommitCount(c) PROVE Budget!Charge(req[c].link)
    BY <2>4 DEF CommitCount, Budget!Charge, CalmInv
  <2>5. CASE UNCHANGED <<row, granted, overlapped>>
    BY <2>5
  <2> QED BY <2>1, <2>2, <2>3, <2>4, <2>5
          DEF Next, Budget!Next, DownloadFails, Answer, Restart, Tick, vars
<1> QED BY <1>1, <1>2, TypeCorrect, CalmInvariance, PTL
        DEF Spec, RefinesBudget, Budget!Spec
==============================================================================
