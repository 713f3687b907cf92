-------------------------- MODULE Background_proofs --------------------------
(***************************************************************************)
(* Proofs about the work behind the requests: first AuditWorker, for any   *)
(* finite set of files and any limits, then BurstTransfer and the decoding *)
(* it rests on, for files, fragments and blocks of any size.               *)
(***************************************************************************)
EXTENDS AuditWorker, BurstTransfer, FiniteSetTheorems, SequenceTheorems, TLAPS

------------------------------------------------------------------------------
(***************************************************************************)
(* Renumbering times keeps them apart.                                     *)
(***************************************************************************)

\* Ranks are bounded by the number of times, and ordered as they are.
LEMMA RankOrder ==
    ASSUME NEW all \in SUBSET Nat, IsFiniteSet(all)
    PROVE  /\ Rank(all, 0) = 0
           /\ \A v \in Nat : Rank(all, v) \in Nat /\ Rank(all, v) \in 0 .. Cardinality(all \ {0})
           /\ \A u \in Nat, v \in all : u < v => Rank(all, u) < Rank(all, v)
<1> DEFINE later == all \ {0}
<1>0. later \in SUBSET Nat /\ IsFiniteSet(later) /\ (\A u \in later : u > 0)
  BY FS_Subset
<1>1. Rank(all, 0) = 0
  <2>1. \A u \in later : ~ (u <= 0)
    BY <1>0
  <2>2. {u \in later : u <= 0} = {}
    BY <2>1
  <2> QED BY <2>2, FS_EmptySet DEF Rank
<1>2. ASSUME NEW v \in Nat
      PROVE  /\ IsFiniteSet({u \in later : u <= v})
             /\ Rank(all, v) \in Nat /\ Rank(all, v) \in 0 .. Cardinality(later)
  <2>1. {u \in later : u <= v} \in SUBSET later
    OBVIOUS
  <2> HIDE DEF later
  <2>2. /\ IsFiniteSet({u \in later : u <= v})
        /\ Cardinality({u \in later : u <= v}) <= Cardinality(later)
    BY <1>0, <2>1, FS_Subset
  <2>3. Cardinality({u \in later : u <= v}) \in Nat /\ Cardinality(later) \in Nat
    BY <1>0, <2>2, FS_CardinalityType
  <2> QED BY <2>2, <2>3 DEF Rank, later
<1>3. ASSUME NEW u \in Nat, NEW v \in all, u < v
      PROVE  Rank(all, u) < Rank(all, v)
  <2> DEFINE below == {w \in later : w <= u}
             upto  == {w \in later : w <= v}
  <2>1. v \in Nat /\ v \in later
    BY <1>3
  <2>2. below \in SUBSET upto /\ v \in upto /\ v \notin below
    <3>1. \A w \in later : w <= u => w <= v
      BY <1>0, <1>3, <2>1
    <3>2. ~ (v <= u) /\ v <= v
      BY <1>3, <2>1
    <3> QED BY <2>1, <3>1, <3>2
  <2>3. IsFiniteSet(upto) /\ IsFiniteSet(below)
    BY <1>2, <2>1
  <2>4. Cardinality(below) <= Cardinality(upto) /\ Cardinality(below) # Cardinality(upto)
    BY <2>2, <2>3, FS_Subset
  <2>5. Cardinality(below) \in Nat /\ Cardinality(upto) \in Nat
    BY <2>3, FS_CardinalityType
  <2> QED BY <2>4, <2>5 DEF Rank
<1> QED BY <1>1, <1>2, <1>3

\* Ranks tell apart what they are given, and zero stays zero.
LEMMA RankApart ==
    ASSUME NEW all \in SUBSET Nat, IsFiniteSet(all)
    PROVE  /\ \A u \in all : Rank(all, u) = 0 <=> u = 0
           /\ \A u, v \in all : Rank(all, u) = Rank(all, v) => u = v
<1> SUFFICES ASSUME NEW u \in all, NEW v \in all
             PROVE  (Rank(all, u) = Rank(all, v) => u = v) /\ (Rank(all, u) = 0 <=> u = 0)
  OBVIOUS
<1>1. u \in Nat /\ v \in Nat
  OBVIOUS
<1>0. /\ Rank(all, 0) = 0
      /\ \A w \in Nat : Rank(all, w) \in Nat
  BY RankOrder
<1>2. Rank(all, u) \in Nat /\ Rank(all, v) \in Nat /\ Rank(all, 0) = 0
  BY <1>0, <1>1
<1>3. u < v => Rank(all, u) < Rank(all, v)
  BY <1>1, RankOrder
<1>4. v < u => Rank(all, v) < Rank(all, u)
  BY <1>1, RankOrder
<1>5. 0 < u => Rank(all, 0) < Rank(all, u)
  BY <1>1, RankOrder
<1> QED BY <1>1, <1>2, <1>3, <1>4, <1>5

\* A function on a finite set has at most as many values as arguments.
LEMMA ValuesFinite ==
    ASSUME NEW A, IsFiniteSet(A), NEW fn \in [A -> Nat]
    PROVE  /\ IsFiniteSet(Values(fn)) /\ Values(fn) \in SUBSET Nat
           /\ Cardinality(Values(fn)) <= Cardinality(A)
           /\ Cardinality(Values(fn)) \in Nat /\ Cardinality(A) \in Nat
<1>1. fn \in Surjection(A, Values(fn)) /\ Values(fn) \in SUBSET Nat
  BY DEF Surjection, Values
<1>2. IsFiniteSet(Values(fn)) /\ Cardinality(Values(fn)) <= Cardinality(A)
  BY <1>1, FS_Surjection
<1> QED BY <1>1, <1>2, FS_CardinalityType

\* Two finite sets have no more elements together than one by one.
LEMMA UnionBound ==
    ASSUME NEW A, NEW B, IsFiniteSet(A), IsFiniteSet(B)
    PROVE  /\ IsFiniteSet(A \cup B) /\ Cardinality(A \cup B) \in Nat
           /\ Cardinality(A \cup B) <= Cardinality(A) + Cardinality(B)
<1>1. IsFiniteSet(A \cup B) /\ Cardinality(A \cup B) = Cardinality(A) + Cardinality(B) - Cardinality(A \cap B)
  BY FS_Union
<1>2. IsFiniteSet(A \cap B)
  BY FS_Subset
<1>3. /\ Cardinality(A) \in Nat /\ Cardinality(B) \in Nat /\ Cardinality(A \cap B) \in Nat
      /\ Cardinality(A \cup B) \in Nat
  BY <1>1, <1>2, FS_CardinalityType
<1> QED BY <1>1, <1>3

Bound == 2 * Cardinality(Files) + Cardinality(Verifiers)

\* The sessions that verify are finitely many, and Now is later than every time there is.
LEMMA BoundIs ==
    /\ IsFiniteSet(Verifiers) /\ Worker \in Verifiers /\ Sessions \subseteq Verifiers
    /\ Bound \in Nat /\ Now \in Nat /\ Now > Bound
<1>1. IsFiniteSet(Verifiers)
  BY SessionsAssumption, FS_AddElement DEF Verifiers
<1>2. Cardinality(Verifiers) \in Nat /\ Cardinality(Files) \in Nat
  BY <1>1, FilesAssumption, FS_CardinalityType
<1> QED BY <1>1, <1>2 DEF Bound, Now, Verifiers

\* No time is given twice within a function, or in two.
Own(fn)     == \A x, y \in DOMAIN fn : x # y /\ fn[x] = fn[y] => fn[x] = 0
Apart(a, b) == \A x \in DOMAIN a, y \in DOMAIN b : a[x] = b[y] => a[x] = 0

Timely(st, fl, tk) ==
    /\ Own(st) /\ Own(fl) /\ Own(tk)
    /\ Apart(st, fl) /\ Apart(st, tk) /\ Apart(fl, tk)

\* Functions that are apart stay so when they are ranked.
LEMMA RankedApart ==
    ASSUME NEW all \in SUBSET Nat, IsFiniteSet(all),
           NEW A, NEW B, NEW a \in [A -> all], NEW b \in [B -> all]
    PROVE  /\ Own(a) => Own(Ranked(all, a))
           /\ Apart(a, b) => Apart(Ranked(all, a), Ranked(all, b))
           /\ Ranked(all, a) \in [A -> 0 .. Cardinality(all \ {0})]
           /\ \A x \in A : Ranked(all, a)[x] = 0 <=> a[x] = 0
<1>1. /\ DOMAIN Ranked(all, a) = A /\ DOMAIN Ranked(all, b) = B
      /\ \A x \in A : Ranked(all, a)[x] = Rank(all, a[x]) /\ a[x] \in all
      /\ \A x \in B : Ranked(all, b)[x] = Rank(all, b[x]) /\ b[x] \in all
  BY DEF Ranked
<1>0. /\ \A u \in all : Rank(all, u) = 0 <=> u = 0
      /\ \A u, v \in all : Rank(all, u) = Rank(all, v) => u = v
  BY RankApart
<1> DEFINE ra == Ranked(all, a)
           rb == Ranked(all, b)
<1>7. DOMAIN ra = A /\ DOMAIN rb = B /\ DOMAIN a = A /\ DOMAIN b = B
  BY <1>1
<1> HIDE DEF ra, rb
<1>2. Own(a) => Own(ra)
  <2>1. ASSUME NEW x \in A, NEW y \in A, ra[x] = ra[y] PROVE a[x] = a[y]
    <3>1. a[x] \in all /\ a[y] \in all
      BY <1>1
    <3>2. Rank(all, a[x]) = Rank(all, a[y])
      BY <1>1, <2>1 DEF ra
    <3> QED BY <1>0, <3>1, <3>2
  <2>2. \A x \in A : ra[x] = 0 <=> a[x] = 0
    BY <1>0, <1>1 DEF ra
  <2> QED BY <1>7, <2>1, <2>2 DEF Own
<1>3. Apart(a, b) => Apart(ra, rb)
  <2>1. ASSUME NEW x \in A, NEW y \in B, ra[x] = rb[y] PROVE a[x] = b[y]
    <3>1. a[x] \in all /\ b[y] \in all
      BY <1>1
    <3>2. Rank(all, a[x]) = Rank(all, b[y])
      BY <1>1, <2>1 DEF ra, rb
    <3> QED BY <1>0, <3>1, <3>2
  <2>2. \A x \in A : ra[x] = 0 <=> a[x] = 0
    BY <1>0, <1>1 DEF ra
  <2> QED BY <1>7, <2>1, <2>2 DEF Apart
<1>4. \A x \in A : Ranked(all, a)[x] = 0 <=> a[x] = 0
  BY <1>0, <1>1
<1>5. \A v \in all : Rank(all, v) \in 0 .. Cardinality(all \ {0})
  BY RankOrder
<1>6. Ranked(all, a) \in [A -> 0 .. Cardinality(all \ {0})]
  BY <1>1, <1>5 DEF Ranked
<1> QED BY <1>2, <1>3, <1>4, <1>6 DEF ra, rb

TimesInv ==
    /\ stamp \in [Files -> 0 .. Bound] /\ flushed \in [Files -> 0 .. Bound]
    /\ taken \in [Verifiers -> 0 .. Bound]
    /\ Timely(stamp, flushed, taken)

\* Renumbered times are as timely as before, within the bound, and none is lost.
LEMMA TimesStep ==
    ASSUME NEW st \in [Files -> Nat], NEW fl \in [Files -> Nat], NEW tk \in [Verifiers -> Nat],
           Timely(st, fl, tk), Times(st, fl, tk)
    PROVE  TimesInv' /\ \A f \in Files : stamp'[f] = 0 <=> st[f] = 0
<1> DEFINE all == Values(st) \cup Values(fl) \cup Values(tk)
<1>1. /\ IsFiniteSet(Values(st)) /\ IsFiniteSet(Values(fl)) /\ IsFiniteSet(Values(tk))
      /\ Cardinality(Values(st)) <= Cardinality(Files)
      /\ Cardinality(Values(fl)) <= Cardinality(Files)
      /\ Cardinality(Values(tk)) <= Cardinality(Verifiers)
      /\ Cardinality(Values(st)) \in Nat /\ Cardinality(Values(fl)) \in Nat
      /\ Cardinality(Values(tk)) \in Nat
      /\ Cardinality(Files) \in Nat /\ Cardinality(Verifiers) \in Nat
  BY FilesAssumption, BoundIs, ValuesFinite
<1>2. all \in SUBSET Nat
  BY FilesAssumption, BoundIs, ValuesFinite
<1>3. /\ IsFiniteSet(Values(st) \cup Values(fl)) /\ Cardinality(Values(st) \cup Values(fl)) \in Nat
      /\ Cardinality(Values(st) \cup Values(fl)) <= Cardinality(Values(st)) + Cardinality(Values(fl))
  BY <1>1, UnionBound
<1>4. /\ IsFiniteSet(all) /\ Cardinality(all) \in Nat
      /\ Cardinality(all) <= Cardinality(Values(st) \cup Values(fl)) + Cardinality(Values(tk))
  BY <1>1, <1>3, UnionBound
<1>5. /\ stamp' = Ranked(all, st) /\ flushed' = Ranked(all, fl) /\ taken' = Ranked(all, tk)
  BY DEF Times
<1>6. st \in [Files -> all] /\ fl \in [Files -> all] /\ tk \in [Verifiers -> all]
  BY DEF Values
<1> HIDE DEF all
<1>7. 0 .. Cardinality(all \ {0}) \subseteq 0 .. Bound
  <2>1. Cardinality(all \ {0}) <= Cardinality(all) /\ Cardinality(all \ {0}) \in Nat
    BY <1>4, FS_Subset, FS_CardinalityType
  <2> QED BY <1>1, <1>3, <1>4, <2>1, BoundIs DEF Bound
<1>8. /\ stamp' \in [Files -> 0 .. Bound] /\ flushed' \in [Files -> 0 .. Bound]
      /\ taken' \in [Verifiers -> 0 .. Bound]
  <2>1. Ranked(all, st) \in [Files -> 0 .. Cardinality(all \ {0})]
    BY <1>2, <1>4, <1>6, RankedApart
  <2>2. Ranked(all, fl) \in [Files -> 0 .. Cardinality(all \ {0})]
    BY <1>2, <1>4, <1>6, RankedApart
  <2>3. Ranked(all, tk) \in [Verifiers -> 0 .. Cardinality(all \ {0})]
    BY <1>2, <1>4, <1>6, RankedApart
  <2> QED BY <1>5, <1>7, <2>1, <2>2, <2>3
<1>9. Own(stamp') /\ Own(flushed') /\ Own(taken')
  BY <1>2, <1>4, <1>5, <1>6, RankedApart DEF Timely
<1>10. Apart(stamp', flushed') /\ Apart(stamp', taken') /\ Apart(flushed', taken')
  BY <1>2, <1>4, <1>5, <1>6, RankedApart DEF Timely
<1>11. \A f \in Files : stamp'[f] = 0 <=> st[f] = 0
  <2>1. \A f \in Files : Ranked(all, st)[f] = 0 <=> st[f] = 0
    BY <1>2, <1>4, <1>6, RankedApart
  <2> QED BY <1>5, <2>1
<1>12. TimesInv'
  BY <1>8, <1>9, <1>10 DEF TimesInv, Timely, Own, Apart
<1> QED BY <1>11, <1>12

------------------------------------------------------------------------------
(***************************************************************************)
(* Taking a time, moving it and dropping it.                               *)
(***************************************************************************)

\* A time that is in no other place can be put anywhere.
LEMMA PutOwn ==
    ASSUME NEW A, NEW a \in [A -> Nat], NEW z \in A, NEW t \in Nat, Own(a),
           t = 0 \/ \A x \in A : x # z => a[x] # t
    PROVE  /\ [a EXCEPT ![z] = t] \in [A -> Nat]
           /\ Own([a EXCEPT ![z] = t])
BY DEF Own

LEMMA PutApart ==
    ASSUME NEW A, NEW B, NEW a \in [A -> Nat], NEW b \in [B -> Nat], NEW z \in A, NEW t \in Nat,
           Apart(a, b) \/ Apart(b, a), t = 0 \/ \A y \in B : b[y] # t
    PROVE  Apart([a EXCEPT ![z] = t], b) /\ Apart(b, [a EXCEPT ![z] = t])
BY DEF Apart

\* The types of the times, and that there is none from now on.
LEMMA TimesType ==
    ASSUME TimesInv
    PROVE  /\ stamp \in [Files -> Nat] /\ flushed \in [Files -> Nat] /\ taken \in [Verifiers -> Nat]
           /\ \A f \in Files : stamp[f] # Now /\ flushed[f] # Now
           /\ \A v \in Verifiers : taken[v] # Now
           /\ Timely(stamp, flushed, taken)
BY BoundIs DEF TimesInv

\* A session takes the time.
LEMMA TakesTimeStep ==
    ASSUME TimesInv, NEW v \in Verifiers, TakesTime(v)
    PROVE  TimesInv' /\ \A f \in Files : stamp'[f] = 0 <=> stamp[f] = 0
<1> DEFINE tk == [taken EXCEPT ![v] = Now]
<1>1. tk \in [Verifiers -> Nat] /\ Own(tk)
  BY TimesType, BoundIs, PutOwn DEF Timely
<1>2. Apart(stamp, tk)
  BY TimesType, BoundIs, PutApart DEF Timely
<1>3. Apart(flushed, tk)
  BY TimesType, BoundIs, PutApart DEF Timely
<1>4. Timely(stamp, flushed, tk)
  BY <1>1, <1>2, <1>3, TimesType DEF Timely
<1> QED BY <1>1, <1>4, TimesType, TimesStep DEF TakesTime

\* A session drops the time it has taken.
LEMMA DropTimely ==
    ASSUME NEW st \in [Files -> Nat], NEW fl \in [Files -> Nat], NEW tk \in [Verifiers -> Nat],
           NEW v \in Verifiers, Timely(st, fl, tk)
    PROVE  /\ [tk EXCEPT ![v] = 0] \in [Verifiers -> Nat]
           /\ Timely(st, fl, [tk EXCEPT ![v] = 0])
<1>1. [tk EXCEPT ![v] = 0] \in [Verifiers -> Nat] /\ Own([tk EXCEPT ![v] = 0])
  BY PutOwn DEF Timely
<1>2. Apart(st, [tk EXCEPT ![v] = 0])
  BY PutApart DEF Timely
<1>3. Apart(fl, [tk EXCEPT ![v] = 0])
  BY PutApart DEF Timely
<1> QED BY <1>1, <1>2, <1>3 DEF Timely

\* A session flushes the time it has taken: the cycle, or a request that commits.
LEMMA MoveTimely ==
    ASSUME TimesInv, NEW v \in Verifiers, NEW f \in Files, taken[v] # 0
    PROVE  LET tk == [taken EXCEPT ![v] = 0] IN
           /\ tk \in [Verifiers -> Nat]
           /\ [stamp EXCEPT ![f] = taken[v]] \in [Files -> Nat]
           /\ [flushed EXCEPT ![f] = taken[v]] \in [Files -> Nat]
           /\ Timely([stamp EXCEPT ![f] = taken[v]], flushed, tk)
           /\ Timely(stamp, [flushed EXCEPT ![f] = taken[v]], tk)
<1> DEFINE tk == [taken EXCEPT ![v] = 0]
           t  == taken[v]
           st == [stamp EXCEPT ![f] = t]
           fl == [flushed EXCEPT ![f] = t]
<1>1. tk \in [Verifiers -> Nat] /\ t \in Nat /\ t # 0 /\ Timely(stamp, flushed, tk)
  BY TimesType, DropTimely
<1>2. \A w \in Verifiers : tk[w] # t
  BY TimesType DEF Timely, Own
<1>3. \A g \in Files : stamp[g] # t /\ flushed[g] # t
  BY TimesType DEF Timely, Apart
<1> HIDE DEF tk, t
<1>4. st \in [Files -> Nat] /\ Own(st)
  <2>1. stamp \in [Files -> Nat] /\ Own(stamp) /\ \A x \in Files : x # f => stamp[x] # t
    BY <1>3, TimesType DEF Timely
  <2> QED BY <1>1, <2>1, PutOwn
<1>5. Apart(st, flushed)
  BY <1>1, <1>3, TimesType, PutApart DEF Timely
<1>6. Apart(st, tk)
  BY <1>1, <1>2, TimesType, PutApart DEF Timely
<1>7. fl \in [Files -> Nat] /\ Own(fl)
  BY <1>1, <1>3, TimesType, PutOwn DEF Timely
<1>8. Apart(stamp, fl)
  BY <1>1, <1>3, TimesType, PutApart DEF Timely
<1>9. Apart(fl, tk)
  BY <1>1, <1>2, TimesType, PutApart DEF Timely
<1>10. Timely(st, flushed, tk) /\ Timely(stamp, fl, tk)
  BY <1>1, <1>4, <1>5, <1>6, <1>7, <1>8, <1>9 DEF Timely
<1> QED BY <1>1, <1>4, <1>7, <1>10 DEF tk, t

\* The cycle commits what it has flushed, or nothing.
LEMMA PublishTimely ==
    ASSUME TimesInv, NEW tk \in [Verifiers -> Nat], Timely(stamp, flushed, tk)
    PROVE  LET st == [f \in Files |-> IF flushed[f] # 0 THEN flushed[f] ELSE stamp[f]] IN
           /\ NoStamps \in [Files -> Nat] /\ st \in [Files -> Nat]
           /\ Timely(stamp, NoStamps, tk) /\ Timely(st, NoStamps, tk)
<1> DEFINE st == [f \in Files |-> IF flushed[f] # 0 THEN flushed[f] ELSE stamp[f]]
<1>1. st \in [Files -> Nat] /\ NoStamps \in [Files -> Nat] /\ \A f \in Files : NoStamps[f] = 0
  BY TimesType DEF NoStamps
<1>2. Own(st)
  BY TimesType DEF Timely, Own, Apart
<1>3. Apart(st, tk)
  BY TimesType DEF Timely, Apart
<1>4. Own(NoStamps)
  BY <1>1 DEF Own
<1>5. Apart(NoStamps, tk)
  BY <1>1 DEF Apart
<1>6. Apart(stamp, NoStamps)
  BY <1>1, TimesType DEF Apart
<1> HIDE DEF st
<1>7. Apart(st, NoStamps)
  BY <1>1 DEF Apart
<1>8. Timely(stamp, NoStamps, tk) /\ Timely(st, NoStamps, tk)
  BY <1>2, <1>3, <1>4, <1>5, <1>6, <1>7 DEF Timely
<1> QED BY <1>1, <1>8 DEF st

------------------------------------------------------------------------------
(***************************************************************************)
(* The invariant.                                                          *)
(***************************************************************************)

\* The types, without the times.
StateInv ==
    /\ process \in {"down", "serving"} /\ db \in {"up", "down"}
    /\ schema \in {"old", "current"} /\ redis \in {"none", "up", "down"}
    /\ row \in [Files -> {"absent", "active", "deleted"}]
    /\ request \in [Sessions -> Loaded \cup {Idle}]
    /\ worker \in {"asleep", "auditing", "healing"}
    /\ todo \in Seq(Files)
    /\ audited \subseteq Files /\ unhandled \subseteq Files
    \* A repair is the repair of a file.
    /\ worker = "healing" => todo # <<>>

WorkerInv ==
    /\ StateInv /\ TimesInv
    /\ \A f \in Files : row[f] = "absent" => stamp[f] = 0

\* The types follow: no time is stored twice.
LEMMA InvType == WorkerInv => TypeOK
<1> SUFFICES ASSUME WorkerInv PROVE TypeOK
  OBVIOUS
<1>1. \A f, g \in Files : f # g /\ stamp[f] = stamp[g] => stamp[f] = 0
  BY TimesType DEF WorkerInv, Timely, Own
<1> QED BY <1>1, TimesType DEF WorkerInv, StateInv, TypeOK

\* The invariant holds before the process has started.
LEMMA InitInv == Init => WorkerInv
<1> SUFFICES ASSUME Init PROVE WorkerInv
  OBVIOUS
<1>1. /\ NoStamps \in [Files -> 0 .. Bound] /\ NoTimes \in [Verifiers -> 0 .. Bound]
      /\ (\A f \in Files : NoStamps[f] = 0) /\ (\A v \in Verifiers : NoTimes[v] = 0)
  BY BoundIs DEF NoStamps, NoTimes
<1>2. Timely(NoStamps, NoStamps, NoTimes)
  BY <1>1 DEF Timely, Own, Apart
<1>3. TimesInv
  BY <1>1, <1>2 DEF Init, TimesInv
<1>4. StateInv
  BY DEF Init, StateInv
<1> QED BY <1>1, <1>3, <1>4 DEF Init, WorkerInv

\* A step that takes no time.
LEMMA QuietStep ==
    ASSUME WorkerInv, UNCHANGED times, StateInv',
           \A f \in Files : row'[f] = "absent" => row[f] = "absent"
    PROVE  WorkerInv'
BY DEF WorkerInv, TimesInv, times, Timely, Own, Apart

\* A step that renumbers the times it is given.
LEMMA TimedStep ==
    ASSUME WorkerInv, StateInv',
           NEW st \in [Files -> Nat], NEW fl \in [Files -> Nat], NEW tk \in [Verifiers -> Nat],
           Timely(st, fl, tk), Times(st, fl, tk),
           \A f \in Files : row'[f] = "absent" => row[f] = "absent" /\ st[f] = stamp[f]
    PROVE  WorkerInv'
<1>1. TimesInv' /\ \A f \in Files : stamp'[f] = 0 <=> st[f] = 0
  BY TimesStep
<1> QED BY <1>1 DEF WorkerInv

\* What remains of a cycle's list when its first file is done with.
LEMMA Remaining ==
    ASSUME StateInv, todo # <<>>
    PROVE  Head(todo) \in Files /\ Tail(todo) \in Seq(Files)
BY DEF StateInv

------------------------------------------------------------------------------
(***************************************************************************)
(* The requests and the process.                                           *)
(***************************************************************************)

\* A request to verify loads the row, takes the time, and commits both or fails.
LEMMA RequestStep ==
    ASSUME WorkerInv, NEW s \in Sessions,
           \/ \E f \in Files : VerifyBegin(s, f)
           \/ VerifyTimed(s) \/ VerifyCommit(s) \/ VerifyFails(s)
    PROVE  WorkerInv'
<1>0. s \in Verifiers /\ StateInv /\ TimesInv
  BY BoundIs DEF WorkerInv
<1>1. ASSUME NEW f \in Files, VerifyBegin(s, f) PROVE WorkerInv'
  <2>1. row[f] \in {"active", "deleted"}
    BY <1>0, <1>1 DEF VerifyBegin, StateInv
  <2>2. StateInv'
    BY <1>0, <1>1, <2>1 DEF VerifyBegin, StateInv, Loaded, history
  <2> QED BY <1>1, <2>2, QuietStep DEF VerifyBegin
<1>2. CASE VerifyTimed(s)
  <2>1. StateInv'
    BY <1>0, <1>2 DEF VerifyTimed, StateInv, history
  <2>2. TimesInv' /\ \A f \in Files : stamp'[f] = 0 <=> stamp[f] = 0
    BY <1>0, <1>2, TakesTimeStep DEF VerifyTimed
  <2> QED BY <1>2, <2>1, <2>2 DEF VerifyTimed, WorkerInv
<1>3. CASE VerifyCommit(s)
  <2> DEFINE f  == request[s].file
             tk == [taken EXCEPT ![s] = 0]
             st == [stamp EXCEPT ![f] = taken[s]]
  <2>1. request[s] \in Loaded
    BY <1>0, <1>3 DEF VerifyCommit, StateInv
  <2>2. f \in Files /\ request[s].row \in {"active", "deleted"}
    BY <2>1 DEF Loaded
  <2>3. /\ row' = [row EXCEPT ![f] = request[s].row]
        /\ request' = [request EXCEPT ![s] = Idle]
        /\ audited' = audited \cup {f}
        /\ UNCHANGED <<process, db, schema, redis, worker, todo, unhandled>>
        /\ Times(st, flushed, tk) /\ taken[s] # 0
    BY <1>3 DEF VerifyCommit
  <2> HIDE DEF f
  <2>4. StateInv'
    BY <1>0, <2>2, <2>3 DEF StateInv
  <2>5. /\ tk \in [Verifiers -> Nat] /\ st \in [Files -> Nat] /\ Timely(st, flushed, tk)
    BY <1>0, <2>2, <2>3, MoveTimely
  <2>6. flushed \in [Files -> Nat] /\ stamp \in [Files -> Nat]
    BY <1>0, TimesType
  <2>7. \A g \in Files : row'[g] = "absent" => row[g] = "absent" /\ st[g] = stamp[g]
    BY <1>0, <2>2, <2>3, <2>6 DEF StateInv
  <2> HIDE DEF st, tk
  <2> QED BY <2>3, <2>4, <2>5, <2>6, <2>7, TimedStep
<1>4. CASE VerifyFails(s)
  <2> DEFINE tk == [taken EXCEPT ![s] = 0]
  <2>1. /\ request' = [request EXCEPT ![s] = Idle]
        /\ UNCHANGED <<process, db, schema, redis, row, worker, todo, history>>
        /\ Times(stamp, flushed, tk)
    BY <1>4 DEF VerifyFails
  <2>2. StateInv'
    BY <1>0, <2>1 DEF StateInv, history
  <2>3. stamp \in [Files -> Nat] /\ flushed \in [Files -> Nat] /\ taken \in [Verifiers -> Nat]
        /\ Timely(stamp, flushed, taken)
    BY <1>0, TimesType
  <2>4. tk \in [Verifiers -> Nat] /\ Timely(stamp, flushed, tk)
    BY <1>0, <2>3, DropTimely
  <2> HIDE DEF tk
  <2> QED BY <2>1, <2>2, <2>3, <2>4, TimedStep
<1> QED BY <1>1, <1>2, <1>3, <1>4

\* The process stops: its sessions are rolled back.
LEMMA ShutdownStep == WorkerInv /\ Shutdown => WorkerInv'
<1> SUFFICES ASSUME WorkerInv, Shutdown PROVE WorkerInv'
  OBVIOUS
<1>1. StateInv'
  BY DEF WorkerInv, Shutdown, StateInv, history
<1>2. NoTimes \in [Verifiers -> Nat] /\ \A v \in Verifiers : NoTimes[v] = 0
  BY DEF NoTimes
<1>3. Timely(stamp, flushed, NoTimes)
  BY <1>2, TimesType DEF WorkerInv, Timely, Own, Apart
<1>4. Timely(stamp, NoStamps, NoTimes) /\ NoStamps \in [Files -> Nat]
  BY <1>2, <1>3, PublishTimely DEF WorkerInv
<1>5. stamp \in [Files -> Nat]
  BY TimesType DEF WorkerInv
<1> QED BY <1>1, <1>2, <1>4, <1>5, TimedStep DEF Shutdown

------------------------------------------------------------------------------
(***************************************************************************)
(* The cycle.                                                              *)
(***************************************************************************)

\* The cycle verifies files that are stored, or it does not begin.
LEMMA CycleStartStep == WorkerInv /\ CycleStart => WorkerInv'
<1> SUFFICES ASSUME WorkerInv, CycleStart PROVE WorkerInv'
  OBVIOUS
<1>0. StateInv
  BY DEF WorkerInv
<1>1. /\ UNCHANGED <<process, db, schema, redis, row, stamp, request, taken, unhandled>>
      /\ audited' = {}
  BY DEF CycleStart
<1>2. CASE UNCHANGED cycle
  <2>1. StateInv'
    BY <1>0, <1>1, <1>2 DEF StateInv, cycle
  <2> QED BY <1>1, <1>2, <2>1, QuietStep DEF cycle, times
<1>3. CASE \E w \in Windows :
             /\ \E q \in Orders(Candidates(w)) : todo' = First(q)
             /\ worker' = "auditing" /\ UNCHANGED flushed
  <2>0. PICK w \in Windows : \E q \in Orders(Candidates(w)) : todo' = First(q)
    BY <1>3
  <2>1. PICK q \in Orders(Candidates(w)) : todo' = First(q)
    BY <2>0
  <2>2. worker' = "auditing" /\ flushed' = flushed
    BY <1>3
  <2>3. Candidates(w) \in SUBSET Files
    BY <2>0 DEF Windows, Stored, Candidates
  <2>4. Cardinality(Candidates(w)) \in Nat
    BY FilesAssumption, <2>3, FS_Subset, FS_CardinalityType
  <2>5. q \in [1 .. Cardinality(Candidates(w)) -> Candidates(w)]
    BY <2>1 DEF Orders
  <2>6. q \in Seq(Candidates(w))
    BY <2>4, <2>5
  <2>7. First(q) \in Seq(Candidates(w))
    BY LimitAssumption, <2>6 DEF First
  <2>8. todo' \in Seq(Files)
    BY <2>1, <2>3, <2>7
  <2>9. StateInv'
    BY <1>0, <1>1, <2>2, <2>8 DEF StateInv
  <2> QED BY <1>1, <2>2, <2>9, QuietStep DEF times
<1> QED BY <1>2, <1>3 DEF CycleStart

\* The cycle takes the time and flushes it.
LEMMA AuditStep == WorkerInv /\ (AuditTimed \/ AuditFlushed) => WorkerInv'
<1> SUFFICES ASSUME WorkerInv, AuditTimed \/ AuditFlushed PROVE WorkerInv'
  OBVIOUS
<1>0. Worker \in Verifiers /\ StateInv /\ TimesInv
  BY BoundIs DEF WorkerInv
<1>1. CASE AuditTimed
  <2>1. StateInv'
    BY <1>0, <1>1 DEF AuditTimed, StateInv, history
  <2>2. TimesInv' /\ \A f \in Files : stamp'[f] = 0 <=> stamp[f] = 0
    BY <1>0, <1>1, TakesTimeStep DEF AuditTimed
  <2> QED BY <1>1, <2>1, <2>2 DEF AuditTimed, WorkerInv
<1>2. CASE AuditFlushed
  <2> DEFINE f  == Head(todo)
             fl == [flushed EXCEPT ![f] = taken[Worker]]
             tk == [taken EXCEPT ![Worker] = 0]
  <2>1. todo # <<>> /\ f \in Files /\ Tail(todo) \in Seq(Files)
    BY <1>0, <1>2, Remaining DEF AuditFlushed
  <2>2. /\ worker' \in {"auditing", "healing"} /\ (todo' = Tail(todo) \/ todo' = todo)
        /\ worker' = "healing" => todo' = todo
        /\ unhandled' \subseteq unhandled \cup {f}
        /\ UNCHANGED <<process, db, schema, redis, row, request, audited>>
        /\ Times(stamp, fl, tk) /\ taken[Worker] # 0
    BY <1>2 DEF AuditFlushed
  <2> HIDE DEF f
  <2>3. StateInv'
    BY <1>0, <2>1, <2>2 DEF StateInv
  <2>4. tk \in [Verifiers -> Nat] /\ fl \in [Files -> Nat] /\ Timely(stamp, fl, tk)
    BY <1>0, <2>1, <2>2, MoveTimely
  <2>5. stamp \in [Files -> Nat]
    BY <1>0, TimesType
  <2> HIDE DEF fl, tk
  <2> QED BY <2>2, <2>3, <2>4, <2>5, TimedStep
<1> QED BY <1>1, <1>2

\* A repair takes the time again, or fails.
LEMMA AuditHealedStep == WorkerInv /\ AuditHealed => WorkerInv'
<1> SUFFICES ASSUME WorkerInv, AuditHealed PROVE WorkerInv'
  OBVIOUS
<1> DEFINE f  == Head(todo)
           fl == [flushed EXCEPT ![f] = Now]
<1>0. StateInv /\ TimesInv /\ todo # <<>>
  BY DEF WorkerInv, StateInv, AuditHealed
<1>1. f \in Files /\ Tail(todo) \in Seq(Files)
  BY <1>0, Remaining
<1>2. /\ Times(stamp, fl, taken) \/ UNCHANGED times
      /\ worker' = "auditing" /\ todo' = Tail(todo) /\ unhandled' = unhandled \ {f}
      /\ UNCHANGED <<process, db, schema, redis, row, request, audited>>
  BY DEF AuditHealed
<1> HIDE DEF f
<1>3. StateInv'
  BY <1>0, <1>1, <1>2 DEF StateInv
<1>4. /\ stamp \in [Files -> Nat] /\ flushed \in [Files -> Nat] /\ taken \in [Verifiers -> Nat]
      /\ Timely(stamp, flushed, taken) /\ Now \in Nat
      /\ (\A g \in Files : stamp[g] # Now /\ flushed[g] # Now)
      /\ (\A v \in Verifiers : taken[v] # Now)
  BY <1>0, BoundIs, TimesType
<1>5. fl \in [Files -> Nat] /\ Own(fl)
  <2>1. Own(flushed) /\ \A g \in Files : g # f => flushed[g] # Now
    BY <1>4 DEF Timely
  <2>2. f \in Files /\ Now \in Nat /\ flushed \in [Files -> Nat]
    BY <1>1, <1>4
  <2> HIDE DEF fl
  <2>3. [flushed EXCEPT ![f] = Now] \in [Files -> Nat] /\ Own([flushed EXCEPT ![f] = Now])
    BY <2>1, <2>2, PutOwn
  <2> QED BY <2>3 DEF fl
<1>6. Apart(stamp, fl)
  BY <1>1, <1>4, PutApart DEF Timely
<1>7. Apart(fl, taken)
  BY <1>1, <1>4, PutApart DEF Timely
<1> HIDE DEF fl
<1>8. Timely(stamp, fl, taken)
  BY <1>4, <1>5, <1>6, <1>7 DEF Timely
<1>9. CASE Times(stamp, fl, taken)
  BY <1>2, <1>3, <1>4, <1>5, <1>8, <1>9, TimedStep
<1>10. CASE UNCHANGED times
  BY <1>2, <1>3, <1>10, QuietStep
<1> QED BY <1>2, <1>9, <1>10

\* The cycle ends: with a commit of what it flushed, or without.
LEMMA EndStep == WorkerInv /\ (CycleCommit \/ CycleFails) => WorkerInv'
<1> SUFFICES ASSUME WorkerInv, CycleCommit \/ CycleFails PROVE WorkerInv'
  OBVIOUS
<1> DEFINE tk == [taken EXCEPT ![Worker] = 0]
           st == [f \in Files |-> IF flushed[f] # 0 THEN flushed[f] ELSE stamp[f]]
<1>0. StateInv /\ TimesInv /\ Worker \in Verifiers /\ stamp \in [Files -> Nat]
  BY BoundIs, TimesType DEF WorkerInv
<1>1. tk \in [Verifiers -> Nat] /\ Timely(stamp, flushed, tk)
  BY <1>0, TimesType, DropTimely
<1> HIDE DEF tk
<1>2. /\ NoStamps \in [Files -> Nat] /\ st \in [Files -> Nat]
      /\ Timely(stamp, NoStamps, tk) /\ Timely(st, NoStamps, tk)
  BY <1>0, <1>1, PublishTimely
<1>3. CASE CycleCommit
  <2>1. /\ Times(st, NoStamps, tk) /\ worker' = "asleep" /\ todo' = <<>>
        /\ row' = [f \in Files |-> IF flushed[f] # 0 THEN "active" ELSE row[f]]
        /\ audited' = {f \in Files : flushed[f] # 0}
        /\ UNCHANGED <<process, db, schema, redis, request, unhandled>>
    BY <1>3 DEF CycleCommit, Ends, tk
  <2>2. StateInv'
    BY <1>0, <2>1 DEF StateInv
  <2>3. \A f \in Files : row'[f] = "absent" => row[f] = "absent" /\ st[f] = stamp[f]
    BY <2>1
  <2> HIDE DEF st
  <2> QED BY <1>1, <1>2, <2>1, <2>2, <2>3, TimedStep
<1>4. CASE CycleFails
  <2>1. /\ Times(stamp, NoStamps, tk) /\ worker' = "asleep" /\ todo' = <<>>
        /\ UNCHANGED <<process, db, schema, redis, row, request, history>>
    BY <1>4 DEF CycleFails, Ends, tk
  <2>2. StateInv'
    BY <1>0, <2>1 DEF StateInv, history
  <2> QED BY <1>0, <1>1, <1>2, <2>1, <2>2, TimedStep
<1> QED BY <1>3, <1>4

------------------------------------------------------------------------------
(***************************************************************************)
(* The theorem.                                                            *)
(***************************************************************************)

\* Every step keeps the invariant.
LEMMA WorkerStep == WorkerInv /\ [Next]_vars => WorkerInv'
<1> SUFFICES ASSUME WorkerInv, [Next]_vars PROVE WorkerInv'
  OBVIOUS
<1>0. StateInv
  BY DEF WorkerInv
<1>1. CASE Startup
  <2>1. StateInv'
    BY <1>0, <1>1 DEF Startup, StateInv, cycle, history
  <2> QED BY <1>1, <2>1, QuietStep DEF Startup, cycle, times
<1>2. CASE Shutdown
  BY <1>2, ShutdownStep
<1>3. CASE DatabaseFlips
  <2>1. StateInv'
    BY <1>0, <1>3 DEF DatabaseFlips, StateInv, cycle, history
  <2> QED BY <1>3, <2>1, QuietStep DEF DatabaseFlips, cycle, times
<1>4. CASE RedisFlips
  <2>1. StateInv'
    BY <1>0, <1>4 DEF RedisFlips, StateInv, cycle, history
  <2> QED BY <1>4, <2>1, QuietStep DEF RedisFlips, cycle, times
<1>5. ASSUME NEW f \in Files, Upload(f) PROVE WorkerInv'
  <2>1. StateInv'
    BY <1>0, <1>5 DEF Upload, StateInv, cycle, history
  <2>2. \A g \in Files : row'[g] = "absent" => row[g] = "absent"
    BY <1>0, <1>5 DEF Upload, StateInv
  <2> QED BY <1>5, <2>1, <2>2, QuietStep DEF Upload, cycle, times
<1>6. ASSUME NEW f \in Files, Delete(f) PROVE WorkerInv'
  <2>1. StateInv'
    BY <1>0, <1>6 DEF Delete, StateInv, cycle, history
  <2>2. \A g \in Files : row'[g] = "absent" => row[g] = "absent"
    BY <1>0, <1>6 DEF Delete, StateInv
  <2> QED BY <1>6, <2>1, <2>2, QuietStep DEF Delete, cycle, times
<1>7. ASSUME NEW s \in Sessions,
             \/ \E f \in Files : VerifyBegin(s, f)
             \/ VerifyTimed(s) \/ VerifyCommit(s) \/ VerifyFails(s)
      PROVE  WorkerInv'
  BY <1>7, RequestStep
<1>8. CASE CycleStart
  BY <1>8, CycleStartStep
<1>9. CASE AuditTimed \/ AuditFlushed
  BY <1>9, AuditStep
<1>10. CASE AuditHealed
  BY <1>10, AuditHealedStep
<1>11. CASE CycleCommit \/ CycleFails
  BY <1>11, EndStep
<1>12. CASE UNCHANGED vars
  <2>1. StateInv'
    BY <1>0, <1>12 DEF vars, StateInv, cycle, history
  <2> QED BY <1>12, <2>1, QuietStep DEF vars, cycle, times
<1> QED BY <1>1, <1>2, <1>3, <1>4, <1>5, <1>6, <1>7, <1>8, <1>9, <1>10, <1>11, <1>12 DEF Next

\* The invariant holds in every behaviour.
LEMMA WorkerInvariance == Spec => []WorkerInv
BY InitInv, WorkerStep, PTL DEF Spec

\* Type correctness: no two files have the same time, however the requests and the cycle
\* take, flush and commit theirs, and what is not stored has none.
THEOREM TypeCorrect == Spec => []TypeOK
BY InvType, WorkerInvariance, PTL

------------------------------------------------------------------------------
(***************************************************************************)
(* Bursts.                                                                 *)
(***************************************************************************)

USE ShredderAssumption, TransferAssumption

------------------------------------------------------------------------------
(***************************************************************************)
(* Decoding.                                                               *)
(***************************************************************************)

\* A file has a number of fragments, and its parities behind them.
LEMMA ChunksNat == \A size \in Nat : Chunks(size) \in Nat
<1> SUFFICES ASSUME NEW size \in Nat PROVE Chunks(size) \in Nat
  OBVIOUS
<1>1. size + ChunkSize - 1 \in Nat /\ ChunkSize \in Nat /\ ChunkSize > 0
  OBVIOUS
<1> QED BY <1>1 DEF Chunks

\* The parities come behind the data, at least one of them.
LEMMA TotalIs ==
    ASSUME NEW m \in Nat
    PROVE  /\ Parities(m) = (IF XorCoded(m) THEN 1 ELSE ParityShards)
           /\ Parities(m) \in Nat /\ Parities(m) > 0
           /\ Total(m) = m + Parities(m) /\ Total(m) \in Nat /\ Total(m) > m
BY DEF Total, Parities

\* Decoding comes to one of three ends.
LEMMA DecodeEnds ==
    \A m, data, parities : Decode(m, data, parities) \subseteq {"right", "wrong", "raises"}
<1>1. \A m, data, parities : XorDecode(m, data, parities) \subseteq {"right", "wrong", "raises"}
  BY DEF XorDecode
<1>2. \A m, data, parities : RSDecode(m, data, parities) \subseteq {"right", "wrong", "raises"}
  BY DEF RSDecode
<1> QED BY <1>1, <1>2 DEF Decode

\* Every fragment that is there is in its place.
Sound(m, list) == list \in [1 .. Total(m) -> Int] /\ \A i \in 1 .. Total(m) : list[i] \in {i - 1, Missing}

\* How long a sound list is.
LEMMA SoundIs ==
    ASSUME NEW m \in Nat, NEW list, Sound(m, list)
    PROVE  /\ Total(m) \in Nat /\ m < Total(m) /\ Total(m) - m = Parities(m)
           /\ XorCoded(m) => Total(m) = m + 1 /\ Total(m) - m = 1
           /\ list \in [1 .. Total(m) -> Int]
           /\ \A i \in 1 .. Total(m) : list[i] = i - 1 \/ list[i] = Missing
<1>1. /\ Parities(m) \in Nat /\ Parities(m) > 0 /\ Total(m) = m + Parities(m)
      /\ XorCoded(m) => Parities(m) = 1
  BY TotalIs
<1>2. Total(m) \in Nat /\ m < Total(m) /\ Total(m) - m = Parities(m)
  BY <1>1
<1>3. XorCoded(m) => Total(m) = m + 1 /\ Total(m) - m = 1
  BY <1>1
<1> QED BY <1>2, <1>3 DEF Sound

\* The holes of a sound list can be counted.
LEMMA HolesFinite ==
    ASSUME NEW m \in Nat, NEW list, Sound(m, list)
    PROVE  /\ Holes(list) \subseteq 1 .. Total(m) /\ IsFiniteSet(Holes(list))
           /\ Cardinality(Holes(list)) \in Nat
<1>1. Holes(list) \in SUBSET (1 .. Total(m))
  BY DEF Holes, Sound
<1>2. IsFiniteSet(1 .. Total(m))
  BY TotalIs, FS_Interval
<1> QED BY <1>1, <1>2, FS_Subset, FS_CardinalityType

\* A list taken apart after the data.
LEMMA TakenApart ==
    ASSUME NEW m \in Nat, NEW t \in Nat, m < t, NEW list \in [1 .. t -> Int]
    PROVE  LET data == SubSeq(list, 1, m)  parities == SubSeq(list, m + 1, t) IN
           /\ data \in Seq(Int) /\ Len(data) = m /\ \A i \in 1 .. m : data[i] = list[i]
           /\ DOMAIN data = 1 .. m
           /\ parities \in Seq(Int) /\ Len(parities) = t - m
           /\ \A i \in 1 .. t - m : parities[i] = list[m + i]
           /\ data \o parities = list
<1> DEFINE data == SubSeq(list, 1, m)
           parities == SubSeq(list, m + 1, t)
<1>1. list \in Seq(Int) /\ Len(list) = t
  BY SeqDef
<1>2. data \in Seq(Int) /\ Len(data) = m /\ \A i \in 1 .. m : data[i] = list[i]
  <2>1. \A i \in 1 .. m : list[i] \in Int
    OBVIOUS
  <2>2. /\ data \in Seq(Int) /\ Len(data) = IF 1 <= m THEN m - 1 + 1 ELSE 0
        /\ \A i \in 1 .. m - 1 + 1 : data[i] = list[1 + i - 1]
    BY <2>1, SubSeqProperties
  <2> QED BY <2>2
<1>3. /\ parities \in Seq(Int) /\ Len(parities) = t - m
      /\ \A i \in 1 .. t - m : parities[i] = list[m + i]
  <2>1. \A i \in m + 1 .. t : list[i] \in Int
    OBVIOUS
  <2>2. /\ parities \in Seq(Int) /\ Len(parities) = IF m + 1 <= t THEN t - (m + 1) + 1 ELSE 0
        /\ \A i \in 1 .. t - (m + 1) + 1 : parities[i] = list[(m + 1) + i - 1]
    BY <2>1, SubSeqProperties
  <2>3. t - (m + 1) + 1 = t - m /\ \A i \in 1 .. t - m : (m + 1) + i - 1 = m + i
    OBVIOUS
  <2> QED BY <2>2, <2>3
<1> HIDE DEF data, parities
<1>4. data \o parities = list
  <2>1. /\ data \o parities \in Seq(Int) /\ Len(data \o parities) = m + (t - m)
        /\ \A i \in 1 .. m + (t - m) :
              (data \o parities)[i] = IF i <= m THEN data[i] ELSE parities[i - m]
    <3>1. Len(data) = m /\ Len(parities) = t - m /\ data \in Seq(Int) /\ parities \in Seq(Int)
      BY <1>2, <1>3
    <3>2. /\ data \o parities \in Seq(Int) /\ Len(data \o parities) = Len(data) + Len(parities)
          /\ \A i \in 1 .. Len(data) + Len(parities) :
                (data \o parities)[i] = IF i <= Len(data) THEN data[i] ELSE parities[i - Len(data)]
      BY <3>1, ConcatProperties
    <3> QED BY <3>1, <3>2
  <2>2. \A i \in 1 .. t : (data \o parities)[i] = list[i]
    <3> TAKE i \in 1 .. t
    <3>1. CASE i <= m
      BY <1>2, <2>1, <3>1
    <3>2. CASE ~ (i <= m)
      <4>1. i - m \in 1 .. t - m /\ m + (i - m) = i
        BY <3>2
      <4> QED BY <1>3, <2>1, <3>2, <4>1
    <3> QED BY <3>1, <3>2
  <2>3. Len(data \o parities) = Len(list)
    BY <1>1, <2>1
  <2> QED BY <1>1, <2>1, <2>2, <2>3, SeqEqual
<1>5. DOMAIN data = 1 .. m
  BY <1>2, LenProperties
<1> QED BY <1>2, <1>3, <1>4, <1>5 DEF data, parities

\* A block that is too long, with one parity: nothing wrong, and one hole is mended.
LEMMA XorSound ==
    ASSUME NEW m \in Nat, NEW list, Sound(m, list), XorCoded(m)
    PROVE  LET result == XorDecode(m, SubSeq(list, 1, m), SubSeq(list, m + 1, Total(m))) IN
           /\ "wrong" \notin result
           /\ Cardinality(Holes(list)) <= 1 => result = {"right"}
<1> DEFINE data == SubSeq(list, 1, m)
           parities == SubSeq(list, m + 1, Total(m))
           parity == IF parities = <<>> THEN Missing ELSE parities[1]
<1>1. /\ data \in Seq(Int) /\ Len(data) = m /\ \A i \in 1 .. m : data[i] = list[i]
      /\ parities \in Seq(Int) /\ Len(parities) = 1 /\ parities[1] = list[m + 1] /\ m + 1 \in 1 .. Total(m)
      /\ DOMAIN data = 1 .. m
  <2>1. Total(m) \in Nat /\ m < Total(m) /\ Total(m) - m = 1 /\ list \in [1 .. Total(m) -> Int]
    BY SoundIs
  <2>2. /\ data \in Seq(Int) /\ Len(data) = m /\ \A i \in 1 .. m : data[i] = list[i]
        /\ DOMAIN data = 1 .. m
        /\ parities \in Seq(Int) /\ Len(parities) = Total(m) - m
        /\ \A i \in 1 .. Total(m) - m : parities[i] = list[m + i]
    BY <2>1, TakenApart
  <2> HIDE DEF data, parities
  <2> QED BY <2>1, <2>2
<1> HIDE DEF data, parities
<1>2. parity = list[m + 1] /\ parity \in {m, Missing}
  <2>1. parities # <<>>
    <3>1. Len(<<>>) = 0 /\ Len(parities) = 1
      BY <1>1
    <3> QED BY <3>1
  <2>2. list[m + 1] \in {(m + 1) - 1, Missing} /\ (m + 1) - 1 = m
    BY <1>1 DEF Sound
  <2> QED BY <1>1, <2>1, <2>2
<1>3. /\ Total(m) = m + 1 /\ list \in [1 .. Total(m) -> Int]
      /\ \A i \in 1 .. m : i \in 1 .. Total(m) /\ (list[i] = i - 1 \/ list[i] = Missing)
  BY SoundIs
<1>4. InPlace(m, data)
  BY <1>1, <1>3 DEF InPlace
<1>5. Holes(data) \subseteq Holes(list) /\ (parity = Missing => m + 1 \in Holes(list) \ Holes(data))
  <2>1. DOMAIN list = 1 .. m + 1 /\ DOMAIN data = 1 .. m
    BY <1>1, <1>3
  <2>2. Holes(data) \subseteq Holes(list)
    BY <1>1, <2>1 DEF Holes
  <2>3. m + 1 \in 1 .. m + 1 /\ m + 1 \notin 1 .. m
    OBVIOUS
  <2>4. ASSUME parity = Missing PROVE m + 1 \in Holes(list) \ Holes(data)
    BY <1>2, <2>1, <2>3, <2>4 DEF Holes
  <2> QED BY <2>2, <2>4
<1> HIDE DEF parity
<1>6. /\ IsFiniteSet(Holes(list)) /\ Cardinality(Holes(list)) \in Nat
      /\ IsFiniteSet(Holes(data)) /\ Cardinality(Holes(data)) \in Nat
      /\ Cardinality(Holes(data)) <= Cardinality(Holes(list))
      /\ Cardinality(Holes(data)) = Cardinality(Holes(list)) => Holes(data) = Holes(list)
      /\ Cardinality(Holes(data)) = 0 <=> Holes(data) = {}
  BY <1>5, HolesFinite, FS_Subset, FS_CardinalityType, FS_EmptySet
<1>7. XorDecode(m, data, parities) \subseteq {"right", "raises"}
  BY <1>2, <1>4 DEF XorDecode, parity
<1>8. ASSUME Cardinality(Holes(list)) <= 1 PROVE XorDecode(m, data, parities) = {"right"}
  <2>1. CASE Holes(data) = {}
    BY <1>4, <2>1 DEF XorDecode
  <2>2. CASE Holes(data) # {}
    <3>1. Cardinality(Holes(data)) = 1 /\ Holes(data) = Holes(list)
      BY <1>6, <1>8, <2>2
    <3>2. parity = m
      BY <1>2, <1>5, <3>1
    <3> QED BY <1>2, <1>4, <2>2, <3>1, <3>2 DEF XorDecode, parity, Missing
  <2> QED BY <2>1, <2>2
<1> QED BY <1>7, <1>8 DEF data, parities

\* A Reed-Solomon block: what is not mended is noticed.
LEMMA RSSound ==
    ASSUME NEW m \in Nat, NEW list, Sound(m, list), ~ XorCoded(m)
    PROVE  LET result == RSDecode(m, SubSeq(list, 1, m), SubSeq(list, m + 1, Total(m))) IN
           /\ "wrong" \notin result
           /\ Cardinality(Holes(list)) <= ParityShards => result = {"right"}
<1> DEFINE data == SubSeq(list, 1, m)
           parities == SubSeq(list, m + 1, Total(m))
           errors == {i \in DOMAIN list : list[i] \notin {i - 1, Missing}}
<1>1. data \o parities = list /\ Len(data) = m
  <2>1. Total(m) \in Nat /\ m < Total(m) /\ list \in [1 .. Total(m) -> Int]
    BY TotalIs DEF Sound
  <2> QED BY <2>1, TakenApart
<1>2. errors = {} /\ Cardinality(errors) = 0
  <2>1. errors = {}
    BY DEF Sound
  <2> QED BY <2>1, FS_EmptySet
<1>3. Cardinality(Holes(list)) \in Nat
  BY HolesFinite
<1> HIDE DEF data, parities
<1>4. CASE TooManyErasures(list)
  <2>1. RSDecode(m, data, parities) = {"raises"}
    BY <1>1, <1>4 DEF RSDecode
  <2> QED BY <1>3, <1>4, <2>1 DEF TooManyErasures, data, parities
<1>5. CASE ~ TooManyErasures(list)
  <2>1. 2 * Cardinality(errors) + Cardinality(Holes(list)) <= ParityShards
    BY <1>2, <1>3, <1>5 DEF TooManyErasures
  <2>2. RSDecode(m, data, parities) = {"right"}
    BY <1>1, <1>5, <2>1 DEF RSDecode
  <2> QED BY <2>2 DEF data, parities
<1> QED BY <1>4, <1>5

\* What decode makes of a sound list is right or nothing, and right as long as the
\* parity covers the holes.
LEMMA DecodeSound ==
    ASSUME NEW m \in Nat, NEW list, Sound(m, list)
    PROVE  LET result == Decode(m, SubSeq(list, 1, m), SubSeq(list, m + 1, Total(m))) IN
           /\ "wrong" \notin result
           /\ Cardinality(Holes(list)) <= Tolerated(m) => result = {"right"}
<1>1. /\ Len(SubSeq(list, 1, m)) = m
      /\ Len(SubSeq(list, m + 1, Total(m))) = Parities(m)
  <2>1. /\ Total(m) \in Nat /\ m < Total(m) /\ list \in [1 .. Total(m) -> Int]
        /\ Total(m) - m = Parities(m)
    BY SoundIs
  <2> QED BY <2>1, TakenApart
<1>2. CASE XorCoded(m)
  BY <1>1, <1>2, XorSound, TotalIs DEF Decode, Tolerated
<1>3. CASE ~ XorCoded(m)
  BY <1>1, <1>3, RSSound, TotalIs DEF Decode, Tolerated, XorCoded
<1> QED BY <1>2, <1>3

------------------------------------------------------------------------------
(***************************************************************************)
(* The invariant.                                                          *)
(***************************************************************************)

\* As long as no download went without a provider's name, no fragment is foreign
\* and nothing wrong has been decoded.
WholeInv ==
    read.whole => /\ \A i \in Idx : store[i] # "bad"
                  /\ read.outcome # "wrong"

\* Behind the probe nothing is sent before some of it has not failed.
OutageInv ==
    /\ phase \in {"idle", "raised", "probing", "broken"} => \A i \in Idx \ Probe : task[i] = "none"
    /\ phase \in {"full", "done"} => /\ Ended(Probe)
                                     /\ Probe # Idx => \E j \in Probe : task[j] \notin Failures

BurstInv == TransferTypeOK /\ WholeInv /\ ReadBack /\ OutageInv

\* The names and the probe.
LEMMA NamesAre ==
    ASSUME TransferTypeOK
    PROVE  /\ n \in Nat /\ Total(n) \in Nat /\ Total(n) > n
           /\ Idx = 0 .. Total(n) - 1 /\ IsFiniteSet(Idx) /\ Cardinality(Idx) = Total(n)
           /\ Probe \subseteq Idx /\ IsFiniteSet(Probe)
<1>1. n \in Nat
  BY ChunksNat DEF TransferTypeOK
<1>2. Total(n) \in Nat /\ Total(n) > n
  BY <1>1, TotalIs
<1>3. Idx = 0 .. Total(n) - 1 /\ IsFiniteSet(Idx) /\ Cardinality(Idx) = Total(n)
  <2>1. /\ IsFiniteSet(0 .. Total(n) - 1)
        /\ Cardinality(0 .. Total(n) - 1) = IF 0 > Total(n) - 1 THEN 0 ELSE (Total(n) - 1) - 0 + 1
    BY <1>2, FS_Interval
  <2> QED BY <1>1, <1>2, <2>1 DEF Idx
<1>4. Probe \subseteq Idx
  BY <1>2, <1>3 DEF Probe
<1>5. IsFiniteSet(Probe)
  <2>1. Probe \in SUBSET Idx
    BY <1>4
  <2> QED BY <1>3, <2>1, FS_Subset
<1> QED BY <1>1, <1>2, <1>3, <1>4, <1>5

\* When every name has a provider, the k-th of them is k - 1.
LEMMA NthOfAll ==
    ASSUME NEW t \in Nat, NEW k \in 1 .. t
    PROVE  Nth(0 .. t - 1, k) = k - 1
<1>1. \A i \in 0 .. t - 1 : Cardinality({j \in 0 .. t - 1 : j < i}) = i
  <2> TAKE i \in 0 .. t - 1
  <2>1. {j \in 0 .. t - 1 : j < i} = 0 .. i - 1
    OBVIOUS
  <2>2. Cardinality(0 .. i - 1) = IF 0 > i - 1 THEN 0 ELSE (i - 1) - 0 + 1
    BY FS_Interval
  <2> QED BY <2>1, <2>2
<1>2. k - 1 \in 0 .. t - 1
  OBVIOUS
<1>3. \A i \in 0 .. t - 1 : Cardinality({j \in 0 .. t - 1 : j < i}) = k - 1 <=> i = k - 1
  BY <1>1
<1> QED BY <1>2, <1>3 DEF Nth

\* A download that asks for every fragment gets a sound list.
LEMMA ResultsSound ==
    ASSUME TransferTypeOK, \A i \in Idx : store[i] # "bad", NEW lost
    PROVE  Sound(n, Results(Idx, lost))
<1>1. /\ n \in Nat /\ Total(n) \in Nat /\ Idx = 0 .. Total(n) - 1 /\ Cardinality(Idx) = Total(n)
  BY NamesAre
<1>2. \A k \in 1 .. Total(n) : Nth(Idx, k) = k - 1 /\ k - 1 \in Idx
  BY <1>1, NthOfAll
<1> DEFINE Result(i) == IF i \in lost \/ store[i] = "none" THEN Missing
                        ELSE IF store[i] = "bad" THEN Foreign ELSE i
<1>3. Results(Idx, lost) = [k \in 1 .. Total(n) |-> Result(Nth(Idx, k))]
  BY <1>1 DEF Results
<1>4. \A k \in 1 .. Total(n) : Result(Nth(Idx, k)) \in {k - 1, Missing}
  BY <1>2
<1> HIDE DEF Result
<1>5. \A k \in 1 .. Total(n) : {k - 1, Missing} \subseteq Int
  BY <1>1 DEF Missing
<1> QED BY <1>3, <1>4, <1>5 DEF Sound

------------------------------------------------------------------------------
(***************************************************************************)
(* Steps.                                                                  *)
(***************************************************************************)

\* The invariant holds when the scheduler is made.
LEMMA TransferInitInv == TransferInit => BurstInv
<1> SUFFICES ASSUME TransferInit PROVE BurstInv
  OBVIOUS
<1>1. TransferTypeOK
  BY DEF TransferInit, TransferTypeOK, NotRead
<1>2. WholeInv /\ ReadBack
  BY DEF TransferInit, WholeInv, ReadBack, NotRead
<1>3. OutageInv
  BY NamesAre, <1>1 DEF TransferInit, OutageInv
<1> QED BY <1>1, <1>2, <1>3 DEF BurstInv

\* An upload changes nothing that was read, and no store to the worse.
LEMMA UploadsKeep ==
    ASSUME BurstInv, UNCHANGED <<n, read>>,
           \A i \in Idx : store'[i] = store[i] \/ store'[i] = "good"
    PROVE  WholeInv' /\ ReadBack'
BY DEF BurstInv, WholeInv, ReadBack, Idx

\* A burst begins with its probe.
LEMMA BurstBeginStep == BurstInv /\ BurstBegin => BurstInv'
<1> SUFFICES ASSUME BurstInv, BurstBegin PROVE BurstInv'
  OBVIOUS
<1>1. UNCHANGED <<n, busy, hung, store, read>> /\ Idx' = Idx /\ Probe' = Probe
  BY DEF BurstBegin, Idx, Probe
<1>2. WholeInv' /\ ReadBack'
  BY <1>1, UploadsKeep
<1>3. /\ phase \in {"idle", "raised"}
      /\ \/ phase' = "raised" /\ task' = task
         \/ phase' = "probing" /\ task' = [i \in Idx |-> IF i \in Probe THEN "waiting" ELSE task[i]]
  BY DEF BurstBegin, Scheduled
<1>4. TransferTypeOK'
  BY <1>1, <1>3 DEF BurstInv, TransferTypeOK
<1>5. OutageInv'
  BY <1>1, <1>3 DEF BurstInv, OutageInv, TransferTypeOK
<1> QED BY <1>2, <1>4, <1>5 DEF BurstInv

\* A transfer that starts was waiting.
LEMMA TaskStartsStep ==
    ASSUME BurstInv, NEW i \in Idx, TaskStarts(i)
    PROVE  BurstInv'
<1>1. /\ UNCHANGED <<n, phase, hung, store, read>> /\ Idx' = Idx /\ Probe' = Probe
      /\ task[i] = "waiting" /\ task' = [task EXCEPT ![i] = "running"] /\ busy' = busy \cup {i}
  BY DEF TaskStarts, Idx, Probe
<1>2. WholeInv' /\ ReadBack'
  BY <1>1, UploadsKeep
<1>3. TransferTypeOK'
  BY <1>1 DEF BurstInv, TransferTypeOK
<1>4. OutageInv'
  <2>1. ~ Ended(Probe) \/ i \notin Probe
    BY <1>1 DEF Ended, Replies, Failures
  <2> QED BY <1>1, <2>1 DEF BurstInv, OutageInv, TransferTypeOK, Ended
<1> QED BY <1>2, <1>3, <1>4 DEF BurstInv

\* A transfer that ends was running.
LEMMA TaskEndsStep ==
    ASSUME BurstInv, NEW i \in Idx, TaskEnds(i)
    PROVE  BurstInv'
<1>1. /\ UNCHANGED <<n, phase, hung, store, read>> /\ Idx' = Idx /\ Probe' = Probe
      /\ task[i] = "running" /\ busy' \subseteq busy
  BY DEF TaskEnds, Idx, Probe
<1>2. PICK reply \in Replies : task' = [task EXCEPT ![i] = reply]
  BY DEF TaskEnds
<1>3. WholeInv' /\ ReadBack'
  BY <1>1, UploadsKeep
<1>4. TransferTypeOK'
  BY <1>1, <1>2 DEF BurstInv, TransferTypeOK
<1>5. OutageInv'
  <2>1. ~ Ended(Probe) \/ i \notin Probe
    BY <1>1 DEF Ended, Replies, Failures
  <2> QED BY <1>1, <1>2, <2>1 DEF BurstInv, OutageInv, TransferTypeOK, Ended
<1> QED BY <1>3, <1>4, <1>5 DEF BurstInv

\* What is stored, however late, is the fragment.
LEMMA ServedStep ==
    ASSUME BurstInv, NEW i \in Idx, Served(i)
    PROVE  BurstInv'
<1>1. /\ UNCHANGED <<n, phase, task, hung, read>> /\ Idx' = Idx /\ Probe' = Probe
      /\ store' = [store EXCEPT ![i] = "good"] /\ busy' \subseteq busy
  BY DEF Served, Idx, Probe
<1>2. WholeInv' /\ ReadBack'
  <2>1. \A j \in Idx : store'[j] = store[j] \/ store'[j] = "good"
    BY <1>1 DEF BurstInv, TransferTypeOK
  <2> QED BY <1>1, <2>1, UploadsKeep
<1>3. TransferTypeOK' /\ OutageInv'
  BY <1>1 DEF BurstInv, TransferTypeOK, OutageInv, Ended
<1> QED BY <1>2, <1>3 DEF BurstInv

\* A probe that has failed throughout opens the breaker.
LEMMA BreakerIs ==
    ASSUME TransferTypeOK, ~ BreakerOpens, Probe # Idx
    PROVE  \E j \in Probe : task[j] \notin Failures
<1> SUFFICES ASSUME \A j \in Probe : task[j] \in Failures PROVE FALSE
  OBVIOUS
<1>1. Failed(Probe) = Probe
  BY DEF Failed
<1>2. Cardinality(Probe) \in Nat
  BY NamesAre, FS_CardinalityType
<1> QED BY <1>1, <1>2 DEF BreakerOpens

\* The rest is sent if the breaker stays closed.
LEMMA ProbeEndsStep == BurstInv /\ ProbeEnds => BurstInv'
<1> SUFFICES ASSUME BurstInv, ProbeEnds PROVE BurstInv'
  OBVIOUS
<1>1. /\ UNCHANGED <<n, busy, hung, store, read>> /\ Idx' = Idx /\ Probe' = Probe
      /\ phase = "probing" /\ Ended(Probe)
  BY DEF ProbeEnds, Idx, Probe
<1>2. WholeInv' /\ ReadBack'
  BY <1>1, UploadsKeep
<1>3. CASE phase' = "broken" /\ task' = task
  BY <1>1, <1>2, <1>3 DEF BurstInv, TransferTypeOK, OutageInv
<1>4. CASE /\ ~ BreakerOpens /\ phase' = "full"
           /\ task' = [i \in Idx |-> IF i \in Idx \ Probe THEN "waiting" ELSE task[i]]
  <2>1. TransferTypeOK'
    BY <1>1, <1>4 DEF BurstInv, TransferTypeOK
  <2>2. \A j \in Probe : task'[j] = task[j]
    BY <1>4, NamesAre DEF BurstInv
  <2>3. Probe # Idx => \E j \in Probe : task[j] \notin Failures
    BY <1>4, BreakerIs DEF BurstInv
  <2>4. OutageInv'
    BY <1>1, <1>4, <2>2, <2>3 DEF OutageInv, Ended
  <2> QED BY <1>2, <2>1, <2>4 DEF BurstInv
<1> QED BY <1>3, <1>4 DEF ProbeEnds, Scheduled

\* The burst ends with what it has.
LEMMA BurstEndsStep == BurstInv /\ BurstEnds => BurstInv'
<1> SUFFICES ASSUME BurstInv, BurstEnds PROVE BurstInv'
  OBVIOUS
<1>1. /\ UNCHANGED <<n, task, busy, hung, store, read>> /\ Idx' = Idx /\ Probe' = Probe
      /\ phase = "full" /\ phase' = "done"
  BY DEF BurstEnds, Idx, Probe
<1>2. WholeInv' /\ ReadBack'
  BY <1>1, UploadsKeep
<1> QED BY <1>1, <1>2 DEF BurstInv, TransferTypeOK, OutageInv, Ended

\* A download is right if the parity covers what is missing, and never wrong.
LEMMA DownloadStep ==
    ASSUME BurstInv, NEW map \in SUBSET Idx, NEW lost, Download(map, lost)
    PROVE  BurstInv'
<1> DEFINE list == Results(map, lost)
           lost2 == Cardinality(Holes(list))
<1>1. UNCHANGED <<n, phase, task, busy, hung, store>> /\ Idx' = Idx /\ Probe' = Probe
  BY DEF Download, Idx, Probe
<1>2. PICK outcome \in Decode(n, Front(list), Behind(list)) :
        read' = [outcome |-> outcome, whole |-> map = Idx /\ read.whole, missing |-> lost2]
  BY DEF Download
<1>3. outcome \in {"right", "wrong", "raises"}
  BY DecodeEnds
<1>4. lost2 \in Nat
  <2>1. IsFiniteSet(map)
    BY NamesAre, FS_Subset DEF BurstInv
  <2>2. Cardinality(map) \in Nat
    BY <2>1, FS_CardinalityType
  <2>3. Holes(list) \in SUBSET (1 .. Cardinality(map))
    BY DEF Holes, Results
  <2>4. IsFiniteSet(1 .. Cardinality(map))
    BY <2>2, FS_Interval
  <2> QED BY <2>3, <2>4, FS_Subset, FS_CardinalityType
<1> HIDE DEF lost2
<1>5. read'.whole = (map = Idx /\ read.whole) /\ read'.outcome = outcome /\ read'.missing = lost2
  BY <1>2
<1>6. TransferTypeOK'
  BY <1>1, <1>2, <1>3, <1>4 DEF BurstInv, TransferTypeOK
<1>7. ASSUME map = Idx, read.whole
      PROVE  outcome # "wrong" /\ (lost2 <= Tolerated(n) => outcome = "right")
  <2>1. n \in Nat /\ Sound(n, list)
    BY <1>7, NamesAre, ResultsSound DEF BurstInv, WholeInv
  <2>2. Len(list) = Total(n) /\ n < Total(n) /\ Total(n) \in Nat
    <3>1. list \in Seq(Int) /\ Len(list) = Total(n)
      BY <2>1, SoundIs, SeqDef
    <3> QED BY <2>1, <3>1, SoundIs
  <2>3. Front(list) = SubSeq(list, 1, n) /\ Behind(list) = SubSeq(list, n + 1, Total(n))
    BY <2>1, <2>2 DEF Front, Behind
  <2> HIDE DEF list
  <2>4. /\ "wrong" \notin Decode(n, Front(list), Behind(list))
        /\ Cardinality(Holes(list)) <= Tolerated(n) => Decode(n, Front(list), Behind(list)) = {"right"}
    BY <2>1, <2>3, DecodeSound
  <2> QED BY <2>4 DEF lost2
<1>8. WholeInv' /\ ReadBack'
  BY <1>1, <1>5, <1>7 DEF BurstInv, WholeInv, ReadBack
<1>9. OutageInv'
  BY <1>1 DEF BurstInv, OutageInv, Ended
<1> QED BY <1>6, <1>8, <1>9 DEF BurstInv

\* A repair stores what was decoded, and what was decoded is right.
LEMMA RepairStep ==
    ASSUME BurstInv, NEW i \in Idx, Repair(i)
    PROVE  BurstInv'
<1>1. /\ UNCHANGED <<n, phase, task, busy, hung, read>> /\ Idx' = Idx /\ Probe' = Probe
      /\ read.outcome \in {"right", "wrong"}
      /\ store' = [store EXCEPT ![i] = IF read.outcome = "right" THEN "good" ELSE "bad"]
  BY DEF Repair, Idx, Probe
<1>2. TransferTypeOK'
  BY <1>1 DEF BurstInv, TransferTypeOK
<1>3. WholeInv'
  BY <1>1 DEF BurstInv, TransferTypeOK, WholeInv
<1>4. ReadBack' /\ OutageInv'
  BY <1>1 DEF BurstInv, ReadBack, OutageInv, Ended
<1> QED BY <1>2, <1>3, <1>4 DEF BurstInv

------------------------------------------------------------------------------
(***************************************************************************)
(* The theorems.                                                           *)
(***************************************************************************)

\* Every step keeps the invariant.
LEMMA BurstStep == BurstInv /\ [TransferNext]_transferVars => BurstInv'
<1> SUFFICES ASSUME BurstInv, [TransferNext]_transferVars PROVE BurstInv'
  OBVIOUS
<1>1. CASE Uploads
  BY <1>1, BurstBeginStep, ProbeEndsStep, BurstEndsStep, TaskStartsStep, TaskEndsStep DEF Uploads
<1>2. ASSUME NEW i \in Idx, Served(i) \/ Repair(i) PROVE BurstInv'
  BY <1>2, ServedStep, RepairStep
<1>3. ASSUME NEW gaps \in SUBSET Idx, NEW lost \in SUBSET (Idx \ gaps), Download(Idx \ gaps, lost)
      PROVE  BurstInv'
  <2>1. Idx \ gaps \in SUBSET Idx
    OBVIOUS
  <2> QED BY <1>3, <2>1, DownloadStep
<1>4. CASE UNCHANGED transferVars
  BY <1>4 DEF transferVars, BurstInv, TransferTypeOK, WholeInv, ReadBack, OutageInv, Idx, Probe, Ended
<1> QED BY <1>1, <1>2, <1>3, <1>4 DEF TransferNext

\* The invariant holds in every behaviour.
LEMMA BurstInvariance == TransferSpec => []BurstInv
BY TransferInitInv, BurstStep, PTL DEF TransferSpec

\* Type correctness of the burst, its transfers and what the providers hold.
THEOREM TransferTypeCorrect == TransferSpec => []TransferTypeOK
<1>1. BurstInv => TransferTypeOK
  BY DEF BurstInv
<1> QED BY <1>1, BurstInvariance, PTL

\* A download gives the file as long as the parity covers what is missing, and never
\* other bytes, for any block length (download_burst, TachyonShredder.decode).
THEOREM ReadBackCorrect == TransferSpec => []ReadBack
<1>1. BurstInv => ReadBack
  BY DEF BurstInv
<1> QED BY <1>1, BurstInvariance, PTL

\* A repair never stores wrong bytes while every name has a provider (repair_fragment).
THEOREM FragmentRepairCorrect == TransferSpec => []RepairsAreRight
<1>1. BurstInv => RepairsAreRight
  BY DEF BurstInv, WholeInv, RepairsAreRight
<1> QED BY <1>1, BurstInvariance, PTL

\* After a probe that failed throughout nothing else is sent, whatever is answered
\* late (upload_burst).
THEOREM OutageCorrect == TransferSpec => OutageStopsBurst
<1> DEFINE Stops == \A i \in Idx \ Probe :
                       (\A j \in Probe : task[j] \in Failures) =>
                           ~ (task[i] # "running" /\ task'[i] = "running")
<1>1. BurstInv /\ [TransferNext]_transferVars => Stops
  <2> SUFFICES ASSUME BurstInv, [TransferNext]_transferVars, NEW i \in Idx \ Probe,
                      \A j \in Probe : task[j] \in Failures,
                      task[i] # "running", task'[i] = "running"
               PROVE  FALSE
    OBVIOUS
  <2>1. task[i] = "waiting"
    <3>1. CASE UNCHANGED task
      BY <3>1
    <3>2. ASSUME NEW k \in Idx, TaskStarts(k) PROVE task[i] = "waiting"
      BY <3>2 DEF TaskStarts, BurstInv, TransferTypeOK
    <3>3. ASSUME NEW k \in Idx, TaskEnds(k) PROVE FALSE
      BY <3>3 DEF TaskEnds, Replies, Failures, BurstInv, TransferTypeOK
    <3>4. CASE BurstBegin \/ ProbeEnds
      BY <3>4 DEF BurstBegin, ProbeEnds, Scheduled
    <3> QED BY <3>1, <3>2, <3>3, <3>4
            DEF TransferNext, Uploads, BurstEnds, Served, Repair, Download, transferVars
  <2>2. phase \in {"full", "done"}
    BY <2>1 DEF BurstInv, OutageInv, TransferTypeOK
  <2>3. Probe # Idx
    OBVIOUS
  <2> QED BY <2>2, <2>3 DEF BurstInv, OutageInv
<1>2. Stops => [Stops]_transferVars
  OBVIOUS
<1> QED BY <1>1, <1>2, BurstInvariance, PTL DEF TransferSpec, OutageStopsBurst
==============================================================================
