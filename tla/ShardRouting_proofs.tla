-------------------------- MODULE ShardRouting_proofs --------------------------
(***************************************************************************)
(* Proofs about ShardRouting, for any pool, any calls and any limits.      *)
(***************************************************************************)
EXTENDS ShardRouting, FiniteSetTheorems, WellFoundedInduction, TLAPS

(***************************************************************************)
(* Remainders.  Behind the name Rem the meaning of % stays hidden but in   *)
(* the facts below.                                                        *)
(***************************************************************************)
Rem(x, n) == x % n

LEMMA Division ==
    ASSUME NEW x \in Nat, NEW L \in Nat \ {0}
    PROVE  \E q \in Nat : Rem(x, L) \in 0 .. (L - 1) /\ x = q * L + Rem(x, L)
<1>1. /\ x \div L \in Nat
      /\ x % L \in 0 .. (L - 1)
      /\ x = (x \div L) * L + (x % L)
  BY SMT
<1> WITNESS x \div L \in Nat
<1> QED BY <1>1 DEF Rem

LEMMA Remainder ==
    ASSUME NEW q \in Nat, NEW L \in Nat \ {0}, NEW r \in 0 .. (L - 1)
    PROVE  Rem(q * L + r, L) = r
  BY SMT DEF Rem

LEMMA NoRemainder ==
    ASSUME NEW L \in Nat \ {0}, NEW r \in 0 .. (L - 1)
    PROVE  Rem(r, L) = r
  BY SMT DEF Rem

\* Going on by no more than L passes the end at most once.
LEMMA RemainderMoves ==
    ASSUME NEW x \in Nat, NEW L \in Nat \ {0}, NEW j \in 0 .. L
    PROVE  Rem(x + j, L) = IF Rem(x, L) + j < L THEN Rem(x, L) + j ELSE Rem(x, L) + j - L
<1>1. PICK q \in Nat : Rem(x, L) \in 0 .. (L - 1) /\ x = q * L + Rem(x, L)
  BY Division
<1>2. CASE Rem(x, L) + j < L
  <2>1. x + j = q * L + (Rem(x, L) + j) /\ Rem(x, L) + j \in 0 .. (L - 1)
    BY <1>1, <1>2
  <2> QED BY <2>1, <1>1, <1>2, Remainder
<1>3. CASE Rem(x, L) + j >= L
  <2>1. x + j = (q + 1) * L + (Rem(x, L) + j - L) /\ Rem(x, L) + j - L \in 0 .. (L - 1)
    BY <1>1, <1>3
  <2>2. q + 1 \in Nat
    BY <1>1
  <2>3. Rem(x + j, L) = Rem(x, L) + j - L
    BY <2>1, <2>2, Remainder
  <2> QED BY <2>3, <1>1, <1>3
<1> QED BY <1>1, <1>2, <1>3

\* A counter kept modulo a multiple of L.
LEMMA RemainderOfMultiple ==
    ASSUME NEW x \in Nat, NEW j \in Nat, NEW L \in Nat \ {0}, NEW W \in Nat \ {0}, Rem(W, L) = 0
    PROVE  Rem(Rem(x, W) + j, L) = Rem(x + j, L)
<1>1. PICK k \in Nat : W = k * L
  <2>1. PICK k \in Nat : W = k * L + 0
    BY Division, Zenon
  <2> QED BY <2>1
<1>2. PICK m \in Nat : Rem(x, W) \in 0 .. (W - 1) /\ x = m * W + Rem(x, W)
  BY Division, Zenon
<1> DEFINE s == Rem(x, W)
<1>3. s \in Nat /\ s + j \in Nat
  BY <1>2
<1>4. PICK t \in Nat : Rem(s + j, L) \in 0 .. (L - 1) /\ s + j = t * L + Rem(s + j, L)
  BY <1>3, Division, Zenon
<1> DEFINE u == Rem(s + j, L)
<1>5. u \in Nat
  BY <1>4
<1>6. x = m * W + s /\ s + j = t * L + u
  BY <1>2, <1>4
<1> HIDE DEF s, u
<1>7. x + j = (m * k + t) * L + u
  BY <1>1, <1>3, <1>5, <1>6
<1>8. m * k + t \in Nat
  OBVIOUS
<1>9. u \in 0 .. (L - 1)
  BY <1>4 DEF u
<1>10. Rem(x + j, L) = u
  BY <1>7, <1>8, <1>9, Remainder, Zenon
<1> QED BY <1>10 DEF u, s

LEMMA LeastNatural ==
    ASSUME NEW S \in SUBSET Nat, S # {}
    PROVE  Min(S) \in S /\ \A x \in S : Min(S) <= x
<1> DEFINE R == {ss \in Nat \X Nat : ss[1] < ss[2]}
<1>1. IsWellFoundedOn(R, Nat)
  BY NatLessThanWellFounded DEF OpToRel
<1>2. PICK x \in S : \A y \in S : <<y, x>> \notin R
  <2> HIDE DEF R
  <2> QED BY <1>1, WFMin
<1>3. \A y \in S : x <= y
  <2> TAKE y \in S
  <2>1. x \in Nat /\ y \in Nat /\ ~ (y < x)
    BY <1>2
  <2> QED BY <2>1
<1> QED BY <1>3 DEF Min

------------------------------------------------------------------------------
(***************************************************************************)
(* Lists of providers, and where the index points in them.                 *)
(***************************************************************************)
USE PoolAssumption, LocalAssumption, CooldownAssumption, WrapAssumption

Once(list) == \A j, k \in DOMAIN list : list[j] = list[k] => j = k

Lists == {list \in Seq(Providers) : Len(list) > 0 /\ Once(list)}

\* What is looked at in the iterations from..to that come next.
Spots(list, from, to) == {Spot(list, j) : j \in from .. to}

LEMMA PoolIsList == Pool \in Lists /\ Registered(Pool) = Providers
BY DEF Lists, Once, Providers

LEMMA IntervalCount ==
    ASSUME NEW a \in Int, NEW b \in Int, a <= b + 1
    PROVE  IsFiniteSet(a .. b) /\ Cardinality(a .. b) = b + 1 - a
<1>1. Cardinality(a .. b) = IF a > b THEN 0 ELSE b - a + 1
  BY FS_Interval
<1>2. IsFiniteSet(a .. b)
  BY FS_Interval
<1> QED BY <1>1, <1>2

LEMMA ListIs ==
    ASSUME NEW list \in Lists
    PROVE  /\ list \in [1 .. Len(list) -> Providers]
           /\ Len(list) \in 1 .. Len(Pool)
           /\ Registered(list) \in SUBSET Providers
           /\ Rem(Wrap, Len(list)) = 0
<1> DEFINE I == 1 .. Len(list)
           J == 1 .. Len(Pool)
<1>1. list \in [I -> Providers] /\ Len(list) \in Nat \ {0} /\ Len(Pool) \in Nat
  BY DEF Lists
<1>2. IsFiniteSet(I) /\ Cardinality(I) = Len(list) /\ IsFiniteSet(J) /\ Cardinality(J) = Len(Pool)
  <2>1. IsFiniteSet(I) /\ Cardinality(I) = Len(list) + 1 - 1
    BY <1>1, IntervalCount
  <2>2. IsFiniteSet(J) /\ Cardinality(J) = Len(Pool) + 1 - 1
    BY <1>1, IntervalCount
  <2> QED BY <1>1, <2>1, <2>2
<1>3. Pool \in Surjection(J, Providers)
  BY DEF Surjection, Providers, Registered
<1>4. IsFiniteSet(Providers) /\ Cardinality(Providers) <= Len(Pool)
  BY <1>2, <1>3, FS_Surjection
<1>5. list \in Injection(I, Providers)
  BY <1>1 DEF Injection, IsInjective, Lists, Once
<1>6. Len(list) <= Cardinality(Providers)
  BY <1>2, <1>4, <1>5, FS_Injection
<1>7. Len(list) \in 1 .. Len(Pool)
  BY <1>1, <1>4, <1>6, FS_CardinalityType
<1>8. Rem(Wrap, Len(list)) = 0
  BY <1>7 DEF Rem
<1>9. Registered(list) \in SUBSET Providers
  BY <1>1 DEF Registered
<1> QED BY <1>1, <1>7, <1>8, <1>9

LEMMA SpotIs ==
    ASSUME NEW list \in Lists, index \in Nat, NEW j \in Nat
    PROVE  /\ Rem(index + j, Len(list)) \in 0 .. (Len(list) - 1)
           /\ Spot(list, j) = list[Rem(index + j, Len(list)) + 1]
           /\ Spot(list, j) \in Registered(list)
           /\ Spot(list, j) \in Providers
<1>1. Len(list) \in Nat \ {0} /\ index + j \in Nat
  BY ListIs
<1>2. Rem(index + j, Len(list)) \in 0 .. (Len(list) - 1)
  BY <1>1, Division
<1>3. Spot(list, j) = list[Rem(index + j, Len(list)) + 1]
  BY DEF Spot, Rem
<1> QED BY <1>2, <1>3, ListIs DEF Registered

\* After a round the loop is where it was.
LEMMA SpotAgain ==
    ASSUME NEW list \in Lists, index \in Nat, NEW j \in Nat
    PROVE  Spot(list, Len(list) + j) = Spot(list, j)
<1>1. Len(list) \in Nat \ {0} /\ index + j \in Nat
  BY ListIs
<1>2. Rem(index + j + Len(list), Len(list)) = Rem(index + j, Len(list))
  <2> DEFINE L == Len(list)
             x == index + j
  <2>0. Rem(x, L) \in 0 .. (L - 1)
    BY SpotIs
  <2>1. L \in Nat \ {0} /\ x \in Nat /\ L \in 0 .. L /\ Rem(x, L) \in 0 .. (L - 1)
    BY <1>1, <2>0
  <2> HIDE DEF L, x
  <2>2. Rem(x + L, L) = IF Rem(x, L) + L < L THEN Rem(x, L) + L ELSE Rem(x, L) + L - L
    BY <2>1, RemainderMoves
  <2>3. Rem(x + L, L) = Rem(x, L)
    BY <2>1, <2>2
  <2> QED BY <2>3 DEF L, x
<1>3. index + (Len(list) + j) = index + j + Len(list) /\ Len(list) + j \in Nat
  BY <1>1
<1>4. Spot(list, Len(list) + j) = list[Rem(index + (Len(list) + j), Len(list)) + 1]
  BY <1>3, SpotIs
<1>5. Spot(list, j) = list[Rem(index + j, Len(list)) + 1]
  BY SpotIs
<1> QED BY <1>2, <1>3, <1>4, <1>5

\* What is looked at after the index has moved.
LEMMA SpotMoves ==
    ASSUME NEW list \in Lists, index \in Nat, NEW n \in Nat, index' = (index + n) % Wrap, NEW j \in Nat
    PROVE  Spot(list, j)' = Spot(list, n + j)
<1>1. Len(list) \in Nat \ {0} /\ index + n \in Nat /\ Rem(Wrap, Len(list)) = 0 /\ Wrap \in Nat \ {0}
  BY ListIs
<1>2. Rem(Rem(index + n, Wrap) + j, Len(list)) = Rem(index + n + j, Len(list))
  BY <1>1, RemainderOfMultiple
<1>3. index' = Rem(index + n, Wrap)
  BY DEF Rem
<1>4. Spot(list, j)' = list[Rem(index' + j, Len(list)) + 1]
  BY DEF Spot, Rem
<1>5. index + n + j = index + (n + j) /\ n + j \in Nat
  OBVIOUS
<1> QED BY <1>2, <1>3, <1>4, <1>5, SpotIs

\* Where the index points with the j-th next iteration.
LEMMA SpotFrom ==
    ASSUME NEW list \in Lists, index \in Nat, NEW j \in 0 .. Len(list)
    PROVE  LET r == Rem(index, Len(list)) IN
           /\ r \in 0 .. (Len(list) - 1)
           /\ Spot(list, j) = list[(IF r + j < Len(list) THEN r + j ELSE r + j - Len(list)) + 1]
<1>1. Len(list) \in Nat \ {0} /\ index + 0 = index
  BY ListIs
<1>2. Rem(index + j, Len(list)) =
        IF Rem(index, Len(list)) + j < Len(list) THEN Rem(index, Len(list)) + j
        ELSE Rem(index, Len(list)) + j - Len(list)
  BY <1>1, RemainderMoves
<1>3. Rem(index, Len(list)) \in 0 .. (Len(list) - 1)
  <2>1. Rem(index + 0, Len(list)) \in 0 .. (Len(list) - 1)
    BY SpotIs
  <2> QED BY <1>1, <2>1
<1>4. Spot(list, j) = list[Rem(index + j, Len(list)) + 1]
  BY <1>1, SpotIs
<1> QED BY <1>2, <1>3, <1>4

\* In a round each provider of the list is looked at once.
LEMMA RoundIsOnce ==
    ASSUME NEW list \in Lists, index \in Nat
    PROVE  /\ \A i, j \in 0 .. (Len(list) - 1) : Spot(list, i) = Spot(list, j) => i = j
           /\ Spots(list, 0, Len(list) - 1) = Registered(list)
<1> DEFINE L == Len(list)
           r == Rem(index, L)
           k(j) == (IF r + j < L THEN r + j ELSE r + j - L) + 1
<1>1. L \in Nat \ {0} /\ r \in 0 .. (L - 1) /\ DOMAIN list = 1 .. L
  BY ListIs, SpotFrom
<1>2. \A j \in 0 .. L : Spot(list, j) = list[k(j)]
  BY SpotFrom
<1>3. Once(list)
  BY DEF Lists
<1> HIDE DEF L, r
<1>4. ASSUME NEW i \in 0 .. (L - 1), NEW j \in 0 .. (L - 1), Spot(list, i) = Spot(list, j)
      PROVE  i = j
  <2>1. k(i) \in 1 .. L /\ k(j) \in 1 .. L
    BY <1>1
  <2>2. list[k(i)] = list[k(j)]
    BY <1>1, <1>2, <1>4
  <2>3. k(i) = k(j)
    BY <2>1, <2>2, <1>1, <1>3 DEF Once
  <2> QED BY <2>3, <1>1
<1>5. ASSUME NEW p \in Registered(list)
      PROVE  p \in Spots(list, 0, L - 1)
  <2>1. PICK i \in 1 .. L : p = list[i]
    BY <1>1 DEF Registered
  <2> DEFINE j == IF i > r THEN i - 1 - r ELSE i - 1 - r + L
  <2>2. j \in 0 .. (L - 1) /\ k(j) = i
    BY <1>1, <2>1
  <2>3. p = Spot(list, j)
    BY <1>1, <1>2, <2>1, <2>2
  <2> QED BY <2>2, <2>3 DEF Spots
<1>6. ASSUME NEW j \in 0 .. (L - 1)
      PROVE  Spot(list, j) \in Registered(list)
  BY <1>1, SpotIs
<1> QED BY <1>4, <1>5, <1>6 DEF L, Spots

\* The last iterations of a round look at as many providers.
LEMMA RoundCount ==
    ASSUME NEW list \in Lists, index \in Nat, NEW left \in 0 .. Len(list)
    PROVE  Cardinality(Spots(list, left, Len(list) - 1)) = Len(list) - left
<1> DEFINE I == left .. (Len(list) - 1)
           f == [j \in I |-> Spot(list, j)]
           T == Spots(list, left, Len(list) - 1)
<1>1. Len(list) \in Nat
  BY ListIs
<1>2. IsFiniteSet(I) /\ Cardinality(I) = Len(list) - left
  <2>1. left \in Int /\ Len(list) - 1 \in Int /\ left <= (Len(list) - 1) + 1
    BY <1>1
  <2>2. IsFiniteSet(I) /\ Cardinality(I) = (Len(list) - 1) + 1 - left
    BY <2>1, IntervalCount
  <2> QED BY <1>1, <2>2
<1>3. f \in Surjection(I, T)
  BY DEF Surjection, Spots
<1>4. f \in Injection(I, T)
  <2>1. I \subseteq 0 .. (Len(list) - 1)
    BY <1>1
  <2>2. f \in [I -> T]
    BY DEF Spots
  <2>3. \A i, j \in I : f[i] = f[j] => i = j
    BY <2>1, RoundIsOnce
  <2> QED BY <2>2, <2>3 DEF Injection, IsInjective
<1>5. IsFiniteSet(T) /\ Cardinality(T) = Cardinality(I)
  BY <1>2, <1>3, <1>4, FS_Surjection
<1> QED BY <1>2, <1>5

------------------------------------------------------------------------------
(***************************************************************************)
(* The invariant.                                                          *)
(***************************************************************************)

\* local_disk never leaves the pool, and no provider is in it twice.
PoolInv ==
    /\ providers \in Lists
    /\ Local \in Registered(providers)
    /\ stable => providers = Pool

\* A call that was not disturbed has looked at what would come last in a round
\* that began now.
CallOK(d) ==
    call[d].pc # "idle" =>
    /\ call[d].list \in Lists
    /\ call[d].left <= Len(call[d].list)
    /\ call[d].broke => call[d].pc = "fallback"
    /\ call[d].pc = "fallback" => call[d].left = 0
    /\ stable => call[d].list = Pool
    /\ alone[d] /\ ~call[d].broke =>
          call[d].looked = Spots(call[d].list, call[d].left, Len(call[d].list) - 1)

\* Those before the index have been looked at once more than those behind it.
LooksInv ==
    IF stable
    THEN \A k \in 1 .. Len(Pool) : looks[Pool[k]] = IF k <= Rem(index, Len(Pool)) THEN 1 ELSE 0
    ELSE \A p \in Providers : looks[p] = 0

RoutingInv ==
    TypeOK /\ PoolInv /\ LooksInv /\ \A d \in Calls : CallOK(d)

LEMMA IdleIs == Idle \in Call
<1>1. << >> \in [1 .. 0 -> Providers] /\ 0 \in 0 .. Len(Pool)
  BY PoolIsList, ListIs
<1> QED BY <1>1 DEF Idle, Call

LEMMA InitInv == Init => RoutingInv
<1> SUFFICES ASSUME Init PROVE RoutingInv
  OBVIOUS
<1>1. Pool \in UNION {[1 .. n -> Providers] : n \in 1 .. Len(Pool)}
  BY PoolIsList, ListIs
<1>2. Len(Pool) \in Nat \ {0} /\ Rem(0, Len(Pool)) = 0
  <2>1. Len(Pool) \in Nat \ {0}
    BY PoolIsList, ListIs
  <2>2. 0 \in 0 .. (Len(Pool) - 1)
    BY <2>1
  <2> QED BY <2>1, <2>2, NoRemainder
<1>3. Idle \in Call
  BY IdleIs
<1>4. TypeOK
  BY <1>1, <1>3 DEF Init, TypeOK
<1>5. PoolInv
  BY PoolIsList DEF Init, PoolInv
<1>6. LooksInv
  <2>1. \A k \in 1 .. Len(Pool) : Pool[k] \in Providers /\ ~ (k <= 0)
    BY PoolIsList, ListIs
  <2> QED BY <1>2, <2>1 DEF Init, LooksInv
<1>7. \A d \in Calls : CallOK(d)
  BY DEF Init, CallOK, Idle
<1> QED BY <1>4, <1>5, <1>6, <1>7 DEF RoutingInv

------------------------------------------------------------------------------
(***************************************************************************)
(* The loop goes on.                                                       *)
(***************************************************************************)

\* Call c goes n iterations on and is q then.
Goes(c, list, left, looked, n, q) ==
    /\ Advance(c, n)
    /\ looks' = IF stable THEN Counted(Spots(list, 0, n - 1)) ELSE looks
    /\ call' = [call EXCEPT ![c] = q]
    /\ q.pc # "idle" /\ ~q.broke
    /\ q.list = list /\ q.left = left - n
    /\ q.looked = looked \cup Spots(list, 0, n - 1)
    /\ q.pc = "fallback" => q.left = 0

LEMMA ContinueIs ==
    ASSUME TypeOK, NEW c \in Calls, NEW list \in Lists, NEW left \in 0 .. Len(list),
           NEW looked \in SUBSET Providers, NEW skipped, Continue(c, list, left, looked, skipped)
    PROVE  \E n \in 0 .. left, q \in Call : Goes(c, list, left, looked, n, q)
<1> DEFINE stops == {j \in 0 .. (left - 1) : Spot(list, j) \notin skipped}
           n == IF stops = {} THEN left ELSE Min(stops) + 1
           p == Spot(list, n - 1)
           seen == looked \cup Spots(list, 0, n - 1)
           asks == p \in Metered /\ usage[p] = "unknown"
           q == IF stops = {}
                THEN [Idle EXCEPT !.pc = "fallback", !.list = list, !.looked = seen]
                ELSE [Idle EXCEPT !.pc = IF asks THEN "usage" ELSE "sending",
                                  !.list = list, !.at = p, !.left = left - n, !.looked = seen]
<1>1. index \in Nat /\ Len(list) \in 1 .. Len(Pool) /\ left \in Nat
  BY ListIs DEF TypeOK
<1>2. n \in 0 .. left /\ (stops # {} => n >= 1)
  <2>1. CASE stops = {}
    BY <2>1, <1>1
  <2>2. CASE stops # {}
    <3> stops \in SUBSET Nat
      BY <1>1
    <3>1. Min(stops) \in stops
      <4> HIDE DEF stops
      <4> QED BY <2>2, LeastNatural
    <3>2. Min(stops) \in 0 .. (left - 1)
      BY <3>1
    <3> QED BY <3>2, <2>2, <1>1
  <2> QED BY <2>1, <2>2
<1>3. Advance(c, n) /\ looks' = (IF stable THEN Counted(Spots(list, 0, n - 1)) ELSE looks)
  BY DEF Continue, Spots
<1>4. call' = [call EXCEPT ![c] = q]
  BY DEF Continue, Spots
<1> HIDE DEF stops
<1>5. seen \in SUBSET Providers
  <2>1. \A j \in 0 .. (n - 1) : Spot(list, j) \in Providers
    BY <1>1, <1>2, SpotIs
  <2> QED BY <2>1 DEF Spots
<1>6. list \in UNION {[1 .. i -> Providers] : i \in 0 .. Len(Pool)}
  <2>1. list \in [1 .. Len(list) -> Providers] /\ Len(list) \in 0 .. Len(Pool)
    BY <1>1, ListIs
  <2> QED BY <2>1
<1>7. stops # {} => p \in Providers
  <2> SUFFICES ASSUME stops # {} PROVE p \in Providers
    OBVIOUS
  <2>1. n - 1 \in Nat
    BY <1>1, <1>2
  <2> QED BY <1>1, <2>1, SpotIs
<1>8. left - n \in 0 .. Len(Pool) /\ 0 \in 0 .. Len(Pool) /\ (stops = {} => left - n = 0)
  BY <1>1, <1>2
<1> HIDE DEF n, p, seen, asks
<1>9. q \in Call
  BY <1>5, <1>6, <1>7, <1>8 DEF Idle, Call
<1>10. /\ q.pc # "idle" /\ ~q.broke
       /\ q.list = list /\ q.left = left - n /\ q.looked = seen
       /\ q.pc = "fallback" => q.left = 0
  BY <1>8 DEF Idle
<1>11. Goes(c, list, left, looked, n, q)
  <2> HIDE DEF q
  <2> QED BY <1>3, <1>4, <1>10 DEF Goes, seen
<1> HIDE DEF q
<1> QED BY <1>2, <1>9, <1>11

LEMMA MinIs ==
    ASSUME NEW S \in SUBSET Int, NEW x \in S, \A y \in S : x <= y
    PROVE  Min(S) = x
<1>1. Min(S) \in S /\ \A y \in S : Min(S) <= y
  BY DEF Min
<1>2. Min(S) \in Int /\ x \in Int /\ Min(S) <= x /\ x <= Min(S)
  BY <1>1
<1> QED BY <1>2

\* The count of a round that is even stays even.
LEMMA CountedEvenly ==
    ASSUME TypeOK, LooksInv, stable, NEW n \in 0 .. Len(Pool),
           index' = (index + n) % Wrap, looks' = Counted(Spots(Pool, 0, n - 1))
    PROVE  /\ looks' \in [Providers -> Nat]
           /\ \A k \in 1 .. Len(Pool) :
                 looks'[Pool[k]] = IF k <= Rem(index', Len(Pool)) THEN 1 ELSE 0
<1> DEFINE L == Len(Pool)
           S == Spots(Pool, 0, n - 1)
           r == Rem(index, L)
           t == IF r + n < L THEN r + n ELSE r + n - L
           e == IF r + n < L THEN 0 ELSE 1
           m == [p \in Providers |-> IF p \in S THEN looks[p] + 1 ELSE looks[p]]
<1>1. L \in Nat \ {0} /\ index \in Nat /\ Pool \in Lists /\ Rem(Wrap, L) = 0 /\ Wrap \in Nat \ {0}
  BY PoolIsList, ListIs DEF TypeOK
<1>2. /\ r \in 0 .. (L - 1)
      /\ \A j \in 0 .. L : Spot(Pool, j) = Pool[(IF r + j < L THEN r + j ELSE r + j - L) + 1]
  BY <1>1, SpotFrom
<1>3. Rem(index', L) = t
  <2>1. index + n \in Nat /\ (index + n) + 0 = index + n
    BY <1>1
  <2>2. Rem(Rem(index + n, Wrap) + 0, L) = Rem((index + n) + 0, L)
    BY <1>1, <2>1, RemainderOfMultiple
  <2>3. index' = Rem(index + n, Wrap) /\ index' + 0 = index'
    <3>1. index' = Rem(index + n, Wrap)
      BY DEF Rem
    <3>2. PICK i \in 0 .. (Wrap - 1) : i = Rem(index + n, Wrap)
      BY <1>1, <2>1, Division
    <3> QED BY <3>1, <3>2
  <2>4. Rem(index + n, L) = t
    BY <1>1, RemainderMoves
  <2> QED BY <2>1, <2>2, <2>3, <2>4
<1>4. \A k \in 1 .. L : Pool[k] \in Providers /\ looks[Pool[k]] = IF k <= r THEN 1 ELSE 0
  BY <1>1, ListIs DEF LooksInv
<1>5. \A i, k \in 1 .. L : Pool[i] = Pool[k] => i = k
  BY <1>1
<1>6. \A p \in Providers : \E k \in 1 .. L : p = Pool[k]
  BY <1>1 DEF Providers, Registered
<1> HIDE DEF L, r
<1>7. ASSUME NEW k \in 1 .. L
      PROVE  Pool[k] \in S <=> (k > r /\ k <= r + n) \/ k <= r + n - L
  <2> DEFINE K(j) == (IF r + j < L THEN r + j ELSE r + j - L) + 1
  <2>1. \A j \in 0 .. (n - 1) : j \in 0 .. L /\ K(j) \in 1 .. L /\ Spot(Pool, j) = Pool[K(j)]
    BY <1>1, <1>2 DEF L
  <2>2. Pool[k] \in S <=> \E j \in 0 .. (n - 1) : k = K(j)
    BY <2>1, <1>5 DEF Spots
  <2>3. ASSUME k > r /\ k <= r + n
        PROVE  \E j \in 0 .. (n - 1) : k = K(j)
    <3>1. k - 1 - r \in 0 .. (n - 1) /\ K(k - 1 - r) = k
      BY <2>3, <1>1, <1>2
    <3> QED BY <3>1
  <2>4. ASSUME k <= r + n - L
        PROVE  \E j \in 0 .. (n - 1) : k = K(j)
    <3>1. k - 1 - r + L \in 0 .. (n - 1) /\ K(k - 1 - r + L) = k
      BY <2>4, <1>1, <1>2
    <3> QED BY <3>1
  <2>5. ASSUME NEW j \in 0 .. (n - 1), k = K(j)
        PROVE  (k > r /\ k <= r + n) \/ k <= r + n - L
    BY <2>5, <1>1, <1>2
  <2> QED BY <2>2, <2>3, <2>4, <2>5
<1>8. ASSUME NEW k \in 1 .. L
      PROVE  m[Pool[k]] = e + (IF k <= t THEN 1 ELSE 0)
  <2>1. m[Pool[k]] = IF Pool[k] \in S THEN looks[Pool[k]] + 1 ELSE looks[Pool[k]]
    BY <1>4
  <2>2. n <= L
    BY <1>1 DEF L
  <2> HIDE DEF S, m
  <2> QED BY <2>1, <2>2, <1>1, <1>2, <1>4, <1>7
<1>9. Min({m[p] : p \in Providers}) = e
  <2>1. L \in 1 .. L /\ ~ (L <= t) /\ e \in {0, 1} /\ t \in 0 .. (L - 1)
    BY <1>1, <1>2 DEF L
  <2> HIDE DEF m, t, e
  <2>2. \A k \in 1 .. L : m[Pool[k]] \in Int /\ e <= m[Pool[k]]
    BY <1>8, <2>1
  <2>3. m[Pool[L]] = e
    BY <1>8, <2>1
  <2>4. Pool[L] \in Providers
    BY <1>4, <2>1
  <2>5. {m[p] : p \in Providers} \in SUBSET Int /\ \A y \in {m[p] : p \in Providers} : e <= y
    <3>1. \A p \in Providers : m[p] \in Int /\ e <= m[p]
      BY <1>6, <2>2
    <3> QED BY <3>1
  <2>6. e \in {m[p] : p \in Providers}
    BY <2>3, <2>4
  <2> QED BY <2>5, <2>6, MinIs
<1>10. looks' = [p \in Providers |-> m[p] - e]
  BY <1>9 DEF Counted
<1>11. \A k \in 1 .. L : looks'[Pool[k]] = IF k <= t THEN 1 ELSE 0
  <2>1. e \in {0, 1} /\ t \in Int
    BY <1>1, <1>2 DEF L
  <2> HIDE DEF m, t, e
  <2>2. \A k \in 1 .. L : looks'[Pool[k]] = m[Pool[k]] - e
    BY <1>4, <1>10
  <2> QED BY <2>1, <2>2, <1>8
<1>12. looks' \in [Providers -> Nat]
  <2> HIDE DEF m, t, e
  <2>1. \A p \in Providers : looks'[p] \in Nat
    BY <1>6, <1>11
  <2> QED BY <2>1, <1>10
<1> HIDE DEF t
<1> QED BY <1>3, <1>11, <1>12 DEF L

\* What a call has looked at, seen from the index after the move.
LEMMA SpotsMove ==
    ASSUME NEW list \in Lists, index \in Nat, NEW left \in 0 .. Len(list), NEW n \in 0 .. left,
           index' = (index + n) % Wrap
    PROVE  Spots(list, left - n, Len(list) - 1)' =
             Spots(list, left, Len(list) - 1) \cup Spots(list, 0, n - 1)
<1> DEFINE L == Len(list)
<1>1. L \in Nat \ {0} /\ left \in Nat /\ n \in Nat /\ left - n \in Nat
  BY ListIs
<1>2. \A j \in Nat : Spot(list, j)' = Spot(list, n + j)
  BY <1>1, SpotMoves
<1>3. \A j \in Nat : Spot(list, L + j) = Spot(list, j)
  BY SpotAgain
<1>4. Spots(list, left - n, L - 1)' = {Spot(list, j)' : j \in (left - n) .. (L - 1)}
  BY DEF Spots
<1> HIDE DEF L
<1>5. ASSUME NEW j \in (left - n) .. (L - 1)
      PROVE  Spot(list, j)' \in Spots(list, left, L - 1) \cup Spots(list, 0, n - 1)
  <2>0. j \in Nat
    BY <1>1
  <2>1. Spot(list, j)' = Spot(list, n + j)
    BY <2>0, <1>2
  <2>2. CASE n + j <= L - 1
    <3>1. n + j \in left .. (L - 1)
      BY <1>1, <2>2
    <3> QED BY <2>1, <3>1 DEF Spots
  <2>3. CASE n + j > L - 1
    <3>1. n + j - L \in 0 .. (n - 1) /\ n + j - L \in Nat /\ L + (n + j - L) = n + j
      BY <1>1, <2>3
    <3>2. Spot(list, n + j) = Spot(list, n + j - L)
      BY <1>3, <3>1
    <3> QED BY <2>1, <3>1, <3>2 DEF Spots
  <2> QED BY <1>1, <2>0, <2>2, <2>3
<1>6. ASSUME NEW i \in left .. (L - 1)
      PROVE  \E j \in (left - n) .. (L - 1) : Spot(list, i) = Spot(list, j)'
  <2>1. i - n \in (left - n) .. (L - 1) /\ i - n \in Nat /\ n + (i - n) = i
    BY <1>1
  <2> QED BY <1>2, <2>1
<1>7. ASSUME NEW i \in 0 .. (n - 1)
      PROVE  \E j \in (left - n) .. (L - 1) : Spot(list, i) = Spot(list, j)'
  <2>1. left <= L
    BY DEF L
  <2>2. L + i - n \in (left - n) .. (L - 1) /\ L + i - n \in Nat /\ n + (L + i - n) = L + i /\ i \in Nat
    BY <1>1, <2>1
  <2>3. Spot(list, L + i - n)' = Spot(list, L + i)
    BY <1>2, <2>2
  <2> QED BY <1>3, <2>2, <2>3
<1>8. {Spot(list, j)' : j \in (left - n) .. (L - 1)} =
        Spots(list, left, L - 1) \cup Spots(list, 0, n - 1)
  BY <1>5, <1>6, <1>7 DEF Spots
<1> QED BY <1>4, <1>8 DEF L

LEMMA TypesKnown == RoutingInv => TypeOK /\ index \in Nat
<1>1. RoutingInv => TypeOK
  BY DEF RoutingInv
<1>2. TypeOK => index \in 0 .. (Wrap - 1)
  BY DEF TypeOK
<1> QED BY <1>1, <1>2

\* A call whose record stays as it is, when the index stays or somebody moves it.
LEMMA OtherCall ==
    ASSUME RoutingInv, NEW d \in Calls, call'[d] = call[d],
           stable' => stable,
           (index' = index /\ alone'[d] = alone[d]) \/ ~alone'[d] \/ call[d].pc = "idle"
    PROVE  CallOK(d)'
<1>1. CallOK(d)
  BY DEF RoutingInv
<1>2. CASE index' = index
  BY <1>1, <1>2 DEF CallOK, Spots, Spot
<1>3. CASE index' # index
  BY <1>1, <1>3 DEF CallOK
<1> QED BY <1>2, <1>3

LEMMA ContinueStep ==
    ASSUME RoutingInv, NEW c \in Calls, NEW list \in Lists, NEW left \in 0 .. Len(list),
           NEW looked \in SUBSET Providers, NEW skipped, Continue(c, list, left, looked, skipped),
           stable => list = Pool,
           alone[c] => looked = Spots(list, left, Len(list) - 1),
           UNCHANGED <<providers, stable>>,
           cool' \in [Providers -> 0 .. LongCooldown],
           strikes' \in [Providers -> 0 .. 2],
           usage' \in [Providers -> {"unknown", "room", "full"}]
    PROVE  RoutingInv'
<1>1. TypeOK /\ index \in Nat
  BY TypesKnown
<1>2. PICK n \in 0 .. left, q \in Call : Goes(c, list, left, looked, n, q)
  BY <1>1, ContinueIs
<1>3. Len(list) \in 1 .. Len(Pool) /\ left \in Nat /\ n \in Nat /\ left - n \in 0 .. Len(list)
  BY ListIs
<1>4. index' = (index + n) % Wrap /\ alone' = (IF n = 0 THEN alone ELSE Moved(c))
  BY <1>2 DEF Goes, Advance
<1>5. call' \in [Calls -> Call] /\ call'[c] = q /\ \A d \in Calls \ {c} : call'[d] = call[d]
  BY <1>1, <1>2 DEF Goes, TypeOK
<1>6. alone' \in [Calls -> BOOLEAN] /\ alone'[c] = alone[c]
  BY <1>1, <1>4 DEF Moved, TypeOK
<1>7. index' \in 0 .. (Wrap - 1) /\ (n = 0 => index' = index)
  <2>1. index + n \in Nat
    BY <1>1, <1>3
  <2>2. index' \in 0 .. (Wrap - 1)
    BY <2>1, <1>4, Division DEF Rem
  <2>3. index \in 0 .. (Wrap - 1)
    BY <1>1 DEF TypeOK
  <2>4. n = 0 => index' = index
    <3>1. Rem(index, Wrap) = index
      BY <2>3, NoRemainder
    <3> QED BY <1>1, <1>4, <3>1 DEF Rem
  <2> QED BY <2>2, <2>4
<1>8. looks' \in [Providers -> Nat] /\ LooksInv'
  <2>1. CASE stable
    <3>1. n \in 0 .. Len(Pool) /\ looks' = Counted(Spots(Pool, 0, n - 1))
      BY <1>2, <1>3, <2>1 DEF Goes
    <3>2. /\ looks' \in [Providers -> Nat]
          /\ \A k \in 1 .. Len(Pool) :
                looks'[Pool[k]] = IF k <= Rem(index', Len(Pool)) THEN 1 ELSE 0
      BY <1>1, <1>4, <2>1, <3>1, CountedEvenly DEF RoutingInv
    <3> QED BY <2>1, <3>2 DEF LooksInv
  <2>2. CASE ~stable
    BY <1>1, <1>2, <2>2 DEF Goes, LooksInv, RoutingInv, TypeOK
  <2> QED BY <2>1, <2>2
<1>9. TypeOK'
  BY <1>1, <1>5, <1>6, <1>7, <1>8 DEF TypeOK
<1>10. PoolInv'
  BY DEF RoutingInv, PoolInv
<1>11. CallOK(c)'
  <2>1. /\ q.pc # "idle" /\ ~q.broke /\ q.list = list /\ q.left = left - n
        /\ q.pc = "fallback" => q.left = 0
        /\ q.looked = looked \cup Spots(list, 0, n - 1)
    BY <1>2 DEF Goes
  <2>2. alone[c] => q.looked = Spots(list, left - n, Len(list) - 1)'
    <3>1. Spots(list, left - n, Len(list) - 1)' =
            Spots(list, left, Len(list) - 1) \cup Spots(list, 0, n - 1)
      BY <1>1, <1>4, SpotsMove
    <3> QED BY <2>1, <3>1
  <2>3. Spots(call[c].list, call[c].left, Len(call[c].list) - 1)' =
          Spots(list, left - n, Len(list) - 1)'
    BY <1>5, <2>1 DEF Spots, Spot
  <2>4. q.left <= Len(q.list)
    BY <2>1, <1>3
  <2> QED BY <1>5, <1>6, <2>1, <2>2, <2>3, <2>4 DEF CallOK
<1>12. ASSUME NEW d \in Calls, d # c
       PROVE  CallOK(d)'
  <2>1. call'[d] = call[d]
    BY <1>5, <1>12
  <2>2. CASE n = 0
    <3>1. index' = index /\ alone'[d] = alone[d]
      BY <2>2, <1>4, <1>7
    <3> QED BY <2>1, <3>1, OtherCall
  <2>3. CASE n # 0
    <3>1. ~alone'[d] \/ call[d].pc = "idle"
      BY <2>3, <1>4, <1>12 DEF Moved
    <3> QED BY <2>1, <3>1, OtherCall
  <2> QED BY <2>2, <2>3
<1> QED BY <1>8, <1>9, <1>10, <1>11, <1>12 DEF RoutingInv

------------------------------------------------------------------------------
(***************************************************************************)
(* The steps.                                                              *)
(***************************************************************************)

LEMMA BeginStep ==
    ASSUME RoutingInv, NEW c \in Calls, Begin(c)
    PROVE  RoutingInv'
<1>1. PICK list \in Lists : list = providers
  BY DEF RoutingInv, PoolInv
<1>2. Len(list) \in 0 .. Len(list) /\ {} \in SUBSET Providers
  BY ListIs
<1>3. PICK skipped : skipped = Skipped
  OBVIOUS
<1>4. Continue(c, list, Len(list), {}, skipped) /\ UNCHANGED <<providers, cool, strikes, usage, stable>>
  BY <1>1, <1>3 DEF Begin
<1>5. stable => list = Pool
  BY <1>1 DEF RoutingInv, PoolInv
<1>6. {} = Spots(list, Len(list), Len(list) - 1)
  <2>1. Len(list) .. (Len(list) - 1) = {}
    BY <1>2
  <2> QED BY <2>1 DEF Spots
<1>7. /\ cool' \in [Providers -> 0 .. LongCooldown]
      /\ strikes' \in [Providers -> 0 .. 2]
      /\ usage' \in [Providers -> {"unknown", "room", "full"}]
  BY <1>4, TypesKnown DEF TypeOK
<1> QED BY <1>2, <1>4, <1>5, <1>6, <1>7, ContinueStep

\* The rest of the loop, after an await.
LEMMA NextProviderStep ==
    ASSUME RoutingInv, NEW c \in Calls, call[c].pc \in {"usage", "sending"},
           NEW skipped, NextProvider(c, skipped),
           UNCHANGED <<providers, stable>>,
           cool' \in [Providers -> 0 .. LongCooldown],
           strikes' \in [Providers -> 0 .. 2],
           usage' \in [Providers -> {"unknown", "room", "full"}]
    PROVE  RoutingInv'
<1>1. TypeOK /\ CallOK(c)
  BY DEF RoutingInv
<1>2. PICK q \in Call : q = call[c]
  BY <1>1 DEF TypeOK
<1>3. /\ q.list \in Lists /\ q.left <= Len(q.list) /\ ~q.broke
      /\ stable => q.list = Pool
      /\ alone[c] => q.looked = Spots(q.list, q.left, Len(q.list) - 1)
  BY <1>1, <1>2 DEF CallOK
<1>4. q.left \in 0 .. Len(Pool) /\ q.looked \in SUBSET Providers
  BY DEF Call
<1>5. q.left \in 0 .. Len(q.list)
  BY <1>3, <1>4, ListIs
<1>6. Continue(c, q.list, q.left, q.looked, skipped)
  BY <1>2 DEF NextProvider
<1> QED BY <1>3, <1>4, <1>5, <1>6, ContinueStep

\* The index, the pool and the counts stay; one call changes its record.
LEMMA CallStepKeeps ==
    ASSUME RoutingInv, NEW c \in Calls, NEW q \in Call, call' = [call EXCEPT ![c] = q],
           UNCHANGED <<providers, index, stable, looks>>,
           alone' \in [Calls -> BOOLEAN],
           \A d \in Calls \ {c} : alone'[d] = alone[d],
           cool' \in [Providers -> 0 .. LongCooldown],
           strikes' \in [Providers -> 0 .. 2],
           usage' \in [Providers -> {"unknown", "room", "full"}],
           CallOK(c)'
    PROVE  RoutingInv'
<1>1. TypeOK
  BY TypesKnown
<1>2. TypeOK'
  BY <1>1 DEF TypeOK
<1>3. PoolInv'
  BY DEF RoutingInv, PoolInv
<1>4. LooksInv'
  BY DEF RoutingInv, LooksInv
<1>5. ASSUME NEW d \in Calls \ {c}
      PROVE  CallOK(d)'
  <2>1. call'[d] = call[d] /\ alone'[d] = alone[d]
    BY <1>1 DEF TypeOK
  <2> QED BY <2>1, OtherCall
<1> QED BY <1>2, <1>3, <1>4, <1>5 DEF RoutingInv

LEMMA ReturnStep ==
    ASSUME RoutingInv, NEW c \in Calls, Return(c),
           UNCHANGED <<providers, index, stable, looks, cool, usage>>,
           strikes' \in [Providers -> 0 .. 2]
    PROVE  RoutingInv'
<1>1. TypeOK /\ Idle \in Call
  BY TypesKnown, IdleIs
<1>2. call' = [call EXCEPT ![c] = Idle] /\ alone' \in [Calls -> BOOLEAN]
  BY <1>1 DEF Return, TypeOK
<1>3. \A d \in Calls \ {c} : alone'[d] = alone[d]
  BY <1>1 DEF Return, TypeOK
<1>4. CallOK(c)'
  <2>1. call'[c].pc = "idle"
    BY <1>1, <1>2 DEF TypeOK, Idle
  <2> QED BY <2>1 DEF CallOK
<1>5. cool' \in [Providers -> 0 .. LongCooldown] /\ usage' \in [Providers -> {"unknown", "room", "full"}]
  BY <1>1 DEF TypeOK
<1> QED BY <1>1, <1>2, <1>3, <1>4, <1>5, CallStepKeeps

\* The usage has arrived, or not, and the transfer begins.
LEMMA SendStep ==
    ASSUME RoutingInv, NEW c \in Calls, call[c].pc = "usage",
           call' = [call EXCEPT ![c].pc = "sending"],
           UNCHANGED <<providers, index, cool, strikes, alone, stable, looks>>,
           usage' \in [Providers -> {"unknown", "room", "full"}]
    PROVE  RoutingInv'
<1>1. TypeOK /\ CallOK(c)
  BY DEF RoutingInv
<1>2. PICK q \in Call : q = call[c]
  BY <1>1 DEF TypeOK
<1> DEFINE s == [q EXCEPT !.pc = "sending"]
<1>3. s \in Call /\ call' = [call EXCEPT ![c] = s] /\ call'[c] = s
  BY <1>1, <1>2 DEF Call, TypeOK
<1>4. CallOK(c)'
  <2>1. /\ q.list \in Lists /\ q.left <= Len(q.list) /\ ~q.broke
        /\ stable => q.list = Pool
        /\ alone[c] => q.looked = Spots(q.list, q.left, Len(q.list) - 1)
    BY <1>1, <1>2 DEF CallOK
  <2>2. /\ s.list = q.list /\ s.left = q.left /\ s.broke = q.broke /\ s.looked = q.looked
        /\ s.pc = "sending"
    BY DEF Call
  <2> HIDE DEF s
  <2>3. Spots(call[c].list, call[c].left, Len(call[c].list) - 1)' =
          Spots(q.list, q.left, Len(q.list) - 1)
    <3>1. call'[c].list = q.list /\ call'[c].left = q.left /\ index' = index
      BY <1>3, <2>2
    <3>2. Spots(call[c].list, call[c].left, Len(call[c].list) - 1)' =
            Spots(q.list, q.left, Len(q.list) - 1)'
      BY <3>1 DEF Spots, Spot
    <3>3. Spots(q.list, q.left, Len(q.list) - 1)' = Spots(q.list, q.left, Len(q.list) - 1)
      BY <3>1 DEF Spots, Spot
    <3> QED BY <3>2, <3>3
  <2> QED BY <1>3, <2>1, <2>2, <2>3 DEF CallOK
<1>5. /\ alone' \in [Calls -> BOOLEAN] /\ \A d \in Calls \ {c} : alone'[d] = alone[d]
      /\ cool' \in [Providers -> 0 .. LongCooldown] /\ strikes' \in [Providers -> 0 .. 2]
  BY <1>1 DEF TypeOK
<1> HIDE DEF s
<1> QED BY <1>3, <1>4, <1>5, CallStepKeeps

LEMMA UsageReadStep ==
    ASSUME RoutingInv, NEW c \in Calls, NEW u \in {"room", "full"}, UsageRead(c, u)
    PROVE  RoutingInv'
<1>1. /\ call[c].pc = "usage" /\ usage' = [usage EXCEPT ![call[c].at] = u]
      /\ UNCHANGED <<providers, cool, strikes, stable>>
  BY DEF UsageRead
<1>2. /\ usage' \in [Providers -> {"unknown", "room", "full"}]
      /\ cool' \in [Providers -> 0 .. LongCooldown] /\ strikes' \in [Providers -> 0 .. 2]
  BY <1>1, TypesKnown DEF TypeOK
<1>3. CASE u = "full"
  <2>1. PICK skipped : skipped = Skipped \cup {call[c].at}
    OBVIOUS
  <2>2. NextProvider(c, skipped)
    BY <1>3, <2>1 DEF UsageRead
  <2> QED BY <1>1, <1>2, <2>2, NextProviderStep
<1>4. CASE u # "full"
  <2>1. call' = [call EXCEPT ![c].pc = "sending"] /\ UNCHANGED <<index, alone, looks>>
    BY <1>4 DEF UsageRead
  <2> QED BY <1>1, <1>2, <2>1, SendStep
<1> QED BY <1>3, <1>4

LEMMA UsageFailsStep ==
    ASSUME RoutingInv, NEW c \in Calls, UsageFails(c)
    PROVE  RoutingInv'
<1>1. usage' \in [Providers -> {"unknown", "room", "full"}]
  BY TypesKnown DEF UsageFails, TypeOK
<1> QED BY <1>1, SendStep DEF UsageFails

LEMMA UploadOKStep ==
    ASSUME RoutingInv, NEW c \in Calls, UploadOK(c)
    PROVE  RoutingInv'
<1>1. strikes' \in [Providers -> 0 .. 2]
  <2>1. strikes \in [Providers -> 0 .. 2]
    BY TypesKnown DEF TypeOK
  <2>2. PICK p : p = call[c].at
    OBVIOUS
  <2>3. strikes' = [strikes EXCEPT ![p] = 0]
    BY <2>2 DEF UploadOK
  <2>4. 0 \in 0 .. 2
    OBVIOUS
  <2> QED BY <2>1, <2>3, <2>4, Zenon
<1> QED BY <1>1, ReturnStep DEF UploadOK

LEMMA FallbackStep ==
    ASSUME RoutingInv, NEW c \in Calls, Fallback(c)
    PROVE  RoutingInv'
<1>1. strikes' \in [Providers -> 0 .. 2]
  BY TypesKnown DEF Fallback, TypeOK
<1> QED BY <1>1, ReturnStep DEF Fallback

LEMMA UploadFailsStep ==
    ASSUME RoutingInv, NEW c \in Calls, UploadFails(c)
    PROVE  RoutingInv'
<1> DEFINE p == call[c].at
           n == IF strikes[p] = 2 THEN 2 ELSE strikes[p] + 1
<1>1. /\ call[c].pc = "sending" /\ UNCHANGED <<providers, usage, stable>>
      /\ strikes' = [strikes EXCEPT ![p] = n] /\ cool' = [cool EXCEPT ![p] = Cooldown(n)]
  BY DEF UploadFails
<1>2. PICK skipped : skipped = Skipped \cup {p}
  OBVIOUS
<1>3. NextProvider(c, skipped)
  BY <1>2 DEF UploadFails
<1>4. TypeOK
  BY TypesKnown
<1>5. p \in Providers
  BY <1>4 DEF TypeOK, Call
<1>6. n \in 0 .. 2 /\ Cooldown(n) \in 0 .. LongCooldown
  <2>1. strikes[p] \in 0 .. 2
    BY <1>4, <1>5 DEF TypeOK
  <2>2. n \in 0 .. 2
    BY <2>1
  <2> QED BY <2>2 DEF Cooldown
<1> HIDE DEF p, n
<1>7. cool' \in [Providers -> 0 .. LongCooldown] /\ strikes' \in [Providers -> 0 .. 2]
  BY <1>1, <1>4, <1>6 DEF TypeOK
<1>8. usage' \in [Providers -> {"unknown", "room", "full"}]
  BY <1>1, <1>4 DEF TypeOK
<1> QED BY <1>1, <1>3, <1>7, <1>8, NextProviderStep

\* A list loses one of its providers, or none.
LEMMA WithoutIs ==
    ASSUME NEW list \in Lists, Local \in Registered(list), NEW p, p # Local
    PROVE  Without(list, p) \in Lists /\ Local \in Registered(Without(list, p))
<1>1. CASE p \notin Registered(list)
  BY <1>1 DEF Without
<1>2. CASE p \in Registered(list)
  <2> DEFINE k == CHOOSE j \in DOMAIN list : list[j] = p
             w == [j \in 1 .. (Len(list) - 1) |-> IF j < k THEN list[j] ELSE list[j + 1]]
  <2>1. Without(list, p) = w
    BY <1>2 DEF Without
  <2>2. k \in DOMAIN list /\ list[k] = p
    BY <1>2 DEF Registered
  <2>3. Len(list) \in Nat \ {0} /\ DOMAIN list = 1 .. Len(list) /\ list \in [1 .. Len(list) -> Providers]
    BY ListIs
  <2>4. PICK i \in 1 .. Len(list) : list[i] = Local
    BY <2>3 DEF Registered
  <2> HIDE DEF k
  <2>5. i # k /\ Len(list) - 1 \in Nat \ {0}
    BY <2>2, <2>3, <2>4
  <2>6. w \in [1 .. (Len(list) - 1) -> Providers]
    BY <2>2, <2>3
  <2>7. w \in Seq(Providers) /\ Len(w) = Len(list) - 1 /\ DOMAIN w = 1 .. (Len(list) - 1)
    BY <2>5, <2>6
  <2>8. Once(w)
    <3> SUFFICES ASSUME NEW a \in 1 .. (Len(list) - 1), NEW b \in 1 .. (Len(list) - 1), w[a] = w[b]
                 PROVE  a = b
      BY <2>7 DEF Once
    <3> DEFINE at(j) == IF j < k THEN j ELSE j + 1
    <3>1. /\ at(a) \in 1 .. Len(list) /\ at(b) \in 1 .. Len(list)
          /\ w[a] = list[at(a)] /\ w[b] = list[at(b)]
      BY <2>2, <2>3
    <3>2. at(a) = at(b)
      BY <3>1, <2>3 DEF Lists, Once
    <3> QED BY <3>2, <2>2, <2>3
  <2>9. Local \in Registered(w)
    <3> DEFINE b == IF i < k THEN i ELSE i - 1
    <3>1. b \in 1 .. (Len(list) - 1) /\ w[b] = list[i]
      BY <2>2, <2>3, <2>4, <2>5
    <3> QED BY <3>1, <2>4, <2>7 DEF Registered
  <2> HIDE DEF w
  <2> QED BY <2>1, <2>5, <2>7, <2>8, <2>9 DEF Lists
<1> QED BY <1>1, <1>2

LEMMA UploadBreaksStep ==
    ASSUME RoutingInv, NEW c \in Calls, UploadBreaks(c)
    PROVE  RoutingInv'
<1>1. TypeOK /\ PoolInv /\ CallOK(c)
  BY DEF RoutingInv
<1>2. PICK q \in Call : q = call[c]
  BY <1>1 DEF TypeOK
<1> DEFINE s == [q EXCEPT !.pc = "fallback", !.at = Local, !.left = 0, !.broke = TRUE]
<1>3. q.pc = "sending" /\ q.at \in Revocable /\ providers' = Without(providers, q.at)
  BY <1>2 DEF UploadBreaks
<1>4. s \in Call /\ call' \in [Calls -> Call] /\ call'[c] = s /\ \A d \in Calls \ {c} : call'[d] = call[d]
  <2>1. 0 \in 0 .. Len(Pool)
    BY PoolIsList, ListIs
  <2>2. s \in Call
    BY <2>1 DEF Call
  <2>3. call' = [call EXCEPT ![c] = s]
    BY <1>1, <1>2 DEF UploadBreaks, TypeOK
  <2> HIDE DEF s
  <2> QED BY <1>1, <2>2, <2>3 DEF TypeOK
<1>5. /\ stable' = FALSE /\ looks' = [p \in Providers |-> 0]
      /\ UNCHANGED <<index, cool, strikes, usage, alone>>
  BY DEF UploadBreaks
<1>6. providers' \in Lists /\ Local \in Registered(providers')
  <2>1. PICK list \in Lists : list = providers
    BY <1>1 DEF PoolInv
  <2>2. q.at # Local
    BY <1>3
  <2> QED BY <1>1, <1>3, <2>1, <2>2, WithoutIs DEF PoolInv
<1>7. providers' \in UNION {[1 .. n -> Providers] : n \in 1 .. Len(Pool)}
  <2>1. PICK list \in Lists : list = providers'
    BY <1>6
  <2> QED BY <2>1, ListIs
<1>8. TypeOK'
  BY <1>1, <1>4, <1>5, <1>7 DEF TypeOK
<1>9. PoolInv'
  BY <1>5, <1>6 DEF PoolInv
<1>10. LooksInv'
  BY <1>5 DEF LooksInv
<1>11. CallOK(c)'
  <2>1. q.list \in Lists
    BY <1>1, <1>2, <1>3 DEF CallOK
  <2>2. s.list = q.list /\ s.left = 0 /\ s.broke /\ s.pc = "fallback"
    BY DEF Call
  <2>3. 0 <= Len(q.list)
    BY <2>1, ListIs
  <2> HIDE DEF s
  <2> QED BY <1>4, <1>5, <2>1, <2>2, <2>3 DEF CallOK
<1>12. ASSUME NEW d \in Calls \ {c}
       PROVE  CallOK(d)'
  BY <1>4, <1>5, OtherCall
<1> QED BY <1>8, <1>9, <1>10, <1>11, <1>12 DEF RoutingInv

\* No call takes the step.
LEMMA QuietStep ==
    ASSUME RoutingInv, UNCHANGED <<loop, strikes, stable>>,
           PoolInv',
           cool' \in [Providers -> 0 .. LongCooldown],
           usage' \in [Providers -> {"unknown", "room", "full"}]
    PROVE  RoutingInv'
<1>1. index' = index /\ call' = call /\ alone' = alone /\ looks' = looks
  BY DEF loop
<1>2. providers' \in UNION {[1 .. n -> Providers] : n \in 1 .. Len(Pool)}
  <2>1. PICK list \in Lists : list = providers'
    BY DEF PoolInv
  <2> QED BY <2>1, ListIs
<1>3. TypeOK'
  BY <1>1, <1>2, TypesKnown DEF TypeOK
<1>4. LooksInv'
  BY <1>1 DEF RoutingInv, LooksInv
<1>5. ASSUME NEW d \in Calls
      PROVE  CallOK(d)'
  BY <1>1, OtherCall
<1> QED BY <1>3, <1>4, <1>5 DEF RoutingInv

LEMMA OutsideStep ==
    ASSUME RoutingInv, NEW p \in Providers, DownloadFails(p) \/ UsageExpires(p) \/ Tick
    PROVE  RoutingInv'
<1>1. TypeOK /\ PoolInv
  BY DEF RoutingInv
<1>2. UNCHANGED <<providers, loop, strikes, stable>>
  BY DEF DownloadFails, UsageExpires, Tick
<1>3. PoolInv'
  BY <1>1, <1>2 DEF PoolInv
<1>4. usage' \in [Providers -> {"unknown", "room", "full"}]
  BY <1>1 DEF DownloadFails, UsageExpires, Tick, TypeOK
<1>5. cool' \in [Providers -> 0 .. LongCooldown]
  <2>1. CASE DownloadFails(p)
    BY <1>1, <2>1 DEF DownloadFails, TypeOK
  <2>2. CASE UsageExpires(p)
    BY <1>1, <2>2 DEF UsageExpires, TypeOK
  <2>3. CASE Tick
    <3>1. cool' = [q \in Providers |-> IF cool[q] = 0 THEN 0 ELSE cool[q] - 1]
      BY <2>3 DEF Tick
    <3>2. \A q \in Providers : cool[q] \in 0 .. LongCooldown
      BY <1>1 DEF TypeOK
    <3> QED BY <3>1, <3>2
  <2> QED BY <2>1, <2>2, <2>3
<1> QED BY <1>2, <1>3, <1>4, <1>5, QuietStep

LEMMA RegisterStep ==
    ASSUME RoutingInv, NEW p \in Providers, Register(p)
    PROVE  RoutingInv'
<1>1. TypeOK /\ PoolInv
  BY DEF RoutingInv
<1>2. /\ p \notin Registered(providers) /\ providers' = Append(providers, p)
      /\ UNCHANGED <<cool, strikes, usage, loop, stable>>
  BY DEF Register
<1>3. ~stable
  BY <1>1, <1>2, PoolIsList DEF PoolInv
<1>4. PICK list \in Lists : list = providers
  BY <1>1 DEF PoolInv
<1>5. list \in Seq(Providers) /\ Len(list) \in Nat \ {0} /\ Once(list) /\ p \notin Registered(list)
  BY <1>2, <1>4 DEF Lists
<1> DEFINE w == Append(list, p)
<1>6. w \in Seq(Providers) /\ Len(w) = Len(list) + 1 /\ DOMAIN w = 1 .. (Len(list) + 1)
  BY <1>5
<1>7. \A j \in 1 .. (Len(list) + 1) : w[j] = IF j <= Len(list) THEN list[j] ELSE p
  BY <1>5
<1>8. \A j \in 1 .. Len(list) : list[j] # p
  BY <1>5 DEF Registered
<1> HIDE DEF w
<1>9. Once(w)
  BY <1>5, <1>6, <1>7, <1>8 DEF Once
<1>10. Local \in Registered(w)
  <2>1. PICK j \in 1 .. Len(list) : list[j] = Local
    BY <1>1, <1>4, <1>5 DEF PoolInv, Registered
  <2> QED BY <2>1, <1>5, <1>6, <1>7 DEF Registered
<1>11. PoolInv'
  BY <1>2, <1>3, <1>4, <1>5, <1>6, <1>9, <1>10 DEF PoolInv, Lists, w
<1>12. cool' \in [Providers -> 0 .. LongCooldown] /\ usage' \in [Providers -> {"unknown", "room", "full"}]
  BY <1>1, <1>2 DEF TypeOK
<1> QED BY <1>2, <1>11, <1>12, QuietStep

LEMMA RoutingStep == RoutingInv /\ [Next]_vars => RoutingInv'
<1> SUFFICES ASSUME RoutingInv, [Next]_vars PROVE RoutingInv'
  OBVIOUS
<1>1. ASSUME NEW c \in Calls, Begin(c) PROVE RoutingInv'
  BY <1>1, BeginStep
<1>2. ASSUME NEW c \in Calls, CallStep(c) PROVE RoutingInv'
  BY <1>2, UsageReadStep, UsageFailsStep, UploadOKStep, UploadFailsStep, UploadBreaksStep, FallbackStep
     DEF CallStep
<1>3. ASSUME NEW p \in Providers, DownloadFails(p) \/ UsageExpires(p) PROVE RoutingInv'
  BY <1>3, OutsideStep
<1>4. ASSUME NEW p \in Providers, Register(p) PROVE RoutingInv'
  BY <1>4, RegisterStep
<1>5. CASE Tick
  BY <1>5, OutsideStep
<1>6. CASE UNCHANGED vars
  <2>1. UNCHANGED <<providers, loop, cool, strikes, usage, stable>>
    BY <1>6 DEF vars
  <2>2. PoolInv'
    BY <2>1 DEF RoutingInv, PoolInv
  <2>3. cool' \in [Providers -> 0 .. LongCooldown] /\ usage' \in [Providers -> {"unknown", "room", "full"}]
    BY <2>1, TypesKnown DEF TypeOK
  <2> QED BY <2>1, <2>2, <2>3, QuietStep
<1> QED BY <1>1, <1>2, <1>3, <1>4, <1>5, <1>6 DEF Next

LEMMA RoutingInvariance == Spec => []RoutingInv
  BY InitInv, RoutingStep, PTL DEF Spec

------------------------------------------------------------------------------
(***************************************************************************)
(* The theorems.                                                           *)
(***************************************************************************)

\* upload_shard keeps its types: the index within a round, the pool a list of
\* different providers that is never empty, quarantines within their limit.
THEOREM TypeCorrect == Spec => []TypeOK
<1>1. RoutingInv => TypeOK
  BY DEF RoutingInv
<1> QED BY <1>1, RoutingInvariance, PTL

\* A call of upload_shard during which nobody else moves the shared index looks at
\* each provider of its list once, for any number of providers.
THEOREM OnceCorrect == Spec => []EachProviderOnce
<1>1. RoutingInv => EachProviderOnce
  <2> SUFFICES ASSUME RoutingInv, NEW c \in Calls, alone[c], call[c].pc # "idle", ~call[c].broke
               PROVE  /\ Cardinality(call[c].looked) = Len(call[c].list) - call[c].left
                      /\ call[c].pc = "fallback" => call[c].looked = Registered(call[c].list)
    BY DEF EachProviderOnce
  <2>1. TypeOK /\ index \in Nat /\ CallOK(c)
    BY TypesKnown DEF RoutingInv
  <2>2. PICK q \in Call : q = call[c]
    BY <2>1 DEF TypeOK
  <2>3. /\ q.list \in Lists /\ q.left <= Len(q.list) /\ q.left \in Nat
        /\ q.looked = Spots(q.list, q.left, Len(q.list) - 1)
        /\ q.pc = "fallback" => q.left = 0
    BY <2>1, <2>2 DEF CallOK, Call
  <2>4. q.left \in 0 .. Len(q.list)
    BY <2>3, ListIs
  <2>5. Cardinality(q.looked) = Len(q.list) - q.left
    BY <2>1, <2>3, <2>4, RoundCount
  <2>6. q.pc = "fallback" => q.looked = Registered(q.list)
    BY <2>1, <2>3, RoundIsOnce
  <2> QED BY <2>2, <2>5, <2>6
<1> QED BY <1>1, RoutingInvariance, PTL

\* As long as the pool stays, calls of upload_shard look at the providers equally
\* often, give or take one, whatever they skip, and however they overlap.
THEOREM RotationCorrect == Spec => []RotationIsEven
<1>1. RoutingInv => RotationIsEven
  <2> SUFFICES ASSUME RoutingInv, NEW p \in Providers, NEW q \in Providers
               PROVE  looks[p] <= looks[q] + 1
    BY DEF RotationIsEven
  <2>1. LooksInv
    BY DEF RoutingInv
  <2>2. looks[p] \in {0, 1} /\ looks[q] \in {0, 1}
    <3>1. \A x \in Providers : \E k \in 1 .. Len(Pool) : x = Pool[k]
      BY DEF Providers, Registered
    <3> QED BY <2>1, <3>1 DEF LooksInv
  <2> QED BY <2>2
<1> QED BY <1>1, RoutingInvariance, PTL
===============================================================================
