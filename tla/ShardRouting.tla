----------------------------- MODULE ShardRouting -----------------------------
(***************************************************************************)
(* Where a shard goes: ProviderRegistry.upload_shard, called concurrently  *)
(* for every shard of a file.  All calls share the round-robin index, the  *)
(* quarantines, the strike counters and the quota cache of the registry,   *)
(* and give way to each other at every await.                              *)
(***************************************************************************)
EXTENDS Integers, Sequences, FiniteSets, FiniteSetsExt

CONSTANTS
    Pool,            \* the providers, in the order of their registration
    Local,           \* local_disk
    Metered,         \* providers whose usage takes an await and may pass 90%
    Flaky,           \* providers whose transfers may fail
    Revocable,       \* providers that may turn out permanently unusable
    Calls,           \* concurrent calls of upload_shard
    ShortCooldown,   \* 15 s after a first failure
    LongCooldown,    \* 120 s after the following ones
    Wrap             \* a multiple of every possible number of providers

Registered(list) == {list[k] : k \in DOMAIN list}

Providers == Registered(Pool)

ASSUME PoolAssumption     == /\ Pool \in Seq(Providers) /\ Len(Pool) > 0
                             /\ \A j, k \in DOMAIN Pool : Pool[j] = Pool[k] => j = k
ASSUME LocalAssumption    == Local \in Providers /\ Local \notin Revocable
ASSUME CooldownAssumption == /\ ShortCooldown \in Nat \ {0} /\ LongCooldown \in Nat
                             /\ ShortCooldown <= LongCooldown
ASSUME WrapAssumption     == Wrap \in Nat \ {0} /\ \A n \in 1 .. Len(Pool) : Wrap % n = 0

VARIABLES
    providers,   \* self.providers, in order
    index,       \* self._current_index, modulo Wrap
    cool,        \* what is left of degraded_until[p]
    strikes,     \* _upload_failures[p], up to 2
    usage,       \* usage_cache[p]: nothing younger than 300 s, room, or full
    call,        \* the calls of upload_shard
    alone,       \* no other call moved the index since this one began (history)
    stable,      \* no provider has come or gone (history)
    looks        \* how often each was looked at while stable, over the least (history)

loop == <<index, call, alone, looks>>
vars == <<providers, cool, strikes, usage, loop, stable>>

Call == [pc : {"idle", "usage", "sending", "fallback"},
         list : UNION {[1 .. n -> Providers] : n \in 0 .. Len(Pool)},
         at : Providers, left : 0 .. Len(Pool),
         looked : SUBSET Providers, broke : BOOLEAN]

Idle == [pc |-> "idle", list |-> << >>, at |-> Local, left |-> 0,
         looked |-> {}, broke |-> FALSE]

TypeOK ==
    /\ providers \in UNION {[1 .. n -> Providers] : n \in 1 .. Len(Pool)}
    /\ index \in 0 .. (Wrap - 1)
    /\ cool \in [Providers -> 0 .. LongCooldown]
    /\ strikes \in [Providers -> 0 .. 2]
    /\ usage \in [Providers -> {"unknown", "room", "full"}]
    /\ call \in [Calls -> Call]
    /\ alone \in [Calls -> BOOLEAN]
    /\ stable \in BOOLEAN
    /\ looks \in [Providers -> Nat]

Init ==
    /\ providers = Pool
    /\ index = 0
    /\ cool = [p \in Providers |-> 0]
    /\ strikes = [p \in Providers |-> 0]
    /\ usage = [p \in Providers |-> "unknown"]
    /\ call = [c \in Calls |-> Idle]
    /\ alone = [c \in Calls |-> TRUE]
    /\ stable = TRUE
    /\ looks = [p \in Providers |-> 0]

------------------------------------------------------------------------------
(***************************************************************************)
(* The loop.                                                               *)
(***************************************************************************)

\* Passed over without an await: in quarantine, or known to be full, or gone.
Skipped == {p \in Providers : cool[p] > 0 \/ usage[p] = "full" \/ p \notin Registered(providers)}

\* Mutant: every call starts with the provider registered first.
SpotFromFirst(list, j) == list[(j % Len(list)) + 1]

\* The provider that the j-th next iteration of the loop looks at.
Spot(list, j) == list[((index + j) % Len(list)) + 1]

\* When the index moves, every other call in progress is no longer alone.
Moved(c) == [d \in Calls |-> IF d # c /\ call[d].pc # "idle" THEN FALSE ELSE alone[d]]

\* Mutant: a provider that is passed over does not move the index.
AdvanceOnce(c, n) ==
    /\ index' = (index + 1) % Wrap
    /\ alone' = IF n = 0 THEN alone ELSE Moved(c)

Advance(c, n) ==
    /\ index' = (index + n) % Wrap
    /\ alone' = IF n = 0 THEN alone ELSE Moved(c)

\* The providers in S are looked at once more; what all have in common is left out.
Counted(S) ==
    LET n     == [p \in Providers |-> IF p \in S THEN looks[p] + 1 ELSE looks[p]]
        least == Min({n[p] : p \in Providers})
    IN [p \in Providers |-> n[p] - least]

\* The loop goes on, with `left` iterations to go, up to its next await.
Continue(c, list, left, looked, skipped) ==
    LET stops == {j \in 0 .. (left - 1) : Spot(list, j) \notin skipped}
        n     == IF stops = {} THEN left ELSE Min(stops) + 1
        p     == Spot(list, n - 1)
        now   == {Spot(list, j) : j \in 0 .. (n - 1)}
        seen  == looked \cup now
        asks  == p \in Metered /\ usage[p] = "unknown"
    IN
    /\ Advance(c, n)
    /\ looks' = IF stable THEN Counted(now) ELSE looks
    /\ call' = [call EXCEPT ![c] =
         IF stops = {}
         THEN [Idle EXCEPT !.pc = "fallback", !.list = list, !.looked = seen]
         ELSE [Idle EXCEPT !.pc = IF asks THEN "usage" ELSE "sending",
                           !.list = list, !.at = p, !.left = left - n, !.looked = seen]]

\* The rest of the loop of a call that got nowhere with its provider.
NextProvider(c, skipped) ==
    Continue(c, call[c].list, call[c].left, call[c].looked, skipped)

Return(c) ==
    /\ call' = [call EXCEPT ![c] = Idle]
    /\ alone' = [alone EXCEPT ![c] = TRUE]

Begin(c) ==
    /\ call[c].pc = "idle"
    /\ Continue(c, providers, Len(providers), {}, Skipped)
    /\ UNCHANGED <<providers, cool, strikes, usage, stable>>

\* The usage arrives.  The quarantine is not looked at again.
UsageRead(c, u) ==
    LET p == call[c].at IN
    /\ call[c].pc = "usage"
    /\ usage' = [usage EXCEPT ![p] = u]
    /\ IF u = "full"
       THEN NextProvider(c, Skipped \cup {p})
       ELSE /\ call' = [call EXCEPT ![c].pc = "sending"]
            /\ UNCHANGED <<index, alone, looks>>
    /\ UNCHANGED <<providers, cool, strikes, stable>>

\* No usage within HEALTH_CHECK_TIMEOUT: the provider counts as empty.
UsageFails(c) ==
    /\ call[c].pc = "usage"
    /\ call' = [call EXCEPT ![c].pc = "sending"]
    /\ UNCHANGED <<providers, index, cool, strikes, usage, alone, stable, looks>>

UploadOK(c) ==
    /\ call[c].pc = "sending"
    /\ strikes' = [strikes EXCEPT ![call[c].at] = 0]
    /\ Return(c)
    /\ UNCHANGED <<providers, index, cool, usage, stable, looks>>

Cooldown(n) == IF n = 1 THEN ShortCooldown ELSE LongCooldown

\* A strike, a quarantine, and on to the next iteration.
UploadFails(c) ==
    LET p == call[c].at
        n == IF strikes[p] = 2 THEN 2 ELSE strikes[p] + 1
    IN
    /\ call[c].pc = "sending"
    /\ p \in Flaky /\ p \in Registered(providers)
    /\ strikes' = [strikes EXCEPT ![p] = n]
    /\ cool' = [cool EXCEPT ![p] = Cooldown(n)]
    /\ NextProvider(c, Skipped \cup {p})
    /\ UNCHANGED <<providers, usage, stable>>

\* The list without p.
Without(list, p) ==
    LET k == CHOOSE j \in DOMAIN list : list[j] = p IN
    IF p \notin Registered(list) THEN list
    ELSE [j \in 1 .. (Len(list) - 1) |-> IF j < k THEN list[j] ELSE list[j + 1]]

\* The provider disables itself: out of the pool, and out of the loop.
UploadBreaks(c) ==
    LET p == call[c].at IN
    /\ call[c].pc = "sending"
    /\ p \in Revocable
    /\ providers' = Without(providers, p)
    /\ call' = [call EXCEPT ![c].pc = "fallback", ![c].at = Local, ![c].left = 0,
                            ![c].broke = TRUE]
    /\ stable' = FALSE
    /\ looks' = [q \in Providers |-> 0]
    /\ UNCHANGED <<index, cool, strikes, usage, alone>>

\* local_disk is tried whatever its state; the shard is stored there or lost.
Fallback(c) ==
    /\ call[c].pc = "fallback"
    /\ Return(c)
    /\ UNCHANGED <<providers, index, cool, strikes, usage, stable, looks>>

------------------------------------------------------------------------------
(***************************************************************************)
(* What else moves the shared state.                                       *)
(***************************************************************************)

\* Mutant: quarantines add up.
DownloadFailsAdds(p) ==
    /\ p \in Flaky /\ p \in Registered(providers)
    /\ cool' = [cool EXCEPT ![p] = @ + LongCooldown]
    /\ UNCHANGED <<providers, strikes, usage, loop, stable>>

\* download_shard fails: no strike, the long quarantine at once.
DownloadFails(p) ==
    /\ p \in Flaky /\ p \in Registered(providers)
    /\ cool' = [cool EXCEPT ![p] = LongCooldown]
    /\ UNCHANGED <<providers, strikes, usage, loop, stable>>

\* POST /providers/register: a pid that is not in the pool comes last.
Register(p) ==
    /\ p \notin Registered(providers)
    /\ providers' = Append(providers, p)
    /\ UNCHANGED <<cool, strikes, usage, loop, stable>>

\* Time passes.
Tick ==
    /\ \E p \in Providers : cool[p] > 0
    /\ cool' = [p \in Providers |-> IF cool[p] = 0 THEN 0 ELSE cool[p] - 1]
    /\ UNCHANGED <<providers, strikes, usage, loop, stable>>

\* A cached usage is 300 s old.
UsageExpires(p) ==
    /\ usage[p] # "unknown"
    /\ usage' = [usage EXCEPT ![p] = "unknown"]
    /\ UNCHANGED <<providers, cool, strikes, loop, stable>>

CallStep(c) ==
    \/ \E u \in {"room", "full"} : UsageRead(c, u)
    \/ UsageFails(c)
    \/ UploadOK(c) \/ UploadFails(c) \/ UploadBreaks(c)
    \/ Fallback(c)

Next ==
    \/ \E c \in Calls : Begin(c) \/ CallStep(c)
    \/ \E p \in Providers : DownloadFails(p) \/ UsageExpires(p) \/ Register(p)
    \/ Tick

Spec == Init /\ [][Next]_vars

------------------------------------------------------------------------------
(***************************************************************************)
(* Properties.                                                             *)
(***************************************************************************)

\* While no other call interferes, a call looks at each provider of its list at
\* most once, and gives up on them only after it has looked at every one: the
\* shared index keeps the order through all skips, failures and waits.
EachProviderOnce ==
    \A c \in Calls : alone[c] /\ call[c].pc # "idle" /\ ~call[c].broke =>
        /\ Cardinality(call[c].looked) = Len(call[c].list) - call[c].left
        /\ call[c].pc = "fallback" => call[c].looked = Registered(call[c].list)

\* As long as no provider comes or goes, the providers are looked at equally often,
\* give or take one, by however many calls that fail, wait and overlap: the index
\* is read and moved without an await between.
RotationIsEven == \A p, q \in Providers : looks[p] <= looks[q] + 1

\* A shard falls back to local_disk only when every provider left in the pool is
\* in quarantine or full.
FallbackIsLastResort ==
    [][\A c \in Calls : call[c].pc # "fallback" /\ call'[c].pc = "fallback" =>
          \A p \in Registered(providers') : cool'[p] > 0 \/ usage'[p] = "full"]_vars
==============================================================================
