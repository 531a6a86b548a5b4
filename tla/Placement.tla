----------------------------- MODULE Placement -----------------------------
(***************************************************************************)
(* Where a key is kept and how busy it is: the membership of the hash ring *)
(* (src/replication/hash_ring.rs), and the adaptive actor of               *)
(* src/production/adaptive_actor.rs with the hot key detector (hotkey.rs), *)
(* the replication factors it raises (adaptive_replication.rs) and the     *)
(* shard load balancer (load_balancer.rs) that it owns.                    *)
(*                                                                         *)
(* One action is one message of the actor or one change of membership. A   *)
(* connection reads the time, then sends its message, so the timestamps of *)
(* different connections reach the actor out of order by up to MaxLag.     *)
(* Reads and writes are counted together, as every rate is of their sum.   *)
(* Rates and load scores are compared multiplied out, in integers.         *)
(***************************************************************************)
EXTENDS HashRing, FiniteSets

CONSTANTS Configs,     \* [base, hot, recalc, window, threshold, cleanup,
                       \*  maxTracked, shards, maxShards]: the configuration;
                       \* with the bounds [accesses, membership] on the
                       \* accesses observed and the changes of membership
          Second,      \* 1000 ms, in the model's unit of time
          MaxTime,     \* bound: the clock
          MaxLag,      \* bound: how late a message reaches the actor
          Loads,       \* the metrics [ops, keys] a shard reports
          MaxImbalance, MinKeysForSplit, MinOpsForScale, Cooldown

Key == DOMAIN KeyPosition

Node == DOMAIN NodePosition

VARIABLES config,
          ring,         \* the hash ring
          tracked,      \* access_counts: key -> [total, first, last]
          lastCleanup,  \* last_cleanup_ms
          overrides,    \* the keys of key_rf_overrides
          lastRecalc,   \* last_recalc_ms
          promotions,   \* stats_promotions and
          demotions,    \* stats_demotions
          metrics,      \* shard_metrics: shard -> [ops, keys]
          now,          \* the connections' clock
          used          \* how much of each bound is spent

adaptive == <<tracked, lastCleanup, overrides, lastRecalc, promotions, demotions>>
vars == <<config, ring, adaptive, metrics, now, used>>

Minus(a, b) == IF a < b THEN 0 ELSE a - b

Init ==
    /\ config \in Configs
    /\ ring = NewRing(<<>>, config.base)
    /\ tracked = [k \in {} |-> 0]
    /\ lastCleanup = 0
    /\ overrides = {}
    /\ lastRecalc = 0
    /\ promotions = 0
    /\ demotions = 0
    /\ metrics = [s \in 0..(config.shards - 1) |-> [ops |-> 0, keys |-> 0]]
    /\ now = 0
    /\ used = [accesses |-> 0, membership |-> 0]

TypeOK ==
    /\ config \in Configs
    /\ DOMAIN tracked \subseteq Key
    /\ \A k \in DOMAIN tracked :
         tracked[k].total \in 1..config.accesses /\ {tracked[k].first, tracked[k].last} \subseteq 0..MaxTime
    /\ overrides \subseteq Key
    /\ {lastCleanup, lastRecalc} \subseteq 0..MaxTime
    /\ \A s \in DOMAIN metrics : metrics[s] \in Loads \cup {[ops |-> 0, keys |-> 0]}

-----------------------------------------------------------------------------
(* The hot key detector.                                                   *)

\* cleanup_stale: keys not accessed within the window are forgotten.
CleanupStale(t) ==
    [k \in {j \in DOMAIN tracked : tracked[j].last >= Minus(t, config.window)} |-> tracked[k]]

\* A key over the limit is not counted at all.
RecordAccess(counts, k, t) ==
    IF k \in DOMAIN counts
    THEN [counts EXCEPT ![k].total = @ + 1, ![k].last = t]
    ELSE IF Cardinality(DOMAIN counts) >= config.maxTracked THEN counts
    ELSE [j \in DOMAIN counts \cup {k} |->
            IF j = k THEN [total |-> 1, first |-> t, last |-> t] ELSE counts[j]]

\* The rate is over the time since the key was first seen.
IsHot(m, t) ==
    m.total * Second >= config.threshold * (IF t <= m.first THEN 1 ELSE t - m.first)

HotKeys(counts, t) == {k \in DOMAIN counts : IsHot(counts[k], t)}

-----------------------------------------------------------------------------
(* The messages of the adaptive actor.                                     *)

\* Mutation: a key that stays hot counts as promoted again.
RecalculatedRecounting(hot) ==
    /\ overrides' = hot
    /\ promotions' = promotions + Cardinality(hot)
    /\ demotions' = demotions + Cardinality(overrides \ hot)

Recalculated(hot) ==
    /\ overrides' = hot
    /\ promotions' = promotions + Cardinality(hot \ overrides)
    /\ demotions' = demotions + Cardinality(overrides \ hot)

\* ObserveAccess: cleanup when due, the access itself, recalculation when due.
ObserveAccess(k, t) ==
    /\ used.accesses < config.accesses
    /\ used' = [used EXCEPT !.accesses = @ + 1]
    /\ LET clean == Minus(t, lastCleanup) >= config.cleanup
           recalc == Minus(t, lastRecalc) >= config.recalc
           counts == RecordAccess(IF clean THEN CleanupStale(t) ELSE tracked, k, t) IN
       /\ tracked' = counts
       /\ lastCleanup' = IF clean THEN t ELSE lastCleanup
       /\ IF recalc THEN Recalculated(HotKeys(counts, t)) /\ lastRecalc' = t
          ELSE UNCHANGED <<overrides, promotions, demotions, lastRecalc>>
    /\ UNCHANGED <<config, ring, metrics, now>>

UpdateShardMetrics(s, m) ==
    /\ metrics' = [metrics EXCEPT ![s] = m]
    /\ UNCHANGED <<config, ring, adaptive, now, used>>

GetRfForKey(k) == IF k \in overrides THEN config.hot ELSE config.base

\* A shard's load score, times 100.
LoadScore(m) == 100 * m.ops + m.keys

Total(f(_)) == MapThenSumSet(f, DOMAIN metrics)

\* There may be one shard more, and the average load or the keys call for it.
NeedsShard ==
    /\ config.shards < config.maxShards
    /\ \/ Total(LAMBDA s : metrics[s].ops) > MinOpsForScale * config.shards
       \/ Total(LAMBDA s : metrics[s].keys) > MinKeysForSplit * config.shards

\* The decisions analyze may return at t; which of several equally loaded
\* shards it names depends on the order of a HashMap. The actor never calls
\* scaling_performed, so the cooldown is counted from time zero.
Analyze(t) ==
    LET load(s) == LoadScore(metrics[s])
        busiest == {s \in DOMAIN metrics : \A r \in DOMAIN metrics : load(r) <= load(s)}
        idlest == {s \in DOMAIN metrics : \A r \in DOMAIN metrics : load(s) <= load(r)}
        num == config.shards
        most == load(CHOOSE s \in busiest : TRUE)
        least == load(CHOOSE s \in idlest : TRUE)
        none == {[kind |-> "none"]} IN
    CASE t < Cooldown \/ DOMAIN metrics = {} -> none
      [] t >= Cooldown /\ least > 0 /\ most > MaxImbalance * least ->
           {[kind |-> "rebalance", from |-> a, to |-> b] : a \in busiest, b \in idlest}
      [] OTHER ->
           IF NeedsShard THEN {[kind |-> "add"]}
           ELSE IF num > 4 /\ least < 10 * 100
           THEN {[kind |-> "remove", shard |-> s] : s \in idlest}
           ELSE none

-----------------------------------------------------------------------------

JoinRing(x) ==
    /\ used.membership < config.membership
    /\ ring' = AddNode(ring, x)
    /\ used' = [used EXCEPT !.membership = @ + 1]
    /\ UNCHANGED <<config, adaptive, metrics, now>>

LeaveRing(x) ==
    /\ used.membership < config.membership
    /\ ring' = RemoveNode(ring, x)
    /\ used' = [used EXCEPT !.membership = @ + 1]
    /\ UNCHANGED <<config, adaptive, metrics, now>>

TimePasses ==
    /\ now < MaxTime
    /\ now' = now + 1
    /\ UNCHANGED <<config, ring, adaptive, metrics, used>>

Next ==
    \/ \E k \in Key, t \in Minus(now, MaxLag)..now : ObserveAccess(k, t)
    \/ \E s \in DOMAIN metrics, m \in Loads : UpdateShardMetrics(s, m)
    \/ \E x \in Node : JoinRing(x) \/ LeaveRing(x)
    \/ TimePasses

Spec == Init /\ [][Next]_vars

-----------------------------------------------------------------------------
(* Properties.                                                             *)

\* The detector tracks at most max_tracked_keys keys (Invariant 1 of
\* HotKeyDetector::verify_invariants) and, where keys are cleaned up and
\* factors recalculated at the same interval, as in the default configuration,
\* every key with a raised factor is still tracked: the actor asserts that
\* there are no more hot keys than tracked keys, whatever order the
\* timestamps of the connections arrive in.
HotTracked ==
    /\ Cardinality(DOMAIN tracked) <= config.maxTracked
    /\ config.cleanup = config.recalc => overrides \subseteq DOMAIN tracked

\* Every promotion is either still in force or was undone by one demotion:
\* the counters the INFO command reports account for the overrides.
PromotionsBalance == promotions = demotions + Cardinality(overrides)

\* A key has as many distinct replicas as its factor asks for, or all the
\* nodes; and raising the factor of a hot key only adds replicas behind the
\* ones it has, so promotion and demotion never move a key.
FactorOnlyExtends ==
    \A k \in Key, rf \in {config.base, config.hot} :
      LET rs == GetReplicasWithRf(ring, k, rf) IN
      /\ IsInjective(rs)
      /\ Len(rs) = IF rf < Len(ring.nodes) THEN rf ELSE Len(ring.nodes)
      /\ Range(rs) \subseteq Range(ring.nodes)
      /\ IsPrefix(GetReplicasWithRf(ring, k, config.base), GetReplicasWithRf(ring, k, GetRfForKey(k)))

\* Consistent hashing: a node that joins or leaves only enters or leaves the
\* list of replicas. The replicas before a join are, the newcomer aside, still
\* the first ones after it, in the same order, and the other way round.
MembershipMovesLittle ==
    [][\A k \in Key :
         LET before == GetReplicas(ring, k)
             after == GetReplicas(ring', k)
             gone == Range(ring.nodes) \ Range(ring'.nodes)
             new == Range(ring'.nodes) \ Range(ring.nodes) IN
         /\ IsPrefix(SelectSeq(after, LAMBDA x : x \notin new), before) \/ new = {}
         /\ IsPrefix(SelectSeq(before, LAMBDA x : x \notin gone), after)
              \/ new # {}]_ring

\* The load balancer never recommends moving keys from a shard to one that is
\* as busy, nor removing a shard while it would also justify adding one.
ScalingSound ==
    \A d \in Analyze(MaxTime) :
      /\ d.kind = "rebalance" =>
           LoadScore(metrics[d.from]) > LoadScore(metrics[d.to])
      /\ d.kind = "remove" =>
           /\ \A s \in DOMAIN metrics : LoadScore(metrics[d.shard]) <= LoadScore(metrics[s])
           /\ Total(LAMBDA s : metrics[s].ops) <= MinOpsForScale * config.shards
                \/ config.shards = config.maxShards
=============================================================================
