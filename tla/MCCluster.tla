----------------------------- MODULE MCCluster -----------------------------
(***************************************************************************)
(* Two scenes of one run, chosen in the initial state: "nodes", the        *)
(* simulated cluster of Cluster, and "placement", the adaptive actor, the  *)
(* load balancer and a ring whose members change, of Placement. A scene    *)
(* leaves the variables of the other as they are.                          *)
(*                                                                         *)
(* The cluster has three nodes with two virtual nodes each and two keys,   *)
(* each in a bucket of its own; the limit of a sync is one key or two, so  *)
(* that syncs within and over the limit both happen; the nodes' maps list  *)
(* the keys in different orders.                                           *)
(*                                                                         *)
(* There are deployments whose detector cleans up and recalculates at the  *)
(* same interval (the default configuration) and at different ones         *)
(* (high_throughput), with four nodes, and one that balances five shards.  *)
(***************************************************************************)
EXTENDS Cluster

CONSTANTS k1, k2, k3, v1, v2,
          Second, MaxTime, MaxLag, MaxImbalance, MinKeysForSplit, MinOpsForScale, Cooldown

VARIABLES scene, deployment, members, tracked, lastCleanup, overrides, lastRecalc, promotions,
          demotions, metrics, now, spent

MCNodePosition == [r \in 1..3 |-> CASE r = 1 -> <<2, 11>> [] r = 2 -> <<5, 7>> [] r = 3 -> <<9, 14>>]
MCKeyPosition == [k \in {k1, k2} |-> IF k = k1 THEN 3 ELSE 12]
MCBucket == [k \in {k1, k2} |-> IF k = k1 THEN 0 ELSE 1]

Orders == [r \in 1..3 |-> IF r = 2 THEN <<k2, k1>> ELSE <<k1, k2>>]

Built(selective, limit, rf, delays, writes, losses, links) ==
    [selective |-> selective, limit |-> limit, rf |-> rf, order |-> Orders,
     delays |-> delays, writes |-> writes, losses |-> losses, links |-> links]

\* The two values play the same part.
Symmetry == Permutations({v1, v2})

MCConfigs ==
    {Built(FALSE, 2, 3, {1, 2}, {k1}, 1, {}),
     Built(FALSE, 1, 3, {1}, {k1, k2}, 0, {}),
     Built(TRUE, 2, 2, {1, 2}, {k1}, 0, {}),
     Built(TRUE, 2, 2, {1}, {k1}, 0, {{1, 2}})}

-----------------------------------------------------------------------------

AllPositions ==
    [x \in 1..4 |-> CASE x = 1 -> <<2, 11>> [] x = 2 -> <<5, 7>>
                      [] x = 3 -> <<9, 14>> [] x = 4 -> <<4, 12>>]
AllKeys == [k \in {k1, k2, k3} |-> IF k = k1 THEN 3 ELSE IF k = k2 THEN 8 ELSE 15]

Deployed(base, hot, recalc, cleanup, maxTracked, shards, accesses, membership) ==
    [base |-> base, hot |-> hot, recalc |-> recalc, cleanup |-> cleanup, window |-> 3,
     threshold |-> 1, maxTracked |-> maxTracked, shards |-> shards, maxShards |-> 6,
     accesses |-> accesses, membership |-> membership]

Deployments ==
    {Deployed(1, 3, 2, 2, 2, 0, 4, 0),
     Deployed(1, 2, 1, 2, 3, 0, 3, 0),
     Deployed(1, 2, 1, 1, 2, 0, 2, 2),
     Deployed(2, 3, 2, 2, 2, 0, 0, 5),
     Deployed(2, 3, 2, 2, 2, 5, 0, 0)}

ShardLoads == {[ops |-> 1, keys |-> 50], [ops |-> 20, keys |-> 0], [ops |-> 45, keys |-> 900]}

Adaptive == INSTANCE Placement WITH
    NodePosition <- AllPositions, KeyPosition <- AllKeys, Configs <- Deployments,
    Loads <- ShardLoads, config <- deployment, ring <- members, used <- spent

adaptiveVars == <<deployment, members, tracked, lastCleanup, overrides, lastRecalc, promotions,
                  demotions, metrics, now, spent>>

SceneInit ==
    /\ scene \in {"nodes", "placement"}
    /\ Init
    /\ Adaptive!Init
    /\ scene = "nodes" => deployment = CHOOSE d \in Deployments : TRUE
    /\ scene = "placement" => config = CHOOSE c \in MCConfigs : TRUE

SceneNext ==
    /\ UNCHANGED scene
    /\ \/ scene = "nodes" /\ Next /\ UNCHANGED adaptiveVars
       \/ scene = "placement" /\ Adaptive!Next /\ UNCHANGED vars

SceneSpec == SceneInit /\ [][SceneNext]_<<scene, vars, adaptiveVars>>


\* One anti-entropy exchange leaves two nodes with the same values, and the full
\* rounds bring all of them together.
RoundsConverge == scene = "nodes" => SyncReconciles /\ FullSyncConverges

\* The detector stays within max_tracked_keys and tracks the keys with a raised
\* factor, the counters account for them, a raised factor only adds replicas,
\* and the load balancer neither moves keys to a busier shard nor asks to remove
\* a shard while it would add one.
AdaptiveSound ==
    /\ Adaptive!TypeOK /\ Adaptive!HotTracked /\ Adaptive!PromotionsBalance
    /\ scene = "placement" => Adaptive!FactorOnlyExtends /\ Adaptive!ScalingSound

\* A node that joins or leaves the ring only enters or leaves the replicas.
MembershipMovesLittle == Adaptive!MembershipMovesLittle
=============================================================================
