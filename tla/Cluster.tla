------------------------------ MODULE Cluster ------------------------------
(***************************************************************************)
(* A cluster of replicated nodes: src/simulator/multi_node.rs, which       *)
(* drives the replica states of src/replication over a network that delays *)
(* and loses messages and is partitioned and healed;                       *)
(* src/replication/gossip_router.rs, which sends a delta to every peer or  *)
(* to the replicas the hash ring names; and the digests and the bucket     *)
(* exchange of src/replication/anti_entropy.rs.                            *)
(*                                                                         *)
(* One action is one call of the simulation. Values are strings without an *)
(* expiry. A hash of a digest is the value hashed: two digests are equal   *)
(* exactly when what they hash is. The simulation's absolute clock is      *)
(* replaced by the time each message still needs (`wait').                 *)
(***************************************************************************)
EXTENDS Crdt, HashRing, FiniteSets

CONSTANTS Bucket,      \* key -> its bucket of the digest
          Configs,     \* [selective, limit, rf, order, delays, writes,
                       \* losses, links]: routing, max_keys_per_sync,
                       \* replication factor, the order in which each node's
                       \* HashMap lists its keys, message delays, the keys
                       \* written, the bound on losses, the links that are cut
          MaxWrites,   \* bound: commands executed
          MaxCuts,     \* bound: partitions
          MaxSyncs,    \* bound: calls of run_full_anti_entropy
          Unknown,     \* the replica state has no entry for a key
          Nothing      \* the executor has no entry for a key

Key == DOMAIN KeyPosition

\* The nodes in order: node i of the simulation is replica i + 1.
Nodes == [i \in Replica |-> i]

Others(r) == SelectSeq(Nodes, LAMBDA x : x # r)

ASSUME ClusterAssumption ==
    /\ Replica = 1..Cardinality(Replica) /\ DOMAIN NodePosition = Replica
    /\ DOMAIN Bucket = Key
    /\ {MaxWrites, MaxCuts, MaxSyncs} \subseteq Nat
    /\ \A c \in Configs :
         /\ c.selective \in BOOLEAN /\ {c.limit, c.rf} \subseteq Nat \ {0}
         /\ c.delays \subseteq Nat \ {0} /\ c.writes \subseteq Key
         /\ c.losses \in Nat /\ c.links \subseteq kSubset(2, Replica)
         /\ \A r \in Replica : IsInjective(c.order[r]) /\ Range(c.order[r]) = Key

VARIABLES config,   \* how this cluster was built
          ring,     \* its hash ring
          nodes,    \* per node: lamport_clock, replicated_keys, the
                    \* executor's data and pending_deltas
          queue,    \* message_queue
          cut,      \* partitions, as sets of two nodes
          dropped,  \* whether a message was ever dropped
          used      \* how much of each bound is spent

vars == <<config, ring, nodes, queue, cut, dropped, used>>

Delta(k, rv) == [key |-> k, value |-> rv]

Visible(rv) == IF rv = Unknown THEN NoValue ELSE Get(rv.crdt.reg)

Shown(v) == IF v = NoValue THEN Nothing ELSE v

TypeOK ==
    /\ config \in Configs
    /\ \A r \in Replica :
         LET n == nodes[r] IN
         /\ n.clock \in Stamp /\ n.clock.id = r
         /\ \A k \in Key :
              /\ n.data[k] \in Value \cup {Nothing}
              /\ n.keys[k] # Unknown =>
                   n.keys[k].crdt.reg \in Register /\ n.keys[k].stamp \in Stamp
         /\ \A i \in DOMAIN n.pending : n.pending[i].key \in Key
    /\ \A i \in DOMAIN queue :
         /\ {queue[i].from, queue[i].to} \in kSubset(2, Replica)
         /\ queue[i].wait \in Nat /\ Len(queue[i].deltas) > 0
    /\ cut \subseteq kSubset(2, Replica)
    /\ dropped \in BOOLEAN

Init ==
    /\ config \in Configs
    /\ ring = NewRing(Nodes, config.rf)
    /\ nodes = [r \in Replica |->
                  [clock |-> NewStamp(r), keys |-> [k \in Key |-> Unknown],
                   data |-> [k \in Key |-> Nothing], pending |-> <<>>]]
    /\ queue = <<>>
    /\ cut = {}
    /\ dropped = FALSE
    /\ used = [writes |-> 0, losses |-> 0, cuts |-> 0, syncs |-> 0]

Spend(b, n, max) ==
    /\ used[b] + n <= max
    /\ used' = [used EXCEPT ![b] = @ + n]

-----------------------------------------------------------------------------
(* A node: SimulatedNode::execute and the replica state it records in.     *)

\* Stores the value under a ticked clock and queues the delta.
Recorded(n, k, rv, c) ==
    [n EXCEPT !.clock = c, !.keys[k] = rv, !.pending = Append(@, Delta(k, rv))]

RecordWrite(n, k, v) ==
    LET c == Tick(n.clock) IN
    Recorded(n, k, [crdt |-> Lww(Written(v, c)), expiry |-> NoExpiry, stamp |-> c], c)

RecordDelete(n, k) ==
    LET c == Tick(n.clock) IN
    IF n.keys[k] = Unknown THEN n
    ELSE Recorded(n, k, [n.keys[k] EXCEPT !.crdt = Lww(Deleted(c)), !.stamp = c], c)

\* SET, SET NX and DEL: the executor first, then the replica state, which
\* records a SET whatever the executor answered.
ExecuteSet(n, k, v) == RecordWrite([n EXCEPT !.data[k] = v], k, v)

ExecuteSetNx(n, k, v) ==
    RecordWrite([n EXCEPT !.data[k] = IF @ = Nothing THEN v ELSE @], k, v)

ExecuteDel(n, k) == RecordDelete([n EXCEPT !.data[k] = Nothing], k)

\* Mutation: the executor is given the delta's value, not the merged one.
ApplyRemoteDeltaRaw(n, d) ==
    LET merged == IF n.keys[d.key] = Unknown THEN d.value
                  ELSE Merge(n.keys[d.key], d.value) IN
    [n EXCEPT !.clock = Update(@, d.value.stamp),
              !.keys[d.key] = merged,
              !.data[d.key] = Shown(Visible(d.value))]

ApplyRemoteDelta(n, d) ==
    LET merged == IF n.keys[d.key] = Unknown THEN d.value
                  ELSE Merge(n.keys[d.key], d.value) IN
    [n EXCEPT !.clock = Update(@, d.value.stamp),
              !.keys[d.key] = merged,
              !.data[d.key] = Shown(Visible(merged))]

ApplyRemoteDeltas(n, deltas) ==
    LET applied[i \in 0..Len(deltas)] ==
          IF i = 0 THEN n
          ELSE LET before == applied[i - 1] IN ApplyRemoteDelta(before, deltas[i])
    IN  applied[Len(deltas)]

-----------------------------------------------------------------------------
(* Digests and the exchange of divergent buckets.                          *)

KeyDigest(k, rv) == <<k, rv.stamp, Visible(rv)>>

KeysIn(r, n, buckets) ==
    SelectSeq(config.order[r], LAMBDA k : n.keys[k] # Unknown /\ Bucket[k] \in buckets)

\* The bucket's digests in the order of the node's map.
BucketDigest(r, n, b) ==
    LET ks == KeysIn(r, n, {b}) IN [i \in DOMAIN ks |-> KeyDigest(ks[i], n.keys[ks[i]])]

DivergentBuckets(s, a, b) ==
    {i \in Range(Bucket) : BucketDigest(a, s[a], i) # BucketDigest(b, s[b], i)}

\* get_keys_in_buckets: the first max_keys_per_sync keys of those buckets.
GetKeysInBuckets(r, n, buckets) ==
    LET ks == KeysIn(r, n, buckets)
        taken == SubSeq(ks, 1, IF Len(ks) < config.limit THEN Len(ks) ELSE config.limit) IN
    [i \in DOMAIN taken |-> Delta(taken[i], n.keys[taken[i]])]

\* run_anti_entropy_sync on the nodes s: both sides are read before either is
\* written. Equal roots and no divergent bucket are the same thing here.
AntiEntropySync(s, a, b) ==
    LET divergent == DivergentBuckets(s, a, b) IN
    [s EXCEPT ![b] = ApplyRemoteDeltas(@, GetKeysInBuckets(a, s[a], divergent)),
              ![a] = ApplyRemoteDeltas(@, GetKeysInBuckets(b, s[b], divergent))]

CanCommunicate(a, b) == {a, b} \notin cut

\* The pairs <<a, b>> with a < b, in the order of the two loops.
Pairs ==
    FoldLeft(LAMBDA ps, a : ps \o [i \in 1..(Len(Nodes) - a) |-> <<a, a + i>>], <<>>, Nodes)

\* Mutation: each node is only compared with the next one.
FullAntiEntropyNeighbours(s) ==
    LET synced[i \in 0..Len(Pairs)] ==
          IF i = 0 THEN s
          ELSE LET t == synced[i - 1] IN
               IF CanCommunicate(Pairs[i][1], Pairs[i][2]) /\ Pairs[i][2] = Pairs[i][1] + 1
               THEN AntiEntropySync(t, Pairs[i][1], Pairs[i][2]) ELSE t
    IN  synced[Len(Pairs)]

FullAntiEntropy(s) ==
    LET synced[i \in 0..Len(Pairs)] ==
          IF i = 0 THEN s
          ELSE LET t == synced[i - 1] IN
               IF CanCommunicate(Pairs[i][1], Pairs[i][2])
               THEN AntiEntropySync(t, Pairs[i][1], Pairs[i][2]) ELSE t
    IN  synced[Len(Pairs)]

-----------------------------------------------------------------------------
(* Routing and the network.                                                *)


\* What from sends to to: everything, or what the ring makes to answer for.
RouteDeltas(from, to, deltas) ==
    IF ~config.selective THEN deltas
    ELSE SelectSeq(deltas, LAMBDA d : to \in Range(GetGossipTargets(ring, d.key, from)))

\* The messages of a round before the network: the senders in order, and for
\* each its targets, ascending when broadcast and in any order (the routing
\* table is a HashMap) when routed.
Sends(descending) ==
    LET Targets(from) == IF from \in descending THEN Reverse(Others(from)) ELSE Others(from)
        From(from) == [i \in DOMAIN Targets(from) |->
                         [from |-> from, to |-> Targets(from)[i],
                          deltas |-> RouteDeltas(from, Targets(from)[i],
                                                 nodes[from].pending)]] IN
    SelectSeq(FoldLeft(LAMBDA sends, from : sends \o From(from), <<>>, Nodes),
              LAMBDA m : m.deltas # <<>>)

Ready(m) == m.wait = 0 /\ CanCommunicate(m.from, m.to)

\* How many messages deliver_messages takes: it stops at the first that is
\* not due or whose link is cut.
ReadyPrefix(q) ==
    LET blocked == {i \in DOMAIN q : ~Ready(q[i])} IN
    IF blocked = {} THEN Len(q) ELSE (CHOOSE i \in blocked : \A j \in blocked : i <= j) - 1

Delivered(s, q) ==
    [r \in Replica |->
        LET mine == SelectSeq(SubSeq(q, 1, ReadyPrefix(q)), LAMBDA m : m.to = r) IN
        ApplyRemoteDeltas(s[r], FlattenSeq([i \in DOMAIN mine |-> mine[i].deltas]))]

Undelivered(q) == SubSeq(q, ReadyPrefix(q) + 1, Len(q))

\* The outcomes of sending sends and delivering: each message whose link is
\* up is lost or given a delay, and queued behind the ones in flight.
Outcomes(sends) ==
    LET open == {i \in DOMAIN sends : CanCommunicate(sends[i].from, sends[i].to)}
        drained == [r \in Replica |-> [nodes[r] EXCEPT !.pending = <<>>]]
        Outcome(fate) ==
          LET kept == SelectSeq([i \in DOMAIN sends |-> i],
                                LAMBDA i : i \in open /\ fate[i] # 0)
              sent == [i \in DOMAIN kept |->
                         [from |-> sends[kept[i]].from, to |-> sends[kept[i]].to,
                          deltas |-> sends[kept[i]].deltas, wait |-> fate[kept[i]]]]
              q == queue \o sent IN
          [nodes |-> Delivered(drained, q), queue |-> Undelivered(q),
           lost |-> Cardinality({i \in open : fate[i] = 0}),
           dropped |-> Len(kept) < Len(sends)] IN
    {Outcome(fate) : fate \in {f \in [open -> config.delays \cup {0}] :
                          Cardinality({i \in open : f[i] = 0}) <= config.losses - used.losses}}

RoundOutcomes ==
    UNION {Outcomes(Sends(descending)) :
             descending \in SUBSET {r \in Replica : config.selective /\ nodes[r].pending # <<>>}}

-----------------------------------------------------------------------------
(* The calls of the simulation.                                            *)

Executed(r, n) ==
    /\ Spend("writes", 1, MaxWrites)
    /\ nodes' = [nodes EXCEPT ![r] = n]
    /\ UNCHANGED <<config, ring, queue, cut, dropped>>

Set(r, k, v) == Executed(r, ExecuteSet(nodes[r], k, v))

SetNx(r, k, v) == Executed(r, ExecuteSetNx(nodes[r], k, v))

Del(r, k) == Executed(r, ExecuteDel(nodes[r], k))

\* gossip_round: every node drained, what is not dropped sent, what is due
\* delivered.
GossipRound ==
    \E o \in RoundOutcomes :
      /\ Spend("losses", o.lost, config.losses)
      /\ nodes' = o.nodes
      /\ queue' = o.queue
      /\ dropped' = (dropped \/ o.dropped)
      /\ UNCHANGED <<config, ring, cut>>

AdvanceTime ==
    /\ \E i \in DOMAIN queue : queue[i].wait > 0
    /\ queue' = [i \in DOMAIN queue |->
                   [queue[i] EXCEPT !.wait = IF @ = 0 THEN 0 ELSE @ - 1]]
    /\ UNCHANGED <<config, ring, nodes, cut, dropped, used>>

Partition(a, b) ==
    /\ {a, b} \in config.links \ cut
    /\ Spend("cuts", 1, MaxCuts)
    /\ cut' = cut \cup {{a, b}}
    /\ UNCHANGED <<config, ring, nodes, queue, dropped>>

\* heal_partition with auto_anti_entropy: the two nodes are synced at once.
HealPartition(a, b) ==
    /\ {a, b} \in cut
    /\ cut' = cut \ {{a, b}}
    /\ nodes' = AntiEntropySync(nodes, a, b)
    /\ UNCHANGED <<config, ring, queue, dropped, used>>

RunFullAntiEntropy ==
    /\ Spend("syncs", 1, MaxSyncs)
    /\ nodes' = FullAntiEntropy(nodes)
    /\ UNCHANGED <<config, ring, queue, cut, dropped>>

Next ==
    \/ \E r \in Replica, k \in config.writes :
         \/ \E v \in Value : Set(r, k, v) \/ SetNx(r, k, v)
         \/ Del(r, k)
    \/ GossipRound
    \/ AdvanceTime
    \/ \E a, b \in Replica : a # b /\ (Partition(a, b) \/ HealPartition(a, b))
    \/ RunFullAntiEntropy

Spec == Init /\ [][Next]_vars

-----------------------------------------------------------------------------
(* Properties.                                                             *)

\* A node that a gossip delivery or an exchange changed serves the merged value
\* of the key: the comment on apply_remote_deltas says it writes the merged
\* result to the executor so that a stale delta cannot overwrite a newer one.
MergedServed ==
    [][\A r \in Replica, k \in Key :
         /\ nodes'[r].keys[k] # nodes[r].keys[k]
         /\ Len(nodes'[r].pending) <= Len(nodes[r].pending)
         => nodes'[r].data[k] = Shown(Visible(nodes'[r].keys[k]))]_vars

\* The nodes a write of k is sent to.
Holders(k) == IF config.selective THEN Range(GetReplicas(ring, k)) ELSE Replica

\* Once nothing is pending or in flight, and if no message was ever dropped,
\* the nodes that must hold a key agree on its register: every node when
\* gossip is broadcast, the replicas on the ring when it is routed, wherever
\* and in whatever order the writes were made.
QuietReplicasAgree ==
    /\ ~dropped /\ queue = <<>>
    /\ \A r \in Replica : nodes[r].pending = <<>>
    => \A k \in Key : \A a, b \in Holders(k) :
            \/ nodes[a].keys[k] = Unknown /\ nodes[b].keys[k] = Unknown
            \/ /\ nodes[a].keys[k] # Unknown /\ nodes[b].keys[k] # Unknown
               /\ nodes[a].keys[k].crdt = nodes[b].keys[k].crdt

\* The nodes of s show the same value for every key.
SameView(s, A) == \A k \in Key : \A a, b \in A : Visible(s[a].keys[k]) = Visible(s[b].keys[k])

\* Whatever two nodes hold, run_anti_entropy_sync leaves them with the same
\* view of every key, if neither has more than max_keys_per_sync keys in the
\* divergent buckets.
SyncReconciles ==
    \A a, b \in Replica :
      /\ a # b
      /\ \A r \in {a, b} :
           Len(KeysIn(r, nodes[r], DivergentBuckets(nodes, a, b))) <= config.limit
      => SameView(AntiEntropySync(nodes, a, b), {a, b})

\* Whatever was lost, one run_full_anti_entropy over a connected cluster of
\* three whose keys fit the limit leaves every node with the same view.
FullSyncConverges ==
    cut = {} /\ Cardinality(Key) <= config.limit
      => SameView(FullAntiEntropy(nodes), Replica)
=============================================================================
