------------------------------ MODULE HashRing ------------------------------
(***************************************************************************)
(* The consistent hash ring of src/replication/hash_ring.rs: the virtual   *)
(* nodes of every physical node in the order of their positions, and the   *)
(* walk that lists the nodes responsible for a key.                        *)
(*                                                                         *)
(* The 64-bit hashes are tables: NodePosition gives a node the positions   *)
(* of its virtual nodes, KeyPosition gives a key its own. No two virtual   *)
(* nodes share a position (the order the code gives to a collision would   *)
(* depend on the order in which the nodes joined).                         *)
(***************************************************************************)
EXTENDS Integers, Sequences, SequencesExt

CONSTANTS NodePosition,  \* node -> the positions of its virtual nodes
          KeyPosition    \* key -> its position

ASSUME PositionsAssumption ==
    /\ \A x \in DOMAIN NodePosition :
         /\ Len(NodePosition[x]) > 0
         /\ \A i \in DOMAIN NodePosition[x] : NodePosition[x][i] \in Nat
    /\ \A x, y \in DOMAIN NodePosition :
         \A i \in DOMAIN NodePosition[x], j \in DOMAIN NodePosition[y] :
           NodePosition[x][i] = NodePosition[y][j] => x = y /\ i = j
    /\ \A k \in DOMAIN KeyPosition : KeyPosition[k] \in Nat

VirtualNodes(x) ==
    [i \in DOMAIN NodePosition[x] |-> [pos |-> NodePosition[x][i], node |-> x]]

\* Mutation: the new virtual nodes are left at the end of the list.
AddNodeUnsorted(h, x) ==
    IF x \in Range(h.nodes) THEN h
    ELSE [h EXCEPT !.nodes = Append(@, x),
                   !.ring = @ \o VirtualNodes(x),
                   !.version = @ + 1]

AddNode(h, x) ==
    IF x \in Range(h.nodes) THEN h
    ELSE [h EXCEPT !.nodes = Append(@, x),
                   !.ring = SortSeq(@ \o VirtualNodes(x),
                                    LAMBDA v, w : v.pos < w.pos),
                   !.version = @ + 1]

\* The version moves even when the node was not there.
RemoveNode(h, x) ==
    [h EXCEPT !.nodes = SelectSeq(@, LAMBDA y : y # x),
              !.ring = SelectSeq(@, LAMBDA v : v.node # x),
              !.version = @ + 1]

NewRing(nodes, rf) ==
    FoldLeft(AddNode, [ring |-> <<>>, nodes |-> <<>>, version |-> 0, rf |-> rf], nodes)

\* The first virtual node at or after the key, or the first of the ring.
StartIndex(h, k) ==
    LET after == {i \in DOMAIN h.ring : h.ring[i].pos >= KeyPosition[k]} IN
    IF after = {} THEN 1 ELSE CHOOSE i \in after : \A j \in after : i <= j

Clockwise(h, k) ==
    LET start == StartIndex(h, k) IN
    [i \in DOMAIN h.ring |-> h.ring[((start + i - 2) % Len(h.ring)) + 1].node]

\* The nodes in the order in which the walk first meets them.
Unique(s) ==
    LET first == SelectSeq([i \in DOMAIN s |-> i],
                           LAMBDA i : \A j \in 1..(i - 1) : s[j] # s[i]) IN
    [i \in DOMAIN first |-> s[first[i]]]

GetReplicasWithRf(h, k, rf) ==
    SubSeq(Unique(Clockwise(h, k)), 1, IF rf < Len(h.nodes) THEN rf ELSE Len(h.nodes))

GetReplicas(h, k) == GetReplicasWithRf(h, k, h.rf)

GetGossipTargets(h, k, sender) ==
    SelectSeq(GetReplicas(h, k), LAMBDA x : x # sender)
=============================================================================
