------------------------------ MODULE Gossip ------------------------------
(***************************************************************************)
(* How deltas travel from one node to its peers: the actor that owns the   *)
(* outbound queue (production/gossip_actor.rs, replication/gossip.rs,      *)
(* replication/gossip_router.rs), the gossip loop with its pool of         *)
(* connections, and the gossip server of each peer, which keeps one        *)
(* handler per address (production/gossip_manager.rs).                     *)
(*                                                                         *)
(* A delta is a number, and a connection the bytes that are written and    *)
(* not yet read, one whole frame each: a write that fails leaves a part of *)
(* a frame at most, and read_exact drops it. start_gossip_loop, which      *)
(* holds a lock where this loop sends messages, is the same loop with the  *)
(* actor's steps taken at once.                                            *)
(***************************************************************************)
EXTENDS Naturals, Sequences, FiniteSets, SequencesExt

CONSTANTS ReplicaId,         \* config.replica_id
          Peers,             \* config.peers: the replicas behind the addresses, in order
          Responsible,       \* HashRing::get_replicas of the key of each delta
          MaxOutbound,       \* MAX_OUTBOUND_QUEUE
          Kinds,             \* the kinds that each message may have, a bound
          MaxTicks, MaxBroken  \* bounds

VARIABLES mailbox,    \* rx of the GossipActor
          stopped,    \* the actor has left its loop
          epoch, router, outbound,  \* GossipState: epoch, gossip_router, outbound_queue
          loop,       \* where the gossip loop is
          ticks,
          pool,       \* peer_connections: per peer, 0 when there is none
          conns,      \* the connections made so far
          active,     \* active_peers of each peer's server, for this node's address
          broken,     \* faults so far
          queued,     \* messages queued so far
          applied,    \* history: how often each peer applied each delta
          routed,     \* history: pairs of a delta and a peer it was queued for
          excused     \* history: pairs lost to a fault, to a full queue or to
                      \* a replaced connection

actorVars == <<mailbox, stopped, epoch, router, outbound, queued, routed>>
netVars == <<pool, conns, active, applied, broken>>
vars == <<actorVars, netVars, loop, ticks, excused>>

Peer == Range(Peers)
Message == DOMAIN Kinds

\* GossipActor::spawn, or spawn_with_router with a selective router. Nothing
\* calls set_router later.
Init ==
    /\ mailbox = <<>> /\ stopped = FALSE
    /\ epoch = 0 /\ router \in BOOLEAN /\ outbound = <<>>
    /\ loop = [at |-> "idle"] /\ ticks = 0
    /\ pool = [p \in Peer |-> 0] /\ conns = <<>> /\ active = [p \in Peer |-> 0]
    /\ broken = 0 /\ queued = 0
    /\ applied = [p \in Peer |-> [d \in Message |-> 0]]
    /\ routed = {} /\ excused = {}

-----------------------------------------------------------------------------
(* Addresses and routes. *)

\* GossipRouter::from_config and the peer_map of the loop: the id that the
\* peer in place i, counted from 0, is taken to have.
PeerId(i) == IF i >= ReplicaId THEN i + 2 ELSE i + 1

Addressed == {PeerId(i - 1) : i \in DOMAIN Peers}

PeerAt(id) == Peers[CHOOSE i \in DOMAIN Peers : PeerId(i - 1) = id]

\* HashRing::get_gossip_targets and GossipRouter::route_selective
Targets(d) == (Responsible[d] \ {ReplicaId}) \cap Addressed

\* target 0 is a broadcast.
Recipients(m) == IF m.target = 0 THEN Peers
                 ELSE IF m.target \in Addressed THEN <<PeerAt(m.target)>> ELSE <<>>

Pairs(m) == IF m.kind = "heartbeat" THEN {} ELSE {<<m.delta, p>> : p \in Range(Recipients(m))}

PairsOf(ms) == UNION {Pairs(ms[i]) : i \in DOMAIN ms}

-----------------------------------------------------------------------------
(* The actor. *)

\* What a handle sends reaches the actor, or nobody once it has stopped.
Sent(m) == IF stopped THEN mailbox ELSE Append(mailbox, m)

\* GossipActorHandle::queue_deltas, queue_deltas_broadcast, queue_heartbeat
Queue(kind) ==
    /\ queued < Len(Kinds) /\ kind \in Kinds[queued + 1]
    /\ queued' = queued + 1
    /\ mailbox' = Sent([type |-> kind, delta |-> queued'])
    /\ UNCHANGED <<stopped, epoch, router, outbound, routed, netVars, loop, ticks, excused>>

Shutdown ==
    /\ ~stopped /\ ~\E i \in DOMAIN mailbox : mailbox[i].type = "shutdown"
    /\ mailbox' = Sent([type |-> "shutdown"])
    /\ UNCHANGED <<stopped, epoch, router, outbound, queued, routed, netVars, loop, ticks, excused>>

Receives(types) == ~stopped /\ mailbox # <<>> /\ Head(mailbox).type \in types

\* The routing table is a HashMap: its targets come in any order.
Orders(targets) == {s \in [1 .. Cardinality(targets) -> targets] : Range(s) = targets}

Routed(kind, d, target) == [kind |-> kind, delta |-> d, target |-> target, epoch |-> epoch]

\* GossipState::queue_deltas, queue_deltas_broadcast and queue_heartbeat
Batches(m) ==
    IF m.type = "deltas" /\ router
    THEN {[i \in DOMAIN s |-> Routed("targeted", m.delta, s[i])] : s \in Orders(Targets(m.delta))}
    ELSE {<<Routed(IF m.type = "heartbeat" THEN "heartbeat" ELSE "batch", m.delta, 0)>>}

\* enforce_outbound_capacity: the oldest go.
EnforceCapacity(q) ==
    LET overflow == IF Len(q) > MaxOutbound THEN Len(q) - MaxOutbound ELSE 0
    IN  [kept |-> SubSeq(q, overflow + 1, Len(q)), gone |-> SubSeq(q, 1, overflow)]

ActorQueue ==
    /\ Receives({"deltas", "broadcast", "heartbeat"})
    /\ \E new \in Batches(Head(mailbox)) :
          LET q == EnforceCapacity(outbound \o new)
          IN  /\ outbound' = q.kept
              /\ routed' = routed \cup PairsOf(new)
              /\ excused' = excused \cup PairsOf(q.gone)
    /\ mailbox' = Tail(mailbox)
    /\ UNCHANGED <<stopped, epoch, router, queued, netVars, loop, ticks>>

ActorAdvance ==
    /\ Receives({"advance"})
    /\ epoch' = epoch + 1
    /\ mailbox' = Tail(mailbox)
    /\ UNCHANGED <<stopped, router, outbound, queued, routed, netVars, loop, ticks, excused>>

\* The loop's sends, in order: every message to every recipient.
Sends(ms) ==
    FlattenSeq([i \in DOMAIN ms |->
        [j \in DOMAIN Recipients(ms[i]) |-> [msg |-> ms[i], to |-> Recipients(ms[i])[j]]]])

Sending(todo) == IF todo = <<>> THEN [at |-> "idle"] ELSE [at |-> "send", todo |-> todo]

\* drain_outbound and the answer to the loop.
ActorDrain ==
    /\ Receives({"drain"})
    /\ loop' = Sending(Sends(outbound))
    /\ outbound' = <<>>
    /\ mailbox' = Tail(mailbox)
    /\ UNCHANGED <<stopped, epoch, router, queued, routed, netVars, ticks, excused>>

\* The actor stops: what is in its queue and its mailbox goes with it, and a
\* loop that waits for an answer gets an empty one.
ActorShutdown ==
    /\ Receives({"shutdown"})
    /\ stopped' = TRUE
    /\ mailbox' = <<>> /\ outbound' = <<>>
    /\ excused' = excused \cup PairsOf(outbound)
    /\ loop' = IF \E i \in DOMAIN mailbox : mailbox[i].type = "drain" THEN [at |-> "idle"] ELSE loop
    /\ UNCHANGED <<epoch, router, queued, routed, netVars, ticks>>

ActorStep == ActorQueue \/ ActorAdvance \/ ActorDrain \/ ActorShutdown

-----------------------------------------------------------------------------
(* The gossip loop. Its collect_deltas returns nothing. *)

Tick ==
    /\ loop.at = "idle" /\ ticks < MaxTicks
    /\ ticks' = ticks + 1
    /\ mailbox' = Sent([type |-> "advance"])
    /\ loop' = [at |-> "ask"]
    /\ UNCHANGED <<stopped, epoch, router, outbound, queued, routed, netVars, excused>>

AskDrain ==
    /\ loop.at = "ask"
    /\ mailbox' = Sent([type |-> "drain"])
    /\ loop' = IF stopped THEN [at |-> "idle"] ELSE [at |-> "wait"]
    /\ UNCHANGED <<stopped, epoch, router, outbound, queued, routed, netVars, ticks, excused>>

\* The server has dropped its end, or the network has.
Dead(c) == ~conns[c].up \/ conns[c].aborted \/ conns[c].at = "done"

ToSend == Head(loop.todo)

AfterSend == Sending(Tail(loop.todo))

\* send_to_peer_persistent with a connection: what is written to a dead
\* connection is lost or fails.
WriteToPool ==
    /\ loop.at = "send" /\ pool[ToSend.to] # 0
    /\ LET c == pool[ToSend.to]
       IN  \/ /\ ~Dead(c)
              /\ conns' = [conns EXCEPT ![c].data = Append(@, ToSend.msg)]
              /\ loop' = AfterSend /\ UNCHANGED <<pool, excused>>
           \/ /\ Dead(c)
              /\ excused' = excused \cup ({<<ToSend.msg.delta, ToSend.to>>} \cap Pairs(ToSend.msg))
              /\ loop' = AfterSend /\ UNCHANGED <<pool, conns>>
           \/ /\ Dead(c)
              /\ pool' = [pool EXCEPT ![ToSend.to] = 0]
              /\ UNCHANGED <<loop, conns, excused>>
    /\ UNCHANGED <<actorVars, active, applied, broken, ticks>>

Connection(p, m) ==
    [to |-> p, data |-> <<m>>, hand |-> <<>>, up |-> TRUE, at |-> "backlog", aborted |-> FALSE]

\* Without a connection: a new one, which carries the message.
ConnectAndWrite ==
    /\ loop.at = "send" /\ pool[ToSend.to] = 0
    /\ conns' = Append(conns, Connection(ToSend.to, ToSend.msg))
    /\ pool' = [pool EXCEPT ![ToSend.to] = Len(conns')]
    /\ loop' = AfterSend
    /\ UNCHANGED <<actorVars, active, applied, broken, ticks, excused>>


\* The connect, or the first write, fails: this peer does without the message.
ConnectFails ==
    /\ loop.at = "send" /\ pool[ToSend.to] = 0
    /\ broken < MaxBroken
    /\ broken' = broken + 1
    /\ excused' = excused \cup ({<<ToSend.msg.delta, ToSend.to>>} \cap Pairs(ToSend.msg))
    /\ loop' = AfterSend
    /\ UNCHANGED <<actorVars, pool, conns, active, applied, ticks>>

LoopStep == AskDrain \/ WriteToPool \/ ConnectAndWrite \/ ConnectFails

-----------------------------------------------------------------------------
(* The server of a peer. *)

\* The handler of connection c is aborted; one that is inside the callback
\* comes to the end of it. What it has not read is lost.
Aborted(c) ==
    [conns EXCEPT ![c] = [@ EXCEPT !.data = <<>>, !.aborted = TRUE,
                                   !.at = IF @ = "reading" THEN "done" ELSE @]]

Unread(c) == {<<d, p>> \in PairsOf(conns[c].data) : p = conns[c].to}

Abandoned(p) == IF active[p] = 0 THEN {} ELSE Unread(active[p])

Replaced(p) == IF active[p] = 0 THEN conns ELSE Aborted(active[p])

\* start_server: the next connection in the backlog replaces the handler that
\* this node's address has.
Accept(p) ==
    \E c \in DOMAIN conns :
        /\ conns[c].to = p /\ conns[c].at = "backlog"
        /\ \A b \in 1 .. (c - 1) : conns[b].to = p => conns[b].at # "backlog"
        /\ conns' = [Replaced(p) EXCEPT ![c].at = "reading"]
        /\ active' = [active EXCEPT ![p] = c]
        /\ excused' = excused \cup Abandoned(p)
        /\ UNCHANGED <<actorVars, pool, applied, broken, loop, ticks>>

\* A node that shares this one's address connects.
NeighbourConnects(p) ==
    /\ broken < MaxBroken /\ active[p] # 0
    /\ broken' = broken + 1
    /\ conns' = Replaced(p)
    /\ active' = [active EXCEPT ![p] = 0]
    /\ excused' = excused \cup Abandoned(p)
    /\ UNCHANGED <<actorVars, pool, applied, loop, ticks>>

\* handle_peer_connection: a frame is read, its deltas are given to the
\* callback, and a read that fails ends the handler.
Read(c) ==
    /\ conns[c].at = "reading" /\ conns[c].data # <<>>
    /\ conns' = [conns EXCEPT ![c].at = "applying", ![c].hand = <<Head(conns[c].data)>>,
                              ![c].data = Tail(@)]
    /\ UNCHANGED <<actorVars, pool, active, applied, broken, loop, ticks, excused>>

Apply(c) ==
    /\ conns[c].at = "applying"
    /\ LET m == Head(conns[c].hand)
           p == conns[c].to
       IN  applied' = IF m.kind = "heartbeat" THEN applied
                      ELSE [applied EXCEPT ![p][m.delta] = @ + 1]
    /\ conns' = [conns EXCEPT ![c].at = IF conns[c].aborted THEN "done" ELSE "reading",
                              ![c].hand = <<>>]
    /\ UNCHANGED <<actorVars, pool, active, broken, loop, ticks, excused>>

EndRead(c) ==
    /\ conns[c].at = "reading" /\ conns[c].data = <<>> /\ ~conns[c].up
    /\ conns' = [conns EXCEPT ![c].at = "done"]
    /\ UNCHANGED <<actorVars, pool, active, applied, broken, loop, ticks, excused>>

HandlerStep == \E c \in DOMAIN conns : Read(c) \/ Apply(c) \/ EndRead(c)

\* The network drops a connection and what has not arrived of its bytes.
Break(c) ==
    /\ broken < MaxBroken /\ ~Dead(c)
    /\ broken' = broken + 1
    /\ \E n \in 0 .. Len(conns[c].data) :
          LET kept == SubSeq(conns[c].data, 1, n)
          IN  /\ conns' = [conns EXCEPT ![c].up = FALSE, ![c].data = kept]
              /\ excused' = excused \cup
                    {<<d, p>> \in PairsOf(SubSeq(conns[c].data, n + 1, Len(conns[c].data))) :
                        p = conns[c].to}
    /\ UNCHANGED <<actorVars, pool, active, applied, loop, ticks>>

Next ==
    \/ \E kind \in {"deltas", "broadcast", "heartbeat"} : Queue(kind)
    \/ Shutdown
    \/ ActorStep \/ Tick \/ LoopStep \/ HandlerStep
    \/ \E p \in Peer : Accept(p) \/ NeighbourConnects(p)
    \/ \E c \in DOMAIN conns : Break(c)

Spec == Init /\ [][Next]_vars

-----------------------------------------------------------------------------
(* Properties. *)

Count(d, p, ms) == Cardinality({i \in DOMAIN ms : <<d, p>> \in Pairs(ms[i])})

\* Where delta d is on its way to peer p, or has arrived, each place as often
\* as d is there.
Places(d, p) ==
    <<Count(d, p, outbound),
      IF loop.at # "send" THEN 0
      ELSE Cardinality({i \in DOMAIN loop.todo : loop.todo[i].to = p /\ loop.todo[i].msg.delta = d
                                                 /\ loop.todo[i].msg.kind # "heartbeat"}),
      Cardinality({c \in DOMAIN conns : conns[c].to = p /\ Count(d, p, conns[c].data) = 1}),
      Cardinality({c \in DOMAIN conns : conns[c].to = p /\ Count(d, p, conns[c].hand) = 1}),
      applied[p][d],
      IF <<d, p>> \in excused THEN 1 ELSE 0>>

\* Between the queue and the callback of a peer a delta is in one place: it is
\* neither repeated, though a message whose write failed is written again to a
\* new connection, nor lost, but to a full queue, a fault, or a handler that the
\* server replaced. A peer that fails takes nothing from the others, and a
\* peer receives nothing that was not routed to it.
DeltaInOnePlace ==
    \A d \in Message, p \in Peer :
        LET places == Places(d, p)
        IN  places[1] + places[2] + places[3] + places[4] + places[5] + places[6]
                = IF <<d, p>> \in routed THEN 1 ELSE 0

\* However connections break and come back, the server has one handler for this
\* node that is not on its way out, and the pool holds only the newest
\* connection to a peer.
OneConnection ==
    \A p \in Peer :
        LET mine == {c \in DOMAIN conns : conns[c].to = p}
        IN  /\ Cardinality({c \in mine : conns[c].at \in {"reading", "applying"}
                                           /\ ~conns[c].aborted}) <= 1
            /\ \A c \in mine : pool[p] \in {0} \cup {d \in mine : d >= c}
=============================================================================
