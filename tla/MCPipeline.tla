----------------------------- MODULE MCPipeline -----------------------------
(***************************************************************************)
(* The ways a delta can take from a shard, as three scenes of one run,     *)
(* chosen in the initial state: to the object store, "actor", through the  *)
(* bridge and the persistence actor of Pipeline, and "buffer", through the *)
(* write buffer and the workers of WriteBuffer; and "gossip", to the other *)
(* nodes. A scene leaves the variables of the others alone.                *)
(***************************************************************************)
EXTENDS Pipeline

CONSTANTS MaxBytes, MaxBuffered, Threshold, MaxFlushes, MaxFailures,
          ReplicaId, MaxOutbound, MaxTicks, MaxBroken

VARIABLES scene, sunk, batch, deltas, bytes, counter, totals, elapsed, pc, last, taken, store,
          halt, sent, asked, accepted, refused, lost, due,
          mailbox, stopped, epoch, router, outbound, loop, ticks, pool, conns, active, broken,
          queued, applied, routed, excused

\* A light delta, two that fill the buffer together with it, one more.
WeightOfDeltas == <<1, 2, 1, 2>>

Buffer == INSTANCE WriteBuffer WITH
    MaxSends <- MaxSent, Weight <- WeightOfDeltas, channel <- sunk, stop <- halt

\* Replica 3 with the peers 1 and 2; the first delta is for both.
Node == INSTANCE Gossip WITH
    Peers <- <<1, 2>>, Responsible <- <<{1, 2, 3}, {1, 3}>>,
    Kinds <- <<{"deltas"}, {"broadcast", "heartbeat"}>>

gossipVars == <<mailbox, stopped, epoch, router, outbound, loop, ticks, pool, conns, active, broken,
                queued, applied, routed, excused>>
bufferVars == <<sunk, batch, deltas, bytes, counter, totals, elapsed, pc, last, taken, store, halt,
                sent, asked, accepted, refused, lost, due>>
sceneVars == <<scene, vars, bufferVars, gossipVars>>

SceneInit ==
    /\ scene \in {"actor", "buffer", "gossip"}
    /\ Init /\ Buffer!Init /\ Node!Init /\ (router => scene = "gossip")

SceneNext ==
    /\ UNCHANGED scene
    /\ \/ scene = "actor" /\ Next /\ UNCHANGED <<bufferVars, gossipVars>>
       \/ scene = "buffer" /\ Buffer!Next /\ UNCHANGED <<vars, gossipVars>>
       \/ scene = "gossip" /\ Node!Next /\ UNCHANGED <<vars, bufferVars>>

ActorScene == scene = "actor" /\ UNCHANGED <<scene, bufferVars, gossipVars>>
BufferScene == scene = "buffer" /\ UNCHANGED <<scene, vars, gossipVars>>

DrainStep == (ActorScene /\ BridgeStep) \/ (BufferScene /\ Buffer!PersistStep)
WorkStep == (ActorScene /\ ActorStep) \/ (BufferScene /\ Buffer!FlushWorkerStep)
TimeStep == (ActorScene /\ BridgeTick) \/ (BufferScene /\ Buffer!IntervalPasses)
FlushStep == (ActorScene /\ ActorTickFlush) \/ (BufferScene /\ Buffer!FlushStep("caller"))

\* The runtime schedules the tasks, store calls return and time passes. The
\* flush interval passes again and again, so some tick finds room in the channel
\* and some tick finds the interval elapsed: strong fairness. The write buffer's
\* interval and a caller's flush stay possible until they happen, so strong
\* fairness asks no more of them than weak fairness does.
SceneSpec ==
    /\ SceneInit /\ [][SceneNext]_sceneVars
    /\ WF_sceneVars(DrainStep) /\ WF_sceneVars(WorkStep)
    /\ SF_sceneVars(TimeStep) /\ SF_sceneVars(FlushStep)

\* The write buffer's estimate and counters stay those of what it holds, and no
\* flush overwrites, repeats or reorders another's.
BufferSound == Buffer!BufferAccounts /\ Buffer!SegmentsInOrder

\* The persistence worker of delta_sink.rs leaves nothing behind when it stops.
ShutdownFlushes == Buffer!ShutdownFlushes


\* Every delta settles without further writes. One that a shard sends to the
\* bridge is stored or dropped unless a shutdown begins: the ticks flush a
\* buffer that never fills, even if a full channel drops some of them. One that
\* the write buffer accepts is stored or lost to a put that failed.
DeltasSettle ==
    \A d \in Delta :
        d \in promised \cup Range(accepted) ~>
            \/ d \in stored \cup dropped \/ shutdown # "no"
            \/ d \in Buffer!Stored \cup lost
=============================================================================
