------------------------------ MODULE Pipeline ------------------------------
(***************************************************************************)
(* How a delta travels from a shard to the object store                    *)
(* (streaming/integration.rs, streaming/delta_sink.rs):                    *)
(*                                                                         *)
(*   DeltaSinkSender --> bridge task --> bounded channel --> actor          *)
(*                                                                         *)
(* and how WorkerHandles::shutdown stops the two tasks.  A flush is one    *)
(* step that succeeds or loses what it took; Streaming has its details.    *)
(***************************************************************************)
EXTENDS Naturals, Sequences, Functions

CONSTANTS
    MaxSent,           \* bound on the deltas the shards send
    ChannelCapacity,   \* PERSISTENCE_CHANNEL_CAPACITY
    MaxDeltas,         \* write_buffer.max_deltas
    Backpressure,      \* write_buffer.backpressure_threshold_bytes, in deltas
    MaxQueued          \* bound on the Tick, and the Flush, messages queued at once

ASSUME BoundsAssumption ==
    /\ MaxSent \in Nat /\ ChannelCapacity \in Nat \ {0}
    /\ MaxDeltas \in Nat \ {0} /\ Backpressure \in Nat \ {0}
    /\ MaxQueued \in Nat

VARIABLES
    sink,       \* the unbounded std::sync channel
    bridge,     \* where run_delta_sink_bridge is
    stop,       \* DeltaSinkBridgeHandle's flag
    channel,    \* rx of the persistence actor
    actor,      \* what the actor does
    buffer,     \* StreamingPersistence::buffer
    stored,     \* the deltas flushed to the object store
    shutdown,   \* progress of WorkerHandles::shutdown
    issued,     \* history: deltas given to the sink
    promised,   \* history: those given to it before the shutdown began
    dropped     \* history: deltas lost to a full channel, backpressure or a
                \* failed flush

actorVars == <<actor, buffer, stored>>
vars == <<sink, bridge, stop, channel, actorVars, shutdown, issued, promised, dropped>>

\* The deltas, numbered in the order of the sends.
Delta == 1 .. MaxSent

Message ==
    [type : {"PushDeltas"}, deltas : Seq(Delta)] \cup [type : {"Flush", "Tick", "Shutdown"}]

TypeOK ==
    /\ sink \in Seq(Delta) /\ buffer \in Seq(Delta) /\ channel \in Seq(Message)
    /\ Len(channel) <= ChannelCapacity
    /\ Len(buffer) <= Backpressure
    /\ bridge \in {"check", "drain", "tick", "done"}
    /\ stop \in BOOLEAN
    /\ actor \in {"recv", "flush", "last flush", "stopped"}
    /\ shutdown \in {"no", "bridge", "answer", "join", "done"}
    /\ stored \subseteq issued /\ dropped \subseteq issued
    /\ promised \subseteq issued /\ issued \subseteq Delta

Init ==
    /\ sink = <<>> /\ channel = <<>> /\ buffer = <<>>
    /\ bridge = "check" /\ actor = "recv"
    /\ stop = FALSE /\ shutdown = "no"
    /\ stored = {} /\ issued = {} /\ promised = {} /\ dropped = {}

HasRoom == Len(channel) < ChannelCapacity

Queued(type) == Len(SelectSeq(channel, LAMBDA m : m.type = type))

-----------------------------------------------------------------------------
(* The shards and the bridge.                                              *)
\* DeltaSinkSender::send never blocks; it fails once the receiver is gone.
Send(d) ==
    /\ issued = 1 .. (d - 1)
    /\ bridge # "done"
    /\ sink' = Append(sink, d)
    /\ issued' = issued \cup {d}
    /\ promised' = IF shutdown = "no" THEN promised \cup {d} ELSE promised
    /\ UNCHANGED <<bridge, stop, channel, actorVars, shutdown, dropped>>

\* Mutant of Forward: one delta at a time is taken from the sink.
ForwardOne ==
    /\ sink' = IF sink = <<>> THEN sink ELSE Tail(sink)
    /\ IF sink = <<>> \/ ~HasRoom
       THEN channel' = channel /\ dropped' = dropped \cup (Range(sink) \ Range(sink'))
       ELSE /\ channel' = Append(channel, [type |-> "PushDeltas", deltas |-> <<Head(sink)>>])
            /\ UNCHANGED dropped

\* DeltaSinkReceiver::drain, then push_deltas: a try_send that drops the batch.
Forward ==
    /\ sink' = <<>>
    /\ IF sink = <<>> \/ ~HasRoom
       THEN channel' = channel /\ dropped' = dropped \cup Range(sink)
       ELSE /\ channel' = Append(channel, [type |-> "PushDeltas", deltas |-> sink])
            /\ UNCHANGED dropped

BridgeCheck ==
    /\ bridge = "check" /\ ~stop
    /\ bridge' = "drain"
    /\ UNCHANGED <<sink, stop, channel, actorVars, shutdown, issued, promised, dropped>>

BridgeDrain ==
    /\ bridge = "drain"
    /\ Forward
    /\ bridge' = "tick"
    /\ UNCHANGED <<stop, actorVars, shutdown, issued, promised>>

\* Mutant of BridgeTick: a tick is sent only when deltas are waiting.
BridgeTickWithDeltas ==
    /\ bridge = "tick" /\ sink # <<>>
    /\ HasRoom /\ Queued("Tick") < MaxQueued
    /\ channel' = Append(channel, [type |-> "Tick"])
    /\ bridge' = "check"
    /\ UNCHANGED <<sink, stop, actorVars, shutdown, issued, promised, dropped>>

\* The interval has passed: tick, dropped when the channel is full.
BridgeTick ==
    /\ bridge = "tick"
    /\ HasRoom /\ Queued("Tick") < MaxQueued
    /\ channel' = Append(channel, [type |-> "Tick"])
    /\ bridge' = "check"
    /\ UNCHANGED <<sink, stop, actorVars, shutdown, issued, promised, dropped>>

BridgeNoTick ==
    /\ bridge = "tick"
    /\ bridge' = "check"
    /\ UNCHANGED <<sink, stop, channel, actorVars, shutdown, issued, promised, dropped>>

\* The flag ends the loop; what is left in the sink is forwarded.
BridgeEnd ==
    /\ bridge = "check" /\ stop
    /\ Forward
    /\ bridge' = "done"
    /\ UNCHANGED <<stop, actorVars, shutdown, issued, promised>>

-----------------------------------------------------------------------------
(* PersistenceActor::run.                                                  *)
Receives(type) == actor = "recv" /\ channel # <<>> /\ Head(channel).type = type

\* push refuses at the threshold and the batch loop breaks at the first refusal.
Accepted(deltas) ==
    LET room == Backpressure - Len(buffer)
    IN  SubSeq(deltas, 1, IF Len(deltas) < room THEN Len(deltas) ELSE room)

\* should_flush: the count forces a flush, the interval may have passed.
ActorPush ==
    /\ Receives("PushDeltas")
    /\ LET deltas == Head(channel).deltas
           accepted == Accepted(deltas)
       IN  /\ buffer' = buffer \o accepted
           /\ dropped' = dropped \cup (Range(deltas) \ Range(accepted))
    /\ \/ Len(buffer') < MaxDeltas /\ actor' = "recv"
       \/ actor' = "flush"
    /\ channel' = Tail(channel)
    /\ UNCHANGED <<sink, bridge, stop, stored, shutdown, issued, promised>>

ActorTickFlush ==
    /\ Receives("Tick")
    /\ buffer # <<>>
    /\ channel' = Tail(channel)
    /\ actor' = "flush"
    /\ UNCHANGED <<sink, bridge, stop, buffer, stored, shutdown, issued, promised, dropped>>

ActorTickSkip ==
    /\ Receives("Tick")
    /\ channel' = Tail(channel)
    /\ UNCHANGED <<sink, bridge, stop, actorVars, shutdown, issued, promised, dropped>>

ActorFlushRequest ==
    /\ Receives("Flush")
    /\ channel' = Tail(channel)
    /\ actor' = "flush"
    /\ UNCHANGED <<sink, bridge, stop, buffer, stored, shutdown, issued, promised, dropped>>

ActorShutdown ==
    /\ Receives("Shutdown")
    /\ channel' = Tail(channel)
    /\ actor' = "last flush"
    /\ UNCHANGED <<sink, bridge, stop, buffer, stored, shutdown, issued, promised, dropped>>

\* flush: the buffer is taken first, so a failure loses it.
FlushBuffer ==
    /\ buffer' = <<>>
    /\ \/ stored' = stored \cup Range(buffer) /\ UNCHANGED dropped
       \/ dropped' = dropped \cup Range(buffer) /\ UNCHANGED stored

ActorFlush ==
    /\ actor = "flush"
    /\ FlushBuffer
    /\ actor' = "recv"
    /\ UNCHANGED <<sink, bridge, stop, channel, shutdown, issued, promised>>

ActorLastFlush ==
    /\ actor = "last flush"
    /\ FlushBuffer
    /\ actor' = "stopped"
    /\ UNCHANGED <<sink, bridge, stop, channel, shutdown, issued, promised>>

-----------------------------------------------------------------------------
(* PersistenceActorHandle::flush and WorkerHandles::shutdown.              *)
RequestFlush ==
    /\ shutdown = "no"
    /\ HasRoom /\ Queued("Flush") < MaxQueued
    /\ channel' = Append(channel, [type |-> "Flush"])
    /\ UNCHANGED <<sink, bridge, stop, actorVars, shutdown, issued, promised, dropped>>

ShutdownBegin ==
    /\ shutdown = "no"
    /\ stop' = TRUE
    /\ shutdown' = "bridge"
    /\ UNCHANGED <<sink, bridge, channel, actorVars, issued, promised, dropped>>

\* After the bridge has ended: try_send(Shutdown), no second attempt.
ShutdownSend ==
    /\ shutdown = "bridge" /\ bridge = "done"
    /\ IF HasRoom
       THEN channel' = Append(channel, [type |-> "Shutdown"]) /\ shutdown' = "answer"
       ELSE channel' = channel /\ shutdown' = "join"
    /\ UNCHANGED <<sink, bridge, stop, actorVars, issued, promised, dropped>>

ShutdownAnswered ==
    /\ shutdown = "answer" /\ actor = "stopped"
    /\ shutdown' = "join"
    /\ UNCHANGED <<sink, bridge, stop, channel, actorVars, issued, promised, dropped>>

\* actor_task.await; the handle still holds a sender, so only a Shutdown
\* message ends the actor.
ShutdownJoin ==
    /\ shutdown = "join" /\ actor = "stopped"
    /\ shutdown' = "done"
    /\ UNCHANGED <<sink, bridge, stop, channel, actorVars, issued, promised, dropped>>

BridgeStep == BridgeCheck \/ BridgeDrain \/ BridgeTick \/ BridgeNoTick \/ BridgeEnd

ActorStep ==
    \/ ActorPush \/ ActorTickFlush \/ ActorTickSkip \/ ActorFlushRequest \/ ActorShutdown
    \/ ActorFlush \/ ActorLastFlush

ShutdownStep == ShutdownSend \/ ShutdownAnswered \/ ShutdownJoin

Next ==
    \/ \E d \in Delta : Send(d)
    \/ BridgeStep
    \/ ActorStep
    \/ RequestFlush
    \/ ShutdownBegin
    \/ ShutdownStep

Spec == Init /\ [][Next]_vars

-----------------------------------------------------------------------------
(* Properties.                                                             *)
\* When WorkerHandles::shutdown returns, every delta sent before it began is in
\* the object store unless a full channel, backpressure or a failed flush is
\* known to have dropped it: nothing is left in the sink, the channel or the
\* buffer.
ShutdownStoresAll == shutdown = "done" => promised \subseteq stored \cup dropped
=============================================================================
