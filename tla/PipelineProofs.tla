--------------------------- MODULE PipelineProofs ---------------------------
(***************************************************************************)
(* Proofs about Pipeline, for any number of deltas and any capacities: the *)
(* types, what becomes of a delta, and what WorkerHandles::shutdown leaves *)
(* behind.                                                                 *)
(***************************************************************************)
EXTENDS Pipeline, TLAPS

\* The deltas a message carries, and those in a channel.
Carried(m) == IF m.type = "PushDeltas" THEN Range(m.deltas) ELSE {}

InChannel(ch) == UNION {Carried(ch[i]) : i \in 1 .. Len(ch)}

Typed ==
    /\ sink \in Seq(Delta) /\ buffer \in Seq(Delta) /\ channel \in Seq(Message)
    /\ Len(channel) <= ChannelCapacity
    /\ Len(buffer) <= Backpressure
    /\ bridge \in {"check", "drain", "tick", "done"}
    /\ stop \in BOOLEAN
    /\ actor \in {"recv", "flush", "last flush", "stopped"}
    /\ shutdown \in {"no", "bridge", "answer", "join", "done"}
    /\ issued \subseteq Delta

\* Every delta given to the sink is on its way, stored, or known to be dropped.
Everywhere == Range(sink) \cup InChannel(channel) \cup Range(buffer) \cup stored \cup dropped

\* The order in which the two tasks stop: the bridge before the Shutdown
\* message, that message behind every other, the actor when it has read it.
Stopping ==
    /\ bridge = "done" => sink = <<>>
    /\ shutdown \in {"answer", "join", "done"} => bridge = "done"
    /\ \A i \in 1 .. Len(channel) :
           channel[i].type = "Shutdown" =>
               i = Len(channel) /\ shutdown \in {"answer", "join", "done"}
    /\ actor \in {"last flush", "stopped"} =>
           channel = <<>> /\ shutdown \in {"answer", "join", "done"}
    /\ actor = "stopped" => buffer = <<>>
    /\ shutdown = "done" => actor = "stopped"

IInv == issued = Everywhere /\ promised \subseteq issued /\ Stopping

-----------------------------------------------------------------------------
(* Sequences of deltas and of messages.                                    *)

\* A sequence with one more element, by index.
LEMMA AppendFacts ==
    ASSUME NEW T, NEW s \in Seq(T), NEW x \in T
    PROVE  /\ Append(s, x) \in Seq(T) /\ Len(Append(s, x)) = Len(s) + 1
           /\ \A i \in 1 .. Len(s) : Append(s, x)[i] = s[i]
           /\ Append(s, x)[Len(s) + 1] = x
  OBVIOUS

\* The rest of a sequence and its head, by index.
LEMMA TailFacts ==
    ASSUME NEW T, NEW s \in Seq(T), s # <<>>
    PROVE  /\ Head(s) \in T /\ Head(s) = s[1] /\ Len(s) > 0
           /\ Tail(s) \in Seq(T) /\ Len(Tail(s)) = Len(s) - 1
           /\ \A i \in 1 .. Len(Tail(s)) : Tail(s)[i] = s[i + 1]
  OBVIOUS

\* The elements of a sequence that grows, and of the empty one.
LEMMA RangeFacts ==
    ASSUME NEW T, NEW s \in Seq(T), NEW t \in Seq(T), NEW x \in T
    PROVE  /\ Range(<<>>) = {}
           /\ Range(s) \subseteq T
           /\ Range(Append(s, x)) = Range(s) \cup {x}
           /\ Range(s \o t) = Range(s) \cup Range(t)
<1>1. Range(<<>>) = {} /\ Range(s) \subseteq T
  BY DEF Range
<1>2. Range(Append(s, x)) = Range(s) \cup {x}
  <2>1. DOMAIN Append(s, x) = 1 .. (Len(s) + 1) /\ DOMAIN s = 1 .. Len(s)
    OBVIOUS
  <2> QED BY <2>1, AppendFacts DEF Range
<1>3. Range(s \o t) = Range(s) \cup Range(t)
  <2>1. /\ DOMAIN (s \o t) = 1 .. (Len(s) + Len(t))
        /\ DOMAIN s = 1 .. Len(s) /\ DOMAIN t = 1 .. Len(t)
        /\ Len(s) \in Nat /\ Len(t) \in Nat
        /\ \A i \in 1 .. Len(s) : (s \o t)[i] = s[i]
        /\ \A i \in 1 .. Len(t) : (s \o t)[Len(s) + i] = t[i]
    OBVIOUS
  <2>2. \A i \in DOMAIN (s \o t) : (s \o t)[i] \in Range(s) \cup Range(t)
    <3> TAKE i \in DOMAIN (s \o t)
    <3>1. CASE i <= Len(s)
      BY <2>1, <3>1 DEF Range
    <3>2. CASE i > Len(s)
      <4>1. i - Len(s) \in 1 .. Len(t) /\ i = Len(s) + (i - Len(s))
        BY <2>1, <3>2
      <4> QED BY <2>1, <4>1 DEF Range
    <3> QED BY <2>1, <3>1, <3>2
  <2>3. \A i \in DOMAIN s : i \in DOMAIN (s \o t)
    BY <2>1
  <2>4. \A i \in DOMAIN t : Len(s) + i \in DOMAIN (s \o t)
    BY <2>1
  <2>5. Range(s \o t) \subseteq Range(s) \cup Range(t)
    BY <2>2 DEF Range
  <2>6. Range(s) \subseteq Range(s \o t)
    BY <2>1, <2>3 DEF Range
  <2>7. Range(t) \subseteq Range(s \o t)
    BY <2>1, <2>4 DEF Range
  <2> QED BY <2>5, <2>6, <2>7
<1> QED BY <1>1, <1>2, <1>3

\* What a channel carries when a message is sent, and when one is received.
LEMMA ChannelFacts ==
    ASSUME NEW ch \in Seq(Message), NEW m \in Message
    PROVE  /\ InChannel(<<>>) = {}
           /\ InChannel(Append(ch, m)) = InChannel(ch) \cup Carried(m)
           /\ ch # <<>> => InChannel(ch) = Carried(Head(ch)) \cup InChannel(Tail(ch))
<1>1. InChannel(<<>>) = {}
  BY DEF InChannel
<1>2. InChannel(Append(ch, m)) = InChannel(ch) \cup Carried(m)
  <2> DEFINE a == Append(ch, m)
  <2>1. /\ Len(a) = Len(ch) + 1 /\ Len(ch) \in Nat /\ a[Len(ch) + 1] = m
        /\ \A i \in 1 .. Len(ch) : a[i] = ch[i]
    BY AppendFacts
  <2> HIDE DEF a
  <2>2. \A i \in 1 .. Len(a) : i \in 1 .. Len(ch) \/ i = Len(ch) + 1
    BY <2>1
  <2>3. \A i \in 1 .. Len(ch) : i \in 1 .. Len(a)
    BY <2>1
  <2>4. Len(ch) + 1 \in 1 .. Len(a)
    BY <2>1
  <2>5. InChannel(a) = InChannel(ch) \cup Carried(m)
    BY <2>1, <2>2, <2>3, <2>4 DEF InChannel
  <2> QED BY <2>5 DEF a
<1>3. ASSUME ch # <<>> PROVE InChannel(ch) = Carried(Head(ch)) \cup InChannel(Tail(ch))
  <2> DEFINE t == Tail(ch)
             h == Head(ch)
  <2>1. /\ h = ch[1] /\ Len(ch) \in Nat /\ Len(ch) > 0 /\ Len(t) = Len(ch) - 1
        /\ \A i \in 1 .. Len(t) : t[i] = ch[i + 1]
    BY <1>3, TailFacts
  <2> HIDE DEF t, h
  <2>2. \A i \in 1 .. Len(ch) : i = 1 \/ (i - 1 \in 1 .. Len(t) /\ ch[i] = t[i - 1])
    BY <2>1
  <2>3. \A i \in 1 .. Len(t) : i + 1 \in 1 .. Len(ch)
    BY <2>1
  <2>4. 1 \in 1 .. Len(ch)
    BY <2>1
  <2>5. InChannel(ch) \subseteq Carried(h) \cup InChannel(t)
    BY <2>1, <2>2 DEF InChannel
  <2>6. Carried(h) \subseteq InChannel(ch)
    BY <2>1, <2>4 DEF InChannel
  <2>7. InChannel(t) \subseteq InChannel(ch)
    BY <2>1, <2>3 DEF InChannel
  <2> QED BY <2>5, <2>6, <2>7 DEF t, h
<1> QED BY <1>1, <1>2, <1>3

\* The messages of the actor.
LEMMA MessageFacts ==
    /\ \A m \in Message : m.type = "PushDeltas" => m.deltas \in Seq(Delta)
    /\ \A s \in Seq(Delta) :
           /\ [type |-> "PushDeltas", deltas |-> s] \in Message
           /\ Carried([type |-> "PushDeltas", deltas |-> s]) = Range(s)
    /\ \A t \in {"Flush", "Tick", "Shutdown"} :
           [type |-> t] \in Message /\ Carried([type |-> t]) = {}
  BY DEF Message, Carried

\* The sequences have lengths.
LEMMA Lengths ==
    ASSUME Typed
    PROVE  /\ sink \in Seq(Delta) /\ buffer \in Seq(Delta) /\ channel \in Seq(Message)
           /\ Len(sink) \in Nat /\ Len(buffer) \in Nat /\ Len(channel) \in Nat
           /\ Len(channel) <= ChannelCapacity /\ Len(buffer) <= Backpressure
<1>1. /\ sink \in Seq(Delta) /\ buffer \in Seq(Delta) /\ channel \in Seq(Message)
      /\ Len(channel) <= ChannelCapacity /\ Len(buffer) <= Backpressure
  BY Zenon DEF Typed
<1>2. Len(sink) \in Nat /\ Len(buffer) \in Nat /\ Len(channel) \in Nat
  BY <1>1
<1> QED BY <1>1, <1>2

\* push takes a prefix of the batch, as far as the threshold lets it.
LEMMA AcceptedFacts ==
    ASSUME Typed, NEW s \in Seq(Delta)
    PROVE  /\ Accepted(s) \in Seq(Delta) /\ Range(Accepted(s)) \subseteq Range(s)
           /\ Len(buffer) + Len(Accepted(s)) <= Backpressure
<1> DEFINE room == Backpressure - Len(buffer)
           n == IF Len(s) < room THEN Len(s) ELSE room
<1>1. Len(buffer) \in Nat /\ Len(s) \in Nat /\ Backpressure \in Nat /\ Len(buffer) <= Backpressure
  BY Lengths, BoundsAssumption
<1>2. n \in Nat /\ n <= Len(s) /\ Len(buffer) + n <= Backpressure
  BY <1>1
<1>3. Accepted(s) = SubSeq(s, 1, n)
  BY DEF Accepted
<1> HIDE DEF n
<1>4. /\ SubSeq(s, 1, n) \in Seq(Delta) /\ Len(SubSeq(s, 1, n)) = n
      /\ \A i \in 1 .. n : SubSeq(s, 1, n)[i] = s[i]
  BY <1>1, <1>2
<1>5. DOMAIN SubSeq(s, 1, n) = 1 .. n /\ DOMAIN s = 1 .. Len(s)
  BY <1>4
<1>6. Range(SubSeq(s, 1, n)) \subseteq Range(s)
  BY <1>1, <1>2, <1>4, <1>5 DEF Range
<1> QED BY <1>2, <1>3, <1>4, <1>6

-----------------------------------------------------------------------------
(* The shards and the bridge.                                              *)

\* What drain takes from the sink is in the channel afterwards, or dropped.
LEMMA ForwardFacts ==
    ASSUME Typed, Forward
    PROVE  /\ sink' = <<>> /\ channel' \in Seq(Message) /\ Len(channel') <= ChannelCapacity
           /\ InChannel(channel') \cup dropped' = InChannel(channel) \cup dropped \cup Range(sink)
           /\ \A i \in 1 .. Len(channel') :
                  channel'[i].type = "Shutdown" =>
                      i \in 1 .. Len(channel) /\ channel[i].type = "Shutdown"
           /\ actor \in {"last flush", "stopped"} /\ sink = <<>> => channel' = channel
<1> DEFINE m == [type |-> "PushDeltas", deltas |-> sink]
<1>0. sink \in Seq(Delta) /\ channel \in Seq(Message) /\ Len(channel) \in Nat
      /\ Len(channel) <= ChannelCapacity
  BY Lengths
<1>1. m \in Message /\ Carried(m) = Range(sink) /\ m.type = "PushDeltas"
  BY <1>0, MessageFacts
<1>2. CASE sink = <<>> \/ ~HasRoom
  <2>1. sink' = <<>> /\ channel' = channel /\ dropped' = dropped \cup Range(sink)
    BY <1>2 DEF Forward
  <2> QED BY <1>0, <2>1
<1>3. CASE ~(sink = <<>> \/ ~HasRoom)
  <2>1. sink' = <<>> /\ channel' = Append(channel, m) /\ dropped' = dropped
    BY <1>3 DEF Forward
  <2>2. Len(channel) + 1 <= ChannelCapacity
    BY <1>0, <1>3, BoundsAssumption DEF HasRoom
  <2>3. InChannel(channel') = InChannel(channel) \cup Range(sink)
    BY <1>0, <1>1, <2>1, ChannelFacts
  <2> HIDE DEF m
  <2>4. /\ channel' \in Seq(Message) /\ Len(channel') = Len(channel) + 1
        /\ \A i \in 1 .. Len(channel) : channel'[i] = channel[i]
        /\ channel'[Len(channel) + 1] = m
    BY <1>0, <1>1, <2>1, AppendFacts
  <2>5. \A i \in 1 .. Len(channel') :
            channel'[i].type = "Shutdown" => i \in 1 .. Len(channel) /\ channel[i].type = "Shutdown"
    BY <1>0, <1>1, <2>4
  <2> QED BY <1>3, <2>1, <2>2, <2>3, <2>4, <2>5
<1> QED BY <1>2, <1>3

\* A message without deltas that finds room in the channel.
LEMMA PostFacts ==
    ASSUME Typed, HasRoom, NEW t \in {"Flush", "Tick", "Shutdown"},
           channel' = Append(channel, [type |-> t])
    PROVE  /\ channel' \in Seq(Message) /\ Len(channel) \in Nat
           /\ Len(channel') = Len(channel) + 1 /\ Len(channel') <= ChannelCapacity
           /\ InChannel(channel') = InChannel(channel)
           /\ \A i \in 1 .. Len(channel) : channel'[i] = channel[i]
           /\ channel'[Len(channel) + 1].type = t
<1> DEFINE m == [type |-> t]
<1>1. m \in Message /\ Carried(m) = {} /\ m.type = t
  BY MessageFacts
<1> HIDE DEF m
<1>2. channel' = Append(channel, m)
  BY DEF m
<1>3. channel \in Seq(Message) /\ Len(channel) \in Nat /\ Len(channel) + 1 <= ChannelCapacity
  BY Lengths, BoundsAssumption DEF HasRoom
<1>4. InChannel(channel') = InChannel(channel)
  <2>1. InChannel(Append(channel, m)) = InChannel(channel) \cup Carried(m)
    BY Zenon, <1>1, <1>3, ChannelFacts
  <2> QED BY <1>1, <1>2, <2>1
<1>5. /\ channel' \in Seq(Message) /\ Len(channel') = Len(channel) + 1
      /\ \A i \in 1 .. Len(channel) : channel'[i] = channel[i]
      /\ channel'[Len(channel) + 1] = m
  BY <1>1, <1>2, <1>3, AppendFacts
<1> QED BY <1>1, <1>3, <1>4, <1>5

\* A message that is received.
LEMMA ReceiveFacts ==
    ASSUME Typed, channel # <<>>, channel' = Tail(channel)
    PROVE  /\ channel' \in Seq(Message) /\ Len(channel) \in Nat
           /\ Len(channel') = Len(channel) - 1 /\ Len(channel') <= ChannelCapacity
           /\ Len(channel) > 0 /\ Head(channel) \in Message /\ Head(channel) = channel[1]
           /\ InChannel(channel) = Carried(Head(channel)) \cup InChannel(channel')
           /\ \A i \in 1 .. Len(channel') : channel'[i] = channel[i + 1]
<1>1. channel \in Seq(Message) /\ Len(channel) \in Nat /\ Len(channel) <= ChannelCapacity
  BY Lengths
<1>2. /\ Head(channel) \in Message /\ Head(channel) = channel[1] /\ Len(channel) > 0
      /\ channel' \in Seq(Message) /\ Len(channel') = Len(channel) - 1
      /\ \A i \in 1 .. Len(channel') : channel'[i] = channel[i + 1]
  BY <1>1, TailFacts
<1>3. InChannel(channel) = Carried(Head(channel)) \cup InChannel(channel')
  BY <1>1, <1>2, ChannelFacts
<1> QED BY <1>1, <1>2, <1>3, BoundsAssumption

\* A shard's send keeps the invariants.
LEMMA SendKeeps ==
    ASSUME Typed, IInv, NEW d \in Delta, Send(d)
    PROVE  Typed' /\ IInv'
<1>1. /\ sink' \in Seq(Delta) /\ Range(sink') = Range(sink) \cup {d}
      /\ issued' = issued \cup {d} /\ promised' \subseteq promised \cup {d} /\ bridge # "done"
      /\ UNCHANGED <<bridge, stop, channel, actor, buffer, stored, shutdown, dropped>>
  BY Lengths, AppendFacts, RangeFacts DEF Send, actorVars
<1>2. Typed'
  BY Zenon, <1>1 DEF Typed
<1>3. Stopping'
  BY Zenon, <1>1 DEF IInv, Stopping
<1>4. issued' = Everywhere' /\ (promised \subseteq issued)'
  BY <1>1 DEF IInv, Everywhere
<1> QED BY <1>2, <1>3, <1>4 DEF IInv

\* Every step of the bridge keeps the invariants.
LEMMA BridgeKeeps ==
    ASSUME Typed, IInv, BridgeStep
    PROVE  Typed' /\ IInv'
<1>1. bridge # "done" /\ UNCHANGED <<stop, actor, buffer, stored, shutdown, issued, promised>>
  BY Zenon DEF BridgeStep, BridgeCheck, BridgeDrain, BridgeTick, BridgeNoTick, BridgeEnd, actorVars
<1>2. shutdown \notin {"answer", "join", "done"} /\ actor \notin {"last flush", "stopped"}
  BY Zenon, <1>1 DEF IInv, Stopping
<1>3. \A i \in 1 .. Len(channel) : channel[i].type # "Shutdown"
  BY Zenon, <1>2 DEF IInv, Stopping
<1>4. SUFFICES /\ sink' \in Seq(Delta) /\ channel' \in Seq(Message)
               /\ Len(channel') <= ChannelCapacity
               /\ bridge' \in {"check", "drain", "tick", "done"}
               /\ bridge' = "done" => sink' = <<>>
               /\ Range(sink') \cup InChannel(channel') \cup dropped'
                      = Range(sink) \cup InChannel(channel) \cup dropped
               /\ \A i \in 1 .. Len(channel') : channel'[i].type # "Shutdown"
  <2>1. Typed'
    BY Zenon, <1>1, <1>4 DEF Typed
  <2>2. Stopping'
    BY Zenon, <1>1, <1>2, <1>4 DEF Stopping, IInv
  <2>3. Everywhere' = Everywhere
    BY <1>1, <1>4 DEF Everywhere
  <2> QED BY <1>1, <2>1, <2>2, <2>3 DEF IInv
<1>5. CASE BridgeCheck \/ BridgeNoTick
  <2>1. UNCHANGED <<sink, channel, dropped>> /\ bridge' \in {"drain", "check"}
    BY Zenon, <1>5 DEF BridgeCheck, BridgeNoTick
  <2> QED BY <1>3, <2>1, Lengths
<1>6. CASE BridgeDrain \/ BridgeEnd
  <2>1. Forward /\ bridge' \in {"tick", "done"}
    BY Zenon, <1>6 DEF BridgeDrain, BridgeEnd
  <2>2. sink' \in Seq(Delta) /\ Range(sink') = {}
    BY <2>1, RangeFacts DEF Forward, Range
  <2>3. Range(sink') \cup InChannel(channel') \cup dropped'
            = Range(sink) \cup InChannel(channel) \cup dropped
    BY <2>1, <2>2, ForwardFacts
  <2> QED BY Zenon, <1>3, <2>1, <2>2, <2>3, ForwardFacts
<1>7. CASE BridgeTick
  <2>1. /\ HasRoom /\ channel' = Append(channel, [type |-> "Tick"]) /\ bridge' = "check"
        /\ UNCHANGED <<sink, dropped>>
    BY Zenon, <1>7 DEF BridgeTick
  <2>2. /\ channel' \in Seq(Message) /\ Len(channel') <= ChannelCapacity
        /\ InChannel(channel') = InChannel(channel)
        /\ \A i \in 1 .. Len(channel') : channel'[i].type # "Shutdown"
    BY <1>3, <2>1, PostFacts
  <2> QED BY <2>1, <2>2, Lengths
<1> QED BY Zenon, <1>5, <1>6, <1>7 DEF BridgeStep

-----------------------------------------------------------------------------
(* The actor.                                                              *)

\* A flush moves the buffer into the store, or loses it.
LEMMA FlushFacts ==
    ASSUME Typed, FlushBuffer
    PROVE  /\ buffer' = <<>> /\ buffer' \in Seq(Delta) /\ Len(buffer') <= Backpressure
           /\ Range(buffer') \cup stored' \cup dropped' = Range(buffer) \cup stored \cup dropped
<1>1. /\ buffer' = <<>> /\ Range(buffer') = {} /\ buffer' \in Seq(Delta)
      /\ Len(buffer') <= Backpressure
  BY BoundsAssumption DEF FlushBuffer, Range
<1>2. stored' \cup dropped' = Range(buffer) \cup stored \cup dropped
  BY DEF FlushBuffer
<1> QED BY <1>1, <1>2

\* Every step of the actor keeps the invariants.
LEMMA ActorKeeps ==
    ASSUME Typed, IInv, ActorStep
    PROVE  Typed' /\ IInv'
<1>1. UNCHANGED <<sink, bridge, stop, shutdown, issued, promised>> /\ actor # "stopped"
  BY Zenon DEF ActorStep, ActorPush, ActorTickFlush, ActorTickSkip, ActorFlushRequest, ActorShutdown,
               ActorFlush, ActorLastFlush, Receives, actorVars
<1>2. SUFFICES /\ buffer' \in Seq(Delta) /\ Len(buffer') <= Backpressure
               /\ channel' \in Seq(Message) /\ Len(channel') <= ChannelCapacity
               /\ actor' \in {"recv", "flush", "last flush", "stopped"}
               /\ InChannel(channel') \cup Range(buffer') \cup stored' \cup dropped'
                      = InChannel(channel) \cup Range(buffer) \cup stored \cup dropped
               /\ \A i \in 1 .. Len(channel') :
                      channel'[i].type = "Shutdown" =>
                          i = Len(channel') /\ shutdown \in {"answer", "join", "done"}
               /\ actor' \in {"last flush", "stopped"} =>
                      channel' = <<>> /\ shutdown \in {"answer", "join", "done"}
               /\ actor' = "stopped" => buffer' = <<>>
  <2>1. Typed'
    BY Zenon, <1>1, <1>2 DEF Typed
  <2>2. Stopping'
    BY Zenon, <1>1, <1>2 DEF Stopping, IInv
  <2>3. Everywhere' = Everywhere
    BY <1>1, <1>2 DEF Everywhere
  <2> QED BY Zenon, <1>1, <2>1, <2>2, <2>3 DEF IInv
<1>3. \A i \in 1 .. Len(channel) :
          channel[i].type = "Shutdown" =>
              i = Len(channel) /\ shutdown \in {"answer", "join", "done"}
  BY Zenon DEF IInv, Stopping
\* A message is received: those behind it stay in order.
<1>4. ASSUME channel # <<>>, channel' = Tail(channel)
      PROVE  \A i \in 1 .. Len(channel') :
                 channel'[i].type = "Shutdown" =>
                     i = Len(channel') /\ shutdown \in {"answer", "join", "done"}
  <2>1. /\ Len(channel) \in Nat /\ Len(channel') = Len(channel) - 1 /\ Len(channel) > 0
        /\ \A i \in 1 .. Len(channel') : channel'[i] = channel[i + 1]
    BY <1>4, ReceiveFacts
  <2>2. \A i \in 1 .. Len(channel') :
            i + 1 \in 1 .. Len(channel) /\ (i + 1 = Len(channel) => i = Len(channel'))
    BY <2>1
  <2> QED BY Zenon, <1>3, <2>1, <2>2
<1>5. CASE ActorPush
  <2> DEFINE deltas == Head(channel).deltas
             accepted == Accepted(deltas)
  <2>1. /\ channel # <<>> /\ Head(channel).type = "PushDeltas" /\ channel' = Tail(channel)
        /\ buffer' = buffer \o accepted /\ UNCHANGED stored
        /\ dropped' = dropped \cup (Range(deltas) \ Range(accepted))
        /\ actor' \in {"recv", "flush"}
    BY Zenon, <1>5 DEF ActorPush, Receives
  <2>2. deltas \in Seq(Delta) /\ Carried(Head(channel)) = Range(deltas)
    BY <2>1, ReceiveFacts, MessageFacts DEF Carried
  <2>3. /\ accepted \in Seq(Delta) /\ Range(accepted) \subseteq Range(deltas)
        /\ Len(buffer) + Len(accepted) <= Backpressure
    BY <2>2, AcceptedFacts
  <2> HIDE DEF deltas, accepted
  <2>4. Range(buffer') = Range(buffer) \cup Range(accepted)
    <3>1. CASE Delta = {}
      BY <3>1, <2>1, <2>3, Lengths DEF Range
    <3>2. CASE Delta # {}
      BY <3>2, <2>1, <2>3, Lengths, RangeFacts
    <3> QED BY <3>1, <3>2
  <2>5. buffer' \in Seq(Delta) /\ Len(buffer') <= Backpressure
    BY <2>1, <2>3, Lengths
  <2>6. InChannel(channel) = Range(deltas) \cup InChannel(channel')
    BY <2>1, <2>2, ReceiveFacts
  <2>7. InChannel(channel') \cup Range(buffer') \cup stored' \cup dropped'
            = InChannel(channel) \cup Range(buffer) \cup stored \cup dropped
    BY <2>1, <2>3, <2>4, <2>6
  <2>8. channel' \in Seq(Message) /\ Len(channel') <= ChannelCapacity
    BY <2>1, ReceiveFacts
  <2> QED BY Zenon, <1>4, <2>1, <2>5, <2>7, <2>8
<1>6. CASE ActorTickFlush \/ ActorTickSkip \/ ActorFlushRequest
  <2>1. /\ channel # <<>> /\ Head(channel).type # "PushDeltas" /\ channel' = Tail(channel)
        /\ UNCHANGED <<buffer, stored, dropped>> /\ actor' \in {"recv", "flush"}
    BY <1>6 DEF ActorTickFlush, ActorTickSkip, ActorFlushRequest, Receives, actorVars
  <2>2. InChannel(channel') = InChannel(channel)
    BY <2>1, ReceiveFacts DEF Carried
  <2> QED BY <1>4, <2>1, <2>2, ReceiveFacts, Lengths
<1>7. CASE ActorShutdown
  <2>1. /\ channel # <<>> /\ Head(channel).type = "Shutdown" /\ channel' = Tail(channel)
        /\ UNCHANGED <<buffer, stored, dropped>> /\ actor' = "last flush"
    BY Zenon, <1>7 DEF ActorShutdown, Receives
  <2>2. InChannel(channel') = InChannel(channel)
    BY <2>1, ReceiveFacts DEF Carried
  <2>3. /\ Len(channel) \in Nat /\ Len(channel) > 0 /\ channel[1].type = "Shutdown"
        /\ channel' \in Seq(Message) /\ Len(channel') = Len(channel) - 1
    BY Zenon, <2>1, ReceiveFacts
  <2>4. Len(channel) = 1 /\ shutdown \in {"answer", "join", "done"}
    <3>1. 1 \in 1 .. Len(channel)
      BY <2>3
    <3>2. 1 = Len(channel) /\ shutdown \in {"answer", "join", "done"}
      BY Zenon, <1>3, <2>3, <3>1
    <3> QED BY <3>2
  <2>5. channel' = <<>>
    <3>1. Len(channel') = 0
      BY <2>3, <2>4
    <3> QED BY <2>3, <3>1
  <2> QED BY <1>4, <2>1, <2>2, <2>4, <2>5, ReceiveFacts, Lengths
<1>8. CASE ActorFlush \/ ActorLastFlush
  <2>1. /\ FlushBuffer /\ UNCHANGED channel /\ actor' \in {"recv", "stopped"}
        /\ actor' = "stopped" => actor = "last flush"
    BY <1>8 DEF ActorFlush, ActorLastFlush
  <2>2. actor' = "stopped" => channel = <<>> /\ shutdown \in {"answer", "join", "done"}
    BY Zenon, <2>1 DEF IInv, Stopping
  <2>3. channel \in Seq(Message) /\ Len(channel) <= ChannelCapacity
    BY Lengths
  <2>4. InChannel(channel') \cup Range(buffer') \cup stored' \cup dropped'
            = InChannel(channel) \cup Range(buffer) \cup stored \cup dropped
    BY <2>1, FlushFacts
  <2> QED BY <1>3, <2>1, <2>2, <2>3, <2>4, FlushFacts
<1> QED BY Zenon, <1>5, <1>6, <1>7, <1>8 DEF ActorStep

-----------------------------------------------------------------------------
(* The callers of the handle.                                              *)

\* A flush request keeps the invariants.
LEMMA RequestKeeps ==
    ASSUME Typed, IInv, RequestFlush
    PROVE  Typed' /\ IInv'
<1>1. /\ HasRoom /\ channel' = Append(channel, [type |-> "Flush"]) /\ shutdown = "no"
      /\ UNCHANGED <<sink, bridge, stop, actor, buffer, stored, shutdown, issued, promised, dropped>>
  BY Zenon DEF RequestFlush, actorVars
<1>2. /\ channel' \in Seq(Message) /\ Len(channel) \in Nat
      /\ Len(channel') = Len(channel) + 1 /\ Len(channel') <= ChannelCapacity
      /\ InChannel(channel') = InChannel(channel)
      /\ \A i \in 1 .. Len(channel) : channel'[i] = channel[i]
      /\ channel'[Len(channel) + 1].type = "Flush"
  BY <1>1, PostFacts
<1>3. \A i \in 1 .. Len(channel) : channel[i].type # "Shutdown"
  BY Zenon, <1>1 DEF IInv, Stopping
<1>4. \A i \in 1 .. Len(channel') : channel'[i].type # "Shutdown"
  <2> TAKE i \in 1 .. Len(channel')
  <2>1. i \in 1 .. Len(channel) \/ i = Len(channel) + 1
    BY <1>2
  <2> QED BY <1>2, <1>3, <2>1
<1>5. actor \notin {"last flush", "stopped"}
  BY <1>1 DEF IInv, Stopping
<1>6. Typed'
  BY Zenon, <1>1, <1>2 DEF Typed
<1>7. Stopping'
  BY <1>1, <1>4, <1>5 DEF IInv, Stopping
<1>8. Everywhere' = Everywhere
  BY Zenon, <1>1, <1>2 DEF Everywhere
<1> QED BY Zenon, <1>1, <1>6, <1>7, <1>8 DEF IInv

\* The Shutdown message goes behind every other; when the channel is full the
\* actor never gets one.
LEMMA ShutdownSendKeeps ==
    ASSUME Typed, IInv, ShutdownSend
    PROVE  Typed' /\ IInv'
<1>1. /\ shutdown = "bridge" /\ bridge = "done"
      /\ UNCHANGED <<sink, bridge, stop, actor, buffer, stored, issued, promised, dropped>>
  BY Zenon DEF ShutdownSend, actorVars
<1>2. \A i \in 1 .. Len(channel) : channel[i].type # "Shutdown"
  BY <1>1 DEF IInv, Stopping
<1>3. actor \notin {"last flush", "stopped"}
  BY <1>1 DEF IInv, Stopping
<1>4. SUFFICES /\ channel' \in Seq(Message) /\ Len(channel') <= ChannelCapacity
               /\ InChannel(channel') = InChannel(channel) /\ shutdown' \in {"answer", "join"}
               /\ \A i \in 1 .. Len(channel') : channel'[i].type = "Shutdown" => i = Len(channel')
  <2>1. Typed'
    BY <1>1, <1>4 DEF Typed
  <2>2. Stopping'
    BY <1>1, <1>3, <1>4 DEF IInv, Stopping
  <2>3. Everywhere' = Everywhere
    BY Zenon, <1>1, <1>4 DEF Everywhere
  <2> QED BY Zenon, <1>1, <2>1, <2>2, <2>3 DEF IInv
<1>5. CASE ~HasRoom
  BY <1>2, <1>5, Lengths DEF ShutdownSend
<1>6. CASE HasRoom
  <2>1. channel' = Append(channel, [type |-> "Shutdown"]) /\ shutdown' = "answer"
    BY <1>6 DEF ShutdownSend
  <2>2. /\ channel' \in Seq(Message) /\ Len(channel) \in Nat
        /\ Len(channel') = Len(channel) + 1 /\ Len(channel') <= ChannelCapacity
        /\ InChannel(channel') = InChannel(channel)
        /\ \A i \in 1 .. Len(channel) : channel'[i] = channel[i]
    BY <1>6, <2>1, PostFacts
  <2>3. \A i \in 1 .. Len(channel') : i \in 1 .. Len(channel) \/ i = Len(channel')
    BY <2>2
  <2> QED BY <1>2, <2>1, <2>2, <2>3
<1> QED BY <1>5, <1>6

\* The other steps of WorkerHandles::shutdown.
LEMMA ShutdownKeeps ==
    ASSUME Typed, IInv, ShutdownBegin \/ ShutdownAnswered \/ ShutdownJoin
    PROVE  Typed' /\ IInv'
<1>1. /\ UNCHANGED <<sink, bridge, channel, actor, buffer, stored, issued, promised, dropped>>
      /\ stop' \in BOOLEAN
  BY DEF ShutdownBegin, ShutdownAnswered, ShutdownJoin, actorVars, Typed
<1>2. \/ shutdown = "no" /\ shutdown' = "bridge"
      \/ shutdown = "answer" /\ shutdown' = "join"
      \/ shutdown = "join" /\ shutdown' = "done" /\ actor = "stopped"
  BY Zenon DEF ShutdownBegin, ShutdownAnswered, ShutdownJoin
<1>3. Typed'
  BY <1>1, <1>2 DEF Typed
<1>4. Stopping'
  BY <1>1, <1>2 DEF IInv, Stopping
<1>5. Everywhere' = Everywhere
  BY Zenon, <1>1 DEF Everywhere
<1> QED BY Zenon, <1>1, <1>3, <1>4, <1>5 DEF IInv

-----------------------------------------------------------------------------
(* The theorems.                                                           *)

\* Init establishes the invariants.
LEMMA InitHolds == Init => Typed /\ IInv
<1> SUFFICES ASSUME Init PROVE Typed /\ IInv
  OBVIOUS
<1>1. Typed
  <2>1. /\ sink \in Seq(Delta) /\ buffer \in Seq(Delta) /\ channel \in Seq(Message)
        /\ Len(channel) = 0 /\ Len(buffer) = 0
    BY DEF Init
  <2>2. Len(channel) <= ChannelCapacity /\ Len(buffer) <= Backpressure /\ issued \subseteq Delta
    BY <2>1, BoundsAssumption DEF Init
  <2> QED BY Zenon, <2>1, <2>2 DEF Init, Typed
<1>2. Stopping
  BY DEF Init, Stopping
<1>3. Everywhere = {} /\ issued = {} /\ promised = {}
  BY DEF Init, Everywhere, InChannel, Range
<1> QED BY <1>1, <1>2, <1>3 DEF IInv

\* Every step keeps them.
LEMMA NextKeeps == Typed /\ IInv /\ [Next]_vars => Typed' /\ IInv'
<1> SUFFICES ASSUME Typed, IInv, [Next]_vars PROVE Typed' /\ IInv'
  OBVIOUS
<1>1. CASE UNCHANGED vars
  BY Zenon, <1>1 DEF vars, actorVars, Typed, IInv, Everywhere, Stopping
<1>2. ASSUME NEW d \in Delta, Send(d) PROVE Typed' /\ IInv'
  BY Zenon, <1>2, SendKeeps
<1>3. CASE BridgeStep
  BY Zenon, <1>3, BridgeKeeps
<1>4. CASE ActorStep
  BY Zenon, <1>4, ActorKeeps
<1>5. CASE RequestFlush
  BY Zenon, <1>5, RequestKeeps
<1>6. CASE ShutdownBegin \/ ShutdownStep
  BY Zenon, <1>6, ShutdownSendKeeps, ShutdownKeeps DEF ShutdownStep
<1> QED BY Zenon, <1>1, <1>2, <1>3, <1>4, <1>5, <1>6 DEF Next

\* The inductive invariant holds in every reachable state.
THEOREM Invariant == Spec => [](Typed /\ IInv)
<1> QED BY InitHolds, NextKeeps, PTL DEF Spec

\* The types of the pipeline's state; what is stored, dropped or promised was
\* issued.
THEOREM TypeCorrect == Spec => []TypeOK
<1>1. Typed /\ IInv => TypeOK
  BY Zenon DEF Typed, IInv, Everywhere, TypeOK
<1> QED BY Invariant, <1>1, PTL

\* Whatever the batches, the interleaving of the tasks and the flushes that
\* fail: a delta given to the sink is in the sink, in the channel, in the
\* buffer, in the object store, or among those known to be dropped.
THEOREM NothingUnaccounted == Spec => [](issued = Everywhere)
<1>1. IInv => issued = Everywhere
  BY DEF IInv
<1> QED BY Invariant, <1>1, PTL

\* When WorkerHandles::shutdown returns, every delta sent before it began is in
\* the object store or among those known to be dropped: by then the bridge has
\* emptied the sink, the actor has read every message before the Shutdown one,
\* and its last flush has emptied the buffer.
THEOREM ShutdownComplete == Spec => []ShutdownStoresAll
<1>1. ASSUME IInv, shutdown = "done" PROVE promised \subseteq stored \cup dropped
  <2>1. actor = "stopped" /\ bridge = "done"
    BY <1>1 DEF IInv, Stopping
  <2>2. sink = <<>> /\ channel = <<>> /\ buffer = <<>>
    BY <1>1, <2>1 DEF IInv, Stopping
  <2>3. Range(sink) = {} /\ InChannel(channel) = {} /\ Range(buffer) = {}
    BY <2>2 DEF InChannel, Range
  <2> QED BY Zenon, <1>1, <2>3 DEF IInv, Everywhere
<1>2. IInv => ShutdownStoresAll
  BY <1>1 DEF ShutdownStoresAll
<1> QED BY Invariant, <1>2, PTL
=============================================================================
