---------------------------- MODULE Replication ----------------------------
(***************************************************************************)
(* Replicas of one shard: src/production/replicated_shard_actor.rs (the    *)
(* actor that executes a command, then records what it did in its replica  *)
(* state), src/replication/state/shard_state.rs (that replica state),      *)
(* src/production/replicated_state.rs (execute, which logs the delta and   *)
(* queues it for gossip) and src/replication/gossip.rs with                *)
(* src/production/gossip_manager.rs (the outbound queue, the gossip loop   *)
(* that sends it to every peer, the handler that applies what arrives).    *)
(*                                                                         *)
(* Each replica holds every key twice: `data' is the executor's, which     *)
(* clients read, and `keys' is the CRDT state that is gossiped. The code   *)
(* keeps them in step by hand, and many of the properties are about that.  *)
(*                                                                         *)
(* One action is one message of the actor, one step of a client connection *)
(* between two awaits, one round of the gossip loop or one message of a    *)
(* peer. A delta waiting in a socket is in `net'; a peer that reconnects   *)
(* gets a second connection, so deltas of a sender may arrive in any       *)
(* order. Time enters only through the deadline of a key, which may pass   *)
(* whenever the key has one.                                               *)
(***************************************************************************)
EXTENDS Crdt, Sequences, Functions, FiniteSets

CONSTANTS Key,
          Commands,       \* the commands clients issue on each key
          Expiries,       \* the expiries, in ms, a SET can carry
          MaxDelKeys,     \* how many keys one DEL may name
          MaxOutbound,    \* MAX_OUTBOUND_QUEUE
          MaxCommands,    \* bound: commands executed
          MaxLosses,      \* bound: deltas lost between two replicas
          MaxDuplicates,  \* bound: deltas delivered again
          WalFails,       \* whether writes to the WAL may fail or time out
          MaxRestarts,    \* bound: crashes followed by a restart
          WalAlways,      \* the WAL is on, with FsyncPolicy::Always
          Unknown,        \* the replica state has no entry for a key
          Nothing         \* the executor has no entry for a key

CommandNames == {"set", "nx", "xx", "modify", "del", "hset", "hdel", "hincr",
                 "mset", "flush"}

ASSUME CommandsAssumption == Commands \in [Key -> SUBSET CommandNames]
ASSUME ExpiriesAssumption == Expiries \subseteq Nat \cup {NoExpiry}
ASSUME BoundsAssumption ==
    /\ MaxDelKeys \in Nat \ {0} /\ MaxOutbound \in Nat \ {0}
    /\ {MaxCommands, MaxLosses, MaxDuplicates, MaxRestarts} \subseteq Nat
    /\ WalFails \in BOOLEAN /\ WalAlways \in BOOLEAN

VARIABLES clock,     \* a replica's lamport_clock
          keys,      \* its replicated_keys
          data,      \* its executor's data and expirations
          inflight,  \* the deltas that its connections hold, in execute,
                     \* between the shard's answer and the gossip queue
          outbox,    \* its gossip outbound_queue
          net,       \* deltas sent and not yet applied
          log,       \* the deltas of its own commands, as its WAL has them
          replay,    \* the messages of its recovery its actor has yet to take
          used       \* how much of each bound is spent

vars == <<clock, keys, data, inflight, outbox, net, log, replay, used>>

\* The members of ReplicatedValue, and deltas, by their parts.
ValueOK(rv) ==
    /\ rv.stamp \in Stamp
    /\ rv.expiry \in Nat \cup {NoExpiry}
    /\ IF IsHash(rv.crdt)
       THEN /\ DOMAIN rv.crdt.fields \subseteq Field
            /\ \A f \in DOMAIN rv.crdt.fields : rv.crdt.fields[f] \in Register
       ELSE rv.crdt.reg \in Register

DeltaOK(d) == d.key \in Key /\ ValueOK(d.value)

Data == [type : {"string"}, value : Value, ttl : Nat \cup {NoExpiry}]
            \cup [type : {"hash"}, ttl : Nat \cup {NoExpiry},
                  fields : UNION {[F -> Value] : F \in (SUBSET Field) \ {{}}}]

ASSUME UnknownAssumption == Unknown \notin ReplicatedValue
ASSUME NothingAssumption == Nothing \notin Data

TypeOK ==
    /\ clock \in [Replica -> Stamp]
    /\ \A r \in Replica : clock[r].id = r
    /\ \A r \in Replica, k \in Key : keys[r][k] # Unknown => ValueOK(keys[r][k])
    /\ data \in [Replica -> [Key -> Data \cup {Nothing}]]
    /\ \A r \in Replica :
         /\ \A i \in DOMAIN inflight[r] :
              DeltaOK(inflight[r][i].delta) /\ inflight[r][i].waits \in BOOLEAN
         /\ \A i \in DOMAIN outbox[r] : DeltaOK(outbox[r][i])
         /\ Len(outbox[r]) <= MaxOutbound
         /\ \A i \in DOMAIN log[r] : DeltaOK(log[r][i])
         /\ \A i \in DOMAIN replay[r] : DeltaOK(replay[r][i])
    /\ \A p \in net : p.to \in Replica /\ DeltaOK(p.delta)
    /\ \A b \in DOMAIN used : used[b] \in Nat

Init ==
    /\ clock = [r \in Replica |-> NewStamp(r)]
    /\ keys = [r \in Replica |-> [k \in Key |-> Unknown]]
    /\ data = [r \in Replica |-> [k \in Key |-> Nothing]]
    /\ inflight = [r \in Replica |-> <<>>]
    /\ outbox = [r \in Replica |-> <<>>]
    /\ net = {}
    /\ log = [r \in Replica |-> <<>>]
    /\ replay = [r \in Replica |-> <<>>]
    /\ used = [commands |-> 0, losses |-> 0, duplicates |-> 0, restarts |-> 0]

-----------------------------------------------------------------------------
(* The executor. *)

String(v, ttl) == [type |-> "string", value |-> v, ttl |-> ttl]

HashData(fs, ttl) == [type |-> "hash", fields |-> fs, ttl |-> ttl]

IsString(d) == d # Nothing /\ d.type = "string"

IsHashData(d) == d # Nothing /\ d.type = "hash"

\* SET with an expiry in ms; a SET with expiry zero is refused.
ExecSet(d, v, expiry) == IF expiry = 0 THEN d ELSE String(v, expiry)

\* HSET: a hash, or nothing, takes the fields; any other type is an error.
ExecHSet(d, fs) ==
    CASE d = Nothing -> HashData(fs, NoExpiry)
      [] IsHashData(d) ->
           HashData([f \in DOMAIN d.fields \cup DOMAIN fs |->
                       IF f \in DOMAIN fs THEN fs[f] ELSE d.fields[f]], d.ttl)
      [] OTHER -> d

\* HDEL: the key goes with its last field.
ExecHDel(d, F) ==
    IF ~IsHashData(d) THEN d
    ELSE LET rest == DOMAIN d.fields \ F IN
         IF rest = {} THEN Nothing
         ELSE HashData([f \in rest |-> d.fields[f]], d.ttl)

-----------------------------------------------------------------------------
(* The replica state. The record_* operations work on a record of the      *)
(* replica's clock, its keys and the delta to send.                        *)

NoDelta == [key |-> Nothing, value |-> Unknown]

State(r) == [clock |-> clock[r], keys |-> keys[r], delta |-> NoDelta]

Entry(s, k) ==
    IF s.keys[k] = Unknown THEN NewReplicated(s.clock.id) ELSE s.keys[k]

Recorded(s, k, rv, c) ==
    [clock |-> c, keys |-> [s.keys EXCEPT ![k] = rv],
     delta |-> [key |-> k, value |-> rv]]

\* Mutation: the register keeps the clock's value from before the tick.
RecordWriteNoTick(s, k, v, expiry) ==
    Recorded(s, k,
             [crdt |-> Lww(Written(v, s.clock)), expiry |-> expiry, stamp |-> s.clock],
             s.clock)

RecordWrite(s, k, v, expiry) ==
    LET c == Tick(s.clock) IN
    Recorded(s, k, [crdt |-> Lww(Written(v, c)), expiry |-> expiry, stamp |-> c], c)

\* record_delete: a key the replica state does not know and a hash are left as
\* they are; c is the clock after its tick.
Buried(rv, c) == [rv EXCEPT !.crdt = Lww(Deleted(c)), !.stamp = c]

IsPlain(rv) == rv # Unknown /\ ~IsHash(rv.crdt)

\* The keys of a DEL one after the other. The clock ticks for each plain one,
\* and a key keeps the stamp it got last; the delta is that of the last key.
RecordDelete(s, ks) ==
    LET n == Len(ks)
        Ticked(D) == [s.clock EXCEPT
            !.time = @ + Cardinality({j \in 1 .. n : j \in D /\ IsPlain(s.keys[ks[j]])})]
        Upto(k) == {j \in 1 .. n : \E i \in j .. n : ks[i] = k}
        after == [k \in Key |-> IF Upto(k) # {} /\ IsPlain(s.keys[k])
                                 THEN Buried(s.keys[k], Ticked(Upto(k))) ELSE s.keys[k]]
    IN  [clock |-> Ticked(1 .. n), keys |-> after,
         delta |-> IF after[ks[n]] = Unknown THEN NoDelta
                   ELSE [key |-> ks[n], value |-> after[ks[n]]]]

RecordHashWrite(s, k, f, v) ==
    LET c  == Tick(s.clock)
        rv == Entry(s, k)
        fs == IF IsHash(rv.crdt) THEN rv.crdt.fields ELSE NewHash.fields
        gs == [g \in DOMAIN fs \cup {f} |-> IF g = f THEN Written(v, c) ELSE fs[g]] IN
    Recorded(s, k, [rv EXCEPT !.crdt = Hash(gs), !.stamp = c], c)

\* A field the hash never had is not deleted; the stamp still moves.
RecordHashDelete(s, k, f) ==
    LET rv == s.keys[k] IN
    IF rv = Unknown THEN s
    ELSE IF ~IsHash(rv.crdt) THEN s
    ELSE LET known == f \in DOMAIN rv.crdt.fields
             c == IF known THEN Tick(s.clock) ELSE s.clock
             gs == IF known THEN [rv.crdt.fields EXCEPT ![f] = Deleted(c)]
                            ELSE rv.crdt.fields IN
         Recorded(s, k, [rv EXCEPT !.crdt = Hash(gs), !.stamp = c], c)

-----------------------------------------------------------------------------
(* Execution of a command: the actor's Execute message and, in execute,    *)
(* the log and the gossip queue.                                           *)

\* The oldest messages are dropped when the queue is over its capacity.
Enqueue(q, d) ==
    LET full == Append(q, d) IN
    SubSeq(full, Larger(1, Len(full) - MaxOutbound + 1), Len(full))

RemoveAt(q, i) == SubSeq(q, 1, i - 1) \o SubSeq(q, i + 1, Len(q))

Spend(b, max) ==
    /\ used[b] < max
    /\ used' = [used EXCEPT ![b] = @ + 1]

\* r's actor executed a command that left its executor with ds and its replica
\* state with s, and handed the delta, if there is one, to the connection.
Executed(r, ds, s) ==
    /\ replay[r] = <<>>
    /\ Spend("commands", MaxCommands)
    /\ data' = [data EXCEPT ![r] = ds]
    /\ clock' = [clock EXCEPT ![r] = s.clock]
    /\ keys' = [keys EXCEPT ![r] = s.keys]
    /\ inflight' = IF s.delta = NoDelta THEN inflight
                   ELSE [inflight EXCEPT ![r] = Append(@, [delta |-> s.delta,
                                                           waits |-> WalAlways])]
    /\ UNCHANGED <<outbox, net, log, replay>>

\* write_durable answers a connection of r: the delta is in the log, or the
\* write failed, which is only reported. The log is read by a restart alone.
WalAnswers(r, i) ==
    /\ inflight[r][i].waits
    /\ inflight' = [inflight EXCEPT ![r][i].waits = FALSE]
    /\ \/ log' = IF MaxRestarts = 0 THEN log
                 ELSE [log EXCEPT ![r] = Append(@, inflight[r][i].delta)]
       \/ WalFails /\ UNCHANGED log
    /\ UNCHANGED <<clock, keys, data, outbox, net, replay, used>>

\* A connection of r queues its delta for gossip; connections do so in any
\* order. With another policy than Always the delta went to the WAL just before.
QueueDelta(r, i) ==
    /\ ~inflight[r][i].waits
    /\ inflight' = [inflight EXCEPT ![r] = RemoveAt(@, i)]
    /\ outbox' = [outbox EXCEPT ![r] = Enqueue(@, inflight[r][i].delta)]
    /\ log' = IF MaxRestarts = 0 \/ WalAlways THEN log
              ELSE [log EXCEPT ![r] = Append(@, inflight[r][i].delta)]
    /\ UNCHANGED <<clock, keys, data, net, replay, used>>

\* The executor's value of k after SET k v with the options of cmd.
AfterSet(r, cmd, k, v, expiry) ==
    LET d == data[r][k] IN
    IF (cmd = "nx" /\ d # Nothing) \/ (cmd = "xx" /\ d = Nothing) THEN d
    ELSE ExecSet(d, v, expiry)

\* Whether a SET is recorded, from the executor's value d after it: with NX
\* whenever a string is there, with XX whenever anything is.
SetRecorded(cmd, d) ==
    CASE cmd = "nx" -> IsString(d)
      [] cmd = "xx" -> d # Nothing
      [] OTHER -> TRUE

Set(r, cmd, k, v, expiry) ==
    /\ cmd \in Commands[k] \cap {"set", "nx", "xx"}
    /\ LET d == AfterSet(r, cmd, k, v, expiry) IN
       Executed(r, [data[r] EXCEPT ![k] = d],
                IF SetRecorded(cmd, d) THEN RecordWrite(State(r), k, v, expiry)
                                       ELSE State(r))

\* INCR, DECR, INCRBY, DECRBY, APPEND and GETSET: a string, or nothing, gets a
\* new value and keeps its deadline; what the key then holds is recorded. The
\* new value may be the old one: not a number, or over the range.
Modify(r, k, v) ==
    /\ "modify" \in Commands[k]
    /\ LET old == data[r][k]
           d == CASE old = Nothing -> String(v, NoExpiry)
                  [] IsString(old) -> [old EXCEPT !.value = v]
                  [] OTHER -> old IN
       Executed(r, [data[r] EXCEPT ![k] = d],
                IF IsString(d) THEN RecordWrite(State(r), k, d.value, NoExpiry)
                               ELSE State(r))

\* DEL of several keys records each and returns the delta of the last.
Del(r, ks) ==
    /\ \A k \in Range(ks) : "del" \in Commands[k]
    /\ Executed(r, [k \in Key |-> IF k \in Range(ks) THEN Nothing ELSE data[r][k]],
                RecordDelete(State(r), ks))

\* HSET is recorded whether or not the executor accepted it.
HSet(r, k, f, v) ==
    /\ "hset" \in Commands[k]
    /\ Executed(r, [data[r] EXCEPT ![k] = ExecHSet(@, [g \in {f} |-> v])],
                RecordHashWrite(State(r), k, f, v))

HDel(r, k, f) ==
    /\ "hdel" \in Commands[k]
    /\ Executed(r, [data[r] EXCEPT ![k] = ExecHDel(@, {f})],
                RecordHashDelete(State(r), k, f))

\* HINCRBY is recorded when the executor's key is a hash with the field.
HIncrBy(r, k, f, v) ==
    /\ "hincr" \in Commands[k]
    /\ LET d == ExecHSet(data[r][k], [g \in {f} |-> v]) IN
       Executed(r, [data[r] EXCEPT ![k] = d],
                IF IsHashData(d) THEN RecordHashWrite(State(r), k, f, v)
                                 ELSE State(r))

\* MSET sets each key through its shard and drops the delta.
MSet(r, k, v) ==
    /\ "mset" \in Commands[k]
    /\ Executed(r, [data[r] EXCEPT ![k] = String(v, NoExpiry)],
                [RecordWrite(State(r), k, v, NoExpiry) EXCEPT !.delta = NoDelta])

\* FLUSHDB and FLUSHALL empty the executor and record nothing.
Flush(r) ==
    /\ \A k \in Key : "flush" \in Commands[k]
    /\ Executed(r, [k \in Key |-> Nothing], State(r))

\* The deadlines of ks have passed: the executor alone forgets them.
EvictExpired(r, ks) ==
    /\ replay[r] = <<>>
    /\ \A k \in ks : data[r][k] # Nothing /\ data[r][k].ttl # NoExpiry
    /\ data' = [data EXCEPT ![r] = [k \in Key |-> IF k \in ks THEN Nothing ELSE @[k]]]
    /\ UNCHANGED <<clock, keys, inflight, outbox, net, log, replay, used>>

-----------------------------------------------------------------------------
(* Gossip. *)

\* One round of the gossip loop: the queue is emptied and each delta sent to
\* every peer. A send that fails after one reconnect is given up.
GossipRound(r) ==
    /\ outbox[r] # <<>>
    /\ outbox' = [outbox EXCEPT ![r] = <<>>]
    /\ LET sent == [to : Replica \ {r}, delta : Range(outbox[r])] IN
       \/ net' = net \cup sent /\ UNCHANGED used
       \/ /\ Spend("losses", MaxLosses)
          /\ \E p \in sent : net' = net \cup (sent \ {p})
    /\ UNCHANGED <<clock, keys, data, inflight, log, replay>>

\* The executor's value d of a key brought up to the merged value rv.
Synced(d, rv) ==
    IF IsHash(rv.crdt)
    THEN LET fs == rv.crdt.fields
             live == [f \in LiveFields(fs) |-> Get(fs[f])] IN
         ExecHDel(IF DOMAIN live = {} THEN d ELSE ExecHSet(d, live), DeadFields(fs))
    ELSE IF Get(rv.crdt.reg) # NoValue
    THEN ExecSet(d, Get(rv.crdt.reg),
                 IF rv.expiry = NoExpiry THEN NoExpiry ELSE (rv.expiry \div 1000) * 1000)
    ELSE IF rv.crdt.reg.dead THEN Nothing ELSE d

\* apply_remote_delta_impl, on a record of a replica's clock, keys and data.
ApplyRemoteDelta(s, delta) ==
    LET k == delta.key
        rv == IF s.keys[k] = Unknown THEN delta.value ELSE Merge(s.keys[k], delta.value) IN
    [clock |-> Update(s.clock, delta.value.stamp),
     keys |-> [s.keys EXCEPT ![k] = rv],
     data |-> [s.data EXCEPT ![k] = Synced(@, rv)]]

\* r's actor takes a delta.
Applies(r, delta) ==
    LET s == ApplyRemoteDelta([clock |-> clock[r], keys |-> keys[r], data |-> data[r]], delta) IN
    /\ clock' = [clock EXCEPT ![r] = s.clock]
    /\ keys' = [keys EXCEPT ![r] = s.keys]
    /\ data' = [data EXCEPT ![r] = s.data]

\* A peer connection hands a delta to the shard. A sender that was told its
\* write failed when it had not sends the delta again.
Deliver(p) ==
    /\ replay[p.to] = <<>>
    /\ \/ net' = net \ {p} /\ UNCHANGED used
       \/ Spend("duplicates", MaxDuplicates) /\ UNCHANGED net
    /\ Applies(p.to, p.delta)
    /\ UNCHANGED <<inflight, outbox, log, replay>>

\* The process is restarted, and what its sockets held is lost. It sends its
\* actor the deltas its log kept: all of them or, when the log is not synced
\* before the command is answered, a prefix.
Restart(r) ==
    /\ Spend("restarts", MaxRestarts)
    /\ \E n \in (IF WalAlways THEN {Len(log[r])} ELSE 0 .. Len(log[r])) :
         /\ log' = [log EXCEPT ![r] = SubSeq(@, 1, n)]
         /\ replay' = [replay EXCEPT ![r] = SubSeq(log[r], 1, n)]
    /\ clock' = [clock EXCEPT ![r] = NewStamp(r)]
    /\ keys' = [keys EXCEPT ![r] = [k \in Key |-> Unknown]]
    /\ data' = [data EXCEPT ![r] = [k \in Key |-> Nothing]]
    /\ inflight' = [inflight EXCEPT ![r] = <<>>]
    /\ outbox' = [outbox EXCEPT ![r] = <<>>]
    /\ \E lost \in SUBSET {p \in net : p.to = r} : net' = net \ lost

\* The actor takes the next delta of its recovery. Commands, peers and the
\* eviction come to the actor's mailbox behind these.
Replay(r) ==
    /\ replay[r] # <<>>
    /\ replay' = [replay EXCEPT ![r] = Tail(@)]
    /\ Applies(r, Head(replay[r]))
    /\ UNCHANGED <<inflight, outbox, net, log, used>>

Command(r) ==
    \/ \E k \in Key, v \in Value :
         \/ \E cmd \in {"set", "nx", "xx"}, e \in Expiries : Set(r, cmd, k, v, e)
         \/ Modify(r, k, v)
         \/ MSet(r, k, v)
         \/ \E f \in Field : HSet(r, k, f, v) \/ HIncrBy(r, k, f, v)
    \/ \E k \in Key, f \in Field : HDel(r, k, f)
    \/ \E n \in 1 .. MaxDelKeys : \E ks \in [1 .. n -> Key] : Del(r, ks)
    \/ Flush(r)

Next ==
    \/ \E r \in Replica :
         \/ Command(r)
         \/ \E i \in DOMAIN inflight[r] : WalAnswers(r, i) \/ QueueDelta(r, i)
         \/ \E ks \in (SUBSET Key) \ {{}} : EvictExpired(r, ks)
         \/ GossipRound(r)
         \/ Restart(r) \/ Replay(r)
    \/ \E p \in net : Deliver(p)

Spec == Init /\ [][Next]_vars

-----------------------------------------------------------------------------
(* Properties. *)

\* What a client sees of a replicated value, with the expiry of a string.
View(rv) ==
    IF rv = Unknown THEN Nothing
    ELSE IF IsHash(rv.crdt)
    THEN LET live == LiveFields(rv.crdt.fields) IN
         IF live = {} THEN Nothing
         ELSE HashData([f \in live |-> Get(rv.crdt.fields[f])], NoExpiry)
    ELSE IF Get(rv.crdt.reg) = NoValue THEN Nothing
    ELSE String(Get(rv.crdt.reg), rv.expiry)

Contents(d) == IF d = Nothing THEN Nothing ELSE [d EXCEPT !.ttl = NoExpiry]

Agreed == \A r, s \in Replica, k \in Key : View(keys[r][k]) = View(keys[s][k])

Quiescent ==
    net = {} /\ \A r \in Replica : inflight[r] = <<>> /\ outbox[r] = <<>> /\ replay[r] = <<>>

\* Once every queued delta has been sent and every sent one applied, all
\* replicas hold the same value and the same expiry for every key, in
\* whatever order the deltas arrived (ReplicatedValue::merge).
Converged == Quiescent => Agreed

\* The executor, which answers the clients, and the replica state, which is
\* gossiped, hold the same contents for every key after every message of the
\* actor (record_mutation_post_execute, apply_remote_delta_impl).
ExecutorMatches ==
    \A r \in Replica, k \in Key : Contents(data[r][k]) = Contents(View(keys[r][k]))

\* The assertion at the end of apply_remote_delta_impl: when the merged value
\* is a live string and the executor holds a string, it is that string.
AppliedAsMerged ==
    \A p \in net :
      LET d == data'[p.to][p.delta.key]
          v == View(keys'[p.to][p.delta.key]) IN
      Deliver(p) /\ IsString(v) /\ IsString(d) => d.value = v.value

\* The copies of values that deltas carry, in a connection, a queue, a socket or
\* a log, and those the replicas hold.
Local(r) ==
    {[key |-> k, value |-> keys[r][k]] : k \in {j \in Key : keys[r][j] # Unknown}}
        \cup {h.delta : h \in Range(inflight[r])}

Abroad ==
    {p.delta : p \in net} \cup UNION {Range(outbox[r]) \cup Range(log[r]) : r \in Replica}

Copies == Abroad \cup UNION {Local(r) : r \in Replica}

\* A timestamp names one write: two copies of a register anywhere in the
\* system, in a replica, a queue, a socket or a log, that have the same stamp
\* have the same contents. The order of LamportClock decides every merge, so
\* the merge is a function of the set of writes only if this holds.
StampsUnique ==
    \A c, d \in Copies : c.key = d.key =>
      \A x \in Registers(c.value.crdt), y \in Registers(d.value.crdt) :
        x[1] = y[1] /\ x[2].stamp = y[2].stamp => x[2] = y[2]

\* No step replaces a register, that of a string or of a field of a hash, by an
\* older one: a command is always later than everything its replica has seen
\* (LamportClock::update), and a late delta never undoes a newer write
\* (LwwRegister::merge).
StampsForward ==
    \A r \in Replica, k \in Key :
      LET a == keys[r][k]
          b == keys'[r][k] IN
      a # Unknown =>
        /\ b # Unknown
        /\ \A x \in Registers(a.crdt), y \in Registers(b.crdt) :
             x[1] = y[1] => ~Later(x[2].stamp, y[2].stamp)
=============================================================================
