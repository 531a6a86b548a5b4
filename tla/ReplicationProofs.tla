-------------------------- MODULE ReplicationProofs -------------------------
(***************************************************************************)
(* The theorems about Replication. The last command to be dealt with is    *)
(* DEL, whose record advances the clock by the number of strings among its *)
(* keys; then every step keeps the invariant, and every step but a restart *)
(* moves the registers forward.                                            *)
(***************************************************************************)
EXTENDS StampProofs, FiniteSetTheorems

\* The keys that are deleted.
LEMMA RecordDeleteIsGood ==
    ASSUME Typed, NEW r \in Replica, NEW n \in Nat \ {0}, NEW ks \in [1 .. n -> Key]
    PROVE  GoodRecord(r, RecordDelete(State(r), ks))
<1> DEFINE P(D) == {j \in 1 .. n : j \in D /\ IsPlain(keys[r][ks[j]])}
           Ticked(D) == [clock[r] EXCEPT !.time = @ + Cardinality(P(D))]
           Upto(k) == {j \in 1 .. n : \E i \in j .. n : ks[i] = k}
           after == [k \in Key |-> IF Upto(k) # {} /\ IsPlain(keys[r][k])
                                    THEN Buried(keys[r][k], Ticked(Upto(k))) ELSE keys[r][k]]
<1>1. Len(ks) = n
  OBVIOUS
<1>2. RecordDelete(State(r), ks)
        = [clock |-> Ticked(1 .. n), keys |-> after,
           delta |-> IF after[ks[n]] = Unknown THEN NoDelta
                     ELSE [key |-> ks[n], value |-> after[ks[n]]]]
  BY Zenon, <1>1 DEF RecordDelete, State
<1>3. \A D : IsFiniteSet(P(D)) /\ Cardinality(P(D)) \in Nat
  <2>1. IsFiniteSet(1 .. n)
    BY FS_Interval
  <2> QED BY Zenon, <2>1, FS_Subset, FS_CardinalityType
<1>4. \A k : Cardinality(P(Upto(k))) <= Cardinality(P(1 .. n))
  <2>1. \A k : P(Upto(k)) \subseteq P(1 .. n)
    BY Zenon
  <2> QED BY Zenon, <1>3, <2>1, FS_Subset
<1>5. \A k : Upto(k) # {} /\ IsPlain(keys[r][k]) => Cardinality(P(Upto(k))) > 0
  <2> SUFFICES ASSUME NEW k, Upto(k) # {}, IsPlain(keys[r][k])
               PROVE  Cardinality(P(Upto(k))) > 0
    BY Zenon
  <2>1. PICK i \in 1 .. n : ks[i] = k
    OBVIOUS
  <2>2. i \in P(Upto(k))
    BY <2>1
  <2>3. IsFiniteSet(P(Upto(k))) /\ Cardinality(P(Upto(k))) \in Nat /\ P(Upto(k)) # {}
    BY Zenon, <1>3, <2>2
  <2> HIDE DEF P, Upto
  <2> QED BY <2>3, FS_EmptySet
<1>6. clock[r] \in Stamp /\ clock[r].id = r /\ clock[r].time \in Nat
  BY Zenon, Clocks
<1> HIDE DEF P, Upto
<1>7. \A D : Ticked(D) \in Stamp /\ Ticked(D).id = r
               /\ Ticked(D).time = clock[r].time + Cardinality(P(D))
  BY <1>3, <1>6 DEF Stamp
<1> HIDE DEF Ticked
<1>8. \A k \in Key : after[k] = keys[r][k] \/ Grown(r, k, after[k], Ticked(1 .. n))
  <2> SUFFICES ASSUME NEW k \in Key, Upto(k) # {}, IsPlain(keys[r][k])
               PROVE  Grown(r, k, Buried(keys[r][k], Ticked(Upto(k))), Ticked(1 .. n))
    BY Zenon
  <2> DEFINE c == Ticked(Upto(k))
             rv == Buried(keys[r][k], c)
  <2>1. c \in Stamp /\ c.id = r /\ c.time \in Nat /\ clock[r].time < c.time
        /\ c.time <= Ticked(1 .. n).time
    BY <1>3, <1>4, <1>5, <1>6, <1>7
  <2> HIDE DEF c
  <2>2. Deleted(c) \in Register /\ Deleted(c).stamp = c
    BY Zenon, <2>1, NewRegisters
  <2>3. keys[r][k] \in ReplicatedValue
    BY DEF Typed, IsPlain
  <2>4. rv \in ReplicatedValue /\ rv.crdt = Lww(Deleted(c)) /\ rv.stamp = c
    <3>1. Lww(Deleted(c)) \in CrdtValue
      BY Zenon, <2>2, LwwIsCrdt
    <3> QED BY Zenon, <2>1, <2>3, <3>1 DEF Buried, ReplicatedValue
  <2>5. \A x \in Registers(Lww(Deleted(c))) : x[2] = Deleted(c)
    BY <2>2, LwwIsCrdt, RegistersOf
  <2> HIDE DEF rv
  <2>6. Grown(r, k, rv, Ticked(1 .. n))
    BY <2>1, <2>2, <2>4, <2>5 DEF Grown
  <2> QED BY Zenon, <2>6 DEF rv, c
<1>9. after \in [Key -> ReplicatedValue \cup {Unknown}]
  <2>1. keys[r] \in [Key -> ReplicatedValue \cup {Unknown}]
    BY Zenon DEF Typed
  <2>2. after = [k \in Key |-> after[k]]
    BY Zenon
  <2> HIDE DEF after
  <2>3. \A k \in Key : after[k] \in ReplicatedValue \cup {Unknown}
    BY Zenon, <1>8, <2>1 DEF Grown
  <2> QED BY Zenon, <2>2, <2>3
<1>10. Ticked(1 .. n) \in Stamp /\ Ticked(1 .. n).id = r /\ clock[r].time <= Ticked(1 .. n).time
  BY <1>3, <1>6, <1>7
<1>11. ks[n] \in Key
  OBVIOUS
<1> HIDE DEF after
<1> QED BY <1>2, <1>8, <1>9, <1>10, <1>11 DEF GoodRecord

\* DEL is one of the commands whose records are good.
LEMMA AllDeletesGood == Typed => DeletesGood
BY Zenon, RecordDeleteIsGood DEF DeletesGood

-----------------------------------------------------------------------------
(* Every step. *)

\* The invariant is inductive.
LEMMA NextKeeps ==
    ASSUME Typed, IInv, [Next]_vars
    PROVE  Typed' /\ IInv'
<1>1. ASSUME NEW r \in Replica, Command(r) PROVE Typed' /\ IInv'
  <2>1. PICK ds \in [Key -> Data \cup {Nothing}] : \E s : GoodRecord(r, s) /\ Executed(r, ds, s)
    BY Zenon, <1>1, CommandExecutes, AllDeletesGood DEF IInv
  <2>2. PICK s : GoodRecord(r, s) /\ Executed(r, ds, s)
    BY Zenon, <2>1
  <2> QED BY Zenon, <2>2, ExecutedTyped, ExecutedKeeps
<1>2. ASSUME NEW r \in Replica, NEW i \in DOMAIN inflight[r], WalAnswers(r, i) \/ QueueDelta(r, i)
      PROVE  Typed' /\ IInv'
  BY Zenon, <1>2, WalAnswersKeeps, QueueDeltaKeeps
<1>3. ASSUME NEW r \in Replica, NEW ks, EvictExpired(r, ks) PROVE Typed' /\ IInv'
  BY Zenon, <1>3, EvictExpiredKeeps
<1>4. ASSUME NEW r \in Replica, GossipRound(r) PROVE Typed' /\ IInv'
  BY Zenon, <1>4, GossipRoundKeeps
<1>5. ASSUME NEW r \in Replica, Restart(r) PROVE Typed' /\ IInv'
  BY <1>5, RestartKeeps
<1>6. ASSUME NEW r \in Replica, Replay(r) PROVE Typed' /\ IInv'
  BY Zenon, <1>6, ReplayKeeps
<1>7. ASSUME NEW p \in net, Deliver(p) PROVE Typed' /\ IInv'
  BY Zenon, <1>7, DeliverKeeps
<1>8. ASSUME UNCHANGED vars PROVE Typed' /\ IInv'
  <2>1. UNCHANGED <<clock, keys, data, inflight, outbox, net, log, replay, used>>
    BY Zenon, <1>8 DEF vars
  <2>2. Typed'
    BY Zenon, <2>1 DEF Typed
  <2>3. (\A q : Local(q)' = Local(q)) /\ Abroad' = Abroad
    BY Zenon, <2>1 DEF Local, Abroad
  <2>4. Copies' = Copies /\ \A q : Outside(q)' = Outside(q)
    BY Zenon, <2>3 DEF Copies, Outside
  <2>5. \A q, t : (Passed(q, t)' <=> Passed(q, t)) /\ (Logged(q, t)' <=> Logged(q, t))
    BY Zenon, <2>1 DEF Passed, Logged
  <2>6. Bounded' /\ ClockAhead' /\ ReplayFromLog'
    BY Zenon, <2>1, <2>3, <2>4 DEF IInv, Bounded, ClockAhead, ReplayFromLog
  <2>7. ASSUME Stamped PROVE Stamped'
    BY <2>1, <2>4, <2>5, <2>7 DEF Stamped, NoneAhead, NoneAheadOfLog, AnsweredLogged, StampsUnique
  <2> QED BY <2>2, <2>6, <2>7 DEF IInv
<1> QED BY Zenon, <1>1, <1>2, <1>3, <1>4, <1>5, <1>6, <1>7, <1>8 DEF Next

\* Nothing is stored at first.
LEMMA InitKeeps == Init => Typed /\ IInv
<1> SUFFICES ASSUME Init PROVE Typed /\ IInv
  BY Zenon
<1>1. \A r \in Replica : NewStamp(r) \in Stamp /\ NewStamp(r).id = r
  BY Zenon DEF NewStamp, Stamp
<1>2. Typed
  <2>1. used \in [{"commands", "losses", "duplicates", "restarts"} -> Nat]
    BY DEF Init
  <2>2. clock \in [Replica -> Stamp] /\ \A r \in Replica : clock[r].id = r
    BY Zenon, <1>1 DEF Init
  <2>3. /\ keys \in [Replica -> [Key -> ReplicatedValue \cup {Unknown}]]
        /\ data \in [Replica -> [Key -> Data \cup {Nothing}]]
    BY Zenon DEF Init
  <2>4. /\ inflight \in [Replica -> Seq(Held)] /\ outbox \in [Replica -> Seq(Deltas)]
        /\ log \in [Replica -> Seq(Deltas)] /\ replay \in [Replica -> Seq(Deltas)]
        /\ \A r \in Replica : Len(outbox[r]) <= MaxOutbound
    BY BoundsAssumption DEF Init
  <2> QED BY Zenon, <2>1, <2>2, <2>3, <2>4 DEF Init, Typed
<1>3. \A r \in Replica : /\ Range(inflight[r]) = {} /\ Range(outbox[r]) = {}
                         /\ Range(log[r]) = {} /\ Range(replay[r]) = {}
  <2>1. Range(<<>>) = {}
    BY DEF Range
  <2> QED BY Zenon, <2>1 DEF Init
<1>4. \A r \in Replica : Local(r) = {}
  BY Zenon, <1>3 DEF Init, Local
<1>5. Abroad = {}
  BY <1>3 DEF Init, Abroad
<1>6. Copies = {} /\ \A q \in Replica : Outside(q) = {}
  BY Zenon, <1>4, <1>5 DEF Copies, Outside
<1>7. Bounded /\ ClockAhead /\ ReplayFromLog
  BY Zenon, <1>3, <1>4, <1>6 DEF Bounded, ClockAhead, ReplayFromLog
<1>8. Stamped
  BY Zenon, <1>3, <1>6 DEF Stamped, NoneAhead, NoneAheadOfLog, AnsweredLogged, StampsUnique
<1> QED BY Zenon, <1>2, <1>7, <1>8 DEF IInv

\* The set-based types give the types by parts.
LEMMA TypedOK == Typed => TypeOK
<1> SUFFICES ASSUME Typed PROVE TypeOK
  BY Zenon
<1>1. \A rv \in ReplicatedValue : ValueOK(rv)
  <2> SUFFICES ASSUME NEW rv \in ReplicatedValue PROVE ValueOK(rv)
    BY Zenon
  <2>1. rv.crdt \in CrdtValue /\ rv.stamp \in Stamp /\ rv.expiry \in Nat \cup {NoExpiry}
    BY Zenon DEF ReplicatedValue
  <2>2. IsHash(rv.crdt) => /\ DOMAIN rv.crdt.fields \subseteq Field
                           /\ \A f \in DOMAIN rv.crdt.fields : rv.crdt.fields[f] \in Register
    BY Zenon, <2>1, CrdtKinds, HashFields DEF Hashes
  <2>3. ~IsHash(rv.crdt) => rv.crdt.reg \in Register
    BY Zenon, <2>1, CrdtKinds
  <2> QED BY Zenon, <2>1, <2>2, <2>3 DEF ValueOK
<1>2. \A d \in Deltas : DeltaOK(d)
  BY Zenon, <1>1 DEF Deltas, DeltaOK
<1>3. \A r \in Replica : \A i \in DOMAIN inflight[r] : inflight[r][i] \in Held
  BY DEF Typed
<1>4. \A r \in Replica :
        /\ \A i \in DOMAIN outbox[r] : outbox[r][i] \in Deltas
        /\ \A i \in DOMAIN log[r] : log[r][i] \in Deltas
        /\ \A i \in DOMAIN replay[r] : replay[r][i] \in Deltas
  <2>1. \A q \in Seq(Deltas) : \A i \in DOMAIN q : q[i] \in Deltas
    OBVIOUS
  <2>2. \A r \in Replica :
            outbox[r] \in Seq(Deltas) /\ log[r] \in Seq(Deltas) /\ replay[r] \in Seq(Deltas)
    BY Zenon DEF Typed
  <2> QED BY Zenon, <2>1, <2>2
<1>5. \A p \in net : p.to \in Replica /\ p.delta \in Deltas
  BY Zenon DEF Typed
<1>6. \A r \in Replica, k \in Key : keys[r][k] # Unknown => ValueOK(keys[r][k])
  BY <1>1 DEF Typed
<1>7. \A b \in DOMAIN used : used[b] \in Nat
  BY Zenon DEF Typed
<1> QED BY <1>2, <1>3, <1>4, <1>5, <1>6, <1>7 DEF TypeOK, Typed, Held

-----------------------------------------------------------------------------
(* Registers never go back. *)

\* A command's registers are later than those they replace.
LEMMA ExecutedForward ==
    ASSUME Typed, Bounded, ClockAhead, NEW r \in Replica, NEW s, NEW ds,
           GoodRecord(r, s), Executed(r, ds, s), NEW k \in Key, keys[r][k] # Unknown
    PROVE  keys'[r][k] # Unknown /\ Forward(keys[r][k], keys'[r][k])
<1> DEFINE a == keys[r][k]
           b == s.keys[k]
<1>1. keys'[r][k] = b
  BY Zenon DEF Executed, Typed
<1>2. a \in ReplicatedValue /\ a.crdt \in CrdtValue /\ clock[r].time \in Nat
  BY Zenon, Clocks, HeldValue DEF ReplicatedValue
<1>3. CASE b = a
  BY Zenon, <1>1, <1>2, <1>3, NotLaterThanItself
<1>4. CASE Grown(r, k, b, s.clock)
  <2>1. b \in ReplicatedValue /\ b.crdt \in CrdtValue /\ b # Unknown
    BY Zenon, <1>4, UnknownAssumption DEF Grown, ReplicatedValue
  <2>2. ASSUME NEW x \in Registers(a.crdt), NEW y \in Registers(b.crdt), x[1] = y[1]
        PROVE  ~Later(x[2].stamp, y[2].stamp)
    <3>1. x[2].stamp \in Stamp /\ x[2].stamp.time \in Nat /\ x[2].stamp.time <= clock[r].time
      BY <1>2, RegistersTyped, HeldValue
    <3>2. CASE y \in Registers(a.crdt)
      <4>1. x = y
        BY Zenon, <1>2, <2>2, <3>2, RegistersTyped
      <4> QED BY Zenon, <3>1, <4>1, LaterAsymmetric
    <3>3. CASE clock[r].time < y[2].stamp.time
      <4>1. y[2].stamp.time \in Nat
        BY Zenon, <2>1, RegistersTyped
      <4> QED BY <1>2, <3>1, <3>3, <4>1 DEF Later
    <3> QED BY Zenon, <1>4, <3>2, <3>3 DEF Grown
  <2> QED BY Zenon, <1>1, <2>1, <2>2 DEF Forward
<1> QED BY Zenon, <1>3, <1>4 DEF GoodRecord

\* Taking a delta never replaces a register by an older one.
LEMMA AppliesForward ==
    ASSUME Typed, NEW r \in Replica, NEW delta \in Abroad, Applies(r, delta),
           NEW k \in Key, keys[r][k] # Unknown
    PROVE  keys'[r][k] # Unknown /\ Forward(keys[r][k], keys'[r][k])
<1>1. delta.key \in Key /\ delta.value \in ReplicatedValue /\ keys[r][k] \in ReplicatedValue
  <2>1. delta \in Deltas
    BY Zenon, CopiesTyped DEF Copies
  <2> QED BY <2>1 DEF Deltas, Typed
<1>2. CASE k # delta.key
  <2>1. keys'[r][k] = keys[r][k]
    BY <1>2 DEF Applies, ApplyRemoteDelta, Typed
  <2> QED BY Zenon, <1>1, <2>1, NotLaterThanItself
<1>3. CASE k = delta.key
  <2>1. keys'[r][k] = Merge(keys[r][k], delta.value)
    BY Zenon, <1>3 DEF Applies, ApplyRemoteDelta, Typed
  <2>2. Merge(keys[r][k], delta.value) \in ReplicatedValue
    BY Zenon, <1>1, MergeValues
  <2> QED BY Zenon, <1>1, <2>1, <2>2, MergeForward, UnknownAssumption
<1> QED BY Zenon, <1>2, <1>3

\* Every step but a restart moves registers forward.
LEMMA NextForward ==
    ASSUME Typed, IInv, [Next]_vars, ~ \E r \in Replica : Restart(r)
    PROVE  StampsForward
<1> SUFFICES ASSUME NEW q \in Replica, NEW k \in Key, keys[q][k] # Unknown
             PROVE  keys'[q][k] # Unknown /\ Forward(keys[q][k], keys'[q][k])
  BY Zenon DEF StampsForward, Forward
<1>1. keys[q][k] \in ReplicatedValue
  BY DEF Typed
<1>2. CASE keys'[q][k] = keys[q][k]
  BY Zenon, <1>1, <1>2, NotLaterThanItself
<1>3. ASSUME NEW r \in Replica, Command(r)
      PROVE  keys'[q][k] # Unknown /\ Forward(keys[q][k], keys'[q][k])
  <2>1. PICK ds \in [Key -> Data \cup {Nothing}] : \E s : GoodRecord(r, s) /\ Executed(r, ds, s)
    BY Zenon, <1>3, CommandExecutes, AllDeletesGood DEF IInv
  <2>2. PICK s : GoodRecord(r, s) /\ Executed(r, ds, s)
    BY Zenon, <2>1
  <2>3. CASE q = r
    BY Zenon, <2>2, <2>3, ExecutedForward DEF IInv
  <2>4. CASE q # r
    BY Zenon, <1>2, <2>2, <2>4 DEF Executed, Typed
  <2> QED BY Zenon, <2>3, <2>4
<1>4. ASSUME NEW r \in Replica, NEW delta \in Abroad, Applies(r, delta)
      PROVE  keys'[q][k] # Unknown /\ Forward(keys[q][k], keys'[q][k])
  <2>1. CASE q = r
    BY Zenon, <1>4, <2>1, AppliesForward
  <2>2. CASE q # r
    BY Zenon, <1>2, <1>4, <2>2 DEF Applies, Typed
  <2> QED BY Zenon, <2>1, <2>2
<1>5. ASSUME NEW p \in net, Deliver(p)
      PROVE  keys'[q][k] # Unknown /\ Forward(keys[q][k], keys'[q][k])
  <2>1. p.to \in Replica /\ p.delta \in Abroad /\ Applies(p.to, p.delta)
    BY <1>5 DEF Typed, Abroad, Deliver
  <2> QED BY Zenon, <1>4, <2>1
<1>6. ASSUME NEW r \in Replica, Replay(r)
      PROVE  keys'[q][k] # Unknown /\ Forward(keys[q][k], keys'[q][k])
  <2>1. Head(replay[r]) \in Range(replay[r]) /\ Applies(r, Head(replay[r]))
    BY <1>6, QueueElements DEF Typed, Replay
  <2>2. Head(replay[r]) \in Abroad
    <3>1. Head(replay[r]) \in Range(log[r])
      BY Zenon, <2>1 DEF IInv, ReplayFromLog
    <3> QED BY Zenon, <3>1 DEF Abroad
  <2> QED BY Zenon, <1>4, <2>1, <2>2
<1>7. ASSUME NEW r \in Replica,
             \/ \E i \in DOMAIN inflight[r] : WalAnswers(r, i) \/ QueueDelta(r, i)
             \/ \E ks : EvictExpired(r, ks)
             \/ GossipRound(r)
      PROVE  keys'[q][k] # Unknown /\ Forward(keys[q][k], keys'[q][k])
  <2>1. keys' = keys
    BY Zenon, <1>7 DEF WalAnswers, QueueDelta, EvictExpired, GossipRound
  <2> QED BY Zenon, <1>2, <2>1
<1>8. CASE UNCHANGED vars
  BY Zenon, <1>2, <1>8 DEF vars
<1> QED BY <1>3, <1>5, <1>6, <1>7, <1>8 DEF Next

-----------------------------------------------------------------------------
(* The theorems. *)

\* The invariant holds in every reachable state, whatever the log does.
THEOREM Invariant == Spec => [](Typed /\ IInv)
<1>1. Init => Typed /\ IInv
  BY Zenon, InitKeeps
<1>2. Typed /\ IInv /\ [Next]_vars => Typed' /\ IInv'
  BY Zenon, NextKeeps
<1> QED BY <1>1, <1>2, PTL DEF Spec

\* Every variable keeps its type, in every behaviour.
THEOREM TypeCorrect == Spec => []TypeOK
<1>1. Typed /\ IInv => TypeOK
  BY Zenon, TypedOK
<1> QED BY <1>1, Invariant, PTL

\* A timestamp names one write (LamportClock::tick and update), for any number of
\* replicas, keys, commands, lost and repeated deltas, as long as a replica that
\* restarts has every delta it let out in its log.
THEOREM StampsNameWrites ==
    ASSUME LogKeepsStamps
    PROVE  Spec => []StampsUnique
<1>1. Typed /\ IInv => StampsUnique
  BY Zenon DEF IInv, Stamped
<1> QED BY <1>1, Invariant, PTL

\* Only a restart takes a register back: no command, no delta of a peer, late or
\* repeated, and no step of recovery replaces a register by an older one.
THEOREM RegistersForward ==
    Spec => [][(~ \E r \in Replica : Restart(r)) => StampsForward]_vars
<1>1. Typed /\ IInv /\ [Next]_vars
        => [(~ \E r \in Replica : Restart(r)) => StampsForward]_vars
  BY Zenon, NextForward
<1> QED BY <1>1, Invariant, PTL DEF Spec
=============================================================================
