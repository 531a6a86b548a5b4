----------------------------- MODULE StampProofs ----------------------------
(***************************************************************************)
(* The copies of a value: in the keys of a replica, in its queues, on the  *)
(* way to a peer and in its log. A command adds copies with a stamp later  *)
(* than all its replica ever gave; every other step draws its registers    *)
(* from copies that were there. With that, the steps that carry deltas     *)
(* from one replica to another, or from its log back into it, keep the     *)
(* inductive invariant of Replication.                                     *)
(***************************************************************************)
EXTENDS RecordProofs

(* Copies of values. *)

\* A command adds copies to its own replica alone: those of what it recorded.
LEMMA ExecutedCopies ==
    ASSUME Typed, NEW r \in Replica, NEW s, NEW ds, GoodRecord(r, s), Executed(r, ds, s)
    PROVE  /\ Abroad' = Abroad
           /\ \A q \in Replica \ {r} : Local(q)' = Local(q)
           /\ \A c \in Local(r)' :
                \/ c \in Local(r)
                \/ c.key \in Key /\ c.value = s.keys[c.key] /\ Grown(r, c.key, c.value, s.clock)
<1>1. Abroad' = Abroad
  BY Zenon DEF Executed, Abroad
<1>2. \A q \in Replica \ {r} : Local(q)' = Local(q)
  <2>1. \A q \in Replica \ {r} : keys'[q] = keys[q] /\ inflight'[q] = inflight[q]
    BY Zenon DEF Executed, Typed
  <2> QED BY <2>1 DEF Local
<1>3. ASSUME NEW c \in Local(r)'
      PROVE  \/ c \in Local(r)
             \/ c.key \in Key /\ c.value = s.keys[c.key] /\ Grown(r, c.key, c.value, s.clock)
  <2>1. keys'[r] = s.keys
    BY Zenon DEF Executed, Typed
  <2>2. \A h \in Range(inflight'[r]) :
            h \in Range(inflight[r]) \/ (s.delta # NoDelta /\ h.delta = s.delta)
    <3>1. CASE s.delta = NoDelta
      BY Zenon, <3>1 DEF Executed, Typed
    <3>2. CASE s.delta # NoDelta
      BY <3>2 DEF Executed, Typed, Range
    <3> QED BY Zenon, <3>1, <3>2
  <2>3. \/ c \in {h.delta : h \in Range(inflight[r])}
        \/ \E k \in Key : s.keys[k] # Unknown /\ c = [key |-> k, value |-> s.keys[k]]
    BY Zenon, <2>1, <2>2 DEF Local, GoodRecord
  <2>4. ASSUME NEW k \in Key, s.keys[k] # Unknown, c = [key |-> k, value |-> s.keys[k]]
        PROVE  \/ c \in Local(r)
               \/ c.key \in Key /\ c.value = s.keys[c.key] /\ Grown(r, c.key, c.value, s.clock)
    BY Zenon, <2>4 DEF GoodRecord, Local
  <2> QED BY Zenon, <2>3, <2>4 DEF Local
<1> QED BY Zenon, <1>1, <1>2, <1>3

\* A command keeps the invariant: what it writes is later than everything its
\* replica has stamped.
LEMMA ExecutedKeeps ==
    ASSUME Typed, IInv, NEW r \in Replica, NEW s, NEW ds,
           GoodRecord(r, s), Executed(r, ds, s)
    PROVE  IInv'
<1> DEFINE New(c) == c.key \in Key /\ c.value = s.keys[c.key] /\ Grown(r, c.key, c.value, s.clock)
           Kept(c, x) == \E d \in Local(r) : d.key = c.key /\ x \in Registers(d.value.crdt)
           Fresh(x) == x[2].stamp.id = r /\ clock[r].time < x[2].stamp.time
<1>1. /\ Abroad' = Abroad
      /\ \A q \in Replica \ {r} : Local(q)' = Local(q)
      /\ \A c \in Local(r)' : c \in Local(r) \/ New(c)
  BY Zenon, ExecutedCopies
<1>2. /\ replay[r] = <<>> /\ replay' = replay /\ log' = log
      /\ clock'[r] = s.clock /\ \A q \in Replica \ {r} : clock'[q] = clock[q]
  BY Zenon DEF Executed, Typed
<1>3. /\ \A q \in Replica : clock[q].time \in Nat
      /\ s.clock.time \in Nat /\ clock[r].time <= s.clock.time
  BY Zenon, Clocks DEF GoodRecord, Stamp
<1>4. Bounded /\ ClockAhead /\ ReplayFromLog /\ (LogKeepsStamps => Stamped)
  BY Zenon DEF IInv
<1>5. ASSUME NEW c, New(c)
      PROVE  /\ c.value \in ReplicatedValue /\ c.value.crdt \in CrdtValue
             /\ c.value.stamp.time \in Nat /\ c.value.stamp.time <= s.clock.time
             /\ \A x \in Registers(c.value.crdt) :
                  /\ x[2].stamp.time \in Nat /\ x[2].stamp.time <= c.value.stamp.time
                  /\ Kept(c, x) \/ Fresh(x)
  <2>1. c.value \in ReplicatedValue
    BY Zenon, <1>5 DEF Grown
  <2>2. c.value.crdt \in CrdtValue /\ c.value.stamp.time \in Nat
    BY Zenon, <2>1 DEF ReplicatedValue, Stamp
  <2>3. keys[r][c.key] # Unknown => [key |-> c.key, value |-> keys[r][c.key]] \in Local(r)
    BY Zenon, <1>5 DEF Local
  <2> QED BY Zenon, <1>5, <2>1, <2>2, <2>3, RegistersTyped DEF Grown
<1>6. ASSUME LogKeepsStamps
      PROVE  \A c \in Copies : \A x \in Registers(c.value.crdt) :
               /\ x[2].stamp.time \in Nat
               /\ x[2].stamp.id = r => x[2].stamp.time <= clock[r].time
  <2>1. Range(replay[r]) = {}
    BY <1>2 DEF Range
  <2> QED BY Zenon, <1>4, <1>6, <2>1, CopiesTyped DEF Stamped, NoneAhead, Passed
<1>7. \A c \in Copies' : c \in Copies \/ (c \in Local(r)' /\ New(c))
  BY Zenon, <1>1 DEF Copies
<1>8. \A c \in Local(r) : c \in Copies
  BY Zenon DEF Copies
<1> HIDE DEF New
<1>9. Bounded'
  BY Zenon, <1>4, <1>5, <1>7 DEF Bounded
<1>10. ClockAhead'
  <2>1. \A q \in Replica : \A c \in Local(q) : c.value.stamp.time \in Nat
    BY Zenon, CopiesTyped DEF Copies
  <2>2. \A c \in Local(r)' : c.value.stamp.time <= clock'[r].time
    BY <1>1, <1>2, <1>3, <1>4, <1>5, <2>1 DEF ClockAhead
  <2> QED BY <1>1, <1>2, <1>4, <2>2 DEF ClockAhead
<1>11. ASSUME LogKeepsStamps PROVE NoneAhead'
  <2>1. \A q \in Replica, t \in Nat : Passed(q, t) => Passed(q, t)'
    BY <1>2, <1>3 DEF Passed
  <2>2. \A t \in Nat : t <= s.clock.time => Passed(r, t)'
    BY Zenon, <1>2 DEF Passed
  <2> SUFFICES ASSUME NEW c \in Copies', NEW x \in Registers(c.value.crdt)
               PROVE  Passed(x[2].stamp.id, x[2].stamp.time)'
    BY Zenon DEF NoneAhead
  <2>3. CASE c \in Copies
    BY Zenon, <1>4, <1>11, <2>1, <2>3, CopiesTyped DEF Stamped, NoneAhead
  <2>4. CASE New(c)
    <3>1. CASE Kept(c, x)
      BY Zenon, <1>4, <1>8, <1>11, <2>1, <3>1, CopiesTyped DEF Stamped, NoneAhead
    <3>2. CASE Fresh(x)
      BY <1>3, <1>5, <2>2, <2>4, <3>2
    <3> QED BY Zenon, <1>5, <2>4, <3>1, <3>2
  <2> QED BY Zenon, <1>7, <2>3, <2>4
<1>12. ReplayFromLog'
  BY Zenon, <1>2, <1>4 DEF ReplayFromLog
<1>13. ASSUME LogKeepsStamps, MaxRestarts > 0 PROVE NoneAheadOfLog'
  <2> SUFFICES ASSUME NEW q \in Replica, NEW c \in Outside(q)', NEW x \in Registers(c.value.crdt),
                      x[2].stamp.id = q
               PROVE  Logged(q, x[2].stamp.time)'
    BY Zenon DEF NoneAheadOfLog
  <2>1. \A t : Logged(q, t)' <=> Logged(q, t)
    BY Zenon, <1>2 DEF Logged
  <2>2. CASE c \in Outside(q)
    BY Zenon, <1>4, <1>13, <2>1, <2>2 DEF Stamped, NoneAheadOfLog
  <2>3. CASE c \notin Outside(q)
    <3>1. q # r /\ New(c)
      BY <1>1, <2>3 DEF Outside
    <3>2. PICK d \in Local(r) : x \in Registers(d.value.crdt)
      BY Zenon, <1>5, <3>1
    <3>3. d \in Outside(q)
      BY Zenon, <3>1 DEF Outside
    <3> QED BY Zenon, <1>4, <1>13, <2>1, <3>2, <3>3 DEF Stamped, NoneAheadOfLog
  <2> QED BY Zenon, <2>2, <2>3
<1>14. ASSUME LogKeepsStamps, MaxRestarts > 0 PROVE AnsweredLogged'
  <2>1. WalAlways
    BY <1>14, BoundsAssumption DEF LogKeepsStamps
  <2>2. \A q \in Replica : \A h \in Range(inflight'[q]) : h \in Range(inflight[q]) \/ h.waits
    BY <2>1 DEF Executed, Typed, Range
  <2> QED BY Zenon, <1>2, <1>4, <1>14, <2>2 DEF Stamped, AnsweredLogged
<1>15. ASSUME LogKeepsStamps PROVE StampsUnique'
  <2> SUFFICES ASSUME NEW c \in Copies', NEW d \in Copies', c.key = d.key,
                      NEW x \in Registers(c.value.crdt), NEW y \in Registers(d.value.crdt),
                      x[1] = y[1], x[2].stamp = y[2].stamp
               PROVE  x[2] = y[2]
    BY DEF StampsUnique
  <2>1. (\E e \in Copies : e.key = c.key /\ x \in Registers(e.value.crdt)) \/ (New(c) /\ Fresh(x))
    BY Zenon, <1>5, <1>7, <1>8
  <2>2. (\E e \in Copies : e.key = d.key /\ y \in Registers(e.value.crdt)) \/ (New(d) /\ Fresh(y))
    BY Zenon, <1>5, <1>7, <1>8
  <2>3. CASE New(c) /\ Fresh(x) /\ New(d) /\ Fresh(y)
    <3>1. c.value = d.value /\ c.value.crdt \in CrdtValue
      BY Zenon, <1>5, <2>3 DEF New
    <3> QED BY Zenon, <3>1, RegistersTyped
  <2>4. CASE ~(New(c) /\ Fresh(x)) /\ ~(New(d) /\ Fresh(y))
    BY <1>4, <1>15, <2>1, <2>2, <2>4 DEF Stamped, StampsUnique
  <2>5. CASE (New(c) /\ Fresh(x)) # (New(d) /\ Fresh(y))
    BY <1>3, <1>6, <1>15, <2>1, <2>2, <2>5
  <2> QED BY Zenon, <2>3, <2>4, <2>5
<1> QED BY Zenon, <1>9, <1>10, <1>11, <1>12, <1>13, <1>14, <1>15 DEF IInv, Stamped

\* Every command leaves its executor with typed data, and what it records is good.
LEMMA CommandExecutes ==
    ASSUME Typed, Bounded, ClockAhead, DeletesGood, NEW r \in Replica, Command(r)
    PROVE  \E ds \in [Key -> Data \cup {Nothing}] : \E s : GoodRecord(r, s) /\ Executed(r, ds, s)
<1> DEFINE Goal == \E ds \in [Key -> Data \cup {Nothing}] :
                       \E s : GoodRecord(r, s) /\ Executed(r, ds, s)
<1>1. data[r] \in [Key -> Data \cup {Nothing}]
  BY Zenon DEF Typed
<1>2. \A k \in Key, d \in Data \cup {Nothing} :
          [data[r] EXCEPT ![k] = d] \in [Key -> Data \cup {Nothing}]
  BY Zenon, <1>1
<1>3. GoodRecord(r, State(r))
  BY Zenon, StateIsGood
<1>4. ASSUME NEW k \in Key, NEW v \in Value, NEW cmd, NEW e \in Expiries, Set(r, cmd, k, v, e)
      PROVE  Goal
  <2> DEFINE d == AfterSet(r, cmd, k, v, e)
             s == IF SetRecorded(cmd, d) THEN RecordWrite(State(r), k, v, e) ELSE State(r)
  <2>1. e \in Nat \cup {NoExpiry}
    BY Zenon, ExpiriesAssumption
  <2>2. d \in Data \cup {Nothing}
    BY Zenon, <1>1, <2>1, ExecSetTyped DEF AfterSet, Ttl
  <2>3. GoodRecord(r, s)
    BY Zenon, <1>3, <2>1, RecordWriteIsGood
  <2>4. Executed(r, [data[r] EXCEPT ![k] = d], s)
    BY Zenon, <1>4 DEF Set
  <2> HIDE DEF d, s
  <2> QED BY Zenon, <1>2, <2>2, <2>3, <2>4
<1>5. ASSUME NEW k \in Key, NEW v \in Value, Modify(r, k, v)
      PROVE  Goal
  <2> DEFINE old == data[r][k]
             d == CASE old = Nothing -> String(v, NoExpiry)
                    [] IsString(old) -> [old EXCEPT !.value = v]
                    [] OTHER -> old
             s == IF IsString(d) THEN RecordWrite(State(r), k, d.value, NoExpiry) ELSE State(r)
  <2>1. old \in Data \cup {Nothing}
    BY Zenon, <1>1
  <2>2. d \in Data \cup {Nothing}
    <3>1. CASE old = Nothing
      <4>1. d = String(v, NoExpiry)
        BY Zenon, <3>1 DEF IsString
      <4> QED BY <4>1, DataKinds DEF Ttl
    <3>2. CASE IsString(old)
      <4>1. d = [old EXCEPT !.value = v] /\ old \in Data
        BY Zenon, <2>1, <3>2 DEF IsString
      <4> QED BY Zenon, <3>2, <4>1, DataKinds
    <3>3. CASE old # Nothing /\ ~IsString(old)
      BY Zenon, <2>1, <3>3
    <3> QED BY Zenon, <3>1, <3>2, <3>3
  <2>3. Executed(r, [data[r] EXCEPT ![k] = d], s)
    BY Zenon, <1>5 DEF Modify
  <2> HIDE DEF d
  <2>4. IsString(d) => d.value \in Value
    BY Zenon, <2>2, DataKinds DEF IsString
  <2>5. GoodRecord(r, s)
    BY Zenon, <1>3, <2>4, RecordWriteIsGood
  <2> HIDE DEF s
  <2> QED BY Zenon, <1>2, <2>2, <2>3, <2>5
<1>6. ASSUME NEW k \in Key, NEW v \in Value, MSet(r, k, v)
      PROVE  Goal
  <2> DEFINE w == RecordWrite(State(r), k, v, NoExpiry)
             s == [w EXCEPT !.delta = NoDelta]
  <2>1. GoodRecord(r, w)
    BY Zenon, RecordWriteIsGood
  <2>2. w = [clock |-> w.clock, keys |-> w.keys, delta |-> w.delta]
    BY Zenon DEF RecordWrite, Recorded
  <2>3. Executed(r, [data[r] EXCEPT ![k] = String(v, NoExpiry)], s)
    BY Zenon, <1>6 DEF MSet
  <2> HIDE DEF w
  <2>4. s.clock = w.clock /\ s.keys = w.keys /\ s.delta = NoDelta
    BY Zenon, <2>2
  <2>5. GoodRecord(r, s)
    BY Zenon, <2>1, <2>4 DEF GoodRecord
  <2>6. String(v, NoExpiry) \in Data
    BY Zenon, DataKinds DEF Ttl
  <2> HIDE DEF s
  <2> QED BY Zenon, <1>2, <2>3, <2>5, <2>6
<1>7. \A f \in Field, v \in Value : [g \in {f} |-> v] \in Contented
  <2> SUFFICES ASSUME NEW f \in Field, NEW v \in Value
               PROVE  [g \in {f} |-> v] \in Contented
    BY Zenon
  <2>1. {f} \in (SUBSET Field) \ {{}} /\ [g \in {f} |-> v] \in [{f} -> Value]
    BY Zenon
  <2> QED BY Zenon, <2>1 DEF Contented
<1>8. ASSUME NEW k \in Key, NEW f \in Field, NEW v \in Value,
             HSet(r, k, f, v) \/ HIncrBy(r, k, f, v)
      PROVE  Goal
  <2> DEFINE d == ExecHSet(data[r][k], [g \in {f} |-> v])
             w == RecordHashWrite(State(r), k, f, v)
  <2>1. d \in Data \cup {Nothing}
    BY Zenon, <1>1, <1>7, ExecHSetTyped
  <2>2. GoodRecord(r, w)
    BY Zenon, RecordHashWriteIsGood
  <2>3. \E s \in {w, State(r)} : Executed(r, [data[r] EXCEPT ![k] = d], s)
    BY Zenon, <1>1, <1>8 DEF HSet, HIncrBy
  <2> HIDE DEF d, w
  <2> QED BY Zenon, <1>2, <1>3, <2>1, <2>2, <2>3
<1>9. ASSUME NEW k \in Key, NEW f \in Field, HDel(r, k, f)
      PROVE  Goal
  <2>1. ExecHDel(data[r][k], {f}) \in Data \cup {Nothing}
    BY Zenon, <1>1, ExecHDelTyped
  <2>2. GoodRecord(r, RecordHashDelete(State(r), k, f))
    BY Zenon, RecordHashDeleteIsGood
  <2>3. Executed(r, [data[r] EXCEPT ![k] = ExecHDel(data[r][k], {f})],
                 RecordHashDelete(State(r), k, f))
    BY Zenon, <1>1, <1>9 DEF HDel
  <2> QED BY Zenon, <1>2, <2>1, <2>2, <2>3
<1>10. ASSUME NEW n \in 1 .. MaxDelKeys, NEW ks \in [1 .. n -> Key], Del(r, ks)
       PROVE  Goal
  <2> DEFINE ds == [k \in Key |-> IF k \in Range(ks) THEN Nothing ELSE data[r][k]]
  <2>1. ds \in [Key -> Data \cup {Nothing}]
    BY Zenon, <1>1
  <2>2. GoodRecord(r, RecordDelete(State(r), ks))
    BY BoundsAssumption DEF DeletesGood
  <2>3. Executed(r, ds, RecordDelete(State(r), ks))
    BY Zenon, <1>10 DEF Del
  <2> HIDE DEF ds
  <2> QED BY Zenon, <2>1, <2>2, <2>3
<1>11. ASSUME Flush(r) PROVE Goal
  <2>1. [k \in Key |-> Nothing] \in [Key -> Data \cup {Nothing}]
    BY Zenon
  <2> QED BY Zenon, <1>3, <1>11, <2>1 DEF Flush
<1> QED BY Zenon, <1>4, <1>5, <1>6, <1>8, <1>9, <1>10, <1>11 DEF Command

-----------------------------------------------------------------------------
(* Steps that write nothing: every register they leave was there before. *)

\* c is a copy whose registers all come from copies in S of the same key.
Drawn(c, S) ==
    \A x \in Registers(c.value.crdt) :
      /\ x[2].stamp.time <= c.value.stamp.time
      /\ \E d \in S : d.key = c.key /\ x \in Registers(d.value.crdt)

\* Copying and merging keep values bounded by their stamps and stamps unique.
LEMMA DrawnKeeps ==
    ASSUME Bounded, \A c \in Copies' : c \in Copies \/ Drawn(c, Copies)
    PROVE  /\ Bounded'
           /\ StampsUnique => StampsUnique'
           /\ \A c \in Copies' : Drawn(c, Copies)
<1>1. \A c \in Copies' : Drawn(c, Copies)
  BY Zenon DEF Bounded, Drawn
<1>2. Bounded'
  BY Zenon, <1>1 DEF Bounded, Drawn
<1>3. ASSUME StampsUnique PROVE StampsUnique'
  <2> SUFFICES ASSUME NEW c \in Copies', NEW d \in Copies', c.key = d.key,
                      NEW x \in Registers(c.value.crdt), NEW y \in Registers(d.value.crdt),
                      x[1] = y[1], x[2].stamp = y[2].stamp
               PROVE  x[2] = y[2]
    BY DEF StampsUnique
  <2>1. PICK a \in Copies : a.key = c.key /\ x \in Registers(a.value.crdt)
    BY Zenon, <1>1 DEF Drawn
  <2>2. PICK b \in Copies : b.key = d.key /\ y \in Registers(b.value.crdt)
    BY Zenon, <1>1 DEF Drawn
  <2> QED BY Zenon, <1>3, <2>1, <2>2 DEF StampsUnique
<1> QED BY Zenon, <1>1, <1>2, <1>3

\* Nothing runs ahead of a clock when clocks only advance.
LEMMA DrawnNoneAhead ==
    ASSUME Typed, NoneAhead, \A c \in Copies' : Drawn(c, Copies),
           \A q \in Replica, t \in Nat : Passed(q, t) => Passed(q, t)'
    PROVE  NoneAhead'
<1> SUFFICES ASSUME NEW c \in Copies', NEW x \in Registers(c.value.crdt)
             PROVE  Passed(x[2].stamp.id, x[2].stamp.time)'
  BY Zenon DEF NoneAhead
<1>1. PICK d \in Copies : x \in Registers(d.value.crdt)
  BY Zenon DEF Drawn
<1>2. x[2].stamp.time \in Nat /\ x[2].stamp.id \in Replica
  BY Zenon, <1>1, CopiesTyped
<1> QED BY Zenon, <1>1, <1>2 DEF NoneAhead

\* A replica's actor takes a delta: its clock passes the delta's stamp, and what
\* it then holds comes from what it held and from the delta.
LEMMA AppliesCopies ==
    ASSUME Typed, Bounded, ClockAhead, NEW r \in Replica, NEW delta \in Abroad,
           Applies(r, delta), inflight' = inflight
    PROVE  /\ clock' \in [Replica -> Stamp] /\ \A q \in Replica : clock'[q].id = q
           /\ keys' \in [Replica -> [Key -> ReplicatedValue \cup {Unknown}]]
           /\ data' \in [Replica -> [Key -> Data \cup {Nothing}]]
           /\ \A q \in Replica : clock[q].time <= clock'[q].time
           /\ delta.value.stamp.time <= clock'[r].time
           /\ \A q \in Replica \ {r} : Local(q)' = Local(q) /\ clock'[q] = clock[q]
           /\ \A c \in Local(r)' :
                \/ c \in Local(r)
                \/ c.value.stamp.time <= clock'[r].time /\ Drawn(c, Local(r) \cup {delta})
<1> DEFINE k == delta.key
           c1 == Update(clock[r], delta.value.stamp)
           rv == IF keys[r][k] = Unknown THEN delta.value ELSE Merge(keys[r][k], delta.value)
<1>1. delta \in Copies /\ k \in Key /\ delta.value \in ReplicatedValue
      /\ delta.value.stamp \in Stamp /\ delta.value.stamp.time \in Nat
      /\ delta.value.crdt \in CrdtValue
  <2>1. delta \in Deltas
    BY Zenon, CopiesTyped DEF Copies
  <2> QED BY Zenon, <2>1 DEF Copies, Deltas, ReplicatedValue, Stamp
<1>2. clock[r] \in Stamp /\ clock[r].id = r /\ \A q \in Replica : clock[q].time \in Nat
  BY Zenon, Clocks
<1>3. /\ c1 \in Stamp /\ c1.id = r /\ c1.time \in Nat
      /\ clock[r].time < c1.time /\ delta.value.stamp.time < c1.time
  BY <1>1, <1>2 DEF Update, Stamp, Larger
<1>4. \A x \in Registers(delta.value.crdt) :
        x[2].stamp.time \in Nat /\ x[2].stamp.time <= delta.value.stamp.time
  BY Zenon, <1>1, RegistersTyped DEF Bounded
<1>5. /\ rv \in ReplicatedValue /\ rv.stamp.time \in Nat /\ rv.stamp.time <= c1.time
      /\ \A x \in Registers(rv.crdt) :
           /\ x[2].stamp.time <= rv.stamp.time
           /\ \/ x \in Registers(delta.value.crdt)
              \/ keys[r][k] # Unknown /\ x \in Registers(keys[r][k].crdt)
  <2>1. CASE keys[r][k] = Unknown
    BY <1>1, <1>3, <1>4, <2>1
  <2>2. CASE keys[r][k] # Unknown
    <3> DEFINE old == keys[r][k]
    <3>1. /\ old \in ReplicatedValue /\ old.stamp.time \in Nat /\ old.stamp.time <= clock[r].time
          /\ \A x \in Registers(old.crdt) :
                 x[2].stamp.time \in Nat /\ x[2].stamp.time <= old.stamp.time
      BY Zenon, <1>1, <2>2, HeldValue
    <3>2. rv = Merge(old, delta.value)
      BY Zenon, <2>2
    <3> HIDE DEF old, rv, c1
    <3>3. /\ rv \in ReplicatedValue
          /\ rv.stamp.time = Larger(old.stamp.time, delta.value.stamp.time)
          /\ Registers(rv.crdt) \subseteq Registers(old.crdt) \cup Registers(delta.value.crdt)
      BY Zenon, <1>1, <3>1, <3>2, MergeValues
    <3>4. rv.stamp.time \in Nat /\ old.stamp.time <= rv.stamp.time
          /\ delta.value.stamp.time <= rv.stamp.time /\ rv.stamp.time <= c1.time
      BY <1>1, <1>2, <1>3, <3>1, <3>3 DEF Larger
    <3>5. ASSUME NEW x \in Registers(rv.crdt)
          PROVE  /\ x[2].stamp.time <= rv.stamp.time
                 /\ x \in Registers(delta.value.crdt) \/ x \in Registers(old.crdt)
      <4>1. CASE x \in Registers(old.crdt)
        BY <3>1, <3>4, <4>1
      <4>2. CASE x \in Registers(delta.value.crdt)
        BY <1>1, <1>4, <3>4, <4>2
      <4> QED BY Zenon, <3>3, <4>1, <4>2
    <3>6. rv \in ReplicatedValue /\ rv.stamp.time \in Nat /\ rv.stamp.time <= c1.time
      BY Zenon, <3>3, <3>4
    <3> USE DEF old
    <3> QED BY Zenon, <2>2, <3>5, <3>6
  <2> QED BY Zenon, <2>1, <2>2
<1> HIDE DEF c1, rv
<1>6. /\ clock' = [clock EXCEPT ![r] = c1]
      /\ keys' = [keys EXCEPT ![r] = [keys[r] EXCEPT ![k] = rv]]
      /\ data' = [data EXCEPT ![r] = [data[r] EXCEPT ![k] = Synced(data[r][k], rv)]]
  <2>1. data[r] \in [Key -> Data \cup {Nothing}]
    BY Zenon DEF Typed
  <2> QED BY Zenon, <1>1, <2>1 DEF Applies, ApplyRemoteDelta, c1, rv
<1>7. clock' \in [Replica -> Stamp] /\ \A q \in Replica : clock'[q].id = q
  BY Zenon, <1>3, <1>6 DEF Typed
<1>8. keys' \in [Replica -> [Key -> ReplicatedValue \cup {Unknown}]]
  BY Zenon, <1>1, <1>5, <1>6 DEF Typed
<1>9. data' \in [Replica -> [Key -> Data \cup {Nothing}]]
  <2>1. data[r][k] \in Data \cup {Nothing}
    BY <1>1 DEF Typed
  <2>2. Synced(data[r][k], rv) \in Data \cup {Nothing}
    BY Zenon, <1>1, <1>5, <2>1, SyncedTyped
  <2> QED BY Zenon, <1>1, <1>6, <2>2 DEF Typed
<1>10. clock'[r] = c1 /\ \A q \in Replica \ {r} : clock'[q] = clock[q]
  BY Zenon, <1>6 DEF Typed
<1>11. \A q \in Replica \ {r} : Local(q)' = Local(q)
  BY <1>6 DEF Typed, Local
<1>12. ASSUME NEW c \in Local(r)', c \notin Local(r)
       PROVE  c.value.stamp.time <= clock'[r].time /\ Drawn(c, Local(r) \cup {delta})
  <2>1. \A j \in Key : keys'[r][j] = IF j = k THEN rv ELSE keys[r][j]
    BY Zenon, <1>1, <1>6 DEF Typed
  <2>2. c = [key |-> k, value |-> rv]
    BY <1>12, <2>1 DEF Local
  <2>3. keys[r][k] # Unknown => [key |-> k, value |-> keys[r][k]] \in Local(r)
    BY Zenon, <1>1 DEF Local
  <2> QED BY <1>5, <1>10, <2>2, <2>3 DEF Drawn
<1>13. /\ \A q \in Replica : clock[q].time <= clock'[q].time
       /\ delta.value.stamp.time <= clock'[r].time
  BY <1>1, <1>2, <1>3, <1>10
<1> QED BY Zenon, <1>7, <1>8, <1>9, <1>10, <1>11, <1>12, <1>13

\* Taking a delta keeps the invariant, provided what is left of the recovery
\* and the clock together stay where they were.
LEMMA AppliesKeeps ==
    ASSUME Typed, IInv, NEW r \in Replica, NEW delta \in Abroad,
           Applies(r, delta), UNCHANGED <<inflight, outbox, log>>, net' \subseteq net,
           \A q \in Replica : Range(replay'[q]) \subseteq Range(replay[q]),
           \A q \in Replica \ {r} : replay'[q] = replay[q],
           Range(replay[r]) \subseteq Range(replay'[r]) \cup {delta}
    PROVE  IInv'
<1>1. Bounded /\ ClockAhead /\ ReplayFromLog /\ (LogKeepsStamps => Stamped)
  BY Zenon DEF IInv
<1>2. /\ \A q \in Replica : clock[q].time <= clock'[q].time
      /\ delta.value.stamp.time <= clock'[r].time
      /\ \A q \in Replica \ {r} : Local(q)' = Local(q) /\ clock'[q] = clock[q]
      /\ \A c \in Local(r)' :
           \/ c \in Local(r)
           \/ c.value.stamp.time <= clock'[r].time /\ Drawn(c, Local(r) \cup {delta})
  BY Zenon, <1>1, AppliesCopies
<1>3. \A q \in Replica : clock[q].time \in Nat /\ clock'[q].time \in Nat
  <2>1. clock' \in [Replica -> Stamp]
    BY Zenon, <1>1, AppliesCopies
  <2> QED BY Zenon, <2>1, Clocks DEF Stamp
<1>4. Abroad' \subseteq Abroad
  BY Zenon DEF Abroad
<1>5. \A c \in Copies' : c \in Copies \/ Drawn(c, Copies)
  <2>1. Local(r) \cup {delta} \subseteq Copies
    BY Zenon DEF Copies
  <2>2. \A c : Drawn(c, Local(r) \cup {delta}) => Drawn(c, Copies)
    BY Zenon, <2>1 DEF Drawn
  <2> QED BY <1>2, <1>4, <2>2 DEF Copies
<1>6. Bounded' /\ (StampsUnique => StampsUnique') /\ \A c \in Copies' : Drawn(c, Copies)
  BY Zenon, <1>1, <1>5, DrawnKeeps
<1>7. ClockAhead'
  <2>1. \A q \in Replica : \A c \in Local(q) : c.value.stamp.time \in Nat
    BY Zenon, CopiesTyped DEF Copies
  <2>2. \A c \in Local(r)' : c.value.stamp.time <= clock'[r].time
    BY <1>1, <1>2, <1>3, <2>1 DEF ClockAhead
  <2> QED BY Zenon, <1>1, <1>2, <2>2 DEF ClockAhead
<1>8. ASSUME LogKeepsStamps PROVE NoneAhead'
  <2>1. ASSUME NEW q \in Replica, NEW t \in Nat, Passed(q, t)
        PROVE  Passed(q, t)'
    <3>1. CASE t <= clock[q].time
      BY <1>2, <1>3, <3>1 DEF Passed
    <3>2. CASE \E d \in Range(replay[q]) : t <= d.value.stamp.time
      <4>1. PICK d \in Range(replay[q]) : t <= d.value.stamp.time
        BY Zenon, <3>2
      <4>2. CASE d \in Range(replay'[q])
        BY Zenon, <4>1, <4>2 DEF Passed
      <4>3. CASE d \notin Range(replay'[q])
        <5>1. q = r /\ d = delta
          BY Zenon, <4>1, <4>3
        <5>2. delta.value.stamp.time \in Nat
          BY Zenon, CopiesTyped DEF Copies
        <5> QED BY <1>2, <1>3, <4>1, <5>1, <5>2 DEF Passed
      <4> QED BY Zenon, <4>2, <4>3
    <3> QED BY Zenon, <2>1, <3>1, <3>2 DEF Passed
  <2> QED BY Zenon, <1>1, <1>6, <1>8, <2>1, DrawnNoneAhead DEF Stamped
<1>9. ReplayFromLog'
  BY Zenon, <1>1 DEF ReplayFromLog
<1>10. ASSUME LogKeepsStamps, MaxRestarts > 0 PROVE NoneAheadOfLog'
  <2> SUFFICES ASSUME NEW q \in Replica, NEW c \in Outside(q)', NEW x \in Registers(c.value.crdt),
                      x[2].stamp.id = q
               PROVE  Logged(q, x[2].stamp.time)'
    BY Zenon DEF NoneAheadOfLog
  <2>1. \A t : Logged(q, t)' <=> Logged(q, t)
    BY Zenon DEF Logged
  <2>2. \E d \in Outside(q) : x \in Registers(d.value.crdt)
    <3>1. CASE c \in Outside(q)
      BY Zenon, <3>1
    <3>2. CASE c \notin Outside(q)
      <4>1. q # r /\ c \in Local(r)' /\ c \notin Local(r)
        BY <1>2, <1>4, <3>2 DEF Outside
      <4>2. PICK d \in Local(r) \cup {delta} : x \in Registers(d.value.crdt)
        BY Zenon, <1>2, <4>1 DEF Drawn
      <4> QED BY <4>1, <4>2 DEF Outside
    <3> QED BY Zenon, <3>1, <3>2
  <2> QED BY Zenon, <1>1, <1>10, <2>1, <2>2 DEF Stamped, NoneAheadOfLog
<1>11. ASSUME LogKeepsStamps, MaxRestarts > 0 PROVE AnsweredLogged'
  BY Zenon, <1>1, <1>11 DEF Stamped, AnsweredLogged
<1> QED BY Zenon, <1>1, <1>6, <1>7, <1>8, <1>9, <1>10, <1>11 DEF IInv, Stamped

-----------------------------------------------------------------------------
(* Recovery and delivery. *)

\* A peer's delta is applied.
LEMMA DeliverKeeps ==
    ASSUME Typed, IInv, NEW p \in net, Deliver(p)
    PROVE  Typed' /\ IInv'
<1>1. p.to \in Replica /\ p.delta \in Abroad
  BY Zenon DEF Typed, Abroad
<1>2. /\ Applies(p.to, p.delta) /\ UNCHANGED <<inflight, outbox, log>> /\ net' \subseteq net
      /\ replay' = replay
  BY Zenon DEF Deliver
<1>3. IInv'
  BY Zenon, <1>1, <1>2, AppliesKeeps
<1>4. /\ clock' \in [Replica -> Stamp] /\ \A q \in Replica : clock'[q].id = q
      /\ keys' \in [Replica -> [Key -> ReplicatedValue \cup {Unknown}]]
      /\ data' \in [Replica -> [Key -> Data \cup {Nothing}]]
  BY Zenon, <1>1, <1>2, AppliesCopies DEF IInv
<1>5. used' \in [{"commands", "losses", "duplicates", "restarts"} -> Nat]
  BY DEF Typed, Deliver, Spend
<1> QED BY Zenon, <1>2, <1>3, <1>4, <1>5 DEF Typed

\* The next delta of a recovery is applied.
LEMMA ReplayKeeps ==
    ASSUME Typed, IInv, NEW r \in Replica, Replay(r)
    PROVE  Typed' /\ IInv'
<1> DEFINE delta == Head(replay[r])
<1>1. replay[r] \in Seq(Deltas) /\ replay[r] # <<>>
  BY Zenon DEF Typed, Replay
<1>2. /\ delta \in Range(replay[r]) /\ Tail(replay[r]) \in Seq(Deltas)
      /\ Range(replay[r]) = {delta} \cup Range(Tail(replay[r]))
  BY <1>1, QueueElements
<1>3. /\ Applies(r, delta) /\ UNCHANGED <<inflight, outbox, net, log, used>>
      /\ replay' = [replay EXCEPT ![r] = Tail(replay[r])]
  BY Zenon DEF Replay
<1>4. delta \in Abroad
  <2> HIDE DEF delta
  <2>1. delta \in Range(log[r])
    BY Zenon, <1>2 DEF IInv, ReplayFromLog
  <2> QED BY <2>1 DEF Abroad
<1>5. replay'[r] = Tail(replay[r]) /\ \A q \in Replica \ {r} : replay'[q] = replay[q]
  BY Zenon, <1>3 DEF Typed
<1> HIDE DEF delta
<1>6. IInv'
  <2>1. /\ \A q \in Replica : Range(replay'[q]) \subseteq Range(replay[q])
        /\ Range(replay[r]) \subseteq Range(replay'[r]) \cup {delta}
    BY Zenon, <1>2, <1>5
  <2>2. net' \subseteq net /\ UNCHANGED <<inflight, outbox, log>>
    BY Zenon, <1>3
  <2> QED BY Zenon, <1>3, <1>4, <1>5, <2>1, <2>2, AppliesKeeps
<1>7. /\ clock' \in [Replica -> Stamp] /\ \A q \in Replica : clock'[q].id = q
      /\ keys' \in [Replica -> [Key -> ReplicatedValue \cup {Unknown}]]
      /\ data' \in [Replica -> [Key -> Data \cup {Nothing}]]
  BY Zenon, <1>3, <1>4, AppliesCopies DEF IInv
<1>8. replay' \in [Replica -> Seq(Deltas)]
  BY Zenon, <1>2, <1>3 DEF Typed
<1> QED BY Zenon, <1>3, <1>6, <1>7, <1>8 DEF Typed

-----------------------------------------------------------------------------
(* Steps that move copies about. *)

\* A step that moves copies about and touches neither clocks nor keys, and leaves
\* no copy that was not there, keeps all but what concerns the logs.
LEMMA MovesKeep ==
    ASSUME Typed, IInv, UNCHANGED <<clock, keys, replay>>, Copies' \subseteq Copies,
           \A q \in Replica : Local(q)' \subseteq Local(q),
           \A q \in Replica : Range(log[q]) \subseteq Range(log'[q])
    PROVE  /\ Bounded' /\ ClockAhead' /\ ReplayFromLog'
           /\ LogKeepsStamps => NoneAhead' /\ StampsUnique'
<1>1. Bounded /\ ClockAhead /\ ReplayFromLog /\ (LogKeepsStamps => NoneAhead /\ StampsUnique)
  BY Zenon DEF IInv, Stamped
<1>2. Bounded' /\ (StampsUnique => StampsUnique') /\ \A c \in Copies' : Drawn(c, Copies)
  BY Zenon, <1>1, DrawnKeeps
<1>3. ASSUME LogKeepsStamps PROVE NoneAhead'
  <2>1. \A q \in Replica, t \in Nat : Passed(q, t) => Passed(q, t)'
    BY Zenon DEF Passed
  <2> QED BY Zenon, <1>1, <1>2, <1>3, <2>1, DrawnNoneAhead
<1>4. ClockAhead'
  BY Zenon, <1>1 DEF ClockAhead
<1>5. ReplayFromLog'
  BY Zenon, <1>1 DEF ReplayFromLog
<1> QED BY Zenon, <1>1, <1>2, <1>3, <1>4, <1>5

\* The log has answered a connection.
LEMMA WalAnswersKeeps ==
    ASSUME Typed, IInv, NEW r \in Replica, NEW i \in DOMAIN inflight[r],
           WalAnswers(r, i)
    PROVE  Typed' /\ IInv'
<1> DEFINE h == inflight[r][i]
<1>1. inflight[r] \in Seq(Held) /\ log[r] \in Seq(Deltas) /\ h \in Range(inflight[r]) /\ h \in Held
  BY QueueElements DEF Typed
<1>2. h.delta \in Local(r) /\ h.delta \in Deltas
  BY Zenon, <1>1 DEF Local, Held
<1>3. /\ inflight' = [inflight EXCEPT ![r] = [inflight[r] EXCEPT ![i] = [h EXCEPT !.waits = FALSE]]]
      /\ UNCHANGED <<clock, keys, data, outbox, net, replay, used>>
      /\ \/ log' = IF MaxRestarts = 0 THEN log ELSE [log EXCEPT ![r] = Append(log[r], h.delta)]
         \/ WalFails /\ log' = log
  BY Zenon DEF WalAnswers
<1> DEFINE g == [h EXCEPT !.waits = FALSE]
<1>4. g \in Held /\ g.delta = h.delta /\ ~g.waits
  BY Zenon, <1>1 DEF Held
<1>5. /\ inflight'[r] \in Seq(Held) /\ \A q \in Replica \ {r} : inflight'[q] = inflight[q]
      /\ \A f \in Range(inflight'[r]) : f \in Range(inflight[r]) \/ f = g
  <2> HIDE DEF g
  <2>1. inflight'[r] = [inflight[r] EXCEPT ![i] = g]
    BY Zenon, <1>3 DEF g, Typed
  <2>2. [inflight[r] EXCEPT ![i] = g] \in Seq(Held)
    BY <1>1, <1>4
  <2> QED BY Zenon, <1>3, <2>1, <2>2 DEF Typed, Range
<1>6. /\ Append(log[r], h.delta) \in Seq(Deltas)
      /\ Range(Append(log[r], h.delta)) = Range(log[r]) \cup {h.delta}
  BY <1>1, <1>2, QueueElements
<1>7. /\ log' \in [Replica -> Seq(Deltas)]
      /\ \A q \in Replica : Range(log[q]) \subseteq Range(log'[q])
      /\ \A q \in Replica \ {r} : log'[q] = log[q]
      /\ Range(log'[r]) \subseteq Range(log[r]) \cup {h.delta}
  BY <1>3, <1>6 DEF Typed
<1>8. LogKeepsStamps /\ MaxRestarts > 0 => h.delta \in Range(log'[r])
  <2> SUFFICES ASSUME LogKeepsStamps, MaxRestarts > 0 PROVE h.delta \in Range(log'[r])
    BY Zenon
  <2>1. MaxRestarts # 0
    BY BoundsAssumption
  <2>2. ~WalFails
    BY Zenon, <2>1 DEF LogKeepsStamps
  <2>3. log' = [log EXCEPT ![r] = Append(log[r], h.delta)]
    BY Zenon, <1>3, <2>1, <2>2
  <2>4. log'[r] = Append(log[r], h.delta)
    BY Zenon, <2>3 DEF Typed
  <2> QED BY Zenon, <1>6, <2>4
<1>9. Typed'
  <2>1. inflight' \in [Replica -> Seq(Held)]
    BY Zenon, <1>3, <1>5 DEF Typed
  <2> QED BY Zenon, <1>3, <1>7, <2>1 DEF Typed
<1> HIDE DEF g, h
<1>10. \A q \in Replica : Local(q)' \subseteq Local(q)
  <2>1. Local(r)' \subseteq Local(r)
    BY Zenon, <1>2, <1>3, <1>4, <1>5 DEF Local
  <2>2. \A q \in Replica \ {r} : Local(q)' = Local(q)
    BY Zenon, <1>3, <1>5 DEF Local
  <2> QED BY Zenon, <2>1, <2>2
<1>11. Abroad' \subseteq Abroad \cup {h.delta}
  BY <1>3, <1>7 DEF Abroad
<1>12. /\ Bounded' /\ ClockAhead' /\ ReplayFromLog'
       /\ LogKeepsStamps => NoneAhead' /\ StampsUnique'
  <2>1. Copies' \subseteq Copies
    BY <1>2, <1>10, <1>11 DEF Copies
  <2> QED BY Zenon, <1>3, <1>7, <1>10, <2>1, MovesKeep
<1>13. ASSUME LogKeepsStamps, MaxRestarts > 0 PROVE NoneAheadOfLog'
  <2> SUFFICES ASSUME NEW q \in Replica, NEW c \in Outside(q)', NEW x \in Registers(c.value.crdt),
                      x[2].stamp.id = q
               PROVE  Logged(q, x[2].stamp.time)'
    BY Zenon DEF NoneAheadOfLog
  <2>1. \A t : Logged(q, t) => Logged(q, t)'
    BY Zenon, <1>7 DEF Logged
  <2>2. CASE c \in Outside(q)
    BY Zenon, <1>13, <2>1, <2>2 DEF IInv, Stamped, NoneAheadOfLog
  <2>3. CASE c \notin Outside(q)
    <3>1. c = h.delta /\ q = r
      BY <1>2, <1>10, <1>11, <2>3 DEF Outside
    <3>2. c \in Copies
      BY Zenon, <1>2, <3>1 DEF Copies
    <3>3. x[2].stamp.time <= c.value.stamp.time
      BY Zenon, <3>2 DEF IInv, Bounded
    <3> QED BY Zenon, <1>8, <1>13, <3>1, <3>3 DEF Logged
  <2> QED BY Zenon, <2>2, <2>3
<1>14. ASSUME LogKeepsStamps, MaxRestarts > 0 PROVE AnsweredLogged'
  <2> SUFFICES ASSUME NEW q \in Replica, NEW f \in Range(inflight'[q]), ~f.waits
               PROVE  f.delta \in Range(log'[q])
    BY Zenon DEF AnsweredLogged
  <2>1. CASE f \in Range(inflight[q])
    BY Zenon, <1>7, <1>14, <2>1 DEF IInv, Stamped, AnsweredLogged
  <2>2. CASE q = r /\ f = g
    BY Zenon, <1>4, <1>8, <1>14, <2>2
  <2> QED BY <1>5, <2>1, <2>2
<1> QED BY Zenon, <1>9, <1>12, <1>13, <1>14 DEF IInv, Stamped

\* A delta put in a full queue pushes the oldest out.
LEMMA EnqueueElements ==
    ASSUME NEW S, NEW q \in Seq(S), NEW d \in S, Len(q) <= MaxOutbound
    PROVE  /\ Enqueue(q, d) \in Seq(S) /\ Len(Enqueue(q, d)) <= MaxOutbound
           /\ Range(Enqueue(q, d)) \subseteq Range(q) \cup {d}
<1> DEFINE full == Append(q, d)
           m == Larger(1, Len(full) - MaxOutbound + 1)
<1>1. full \in Seq(S) /\ Len(full) = Len(q) + 1 /\ Range(full) = Range(q) \cup {d}
  BY QueueElements
<1>2. MaxOutbound \in Nat \ {0} /\ Len(q) \in Nat
  BY BoundsAssumption
<1>3. m \in 1 .. Len(full) + 1 /\ Len(full) \in 0 .. Len(full) /\ Len(full) - m + 1 <= MaxOutbound
      /\ Len(full) - m + 1 \in Nat
  BY <1>1, <1>2 DEF Larger
<1> HIDE DEF full, m
<1>4. /\ SubSeq(full, m, Len(full)) \in Seq(S)
      /\ Range(SubSeq(full, m, Len(full))) \subseteq Range(full)
  BY Zenon, <1>1, <1>3, QueueElements
<1>5. Len(SubSeq(full, m, Len(full))) = Len(full) - m + 1
  BY <1>1, <1>3
<1>6. Enqueue(q, d) = SubSeq(full, m, Len(full))
  BY Zenon DEF Enqueue, full, m
<1> QED BY Zenon, <1>1, <1>3, <1>4, <1>5, <1>6

\* A connection's delta joins the gossip queue.
LEMMA QueueDeltaKeeps ==
    ASSUME Typed, IInv, NEW r \in Replica, NEW i \in DOMAIN inflight[r], QueueDelta(r, i)
    PROVE  Typed' /\ IInv'
<1> DEFINE h == inflight[r][i]
<1>1. inflight[r] \in Seq(Held) /\ h \in Range(inflight[r]) /\ h \in Held /\ ~h.waits
      /\ RemoveAt(inflight[r], i) \in Seq(Held)
      /\ Range(RemoveAt(inflight[r], i)) \subseteq Range(inflight[r])
  BY QueueElements DEF Typed, QueueDelta
<1>2. h.delta \in Local(r) /\ h.delta \in Deltas
  BY Zenon, <1>1 DEF Local, Held
<1>3. /\ inflight' = [inflight EXCEPT ![r] = RemoveAt(inflight[r], i)]
      /\ outbox' = [outbox EXCEPT ![r] = Enqueue(outbox[r], h.delta)]
      /\ log' = IF MaxRestarts = 0 \/ WalAlways THEN log
                ELSE [log EXCEPT ![r] = Append(log[r], h.delta)]
      /\ UNCHANGED <<clock, keys, data, net, replay, used>>
  BY Zenon DEF QueueDelta
<1> HIDE DEF h
<1>4. /\ Enqueue(outbox[r], h.delta) \in Seq(Deltas)
      /\ Len(Enqueue(outbox[r], h.delta)) <= MaxOutbound
      /\ Range(Enqueue(outbox[r], h.delta)) \subseteq Range(outbox[r]) \cup {h.delta}
  BY <1>2, EnqueueElements DEF Typed
<1>5. /\ Append(log[r], h.delta) \in Seq(Deltas)
      /\ Range(Append(log[r], h.delta)) = Range(log[r]) \cup {h.delta}
  BY <1>2, QueueElements DEF Typed
<1>6. /\ log' \in [Replica -> Seq(Deltas)]
      /\ \A q \in Replica : Range(log[q]) \subseteq Range(log'[q])
      /\ \A q \in Replica : Range(log'[q]) \subseteq Range(log[q]) \cup {h.delta}
  BY Zenon, <1>3, <1>5 DEF Typed
<1>7. /\ outbox' \in [Replica -> Seq(Deltas)]
      /\ \A q \in Replica : Len(outbox'[q]) <= MaxOutbound
      /\ \A q \in Replica : Range(outbox'[q]) \subseteq Range(outbox[q]) \cup {h.delta}
  BY Zenon, <1>3, <1>4 DEF Typed
<1>8. /\ inflight' \in [Replica -> Seq(Held)]
      /\ \A q \in Replica : Range(inflight'[q]) \subseteq Range(inflight[q])
  BY Zenon, <1>1, <1>3 DEF Typed
<1>9. Typed'
  BY Zenon, <1>3, <1>6, <1>7, <1>8 DEF Typed
<1>10. \A q \in Replica : Local(q)' \subseteq Local(q)
  BY Zenon, <1>3, <1>8 DEF Local
<1>11. Abroad' \subseteq Abroad \cup {h.delta}
  <2>1. \A q \in Replica : Range(outbox'[q]) \cup Range(log'[q])
                              \subseteq Range(outbox[q]) \cup Range(log[q]) \cup {h.delta}
    BY Zenon, <1>6, <1>7
  <2>2. net' = net
    BY Zenon, <1>3
  <2> QED BY <2>1, <2>2 DEF Abroad
<1>12. /\ Bounded' /\ ClockAhead' /\ ReplayFromLog'
       /\ LogKeepsStamps => NoneAhead' /\ StampsUnique'
  <2>1. Copies' \subseteq Copies
    BY <1>2, <1>10, <1>11 DEF Copies
  <2> QED BY Zenon, <1>3, <1>6, <1>10, <2>1, MovesKeep
<1>13. ASSUME LogKeepsStamps, MaxRestarts > 0 PROVE NoneAheadOfLog' /\ AnsweredLogged'
  <2>1. NoneAheadOfLog /\ AnsweredLogged
    BY Zenon, <1>13 DEF IInv, Stamped
  <2>2. h.delta \in Abroad
    <3>1. h.delta \in Range(log[r])
      BY Zenon, <1>1, <2>1 DEF AnsweredLogged
    <3> QED BY <3>1 DEF Abroad
  <2>3. \A q \in Replica : Outside(q)' \subseteq Outside(q)
    BY <1>10, <1>11, <2>2 DEF Outside
  <2>4. \A q \in Replica : \A t : Logged(q, t) => Logged(q, t)'
    BY Zenon, <1>6 DEF Logged
  <2>5. NoneAheadOfLog'
    BY Zenon, <2>1, <2>3, <2>4 DEF NoneAheadOfLog
  <2>6. AnsweredLogged'
    BY Zenon, <1>6, <1>8, <2>1 DEF AnsweredLogged
  <2> QED BY Zenon, <2>5, <2>6
<1> QED BY Zenon, <1>9, <1>12, <1>13 DEF IInv, Stamped

\* A gossip round sends what the queue held.
LEMMA GossipRoundKeeps ==
    ASSUME Typed, IInv, NEW r \in Replica, GossipRound(r)
    PROVE  Typed' /\ IInv'
<1> DEFINE sent == [to : Replica \ {r}, delta : Range(outbox[r])]
<1>1. /\ outbox' = [outbox EXCEPT ![r] = <<>>] /\ net' \subseteq net \cup sent
      /\ UNCHANGED <<clock, keys, data, inflight, log, replay>>
  BY Zenon DEF GossipRound
<1>2. used' \in [{"commands", "losses", "duplicates", "restarts"} -> Nat]
  BY DEF GossipRound, Typed, Spend
<1>3. Range(outbox[r]) \subseteq Deltas
  BY Zenon, QueueElements DEF Typed
<1>4. outbox' \in [Replica -> Seq(Deltas)]
      /\ \A q \in Replica :
             Len(outbox'[q]) <= MaxOutbound /\ Range(outbox'[q]) \subseteq Range(outbox[q])
  BY <1>1, BoundsAssumption DEF Typed, Range
<1>5. Typed'
  <2>1. net' \subseteq [to : Replica, delta : Deltas]
    BY Zenon, <1>1, <1>3 DEF Typed
  <2> QED BY Zenon, <1>1, <1>2, <1>4, <2>1 DEF Typed
<1>6. \A q \in Replica : Local(q)' = Local(q)
  BY Zenon, <1>1 DEF Local
<1>7. Abroad' \subseteq Abroad
  <2>1. \A p \in net' : p \in net \/ p.delta \in Range(outbox[r])
    BY Zenon, <1>1
  <2> QED BY <1>1, <1>4, <2>1 DEF Abroad
<1>8. /\ Bounded' /\ ClockAhead' /\ ReplayFromLog'
      /\ LogKeepsStamps => NoneAhead' /\ StampsUnique'
  <2>1. Copies' \subseteq Copies
    BY Zenon, <1>6, <1>7 DEF Copies
  <2> QED BY Zenon, <1>1, <1>6, <2>1, MovesKeep
<1>9. ASSUME LogKeepsStamps, MaxRestarts > 0 PROVE NoneAheadOfLog' /\ AnsweredLogged'
  <2>1. NoneAheadOfLog /\ AnsweredLogged
    BY Zenon, <1>9 DEF IInv, Stamped
  <2>2. \A q \in Replica : Outside(q)' \subseteq Outside(q)
    BY Zenon, <1>6, <1>7 DEF Outside
  <2>3. \A q \in Replica : \A t : Logged(q, t) => Logged(q, t)'
    BY Zenon, <1>1 DEF Logged
  <2>4. NoneAheadOfLog'
    BY Zenon, <2>1, <2>2, <2>3 DEF NoneAheadOfLog
  <2>5. AnsweredLogged'
    BY Zenon, <1>1, <2>1 DEF AnsweredLogged
  <2> QED BY Zenon, <2>4, <2>5
<1> QED BY Zenon, <1>5, <1>8, <1>9 DEF IInv, Stamped

\* A restart loses what is in memory; what others have of it is in the log.
LEMMA RestartKeeps ==
    ASSUME Typed, IInv, NEW r \in Replica, Restart(r)
    PROVE  Typed' /\ IInv'
<1>1. PICK n \in 0 .. Len(log[r]) :
        /\ WalAlways => n = Len(log[r])
        /\ log' = [log EXCEPT ![r] = SubSeq(log[r], 1, n)]
        /\ replay' = [replay EXCEPT ![r] = SubSeq(log[r], 1, n)]
  <2>1. log[r] \in Seq(Deltas)
    BY Zenon DEF Typed
  <2>2. PICK n \in (IF WalAlways THEN {Len(log[r])} ELSE 0 .. Len(log[r])) :
          /\ log' = [log EXCEPT ![r] = SubSeq(log[r], 1, n)]
          /\ replay' = [replay EXCEPT ![r] = SubSeq(log[r], 1, n)]
    BY Zenon DEF Restart
  <2>3. n \in 0 .. Len(log[r]) /\ (WalAlways => n = Len(log[r]))
    BY <2>1
  <2> QED BY Zenon, <2>2, <2>3
<1>2. /\ Spend("restarts", MaxRestarts)
      /\ clock' = [clock EXCEPT ![r] = NewStamp(r)]
      /\ keys' = [keys EXCEPT ![r] = [k \in Key |-> Unknown]]
      /\ data' = [data EXCEPT ![r] = [k \in Key |-> Nothing]]
      /\ inflight' = [inflight EXCEPT ![r] = <<>>]
      /\ outbox' = [outbox EXCEPT ![r] = <<>>]
      /\ net' \subseteq net
  BY Zenon DEF Restart
<1>3. log[r] \in Seq(Deltas) /\ Len(log[r]) \in Nat
      /\ SubSeq(log[r], 1, n) \in Seq(Deltas) /\ Range(SubSeq(log[r], 1, n)) \subseteq Range(log[r])
      /\ (n = Len(log[r]) => SubSeq(log[r], 1, n) = log[r])
  <2>1. log[r] \in Seq(Deltas)
    BY Zenon DEF Typed
  <2>2. SubSeq(log[r], 1, n) \in Seq(Deltas) /\ Range(SubSeq(log[r], 1, n)) \subseteq Range(log[r])
    BY <2>1, QueueElements
  <2> QED BY <2>1, <2>2
<1>4. /\ log' \in [Replica -> Seq(Deltas)] /\ replay' \in [Replica -> Seq(Deltas)]
      /\ log'[r] = SubSeq(log[r], 1, n) /\ replay'[r] = SubSeq(log[r], 1, n)
      /\ \A q \in Replica \ {r} : log'[q] = log[q] /\ replay'[q] = replay[q]
  BY Zenon, <1>1, <1>3 DEF Typed
<1>5. NewStamp(r) \in Stamp /\ NewStamp(r).id = r
  BY Zenon DEF NewStamp, Stamp
<1>6. /\ clock' \in [Replica -> Stamp] /\ \A q \in Replica : clock'[q].id = q
      /\ \A q \in Replica \ {r} : clock'[q] = clock[q]
  BY Zenon, <1>2, <1>5 DEF Typed
<1>7. /\ inflight' \in [Replica -> Seq(Held)] /\ Range(inflight'[r]) = {}
      /\ \A q \in Replica \ {r} : inflight'[q] = inflight[q]
  BY <1>2 DEF Typed, Range
<1>8. /\ outbox' \in [Replica -> Seq(Deltas)]
      /\ \A q \in Replica :
             Len(outbox'[q]) <= MaxOutbound /\ Range(outbox'[q]) \subseteq Range(outbox[q])
  BY <1>2, BoundsAssumption DEF Typed, Range
<1>9. used' \in [{"commands", "losses", "duplicates", "restarts"} -> Nat] /\ MaxRestarts > 0
  BY <1>2, BoundsAssumption DEF Typed, Spend
<1>10. /\ keys' \in [Replica -> [Key -> ReplicatedValue \cup {Unknown}]]
       /\ \A k \in Key : keys'[r][k] = Unknown
       /\ \A q \in Replica \ {r} : keys'[q] = keys[q]
  BY Zenon, <1>2 DEF Typed
<1>11. Typed'
  <2>1. data' \in [Replica -> [Key -> Data \cup {Nothing}]]
    BY Zenon, <1>2 DEF Typed
  <2> QED BY Zenon, <1>2, <1>4, <1>6, <1>7, <1>8, <1>9, <1>10, <2>1 DEF Typed
<1>12. Local(r)' = {} /\ \A q \in Replica \ {r} : Local(q)' = Local(q)
  BY <1>7, <1>10 DEF Local
<1>13. Abroad' \subseteq Abroad
  <2>1. \A q \in Replica : Range(log'[q]) \subseteq Range(log[q])
    BY Zenon, <1>3, <1>4
  <2>2. \A q \in Replica :
            Range(outbox'[q]) \cup Range(log'[q]) \subseteq Range(outbox[q]) \cup Range(log[q])
    BY Zenon, <1>8, <2>1
  <2> QED BY <1>2, <2>2 DEF Abroad
<1>14. Copies' \subseteq Outside(r) /\ Copies' \subseteq Copies
  BY Zenon, <1>12, <1>13 DEF Copies, Outside
<1>15. Bounded' /\ (StampsUnique => StampsUnique') /\ \A c \in Copies' : Drawn(c, Copies)
  BY Zenon, <1>14, DrawnKeeps DEF IInv
<1>16. ClockAhead'
  BY Zenon, <1>6, <1>12 DEF IInv, ClockAhead
<1>17. ReplayFromLog'
  BY Zenon, <1>4 DEF IInv, ReplayFromLog
<1>18. ASSUME LogKeepsStamps PROVE Stamped'
  <2>1. WalAlways
    BY <1>9, <1>18, BoundsAssumption DEF LogKeepsStamps
  <2>2. log'[r] = log[r] /\ replay'[r] = log[r]
    BY Zenon, <1>1, <1>3, <1>4, <2>1
  <2>3. NoneAhead /\ NoneAheadOfLog /\ AnsweredLogged /\ StampsUnique
    BY Zenon, <1>9, <1>18 DEF IInv, Stamped
  <2>4. NoneAhead'
    <3> SUFFICES ASSUME NEW c \in Copies', NEW x \in Registers(c.value.crdt)
                 PROVE  Passed(x[2].stamp.id, x[2].stamp.time)'
      BY Zenon DEF NoneAhead
    <3>1. c \in Outside(r) /\ c \in Copies
      BY Zenon, <1>14
    <3>2. x[2].stamp.id \in Replica
      BY Zenon, <3>1, CopiesTyped
    <3>3. CASE x[2].stamp.id = r
      <4>1. Logged(r, x[2].stamp.time)
        BY Zenon, <2>3, <3>1, <3>3 DEF NoneAheadOfLog
      <4> QED BY Zenon, <2>2, <3>3, <4>1 DEF Logged, Passed
    <3>4. CASE x[2].stamp.id # r
      <4>1. Passed(x[2].stamp.id, x[2].stamp.time)
        BY Zenon, <2>3, <3>1 DEF NoneAhead
      <4> QED BY Zenon, <1>4, <1>6, <3>2, <3>4, <4>1 DEF Passed
    <3> QED BY Zenon, <3>3, <3>4
  <2>5. NoneAheadOfLog'
    <3>1. \A q \in Replica : Outside(q)' \subseteq Outside(q)
      BY Zenon, <1>12, <1>13 DEF Outside
    <3>2. \A q \in Replica : \A t : Logged(q, t) => Logged(q, t)'
      BY Zenon, <1>4, <2>2 DEF Logged
    <3> QED BY Zenon, <2>3, <3>1, <3>2 DEF NoneAheadOfLog
  <2>6. AnsweredLogged'
    <3>1. \A q \in Replica : log'[q] = log[q]
      BY Zenon, <1>4, <2>2
    <3> QED BY Zenon, <1>7, <2>3, <3>1 DEF AnsweredLogged
  <2> QED BY Zenon, <1>15, <2>3, <2>4, <2>5, <2>6 DEF Stamped
<1> QED BY Zenon, <1>11, <1>15, <1>16, <1>17, <1>18 DEF IInv

\* The executor forgets keys that expired.
LEMMA EvictExpiredKeeps ==
    ASSUME Typed, IInv, NEW r \in Replica, NEW ks, EvictExpired(r, ks)
    PROVE  Typed' /\ IInv'
<1>1. UNCHANGED <<clock, keys, inflight, outbox, net, log, replay, used>>
  BY Zenon DEF EvictExpired
<1>2. data' \in [Replica -> [Key -> Data \cup {Nothing}]]
  BY DEF EvictExpired, Typed
<1>3. Typed'
  BY Zenon, <1>1, <1>2 DEF Typed
<1>4. IInv'
  <2>1. (\A q : Local(q)' = Local(q)) /\ Abroad' = Abroad
    BY Zenon, <1>1 DEF Local, Abroad
  <2>2. Copies' = Copies /\ \A q : Outside(q)' = Outside(q)
    BY Zenon, <2>1 DEF Copies, Outside
  <2>3. \A q, t : (Passed(q, t)' <=> Passed(q, t)) /\ (Logged(q, t)' <=> Logged(q, t))
    BY Zenon, <1>1 DEF Passed, Logged
  <2>4. Bounded' /\ ClockAhead' /\ ReplayFromLog'
    BY Zenon, <1>1, <2>1, <2>2 DEF IInv, Bounded, ClockAhead, ReplayFromLog
  <2>5. ASSUME Stamped PROVE Stamped'
    BY Zenon, <1>1, <2>2, <2>3, <2>5
       DEF Stamped, NoneAhead, NoneAheadOfLog, AnsweredLogged, StampsUnique
  <2> QED BY Zenon, <2>4, <2>5 DEF IInv
<1> QED BY Zenon, <1>3, <1>4

=============================================================================
