---------------------------- MODULE RecordProofs ----------------------------
(***************************************************************************)
(* The values replicas exchange, and what one command does to its replica. *)
(*                                                                         *)
(* The merge of registers and of hashes is a join: it is idempotent and    *)
(* associative whatever the registers are, and it is commutative for       *)
(* registers in which a stamp names one write. The merge of whole values   *)
(* does not have these properties: its stamp keeps the first argument's    *)
(* replica id, and its expiry is a maximum over values that are            *)
(* overwritten.                                                            *)
(*                                                                         *)
(* Then comes the inductive invariant of Replication, with the clock a     *)
(* command leaves, the values it records, and the data its executor holds  *)
(* afterwards. RecordDelete counts elements of a set; what it records is   *)
(* the subject of ReplicationProofs, and DeletesGood stands for it until   *)
(* then.                                                                   *)
(***************************************************************************)
EXTENDS Replication, TLAPS

\* Two registers in which a stamp names one write.
Consistent(a, b) == a.stamp = b.stamp => a = b

\* Two hashes whose common fields have consistent registers.
ConsistentFields(fs, gs) ==
    \A f \in DOMAIN fs \cap DOMAIN gs : Consistent(fs[f], gs[f])

Hashes == UNION {[F -> Register] : F \in SUBSET Field}

-----------------------------------------------------------------------------
(* The order of timestamps. *)

\* A LamportClock is its time and its replica id, two numbers.
LEMMA StampFields ==
    /\ \A s \in Stamp : s.time \in Nat /\ s.id \in Nat
    /\ \A s, t \in Stamp : s.time = t.time /\ s.id = t.id => s = t
<1>1. \A s \in Stamp : s.time \in Nat /\ s.id \in Nat
  BY Zenon, ReplicaAssumption DEF Stamp
<1>2. \A s \in Stamp : s = [time |-> s.time, id |-> s.id]
  BY DEF Stamp
<1> QED BY Zenon, <1>1, <1>2

\* Ord for LamportClock is a strict order: no stamp is later than itself or
\* than one that is later than it.
LEMMA LaterAsymmetric ==
    \A s, t \in Stamp : ~(Later(s, t) /\ Later(t, s))
BY StampFields DEF Later

\* Ord for LamportClock is transitive.
LEMMA LaterTransitive ==
    \A s, t, u \in Stamp : Later(s, t) /\ Later(t, u) => Later(s, u)
BY StampFields DEF Later

\* Ord for LamportClock is total: two different stamps are ordered.
LEMMA LaterTotal ==
    \A s, t \in Stamp : s = t \/ Later(s, t) \/ Later(t, s)
BY StampFields DEF Later

\* LamportClock::update puts a clock after every stamp it was shown.
LEMMA UpdateLater ==
    \A c, s \in Stamp : Update(c, s) \in Stamp /\ Later(Update(c, s), s)
                            /\ Later(Update(c, s), c)
BY ReplicaAssumption DEF Later, Stamp, Update, Larger

-----------------------------------------------------------------------------
(* The merge of registers. *)

\* LwwRegister::merge returns one of its arguments.
LEMMA MergeRegisterChooses ==
    \A a, b : MergeRegister(a, b) \in {a, b}
BY Zenon DEF MergeRegister

\* LwwRegister::merge of a register with itself changes nothing.
THEOREM MergeRegisterIdempotent ==
    \A a : MergeRegister(a, a) = a
BY Zenon DEF MergeRegister

\* LwwRegister::merge gives the same register in both orders, provided a stamp
\* names one write.
THEOREM MergeRegisterCommutative ==
    \A a, b \in Register :
      Consistent(a, b) => MergeRegister(a, b) = MergeRegister(b, a)
<1> SUFFICES ASSUME NEW a \in Register, NEW b \in Register, Consistent(a, b)
             PROVE  MergeRegister(a, b) = MergeRegister(b, a)
  BY Zenon
<1>1. a.stamp \in Stamp /\ b.stamp \in Stamp
  BY Zenon DEF Register
<1>2. CASE a.stamp = b.stamp
  BY Zenon, <1>2 DEF Consistent
<1>3. CASE a.stamp # b.stamp
  BY Zenon, <1>1, <1>3, LaterAsymmetric, LaterTotal DEF MergeRegister
<1> QED BY Zenon, <1>2, <1>3

\* LwwRegister::merge of three registers does not depend on the grouping, even
\* when stamps collide.
THEOREM MergeRegisterAssociative ==
    \A a, b, c \in Register :
      MergeRegister(MergeRegister(a, b), c) = MergeRegister(a, MergeRegister(b, c))
<1> SUFFICES ASSUME NEW a \in Register, NEW b \in Register, NEW c \in Register
             PROVE  MergeRegister(MergeRegister(a, b), c)
                      = MergeRegister(a, MergeRegister(b, c))
  BY Zenon
<1>1. a.stamp \in Stamp /\ b.stamp \in Stamp /\ c.stamp \in Stamp
  BY Zenon DEF Register
<1>2. CASE Later(b.stamp, a.stamp)
  BY Zenon, <1>1, <1>2, LaterTransitive DEF MergeRegister
<1>3. CASE ~Later(b.stamp, a.stamp) /\ Later(c.stamp, b.stamp)
  BY Zenon, <1>3 DEF MergeRegister
<1>4. CASE ~Later(b.stamp, a.stamp) /\ ~Later(c.stamp, b.stamp)
  <2>1. ~Later(c.stamp, a.stamp)
    BY Zenon, <1>1, <1>4, LaterTotal, LaterTransitive
  <2> QED BY Zenon, <1>4, <2>1 DEF MergeRegister
<1> QED BY Zenon, <1>2, <1>3, <1>4

\* LwwRegister::merge never goes back: its result is not older than either
\* argument.
THEOREM MergeRegisterNotOlder ==
    \A a, b \in Register :
      /\ ~Later(a.stamp, MergeRegister(a, b).stamp)
      /\ ~Later(b.stamp, MergeRegister(a, b).stamp)
<1> SUFFICES ASSUME NEW a \in Register, NEW b \in Register
             PROVE  /\ ~Later(a.stamp, MergeRegister(a, b).stamp)
                    /\ ~Later(b.stamp, MergeRegister(a, b).stamp)
  BY Zenon
<1>1. a.stamp \in Stamp /\ b.stamp \in Stamp
  BY Zenon DEF Register
<1> QED BY Zenon, <1>1, LaterAsymmetric DEF MergeRegister

-----------------------------------------------------------------------------
(* The merge of hashes. *)

\* A field of a hash holds a register.
LEMMA HashFields ==
    \A fs \in Hashes : \A f \in DOMAIN fs : fs[f] \in Register
BY Zenon DEF Hashes

\* The field-by-field merge of try_merge gives a hash with both sets of fields.
LEMMA MergeFieldsType ==
    \A fs, gs \in Hashes :
      MergeFields(fs, gs) \in Hashes
        /\ DOMAIN MergeFields(fs, gs) = DOMAIN fs \cup DOMAIN gs
<1> SUFFICES ASSUME NEW fs \in Hashes, NEW gs \in Hashes
             PROVE  MergeFields(fs, gs) \in Hashes
                      /\ DOMAIN MergeFields(fs, gs) = DOMAIN fs \cup DOMAIN gs
  BY Zenon
<1>1. DOMAIN fs \cup DOMAIN gs \in SUBSET Field
  BY Zenon DEF Hashes
<1>2. ASSUME NEW f \in DOMAIN fs \cup DOMAIN gs
      PROVE  MergeFields(fs, gs)[f] \in Register
  BY Zenon, HashFields, MergeRegisterChooses DEF MergeFields
<1>3. DOMAIN MergeFields(fs, gs) = DOMAIN fs \cup DOMAIN gs
  BY Zenon DEF MergeFields
<1>4. MergeFields(fs, gs) \in [DOMAIN fs \cup DOMAIN gs -> Register]
  BY Zenon, <1>2, <1>3 DEF MergeFields
<1> QED BY Zenon, <1>1, <1>3, <1>4 DEF Hashes

\* try_merge of two hashes gives the same hash in both orders, provided a
\* stamp names one write of a field.
THEOREM MergeFieldsCommutative ==
    \A fs, gs \in Hashes :
      ConsistentFields(fs, gs) => MergeFields(fs, gs) = MergeFields(gs, fs)
<1> SUFFICES ASSUME NEW fs \in Hashes, NEW gs \in Hashes, ConsistentFields(fs, gs)
             PROVE  MergeFields(fs, gs) = MergeFields(gs, fs)
  BY Zenon
<1>1. ASSUME NEW f \in DOMAIN fs \cup DOMAIN gs
      PROVE  MergeFields(fs, gs)[f] = MergeFields(gs, fs)[f]
  <2>1. CASE f \in DOMAIN fs /\ f \in DOMAIN gs
    <3>1. MergeRegister(fs[f], gs[f]) = MergeRegister(gs[f], fs[f])
      BY Zenon, <2>1, HashFields, MergeRegisterCommutative DEF ConsistentFields
    <3> QED BY Zenon, <2>1, <3>1 DEF MergeFields
  <2>2. CASE ~(f \in DOMAIN fs /\ f \in DOMAIN gs)
    BY Zenon, <2>2 DEF MergeFields
  <2> QED BY Zenon, <2>1, <2>2
<1> QED BY Zenon, <1>1 DEF MergeFields

\* try_merge of three hashes does not depend on the grouping.
THEOREM MergeFieldsAssociative ==
    \A fs, gs, hs \in Hashes :
      MergeFields(MergeFields(fs, gs), hs) = MergeFields(fs, MergeFields(gs, hs))
<1> SUFFICES ASSUME NEW fs \in Hashes, NEW gs \in Hashes, NEW hs \in Hashes
             PROVE  MergeFields(MergeFields(fs, gs), hs)
                      = MergeFields(fs, MergeFields(gs, hs))
  BY Zenon
<1> DEFINE D == DOMAIN fs \cup DOMAIN gs \cup DOMAIN hs
           left == MergeFields(MergeFields(fs, gs), hs)
           right == MergeFields(fs, MergeFields(gs, hs))
<1>1. DOMAIN left = D /\ DOMAIN right = D
  BY Zenon DEF MergeFields
<1>2. ASSUME NEW f \in D PROVE left[f] = right[f]
  <2>1. CASE f \in DOMAIN fs /\ f \in DOMAIN gs /\ f \in DOMAIN hs
    <3>1. fs[f] \in Register /\ gs[f] \in Register /\ hs[f] \in Register
      BY Zenon, <2>1, HashFields
    <3>2. left[f] = MergeRegister(MergeRegister(fs[f], gs[f]), hs[f])
      BY Zenon, <2>1 DEF MergeFields
    <3>3. right[f] = MergeRegister(fs[f], MergeRegister(gs[f], hs[f]))
      BY Zenon, <2>1 DEF MergeFields
    <3> QED BY <3>1, <3>2, <3>3, MergeRegisterAssociative
  <2>2. CASE ~(f \in DOMAIN fs /\ f \in DOMAIN gs /\ f \in DOMAIN hs)
    BY Zenon, <2>2 DEF MergeFields
  <2> QED BY Zenon, <2>1, <2>2
<1>3. left = [f \in D |-> left[f]] /\ right = [f \in D |-> right[f]]
  BY Zenon, <1>1 DEF MergeFields
<1>4. left = right
  <2> HIDE DEF left, right, D
  <2> QED BY Zenon, <1>2, <1>3
<1> QED BY Zenon, <1>4
-----------------------------------------------------------------------------
(* Values and their registers. *)

\* A value is a hash of registers or one register.
LEMMA CrdtKinds ==
    \A c \in CrdtValue :
      \/ IsHash(c) /\ c.fields \in Hashes /\ c = Hash(c.fields)
      \/ ~IsHash(c) /\ c.reg \in Register /\ c = Lww(c.reg)
BY DEF CrdtValue, IsHash, Hashes, Hash, Lww

\* A hash of registers is a value.
LEMMA HashIsCrdt ==
    \A fs \in Hashes : Hash(fs) \in CrdtValue /\ IsHash(Hash(fs)) /\ Hash(fs).fields = fs
BY Zenon DEF CrdtValue, IsHash, Hashes, Hash

\* A register is a value.
LEMMA LwwIsCrdt ==
    \A x \in Register : Lww(x) \in CrdtValue /\ ~IsHash(Lww(x)) /\ Lww(x).reg = x
BY Zenon DEF CrdtValue, IsHash, Lww

\* The registers of a value: those of its fields, or the one it is.
LEMMA RegistersOf ==
    \A c : \A x :
      x \in Registers(c) <=>
        \/ IsHash(c) /\ \E f \in DOMAIN c.fields : x = <<f, c.fields[f]>>
        \/ ~IsHash(c) /\ x = <<NoValue, c.reg>>
BY Zenon DEF Registers

\* They have stamps, and one of them stands for each field.
LEMMA RegistersTyped ==
    \A c \in CrdtValue : \A x \in Registers(c) :
      /\ x = <<x[1], x[2]>> /\ x[2] \in Register
      /\ x[2].stamp \in Stamp /\ x[2].stamp.time \in Nat /\ x[2].stamp.id \in Replica
      /\ \A y \in Registers(c) : x[1] = y[1] => x = y
<1> SUFFICES ASSUME NEW c \in CrdtValue, NEW x \in Registers(c)
             PROVE  /\ x = <<x[1], x[2]>> /\ x[2] \in Register
                    /\ \A y \in Registers(c) : x[1] = y[1] => x = y
  BY Zenon DEF Register, Stamp
<1>1. CASE IsHash(c)
  BY <1>1, CrdtKinds, HashFields, RegistersOf
<1>2. CASE ~IsHash(c)
  BY <1>2, CrdtKinds, RegistersOf
<1> QED BY Zenon, <1>1, <1>2

\* A register written or deleted at a stamp.
LEMMA NewRegisters ==
    \A c \in Stamp :
      /\ \A v \in Value : Written(v, c) \in Register /\ Written(v, c).stamp = c
      /\ Deleted(c) \in Register /\ Deleted(c).stamp = c
BY Zenon DEF Register, Written, Deleted

\* A hash that gets a register for a field is a hash.
LEMMA HashPut ==
    \A fs \in Hashes, f \in Field, x \in Register :
      [g \in DOMAIN fs \cup {f} |-> IF g = f THEN x ELSE fs[g]] \in Hashes
<1> SUFFICES ASSUME NEW fs \in Hashes, NEW f \in Field, NEW x \in Register
             PROVE  [g \in DOMAIN fs \cup {f} |-> IF g = f THEN x ELSE fs[g]] \in Hashes
  BY Zenon
<1>1. DOMAIN fs \in SUBSET Field
  BY Zenon DEF Hashes
<1>2. DOMAIN fs \cup {f} \in SUBSET Field
  BY Zenon, <1>1
<1>3. [g \in DOMAIN fs \cup {f} |-> IF g = f THEN x ELSE fs[g]] \in [DOMAIN fs \cup {f} -> Register]
  BY Zenon, HashFields
<1> QED BY Zenon, <1>2, <1>3 DEF Hashes

\* The value of a key a replica has not seen yet.
LEMMA NewValue ==
    \A r \in Replica : NewReplicated(r) \in ReplicatedValue /\ ~IsHash(NewReplicated(r).crdt)
<1> SUFFICES ASSUME NEW r \in Replica
             PROVE  NewReplicated(r) \in ReplicatedValue /\ ~IsHash(NewReplicated(r).crdt)
  BY Zenon
<1>1. NewStamp(r) \in Stamp
  BY Zenon DEF NewStamp, Stamp
<1>2. NewRegister(r) \in Register
  BY Zenon, <1>1 DEF NewRegister, Register
<1> QED BY Zenon, <1>1, <1>2, LwwIsCrdt DEF NewReplicated, ReplicatedValue

-----------------------------------------------------------------------------
(* The merge of two values. *)

\* A merged value is not behind either of its arguments, and each of its
\* registers is one of theirs.
LEMMA MergeValues ==
    ASSUME NEW a \in ReplicatedValue, NEW b \in ReplicatedValue
    PROVE  /\ Merge(a, b) \in ReplicatedValue
           /\ Merge(a, b).stamp.time = Larger(a.stamp.time, b.stamp.time)
           /\ Registers(Merge(a, b).crdt) \subseteq Registers(a.crdt) \cup Registers(b.crdt)
<1> DEFINE m == MergeCrdt(a.crdt, b.crdt, a.stamp, b.stamp)
<1>1. /\ a.crdt \in CrdtValue /\ b.crdt \in CrdtValue
      /\ a.stamp \in Stamp /\ b.stamp \in Stamp
      /\ a.expiry \in Nat \cup {NoExpiry} /\ b.expiry \in Nat \cup {NoExpiry}
  BY Zenon DEF ReplicatedValue
<1>2. m \in CrdtValue /\ Registers(m) \subseteq Registers(a.crdt) \cup Registers(b.crdt)
  <2>1. CASE a.crdt.type = b.crdt.type /\ IsHash(a.crdt)
    <3> DEFINE fs == a.crdt.fields
               gs == b.crdt.fields
               hs == MergeFields(fs, gs)
    <3>1. IsHash(b.crdt) /\ fs \in Hashes /\ gs \in Hashes
      BY Zenon, <1>1, <2>1, CrdtKinds DEF IsHash
    <3>2. hs \in Hashes /\ DOMAIN hs = DOMAIN fs \cup DOMAIN gs
      BY Zenon, <3>1, MergeFieldsType
    <3>3. m = Hash(hs)
      BY Zenon, <2>1 DEF MergeCrdt, TryMerge
    <3>4. \A f \in DOMAIN hs :
              (f \in DOMAIN fs /\ hs[f] = fs[f]) \/ (f \in DOMAIN gs /\ hs[f] = gs[f])
      BY Zenon, MergeRegisterChooses DEF MergeFields
    <3>5. ASSUME NEW x \in Registers(m) PROVE x \in Registers(a.crdt) \cup Registers(b.crdt)
      <4>1. PICK f \in DOMAIN hs : x = <<f, hs[f]>>
        BY <3>2, <3>3, HashIsCrdt, RegistersOf
      <4> HIDE DEF hs, m
      <4> QED BY Zenon, <2>1, <3>1, <3>4, <4>1, RegistersOf
    <3> QED BY Zenon, <3>2, <3>3, <3>5, HashIsCrdt
  <2>2. CASE a.crdt.type = b.crdt.type /\ ~IsHash(a.crdt)
    <3> DEFINE y == MergeRegister(a.crdt.reg, b.crdt.reg)
    <3>1. ~IsHash(b.crdt) /\ a.crdt.reg \in Register /\ b.crdt.reg \in Register
      BY Zenon, <1>1, <2>2, CrdtKinds DEF IsHash
    <3>2. y \in {a.crdt.reg, b.crdt.reg}
      BY Zenon, MergeRegisterChooses
    <3>3. m = Lww(y)
      BY Zenon, <2>2 DEF MergeCrdt, TryMerge
    <3> HIDE DEF y, m
    <3>4. m \in CrdtValue /\ ~IsHash(m) /\ m.reg = y
      BY Zenon, <3>1, <3>2, <3>3, LwwIsCrdt
    <3> QED BY Zenon, <2>2, <3>1, <3>2, <3>4, RegistersOf
  <2>3. CASE a.crdt.type # b.crdt.type
    BY Zenon, <1>1, <2>3 DEF MergeCrdt
  <2> QED BY Zenon, <2>1, <2>2, <2>3
<1>3. MergeStamp(a.stamp, b.stamp) \in Stamp
      /\ MergeStamp(a.stamp, b.stamp).time = Larger(a.stamp.time, b.stamp.time)
  BY Zenon, <1>1 DEF MergeStamp, Stamp, Larger
<1>4. Larger(a.expiry, b.expiry) \in Nat \cup {NoExpiry}
  BY Zenon, <1>1 DEF Larger
<1> HIDE DEF m
<1>5. Merge(a, b) = [crdt |-> m, expiry |-> Larger(a.expiry, b.expiry),
                     stamp |-> MergeStamp(a.stamp, b.stamp)]
  BY Zenon DEF Merge, m
<1> QED BY <1>2, <1>3, <1>4, <1>5 DEF ReplicatedValue

\* What a key's value a became b: every register of b is as late as that of a.
Forward(a, b) ==
    \A x \in Registers(a.crdt), y \in Registers(b.crdt) :
      x[1] = y[1] => ~Later(x[2].stamp, y[2].stamp)

\* A stamp is not later than itself.
LEMMA NotLaterThanItself ==
    \A a \in ReplicatedValue : Forward(a, a)
<1> SUFFICES ASSUME NEW a \in ReplicatedValue, NEW x \in Registers(a.crdt),
                    NEW y \in Registers(a.crdt), x[1] = y[1]
             PROVE  ~Later(x[2].stamp, y[2].stamp)
  BY Zenon DEF Forward
<1>1. a.crdt \in CrdtValue
  BY Zenon DEF ReplicatedValue
<1>2. x = y /\ x[2].stamp \in Stamp
  BY Zenon, <1>1, RegistersTyped
<1> QED BY Zenon, <1>2, LaterAsymmetric

\* ReplicatedValue::merge keeps each register of its first argument or replaces it
\* by one that is not older.
LEMMA MergeForward ==
    ASSUME NEW a \in ReplicatedValue, NEW b \in ReplicatedValue
    PROVE  Forward(a, Merge(a, b))
<1> DEFINE m == MergeCrdt(a.crdt, b.crdt, a.stamp, b.stamp)
<1>1. a.crdt \in CrdtValue /\ b.crdt \in CrdtValue
  BY Zenon DEF ReplicatedValue
<1>2. Merge(a, b).crdt = m
  BY Zenon DEF Merge
<1> SUFFICES ASSUME NEW x \in Registers(a.crdt), NEW y \in Registers(m), x[1] = y[1]
             PROVE  ~Later(x[2].stamp, y[2].stamp)
  BY Zenon, <1>2 DEF Forward
<1>3. x[2] \in Register /\ x[2].stamp \in Stamp
  BY Zenon, <1>1, RegistersTyped
<1>4. CASE a.crdt.type = b.crdt.type /\ IsHash(a.crdt)
  <2> DEFINE fs == a.crdt.fields
             gs == b.crdt.fields
             hs == MergeFields(fs, gs)
  <2>1. fs \in Hashes /\ gs \in Hashes
    BY Zenon, <1>1, <1>4, CrdtKinds DEF IsHash
  <2>2. hs \in Hashes /\ m = Hash(hs)
    BY Zenon, <1>4, <2>1, MergeFieldsType DEF MergeCrdt, TryMerge
  <2>3. PICK f \in DOMAIN hs : y = <<f, hs[f]>>
    BY <2>2, HashIsCrdt, RegistersOf
  <2>4. f \in DOMAIN fs /\ x[2] = fs[f]
    BY <1>4, <2>3, RegistersOf
  <2>5. y[2] = IF f \in DOMAIN gs THEN MergeRegister(fs[f], gs[f]) ELSE fs[f]
    BY Zenon, <2>3, <2>4 DEF MergeFields
  <2>6. f \in DOMAIN gs => gs[f] \in Register
    BY Zenon, <2>1, HashFields
  <2> HIDE DEF fs, gs, hs, m
  <2>7. CASE f \in DOMAIN gs
    BY Zenon, <1>3, <2>4, <2>5, <2>6, <2>7, MergeRegisterNotOlder
  <2>8. CASE f \notin DOMAIN gs
    BY Zenon, <1>3, <2>4, <2>5, <2>8, LaterAsymmetric
  <2> QED BY Zenon, <2>7, <2>8
<1>5. CASE a.crdt.type = b.crdt.type /\ ~IsHash(a.crdt)
  <2> DEFINE z == MergeRegister(a.crdt.reg, b.crdt.reg)
  <2>1. a.crdt.reg \in Register /\ b.crdt.reg \in Register
    BY Zenon, <1>1, <1>5, CrdtKinds DEF IsHash
  <2>2. m = Lww(z) /\ z \in Register
    BY Zenon, <1>5, <2>1, MergeRegisterChooses DEF MergeCrdt, TryMerge
  <2> HIDE DEF m
  <2>3. x[2] = a.crdt.reg /\ y[2] = z
    BY <1>5, <2>2, LwwIsCrdt, RegistersOf
  <2> QED BY Zenon, <2>1, <2>3, MergeRegisterNotOlder
<1>6. CASE a.crdt.type # b.crdt.type
  <2>1. m = a.crdt \/ m = b.crdt
    BY Zenon, <1>6 DEF MergeCrdt
  <2> HIDE DEF m
  <2>2. CASE m = a.crdt
    <3>1. x = y
      BY Zenon, <1>1, <2>2, RegistersTyped
    <3> QED BY Zenon, <1>3, <3>1, LaterAsymmetric
  <2>3. CASE m = b.crdt
    <3>1. (IsHash(a.crdt) /\ ~IsHash(b.crdt)) \/ (~IsHash(a.crdt) /\ IsHash(b.crdt))
      BY <1>1, <1>6, CrdtKinds DEF IsHash, Hash, Lww
    <3>2. \A c \in CrdtValue : IsHash(c) => \A w \in Registers(c) : w[1] \in Field
      BY CrdtKinds, RegistersOf DEF Hashes
    <3>3. \A c : ~IsHash(c) => \A w \in Registers(c) : w[1] = NoValue
      BY RegistersOf
    <3> QED BY Zenon, <1>1, <2>3, <3>1, <3>2, <3>3, NoValueAssumption
  <2> QED BY Zenon, <2>1, <2>2, <2>3
<1> QED BY Zenon, <1>4, <1>5, <1>6

-----------------------------------------------------------------------------
(* Deltas. *)
Deltas == [key : Key, value : ReplicatedValue]

Held == [delta : Deltas, waits : BOOLEAN]

-----------------------------------------------------------------------------
(* The inductive invariant. *)

Typed ==
    /\ clock \in [Replica -> Stamp] /\ \A r \in Replica : clock[r].id = r
    /\ keys \in [Replica -> [Key -> ReplicatedValue \cup {Unknown}]]
    /\ data \in [Replica -> [Key -> Data \cup {Nothing}]]
    /\ inflight \in [Replica -> Seq(Held)]
    /\ outbox \in [Replica -> Seq(Deltas)]
    /\ \A r \in Replica : Len(outbox[r]) <= MaxOutbound
    /\ net \subseteq [to : Replica, delta : Deltas]
    /\ log \in [Replica -> Seq(Deltas)]
    /\ replay \in [Replica -> Seq(Deltas)]
    /\ used \in [{"commands", "losses", "duplicates", "restarts"} -> Nat]

\* A value's stamp is not older than its registers.
Bounded ==
    \A c \in Copies : \A x \in Registers(c.value.crdt) : x[2].stamp.time <= c.value.stamp.time

\* A replica's clock is not behind the values it holds.
ClockAhead == \A r \in Replica : \A c \in Local(r) : c.value.stamp.time <= clock[r].time

\* Time t is not ahead of r's clock, once r has recovered.
Passed(r, t) ==
    t <= clock[r].time \/ \E d \in Range(replay[r]) : t <= d.value.stamp.time

\* Time t would not be ahead of r's clock after a crash.
Logged(r, t) == \E d \in Range(log[r]) : t <= d.value.stamp.time

\* No replica will tick to a time it has given to a register that still exists.
NoneAhead ==
    \A c \in Copies : \A x \in Registers(c.value.crdt) :
      Passed(x[2].stamp.id, x[2].stamp.time)

\* Nor after a crash: what left a replica is in its log.
Outside(q) == Abroad \cup UNION {Local(r) : r \in Replica \ {q}}

NoneAheadOfLog ==
    \A q \in Replica : \A c \in Outside(q) : \A x \in Registers(c.value.crdt) :
      x[2].stamp.id = q => Logged(q, x[2].stamp.time)

\* A connection that waits for the log no more has its delta in it.
AnsweredLogged ==
    \A r \in Replica : \A h \in Range(inflight[r]) : ~h.waits => h.delta \in Range(log[r])

ReplayFromLog == \A r \in Replica : Range(replay[r]) \subseteq Range(log[r])

\* The stamps of a crashed replica are safe if its log has them.
LogKeepsStamps == MaxRestarts = 0 \/ (WalAlways /\ ~WalFails)

Stamped ==
    /\ NoneAhead
    /\ MaxRestarts > 0 => NoneAheadOfLog /\ AnsweredLogged
    /\ StampsUnique

IInv ==
    /\ Bounded
    /\ ClockAhead
    /\ ReplayFromLog
    /\ LogKeepsStamps => Stamped

-----------------------------------------------------------------------------
(* What a command records. *)

Grown(r, k, rv, c) ==
    /\ rv \in ReplicatedValue
    /\ rv.stamp.time <= c.time
    /\ \A x \in Registers(rv.crdt) :
         /\ x[2].stamp.time <= rv.stamp.time
         /\ \/ keys[r][k] # Unknown /\ x \in Registers(keys[r][k].crdt)
            \/ x[2].stamp.id = r /\ clock[r].time < x[2].stamp.time

GoodRecord(r, s) ==
    /\ s.clock \in Stamp /\ s.clock.id = r /\ clock[r].time <= s.clock.time
    /\ s.keys \in [Key -> ReplicatedValue \cup {Unknown}]
    /\ \A k \in Key : s.keys[k] = keys[r][k] \/ Grown(r, k, s.keys[k], s.clock)
    /\ \/ s.delta = NoDelta
       \/ \E k \in Key : s.keys[k] # Unknown /\ s.delta = [key |-> k, value |-> s.keys[k]]

\* What DEL records is good, for any list of keys (RecordDeleteIsGood shows it).
DeletesGood ==
    \A r \in Replica, n \in Nat \ {0} : \A ks \in [1 .. n -> Key] :
      GoodRecord(r, RecordDelete(State(r), ks))

\* A replica's clock carries its id, before and after a tick.
LEMMA Clocks ==
    ASSUME Typed
    PROVE  \A r \in Replica :
             /\ clock[r] \in Stamp /\ clock[r].id = r /\ clock[r].time \in Nat
             /\ Tick(clock[r]) \in Stamp /\ Tick(clock[r]).id = r
             /\ Tick(clock[r]).time = clock[r].time + 1
<1>1. \A s \in Stamp :
        /\ s.time \in Nat /\ Tick(s) \in Stamp
        /\ Tick(s).id = s.id /\ Tick(s).time = s.time + 1
  BY DEF Stamp, Tick
<1>2. \A r \in Replica : clock[r] \in Stamp /\ clock[r].id = r
  BY Zenon DEF Typed
<1> QED BY Zenon, <1>1, <1>2

\* A command that records nothing.
LEMMA StateIsGood ==
    ASSUME Typed, NEW r \in Replica
    PROVE  GoodRecord(r, State(r))
BY ReplicaAssumption DEF Typed, GoodRecord, State, Stamp

\* A string that is written.
LEMMA RecordWriteIsGood ==
    ASSUME Typed, NEW r \in Replica, NEW k \in Key, NEW v \in Value,
           NEW e \in Nat \cup {NoExpiry}
    PROVE  GoodRecord(r, RecordWrite(State(r), k, v, e))
<1> DEFINE c == Tick(clock[r])
           rv == [crdt |-> Lww(Written(v, c)), expiry |-> e, stamp |-> c]
<1>1. c \in Stamp /\ c.id = r /\ c.time = clock[r].time + 1 /\ clock[r].time \in Nat
  BY Zenon, Clocks
<1>2. Written(v, c) \in Register /\ Written(v, c).stamp = c
  BY Zenon, <1>1, NewRegisters
<1>3. rv \in ReplicatedValue /\ rv.crdt = Lww(Written(v, c)) /\ rv.stamp = c
  BY Zenon, <1>1, <1>2, LwwIsCrdt DEF ReplicatedValue
<1>4. \A x \in Registers(rv.crdt) : x[2] = Written(v, c)
  BY <1>2, <1>3, LwwIsCrdt, RegistersOf
<1> HIDE DEF c, rv
<1>5. Grown(r, k, rv, c)
  BY <1>1, <1>2, <1>3, <1>4 DEF Grown
<1>6. RecordWrite(State(r), k, v, e)
        = [clock |-> c, keys |-> [keys[r] EXCEPT ![k] = rv], delta |-> [key |-> k, value |-> rv]]
  BY Zenon DEF RecordWrite, Recorded, State, c, rv
<1>7. keys[r] \in [Key -> ReplicatedValue \cup {Unknown}]
  BY Zenon DEF Typed
<1>8. rv # Unknown
  BY Zenon, <1>3, UnknownAssumption
<1> QED BY <1>1, <1>3, <1>5, <1>6, <1>7, <1>8 DEF GoodRecord

\* What a replica holds of a key is typed, bounded by its stamp and that by the
\* replica's clock.
LEMMA HeldValue ==
    ASSUME Typed, Bounded, ClockAhead, NEW r \in Replica, NEW k \in Key, keys[r][k] # Unknown
    PROVE  /\ keys[r][k] \in ReplicatedValue
           /\ keys[r][k].stamp.time \in Nat
           /\ keys[r][k].stamp.time <= clock[r].time
           /\ \A x \in Registers(keys[r][k].crdt) :
                x[2].stamp.time \in Nat /\ x[2].stamp.time <= keys[r][k].stamp.time
<1> DEFINE c == [key |-> k, value |-> keys[r][k]]
<1>1. keys[r][k] \in ReplicatedValue
  BY DEF Typed
<1>2. c \in Local(r) /\ c \in Copies
  BY DEF Local, Copies
<1>3. keys[r][k].crdt \in CrdtValue /\ keys[r][k].stamp.time \in Nat
  BY Zenon, <1>1 DEF ReplicatedValue, Stamp
<1>4. c.value = keys[r][k]
  BY Zenon
<1> HIDE DEF c
<1> QED BY Zenon, <1>1, <1>2, <1>3, <1>4, RegistersTyped DEF Bounded, ClockAhead

\* A field of a hash that is written.
LEMMA RecordHashWriteIsGood ==
    ASSUME Typed, Bounded, ClockAhead,
           NEW r \in Replica, NEW k \in Key, NEW f \in Field, NEW v \in Value
    PROVE  GoodRecord(r, RecordHashWrite(State(r), k, f, v))
<1> DEFINE c == Tick(clock[r])
           old == IF keys[r][k] = Unknown THEN NewReplicated(r) ELSE keys[r][k]
           fs == IF IsHash(old.crdt) THEN old.crdt.fields ELSE NewHash.fields
           gs == [g \in DOMAIN fs \cup {f} |-> IF g = f THEN Written(v, c) ELSE fs[g]]
           rv == [old EXCEPT !.crdt = Hash(gs), !.stamp = c]
<1>1. c \in Stamp /\ c.id = r /\ c.time = clock[r].time + 1 /\ clock[r].time \in Nat
  BY Zenon, Clocks
<1>2. RecordHashWrite(State(r), k, f, v)
        = [clock |-> c, keys |-> [keys[r] EXCEPT ![k] = rv], delta |-> [key |-> k, value |-> rv]]
  BY Clocks DEF RecordHashWrite, Recorded, State, Entry
<1> HIDE DEF c
<1>3. Written(v, c) \in Register /\ Written(v, c).stamp = c
  BY Zenon, <1>1, NewRegisters
<1>4. old \in ReplicatedValue /\ (IsHash(old.crdt) => keys[r][k] # Unknown)
  BY NewValue DEF Typed
<1>5. IsHash(old.crdt) => old = keys[r][k]
  BY Zenon, <1>4
<1> HIDE DEF old
<1>6. fs \in Hashes
  <2>1. NewHash.fields \in Hashes
    <3>1. NewHash.fields = [g \in {} |-> NoValue]
      BY Zenon DEF NewHash, Hash
    <3>2. [g \in {} |-> NoValue] \in [{} -> Register] /\ {} \in SUBSET Field
      BY Zenon
    <3> QED BY Zenon, <3>1, <3>2 DEF Hashes
  <2> QED BY Zenon, <1>4, <2>1, CrdtKinds DEF ReplicatedValue
<1>7. DOMAIN fs # {} => IsHash(old.crdt) /\ fs = old.crdt.fields
  BY Zenon DEF NewHash, Hash
<1> HIDE DEF fs
<1>8. gs \in Hashes /\ DOMAIN gs = DOMAIN fs \cup {f}
      /\ \A g \in DOMAIN gs : gs[g] = IF g = f THEN Written(v, c) ELSE fs[g]
  BY Zenon, <1>3, <1>6, HashPut
<1> HIDE DEF gs
<1>9. rv \in ReplicatedValue /\ rv.crdt = Hash(gs) /\ rv.stamp = c
  <2>1. Hash(gs) \in CrdtValue
    BY Zenon, <1>8, HashIsCrdt
  <2> QED BY Zenon, <1>1, <1>4, <2>1 DEF ReplicatedValue
<1>10. ASSUME NEW x \in Registers(Hash(gs))
       PROVE  /\ x[2].stamp.time <= c.time
              /\ \/ keys[r][k] # Unknown /\ x \in Registers(keys[r][k].crdt)
                 \/ x[2].stamp.id = r /\ clock[r].time < x[2].stamp.time
  <2>1. PICK g \in DOMAIN gs : x = <<g, gs[g]>>
    BY <1>8, HashIsCrdt, RegistersOf
  <2>2. CASE g = f
    BY <1>1, <1>3, <1>8, <2>1, <2>2
  <2>3. CASE g # f
    <3>1. g \in DOMAIN fs /\ x = <<g, fs[g]>>
      BY Zenon, <1>8, <2>1, <2>3
    <3>2. x \in Registers(keys[r][k].crdt) /\ keys[r][k] # Unknown
      BY Zenon, <1>4, <1>5, <1>7, <3>1, RegistersOf
    <3> QED BY <1>1, <3>2, HeldValue
  <2> QED BY Zenon, <2>2, <2>3
<1> HIDE DEF rv
<1>11. Grown(r, k, rv, c)
  BY <1>1, <1>9, <1>10 DEF Grown
<1>12. keys[r] \in [Key -> ReplicatedValue \cup {Unknown}]
  BY Zenon DEF Typed
<1>13. rv # Unknown
  BY Zenon, <1>9, UnknownAssumption
<1> QED BY <1>1, <1>2, <1>9, <1>11, <1>12, <1>13 DEF GoodRecord

\* A field of a hash that is deleted.
LEMMA RecordHashDeleteIsGood ==
    ASSUME Typed, Bounded, ClockAhead, NEW r \in Replica, NEW k \in Key, NEW f \in Field
    PROVE  GoodRecord(r, RecordHashDelete(State(r), k, f))
<1> DEFINE old == keys[r][k]
           fs == old.crdt.fields
           c == IF f \in DOMAIN fs THEN Tick(clock[r]) ELSE clock[r]
           gs == IF f \in DOMAIN fs THEN [fs EXCEPT ![f] = Deleted(c)] ELSE fs
           rv == [old EXCEPT !.crdt = Hash(gs), !.stamp = c]
<1>1. CASE old = Unknown \/ ~IsHash(old.crdt)
  BY Zenon, <1>1, StateIsGood DEF RecordHashDelete, State
<1>2. CASE old # Unknown /\ IsHash(old.crdt)
  <2>1. RecordHashDelete(State(r), k, f)
          = [clock |-> c, keys |-> [keys[r] EXCEPT ![k] = rv], delta |-> [key |-> k, value |-> rv]]
    BY Zenon, <1>2 DEF RecordHashDelete, Recorded, State
  <2>2. /\ c \in Stamp /\ c.id = r /\ clock[r].time \in Nat /\ c.time \in Nat
        /\ clock[r].time <= c.time /\ (f \in DOMAIN fs => clock[r].time < c.time)
    <3>1. CASE f \in DOMAIN fs
      BY <3>1, Clocks
    <3>2. CASE f \notin DOMAIN fs
      BY <3>2, Clocks
    <3> QED BY Zenon, <3>1, <3>2
  <2> HIDE DEF c
  <2>3. Deleted(c) \in Register /\ Deleted(c).stamp = c
    BY Zenon, <2>2, NewRegisters
  <2>4. old \in ReplicatedValue
    BY <1>2 DEF Typed
  <2>5. fs \in Hashes
    BY Zenon, <1>2, <2>4, CrdtKinds DEF ReplicatedValue
  <2>6. \A x \in Registers(old.crdt) : x[2].stamp.time <= clock[r].time /\ x[2].stamp.time \in Nat
    BY <1>2, <2>2, HeldValue
  <2>7. \A g \in DOMAIN fs : <<g, fs[g]>> \in Registers(old.crdt)
    BY Zenon, <1>2, RegistersOf
  <2> HIDE DEF fs
  <2>8. /\ gs \in Hashes /\ DOMAIN gs = DOMAIN fs
        /\ \A g \in DOMAIN gs : gs[g] = IF g = f THEN Deleted(c) ELSE fs[g]
    <3>1. CASE f \in DOMAIN fs
      BY Zenon, <2>3, <2>5, <3>1 DEF Hashes
    <3>2. CASE f \notin DOMAIN fs
      BY Zenon, <2>5, <3>2
    <3> QED BY Zenon, <3>1, <3>2
  <2> HIDE DEF gs
  <2>9. rv \in ReplicatedValue /\ rv.crdt = Hash(gs) /\ rv.stamp = c
    <3>1. Hash(gs) \in CrdtValue
      BY Zenon, <2>8, HashIsCrdt
    <3> QED BY Zenon, <2>2, <2>4, <3>1 DEF ReplicatedValue
  <2>10. ASSUME NEW x \in Registers(Hash(gs))
         PROVE  /\ x[2].stamp.time <= c.time
                /\ \/ keys[r][k] # Unknown /\ x \in Registers(keys[r][k].crdt)
                   \/ x[2].stamp.id = r /\ clock[r].time < x[2].stamp.time
    <3>1. PICK g \in DOMAIN gs : x = <<g, gs[g]>>
      BY <2>8, HashIsCrdt, RegistersOf
    <3>2. CASE g = f
      BY <2>2, <2>3, <2>8, <3>1, <3>2
    <3>3. CASE g # f
      <4>1. x \in Registers(old.crdt)
        BY Zenon, <2>7, <2>8, <3>1, <3>3
      <4> QED BY <1>2, <2>2, <2>6, <4>1
    <3> QED BY Zenon, <3>2, <3>3
  <2> HIDE DEF rv
  <2>11. Grown(r, k, rv, c)
    BY <2>2, <2>9, <2>10 DEF Grown
  <2>12. keys[r] \in [Key -> ReplicatedValue \cup {Unknown}]
    BY Zenon DEF Typed
  <2>13. rv # Unknown
    BY Zenon, <2>9, UnknownAssumption
  <2> QED BY <2>1, <2>2, <2>9, <2>11, <2>12, <2>13 DEF GoodRecord
<1> QED BY Zenon, <1>1, <1>2

-----------------------------------------------------------------------------
(* What the executor holds. *)

Contented == UNION {[F -> Value] : F \in (SUBSET Field) \ {{}}}

Ttl == Nat \cup {NoExpiry}

\* An entry of the executor is a string or a hash with at least one field.
LEMMA DataKinds ==
    /\ \A d \in Data : IsHashData(d) => d.fields \in Contented /\ d.ttl \in Ttl
    /\ \A d \in Data : IsString(d) => d.value \in Value /\ d.ttl \in Ttl
                                      /\ \A v \in Value : [d EXCEPT !.value = v] \in Data
    /\ \A v \in Value, t \in Ttl : String(v, t) \in Data
    /\ \A fs \in Contented, t \in Ttl : HashData(fs, t) \in Data
<1>1. \A d \in Data : IsHashData(d) => d.fields \in Contented /\ d.ttl \in Ttl
  BY Zenon DEF Data, IsHashData, Contented, Ttl
<1>2. \A d \in Data : IsString(d) => d.value \in Value /\ d.ttl \in Ttl
                                      /\ \A v \in Value : [d EXCEPT !.value = v] \in Data
  BY Zenon DEF Data, IsString, Ttl
<1>3. \A v \in Value, t \in Ttl : String(v, t) \in Data
  BY Zenon DEF Data, String, Ttl
<1>4. \A fs \in Contented, t \in Ttl : HashData(fs, t) \in Data
  BY Zenon DEF Data, HashData, Contented, Ttl
<1> QED BY Zenon, <1>1, <1>2, <1>3, <1>4

\* SET leaves the executor with an entry of its kinds.
LEMMA ExecSetTyped ==
    \A d \in Data \cup {Nothing}, v \in Value, t \in Ttl : ExecSet(d, v, t) \in Data \cup {Nothing}
BY Zenon, DataKinds DEF ExecSet

\* HSET leaves the executor with an entry of its kinds.
LEMMA ExecHSetTyped ==
    \A d \in Data \cup {Nothing}, fs \in Contented : ExecHSet(d, fs) \in Data \cup {Nothing}
<1> SUFFICES ASSUME NEW d \in Data \cup {Nothing}, NEW fs \in Contented
             PROVE  ExecHSet(d, fs) \in Data \cup {Nothing}
  BY Zenon
<1>1. CASE d = Nothing
  <2>1. HashData(fs, NoExpiry) \in Data
    BY Zenon, DataKinds DEF Ttl
  <2> QED BY Zenon, <1>1, <2>1 DEF ExecHSet, IsHashData
<1>2. CASE IsHashData(d)
  <2> DEFINE gs == [f \in DOMAIN d.fields \cup DOMAIN fs |->
                       IF f \in DOMAIN fs THEN fs[f] ELSE d.fields[f]]
  <2>1. d.fields \in Contented /\ d.ttl \in Ttl
    BY Zenon, <1>2, DataKinds DEF IsHashData
  <2>2. gs \in Contented
    <3>1. DOMAIN d.fields \cup DOMAIN fs \in (SUBSET Field) \ {{}}
      BY <2>1 DEF Contented
    <3>2. \A f \in DOMAIN d.fields \cup DOMAIN fs :
            (IF f \in DOMAIN fs THEN fs[f] ELSE d.fields[f]) \in Value
      BY <2>1 DEF Contented
    <3>3. gs \in [DOMAIN d.fields \cup DOMAIN fs -> Value]
      BY Zenon, <3>2
    <3> QED BY Zenon, <3>1, <3>3 DEF Contented
  <2>3. HashData(gs, d.ttl) \in Data
    BY Zenon, <2>1, <2>2, DataKinds
  <2>4. ExecHSet(d, fs) = HashData(gs, d.ttl)
    BY Zenon, <1>2 DEF ExecHSet, IsHashData
  <2> QED BY Zenon, <2>3, <2>4
<1>3. CASE d # Nothing /\ ~IsHashData(d)
  BY Zenon, <1>3 DEF ExecHSet
<1> QED BY Zenon, <1>1, <1>2, <1>3

\* HDEL leaves the executor with an entry of its kinds.
LEMMA ExecHDelTyped ==
    \A d \in Data \cup {Nothing} : \A F : ExecHDel(d, F) \in Data \cup {Nothing}
<1> SUFFICES ASSUME NEW d \in Data \cup {Nothing}, NEW F
             PROVE  ExecHDel(d, F) \in Data \cup {Nothing}
  BY Zenon
<1> DEFINE rest == DOMAIN d.fields \ F
           gs == [f \in rest |-> d.fields[f]]
<1>1. CASE ~IsHashData(d) \/ rest = {}
  BY Zenon, <1>1 DEF ExecHDel
<1>2. CASE IsHashData(d) /\ rest # {}
  <2>1. d.fields \in Contented /\ d.ttl \in Ttl
    BY Zenon, <1>2, DataKinds DEF IsHashData
  <2>2. gs \in Contented
    <3>1. rest \in (SUBSET Field) \ {{}} /\ \A f \in rest : d.fields[f] \in Value
      BY Zenon, <1>2, <2>1 DEF Contented
    <3> HIDE DEF rest
    <3>2. gs \in [rest -> Value]
      BY Zenon, <3>1
    <3> QED BY Zenon, <3>1, <3>2 DEF Contented
  <2>3. ExecHDel(d, F) = HashData(gs, d.ttl)
    BY Zenon, <1>2 DEF ExecHDel
  <2> QED BY Zenon, <2>1, <2>2, <2>3, DataKinds
<1> QED BY Zenon, <1>1, <1>2

\* The executor brought up to a merged value has an entry of its kinds.
LEMMA SyncedTyped ==
    \A d \in Data \cup {Nothing}, rv \in ReplicatedValue : Synced(d, rv) \in Data \cup {Nothing}
<1> SUFFICES ASSUME NEW d \in Data \cup {Nothing}, NEW rv \in ReplicatedValue
             PROVE  Synced(d, rv) \in Data \cup {Nothing}
  BY Zenon
<1>0. rv.crdt \in CrdtValue /\ rv.expiry \in Nat \cup {NoExpiry}
  BY Zenon DEF ReplicatedValue
<1>1. CASE IsHash(rv.crdt)
  <2> DEFINE fs == rv.crdt.fields
             live == [f \in LiveFields(fs) |-> Get(fs[f])]
             e == IF DOMAIN live = {} THEN d ELSE ExecHSet(d, live)
  <2>1. fs \in Hashes
    BY Zenon, <1>0, <1>1, CrdtKinds
  <2>2. DOMAIN live # {} => live \in Contented
    <3> SUFFICES ASSUME DOMAIN live # {} PROVE live \in Contented
      BY Zenon
    <3>1. LiveFields(fs) \in (SUBSET Field) \ {{}}
      <4>1. DOMAIN fs \subseteq Field
        BY Zenon, <2>1 DEF Hashes
      <4>2. LiveFields(fs) \subseteq DOMAIN fs
        BY Zenon DEF LiveFields
      <4>3. LiveFields(fs) # {}
        BY Zenon
      <4> HIDE DEF fs, live
      <4>4. LiveFields(fs) \subseteq Field
        BY Zenon, <4>1, <4>2
      <4>5. \A S : S \subseteq Field /\ S # {} => S \in (SUBSET Field) \ {{}}
        BY Zenon
      <4> QED BY Zenon, <4>3, <4>4, <4>5, Zenon
    <3>2. \A f \in LiveFields(fs) : Get(fs[f]) \in Value
      <4>1. \A x \in Register : Get(x) \in Value \cup {NoValue}
        BY Zenon DEF Get, Register
      <4> QED BY Zenon, <2>1, <4>1, HashFields DEF LiveFields
    <3> QED BY <3>1, <3>2 DEF Contented
  <2>3. e \in Data \cup {Nothing}
    BY Zenon, <2>2, ExecHSetTyped
  <2>4. Synced(d, rv) = ExecHDel(e, DeadFields(fs))
    BY Zenon, <1>1 DEF Synced
  <2> QED BY Zenon, <2>3, <2>4, ExecHDelTyped
<1>2. CASE ~IsHash(rv.crdt) /\ Get(rv.crdt.reg) # NoValue
  <2> DEFINE t == IF rv.expiry = NoExpiry THEN NoExpiry ELSE (rv.expiry \div 1000) * 1000
  <2>1. Get(rv.crdt.reg) \in Value
    BY Zenon, <1>0, <1>2, CrdtKinds DEF Get, Register
  <2>2. t \in Ttl
    BY <1>0 DEF Ttl, NoExpiry
  <2>3. Synced(d, rv) = ExecSet(d, Get(rv.crdt.reg), t)
    BY Zenon, <1>2 DEF Synced
  <2> QED BY <2>1, <2>2, <2>3, ExecSetTyped
<1>3. CASE ~IsHash(rv.crdt) /\ Get(rv.crdt.reg) = NoValue
  BY Zenon, <1>3 DEF Synced
<1> QED BY Zenon, <1>1, <1>2, <1>3

-----------------------------------------------------------------------------
(* The elements of a queue. *)

\* What a queue holds, and what is left or added when it is changed.
LEMMA QueueElements ==
    ASSUME NEW S, NEW q \in Seq(S)
    PROVE  /\ Range(q) \subseteq S
           /\ \A e \in S : Append(q, e) \in Seq(S) /\ Range(Append(q, e)) = Range(q) \cup {e}
           /\ \A m \in 1 .. Len(q) + 1, n \in 0 .. Len(q) :
                SubSeq(q, m, n) \in Seq(S) /\ Range(SubSeq(q, m, n)) \subseteq Range(q)
           /\ q # <<>> => /\ Head(q) \in Range(q) /\ Tail(q) \in Seq(S)
                          /\ Range(q) = {Head(q)} \cup Range(Tail(q))
           /\ \A i \in DOMAIN q :
                /\ q[i] \in Range(q) /\ RemoveAt(q, i) \in Seq(S)
                /\ Range(RemoveAt(q, i)) \subseteq Range(q)
<1>1. Range(q) \subseteq S
  BY DEF Range
<1>2. ASSUME NEW e \in S
      PROVE  Append(q, e) \in Seq(S) /\ Range(Append(q, e)) = Range(q) \cup {e}
  <2>1. Append(q, e) \in Seq(S) /\ DOMAIN Append(q, e) = 1 .. Len(q) + 1 /\ DOMAIN q = 1 .. Len(q)
    OBVIOUS
  <2>2. \A i \in 1 .. Len(q) : Append(q, e)[i] = q[i]
    OBVIOUS
  <2>3. Append(q, e)[Len(q) + 1] = e
    OBVIOUS
  <2> QED BY <2>1, <2>2, <2>3 DEF Range
<1>3. ASSUME NEW m \in 1 .. Len(q) + 1, NEW n \in 0 .. Len(q)
      PROVE  SubSeq(q, m, n) \in Seq(S) /\ Range(SubSeq(q, m, n)) \subseteq Range(q)
  BY DEF Range
<1>4. ASSUME q # <<>>
      PROVE  /\ Head(q) \in Range(q) /\ Tail(q) \in Seq(S)
             /\ Range(q) = {Head(q)} \cup Range(Tail(q))
  <2>1. Len(q) \in Nat \ {0} /\ DOMAIN q = 1 .. Len(q) /\ Head(q) = q[1]
    BY <1>4
  <2>2. Tail(q) \in Seq(S) /\ DOMAIN Tail(q) = 1 .. Len(q) - 1
    BY <1>4
  <2>3. \A i \in 1 .. Len(q) - 1 : Tail(q)[i] = q[i + 1]
    BY <1>4
  <2>4. \A i \in 1 .. Len(q) : i = 1 \/ (i - 1 \in 1 .. Len(q) - 1 /\ q[i] = Tail(q)[i - 1])
    BY <2>1, <2>3
  <2>5. ASSUME NEW e \in Range(q) PROVE e \in {Head(q)} \cup Range(Tail(q))
    <3>1. PICK i \in 1 .. Len(q) : e = q[i]
      BY Zenon, <2>1 DEF Range
    <3> QED BY Zenon, <2>1, <2>2, <2>4, <3>1 DEF Range
  <2>6. ASSUME NEW e \in Range(Tail(q)) PROVE e \in Range(q)
    <3>1. PICK i \in 1 .. Len(q) - 1 : e = Tail(q)[i]
      BY Zenon, <2>2 DEF Range
    <3>2. i + 1 \in DOMAIN q /\ e = q[i + 1]
      BY <2>1, <2>3, <3>1
    <3> QED BY Zenon, <3>2 DEF Range
  <2>7. Head(q) \in Range(q)
    BY <2>1 DEF Range
  <2> QED BY Zenon, <2>2, <2>5, <2>6, <2>7
<1>5. ASSUME NEW i \in DOMAIN q
      PROVE  /\ q[i] \in Range(q) /\ RemoveAt(q, i) \in Seq(S)
             /\ Range(RemoveAt(q, i)) \subseteq Range(q)
  <2> DEFINE a == SubSeq(q, 1, i - 1)
             b == SubSeq(q, i + 1, Len(q))
  <2>1. i \in 1 .. Len(q) /\ Len(q) \in Nat
    OBVIOUS
  <2>2. a \in Seq(S) /\ b \in Seq(S) /\ Range(a) \subseteq Range(q) /\ Range(b) \subseteq Range(q)
    BY <1>3, <2>1
  <2> HIDE DEF a, b
  <2>3. a \o b \in Seq(S) /\ Range(a \o b) \subseteq Range(a) \cup Range(b)
    <3>1. a \o b \in Seq(S) /\ DOMAIN (a \o b) = 1 .. Len(a) + Len(b)
      BY <2>2
    <3>2. ASSUME NEW j \in 1 .. Len(a) + Len(b)
          PROVE  (a \o b)[j] \in Range(a) \cup Range(b)
      <4>1. CASE j <= Len(a)
        BY <2>2, <4>1 DEF Range
      <4>2. CASE j > Len(a)
        <5>1. (a \o b)[j] = b[j - Len(a)] /\ j - Len(a) \in 1 .. Len(b) /\ DOMAIN b = 1 .. Len(b)
          BY <2>2, <4>2
        <5> QED BY Zenon, <5>1 DEF Range
      <4> QED BY <2>2, <4>1, <4>2
    <3> QED BY Zenon, <3>1, <3>2 DEF Range
  <2>4. RemoveAt(q, i) = a \o b
    BY Zenon DEF RemoveAt, a, b
  <2> QED BY Zenon, <2>2, <2>3, <2>4 DEF Range
<1> QED BY Zenon, <1>1, <1>2, <1>3, <1>4, <1>5

-----------------------------------------------------------------------------
(* Copies of values. *)

\* Every copy is a key with a value.
LEMMA CopiesTyped ==
    ASSUME Typed
    PROVE  /\ Copies \subseteq Deltas
           /\ \A c \in Copies :
                /\ c.value.stamp.time \in Nat
                /\ \A x \in Registers(c.value.crdt) :
                       x[2].stamp.time \in Nat /\ x[2].stamp.id \in Replica
<1>1. \A r \in Replica : Local(r) \subseteq Deltas
  <2>1. \A r \in Replica : Range(inflight[r]) \subseteq Held
    <3>1. \A r \in Replica : inflight[r] \in Seq(Held)
      BY Zenon DEF Typed
    <3> QED BY Zenon, <3>1, QueueElements
  <2>2. \A r \in Replica : \A k \in Key :
          keys[r][k] # Unknown => [key |-> k, value |-> keys[r][k]] \in Deltas
    BY DEF Typed, Deltas
  <2> QED BY Zenon, <2>1, <2>2 DEF Local, Held
<1>2. \A r \in Replica : Range(outbox[r]) \subseteq Deltas /\ Range(log[r]) \subseteq Deltas
  BY Zenon, QueueElements DEF Typed
<1>3. \A p \in net : p.delta \in Deltas
  BY Zenon DEF Typed
<1>4. Copies \subseteq Deltas
  BY Zenon, <1>1, <1>2, <1>3 DEF Copies, Abroad
<1>5. \A c \in Deltas : c.value.stamp.time \in Nat /\ c.value.crdt \in CrdtValue
  BY Zenon DEF Deltas, ReplicatedValue, Stamp
<1> QED BY Zenon, <1>4, <1>5, RegistersTyped

\* A command leaves the replicas with values of their types.
LEMMA ExecutedTyped ==
    ASSUME Typed, NEW r \in Replica, NEW s, NEW ds \in [Key -> Data \cup {Nothing}],
           GoodRecord(r, s), Executed(r, ds, s)
    PROVE  Typed'
<1>1. s.clock \in Stamp /\ s.clock.id = r /\ s.keys \in [Key -> ReplicatedValue \cup {Unknown}]
  BY Zenon DEF GoodRecord
<1>2. clock' \in [Replica -> Stamp] /\ \A q \in Replica : clock'[q].id = q
  BY Zenon, <1>1 DEF Typed, Executed
<1>3. keys' \in [Replica -> [Key -> ReplicatedValue \cup {Unknown}]]
  BY Zenon, <1>1 DEF Typed, Executed
<1>4. data' \in [Replica -> [Key -> Data \cup {Nothing}]]
  BY Zenon DEF Typed, Executed
<1>5. inflight' \in [Replica -> Seq(Held)]
  <2>1. CASE s.delta = NoDelta
    BY Zenon, <2>1 DEF Typed, Executed
  <2>2. CASE s.delta # NoDelta
    <3>1. s.delta \in Deltas
      <4>1. PICK k \in Key : s.keys[k] # Unknown /\ s.delta = [key |-> k, value |-> s.keys[k]]
        BY Zenon, <2>2 DEF GoodRecord
      <4>2. s.keys[k] \in ReplicatedValue
        BY Zenon, <1>1, <4>1
      <4> QED BY <4>1, <4>2 DEF Deltas
    <3>2. [delta |-> s.delta, waits |-> WalAlways] \in Held
      BY Zenon, <3>1, BoundsAssumption DEF Held
    <3>3. Append(inflight[r], [delta |-> s.delta, waits |-> WalAlways])
            \in Seq(Held)
      BY Zenon, <3>2, QueueElements DEF Typed
    <3> QED BY Zenon, <2>2, <3>3 DEF Typed, Executed
  <2> QED BY Zenon, <2>1, <2>2
<1>6. used' \in [{"commands", "losses", "duplicates", "restarts"} -> Nat]
  <2>1. used' = [used EXCEPT !["commands"] = @ + 1]
    BY Zenon DEF Executed, Spend
  <2> QED BY <2>1 DEF Typed
<1>7. UNCHANGED <<outbox, net, log, replay>>
  BY Zenon DEF Executed
<1> QED BY Zenon, <1>2, <1>3, <1>4, <1>5, <1>6, <1>7 DEF Typed

=============================================================================
