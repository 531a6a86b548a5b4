------------------------------- MODULE Crdt -------------------------------
(***************************************************************************)
(* The replicated values of src/replication: Lamport timestamps, the last- *)
(* writer-wins register (lattice.rs), the string and the hash it builds    *)
(* (state/crdt_value.rs) and the value a replica keeps for a key           *)
(* (state/replicated_value.rs) with their merge.                           *)
(*                                                                         *)
(* A string's bytes are a member of Value. An expiry is a number of        *)
(* milliseconds, NoExpiry standing for None: the code's merge of two       *)
(* optional expiries is then their maximum. The vector clock and the       *)
(* replication factor travel with a value and decide nothing in its merge; *)
(* they are left out.                                                      *)
(***************************************************************************)
EXTENDS Integers

CONSTANTS Replica,  \* the replica ids
          Value,    \* the contents a string or a hash field can have
          Field,    \* the fields of a hash
          NoValue   \* Option::None as a register's value

ASSUME ReplicaAssumption == Replica \subseteq Nat
ASSUME NoValueAssumption == NoValue \notin Value /\ NoValue \notin Field

NoExpiry == -1

Larger(m, n) == IF n > m THEN n ELSE m

-----------------------------------------------------------------------------
(* Lamport timestamps. *)

Stamp == [time : Nat, id : Replica]

NewStamp(r) == [time |-> 0, id |-> r]

\* Ord for LamportClock: the later time, then the larger replica id.
Later(s, t) == s.time > t.time \/ (s.time = t.time /\ s.id > t.id)

Tick(c) == [c EXCEPT !.time = @ + 1]

Update(c, s) == [c EXCEPT !.time = Larger(@, s.time) + 1]

\* The merge keeps the replica id of the first argument, whichever is later.
MergeStamp(s, t) == [s EXCEPT !.time = Larger(@, t.time)]

-----------------------------------------------------------------------------
(* Last-writer-wins registers. *)

Register == [value : Value \cup {NoValue}, stamp : Stamp, dead : BOOLEAN]

NewRegister(r) == [value |-> NoValue, stamp |-> NewStamp(r), dead |-> FALSE]

Written(v, c) == [value |-> v, stamp |-> c, dead |-> FALSE]

Deleted(c) == [value |-> NoValue, stamp |-> c, dead |-> TRUE]

\* Mutation: an incoming register wins a tie of times, whatever its replica.
MergeRegisterByTime(a, b) == IF b.stamp.time >= a.stamp.time THEN b ELSE a

MergeRegister(a, b) == IF Later(b.stamp, a.stamp) THEN b ELSE a

Get(reg) == IF reg.dead THEN NoValue ELSE reg.value

-----------------------------------------------------------------------------
(* Strings and hashes. *)

Lww(reg) == [type |-> "lww", reg |-> reg]

Hash(fields) == [type |-> "hash", fields |-> fields]

NewHash == Hash([f \in {} |-> NoValue])

CrdtValue ==
    [type : {"lww"}, reg : Register]
        \cup [type : {"hash"}, fields : UNION {[F -> Register] : F \in SUBSET Field}]

IsHash(crdt) == crdt.type = "hash"

MergeFields(fs, gs) ==
    [f \in DOMAIN fs \cup DOMAIN gs |->
        IF f \notin DOMAIN gs THEN fs[f]
        ELSE IF f \notin DOMAIN fs THEN gs[f]
        ELSE MergeRegister(fs[f], gs[f])]

\* try_merge on two values of one type.
TryMerge(a, b) ==
    IF IsHash(a) THEN Hash(MergeFields(a.fields, b.fields))
                 ELSE Lww(MergeRegister(a.reg, b.reg))

\* merge_with_timestamps: on a type mismatch the later value is kept whole.
MergeCrdt(a, b, s, t) ==
    IF a.type = b.type THEN TryMerge(a, b)
    ELSE IF Later(t, s) THEN b ELSE a

-----------------------------------------------------------------------------
(* The replicated value of a key. *)

ReplicatedValue == [crdt : CrdtValue, expiry : Nat \cup {NoExpiry}, stamp : Stamp]

NewReplicated(r) ==
    [crdt |-> Lww(NewRegister(r)), expiry |-> NoExpiry, stamp |-> NewStamp(r)]

Merge(a, b) ==
    [crdt   |-> MergeCrdt(a.crdt, b.crdt, a.stamp, b.stamp),
     expiry |-> Larger(a.expiry, b.expiry),
     stamp  |-> MergeStamp(a.stamp, b.stamp)]

LiveFields(fs) == {f \in DOMAIN fs : Get(fs[f]) # NoValue}

DeadFields(fs) == {f \in DOMAIN fs : fs[f].dead}

\* The registers of a value: the string's, or one for each field.
Registers(crdt) ==
    IF IsHash(crdt) THEN {<<f, crdt.fields[f]>> : f \in DOMAIN crdt.fields}
                    ELSE {<<NoValue, crdt.reg>>}
=============================================================================
