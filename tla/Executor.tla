------------------------------ MODULE Executor ------------------------------
(***************************************************************************)
(* CommandExecutor::execute: one command after another on the keyspace of  *)
(* a shard, with the clock moved by the actor that owns it.                *)
(***************************************************************************)
EXTENDS Commands

-----------------------------------------------------------------------------
(***************************************************************************)
(* The reference model of executor_dst: a shadow of the keyspace that      *)
(* drops expired keys before every operation, and what it expects each     *)
(* command to answer.  A sorted set is a plain map from members to scores  *)
(* here.                                                                   *)
(***************************************************************************)

(* RefValue, and the shadow of an executor's state. *)
RefValue(v) == IF Type(v) = "zset" THEN Zset(Content(v).members) ELSE v

EvictExpired(s) == SetTime(s, s.now)

ShadowOf(s) == LET e == EvictExpired(s)
               IN  [e EXCEPT !.data = [k \in DOMAIN @ |-> RefValue(@[k])]]

(* What a read of a key of type ty expects. *)
Expect(d, k, ty, Some(_), none) ==
  IF k \notin DOMAIN d.data THEN none
  ELSE IF Type(d.data[k]) # ty THEN WrongType ELSE Some(Content(d.data[k]))

(* The operations the harness tries only on a key of the type or no key. *)
OrNone(d, k, ty) == k \in DOMAIN d.data => Type(d.data[k]) = ty

ContentOr(d, k, new) == IF k \in DOMAIN d.data THEN Content(d.data[k]) ELSE new

SetString(d, k, b) == Store(d, k, Str(b))

(* An emptied collection goes; its expiration stays behind. *)
RefStore(d, k, v, empty) ==
  IF empty THEN [d EXCEPT !.data = Without(@, k)] ELSE Store(d, k, v)

----------------------------------------------------------------------------
(* String operations *)

ShadowSet(d, c)   == Reply(NoExpiry(SetString(d, c.key, c.val), c.key), OK)
ShadowSetNx(d, c) == IF c.key \in DOMAIN d.data THEN Reply(d, Num(0))
                     ELSE Reply(ShadowSet(d, c).s, Num(1))
ShadowMSet(d, c)  ==
  Reply(FoldLeft(LAMBDA e, p : NoExpiry(SetString(e, p[1], p[2]), p[1]), d, c.pairs), OK)

(* INCR, DECR, INCRBY, DECRBY. *)
ShadowIncr(d, c) ==
  LET Count(b) == IF ~IsI64(b) \/ ~InI64(I64Of(b) + c.n) THEN Reply(d, Error)
                  ELSE Reply(SetString(d, c.key, FormatInt(I64Of(b) + c.n)), Num(I64Of(b) + c.n))
  IN  IF ~OrNone(d, c.key, "string") THEN Reply(d, WrongType)
      ELSE Count(ContentOr(d, c.key, <<48>>))

ShadowFloat(d, c) ==
  LET old == ContentOr(d, c.key, <<48>>)
  IN  IF ~OrNone(d, c.key, "string") THEN Reply(d, WrongType)
      ELSE IF ~IsFinite(old) THEN Reply(d, Error)
      ELSE LET b == FormatFloat(TenthsOf(old) + c.n) IN Reply(SetString(d, c.key, b), Bulk(b))

ShadowGet(d, c) == Reply(d, Expect(d, c.key, "string", Bulk, Nil))

ShadowAppend(d, c) == LET b == ContentOr(d, c.key, <<>>) \o c.val
                      IN  Reply(SetString(d, c.key, b), Num(Len(b)))

ShadowStrLen(d, c) == Reply(d, Expect(d, c.key, "string", LAMBDA b : Num(Len(b)), Num(0)))

(* Every position whose index lies between the two ends. *)
ShadowGetRange(d, c) ==
  LET b     == ContentOr(d, c.key, <<>>)
      n     == Len(b)
      At(i) == IF i < 0 THEN MaxOf(n + i, 0) ELSE i
  IN  Reply(d, Bulk(SubSeq(b, At(c.start) + 1, MinOf(At(c.stop), n - 1) + 1)))

ShadowSetRange(d, c) ==
  LET b   == ContentOr(d, c.key, <<>>)
      end == c.offset + Len(c.val)
      new == [i \in 1..MaxOf(Len(b), end) |->
                IF i \in (c.offset + 1)..end THEN c.val[i - c.offset]
                ELSE IF i \in DOMAIN b THEN b[i] ELSE 0]
  IN  Reply(SetString(d, c.key, new), Num(Len(new)))

ShadowGetDel(d, c) ==
  Reply(IF c.key \in DOMAIN d.data /\ OrNone(d, c.key, "string") THEN Drop(d, c.key) ELSE d,
        Expect(d, c.key, "string", Bulk, Nil))

ShadowGetSet(d, c) ==
  Reply(IF OrNone(d, c.key, "string") THEN SetString(d, c.key, c.val) ELSE d,
        Expect(d, c.key, "string", Bulk, Nil))

(* The bit of weight 0x80 >> (offset % 8) in byte offset / 8. *)
ShadowGetBit(d, c) ==
  Reply(d, Expect(d, c.key, "string", LAMBDA b : Num(Bit(b, c.offset)), Num(0)))

ShadowSetBit(d, c) ==
  LET b   == ContentOr(d, c.key, <<>>)
      at  == c.offset \div 8 + 1
      new == [i \in 1..MaxOf(Len(b), at) |->
                LET byte == IF i \in DOMAIN b THEN b[i] ELSE 0
                IN  IF i # at \/ Bit(b, c.offset) = c.bit THEN byte
                    ELSE IF c.bit = 1 THEN byte + Mask(c.offset) ELSE byte - Mask(c.offset)]
  IN  Reply(IF OrNone(d, c.key, "string") THEN SetString(d, c.key, new) ELSE d,
            ShadowGetBit(d, c).r)

----------------------------------------------------------------------------
(* Key and expiry operations *)

ShadowDel(d, c)    == Reply(Drop(d, c.keys[1]), Num(IF c.keys[1] \in DOMAIN d.data THEN 1 ELSE 0))
ShadowExists(d, c) == Reply(d, Num(IF c.keys[1] \in DOMAIN d.data THEN 1 ELSE 0))
ShadowType(d, c)   == Reply(d, Simple(IF c.key \in DOMAIN d.data THEN Type(d.data[c.key]) ELSE "none"))
ShadowDbSize(d, c) == Reply(d, Num(Cardinality(DOMAIN d.data)))
ShadowFlush(d, c)  == Reply([d EXCEPT !.data = <<>>, !.exp = <<>>], OK)

ShadowRename(d, c) ==
  IF c.key \notin DOMAIN d.data THEN Reply(d, Error) ELSE Reply(Move(d, c.key, c.dst), OK)

(* Driven by the executor's answer r: what the shadow notes of EXPIRE,     *)
(* PEXPIRE and PERSIST.                                                    *)
Noted(d, k, ms, r) == IF r = Num(1) THEN Expire(d, k, d.now + ms) ELSE Drop(d, k)

ShadowExpire(d, c, r)  == Noted(d, c.key, c.n * MsPerSec, r)
ShadowPExpire(d, c, r) == Noted(d, c.key, c.n, r)
ShadowPersist(d, c, r) == IF r = Num(1) THEN NoExpiry(d, c.key) ELSE d

----------------------------------------------------------------------------
(* Collections; the pushes and adds carry one value. *)

ShadowLPush(d, c) == LET l == <<c.vals[1]>> \o ContentOr(d, c.key, <<>>)
                     IN  Reply(Store(d, c.key, List(l)), Num(Len(l)))
ShadowRPush(d, c) == LET l == Append(ContentOr(d, c.key, <<>>), c.vals[1])
                     IN  Reply(Store(d, c.key, List(l)), Num(Len(l)))

ShadowLPop(d, c) ==
  Reply(IF c.key \in DOMAIN d.data /\ OrNone(d, c.key, "list")
        THEN LET l == Tail(Content(d.data[c.key])) IN RefStore(d, c.key, List(l), l = <<>>) ELSE d,
        Expect(d, c.key, "list", LAMBDA l : Bulk(Head(l)), Nil))

ShadowRPop(d, c) ==
  Reply(IF c.key \in DOMAIN d.data /\ OrNone(d, c.key, "list")
        THEN LET l == Front(Content(d.data[c.key])) IN RefStore(d, c.key, List(l), l = <<>>) ELSE d,
        Expect(d, c.key, "list", LAMBDA l : Bulk(Last(l)), Nil))

ShadowLLen(d, c)   == Reply(d, Expect(d, c.key, "list", LAMBDA l : Num(Len(l)), Num(0)))
ShadowLIndex(d, c) ==
  Reply(d, Expect(d, c.key, "list",
                  LAMBDA l : LET i == IF c.index < 0 THEN Len(l) + c.index ELSE c.index
                             IN  IF i \in 0..(Len(l) - 1) THEN Bulk(l[i + 1]) ELSE Nil,
                  Nil))

ShadowSAdd(d, c) == LET m == ContentOr(d, c.key, {})
                    IN  Reply(Store(d, c.key, SetV(m \cup {c.vals[1]})),
                              Num(IF c.vals[1] \in m THEN 0 ELSE 1))

ShadowSRem(d, c) ==
  Reply(IF c.key \in DOMAIN d.data /\ OrNone(d, c.key, "set")
        THEN LET m == Content(d.data[c.key]) \ {c.vals[1]} IN RefStore(d, c.key, SetV(m), m = {})
        ELSE d,
        Expect(d, c.key, "set", LAMBDA m : Num(IF c.vals[1] \in m THEN 1 ELSE 0), Num(0)))

ShadowSCard(d, c)     == Reply(d, Expect(d, c.key, "set", LAMBDA m : Num(Cardinality(m)), Num(0)))
ShadowSIsMember(d, c) ==
  Reply(d, Expect(d, c.key, "set", LAMBDA m : Num(IF c.val \in m THEN 1 ELSE 0), Num(0)))

ShadowHSet(d, c) == LET h == ContentOr(d, c.key, <<>>)
                    IN  Reply(Store(d, c.key, Hash(Put(h, c.pairs[1][1], c.pairs[1][2]))),
                              Num(IF c.pairs[1][1] \in DOMAIN h THEN 0 ELSE 1))

ShadowHGet(d, c) ==
  Reply(d, Expect(d, c.key, "hash",
                  LAMBDA h : IF c.field \in DOMAIN h THEN Bulk(h[c.field]) ELSE Nil, Nil))

ShadowHDel(d, c) ==
  LET f == c.fields[1]
  IN  Reply(IF c.key \in DOMAIN d.data /\ OrNone(d, c.key, "hash")
            THEN LET h == Without(Content(d.data[c.key]), f)
                 IN  RefStore(d, c.key, Hash(h), DOMAIN h = {})
            ELSE d,
            Expect(d, c.key, "hash", LAMBDA h : Num(IF f \in DOMAIN h THEN 1 ELSE 0), Num(0)))

ShadowHLen(d, c)    == Reply(d, Expect(d, c.key, "hash", LAMBDA h : Num(Cardinality(DOMAIN h)), Num(0)))
ShadowHExists(d, c) ==
  Reply(d, Expect(d, c.key, "hash", LAMBDA h : Num(IF c.field \in DOMAIN h THEN 1 ELSE 0), Num(0)))

ShadowHIncrBy(d, c) ==
  LET h   == ContentOr(d, c.key, <<>>)
      old == IF c.field \in DOMAIN h THEN h[c.field] ELSE <<48>>
      n   == I64Of(old) + c.n
  IN  IF ~IsI64(old) THEN Reply(d, Error)
      ELSE Reply(Store(d, c.key, Hash(Put(h, c.field, FormatInt(n)))), Num(n))

ShadowZAdd(d, c) == LET z == ContentOr(d, c.key, <<>>)
                    IN  Reply(Store(d, c.key, Zset(Put(z, c.pairs[1][2], c.pairs[1][1]))),
                              Num(IF c.pairs[1][2] \in DOMAIN z THEN 0 ELSE 1))

ShadowZRem(d, c) ==
  Reply(IF c.key \in DOMAIN d.data /\ OrNone(d, c.key, "zset")
        THEN LET z == Without(Content(d.data[c.key]), c.vals[1])
             IN  RefStore(d, c.key, Zset(z), DOMAIN z = {})
        ELSE d,
        Expect(d, c.key, "zset", LAMBDA z : Num(IF c.vals[1] \in DOMAIN z THEN 1 ELSE 0), Num(0)))

ShadowZCard(d, c)  == Reply(d, Expect(d, c.key, "zset", LAMBDA z : Num(Cardinality(DOMAIN z)), Num(0)))
ShadowZScore(d, c) ==
  Reply(d, Expect(d, c.key, "zset",
                  LAMBDA z : IF c.val \in DOMAIN z THEN Num(z[c.val]) ELSE Nil, Nil))

(* LRANGE, SMEMBERS and ZRANGE of everything are compared by their length. *)
ShadowCount(d, c, ty, Size(_)) == Reply(d, Expect(d, c.key, ty, LAMBDA x : Num(Size(x)), Num(0)))

ShadowLRange(d, c)   == ShadowCount(d, c, "list", Len)
ShadowSMembers(d, c) == ShadowCount(d, c, "set", Cardinality)
ShadowZRange(d, c)   == ShadowCount(d, c, "zset", LAMBDA z : Cardinality(DOMAIN z))

----------------------------------------------------------------------------
ShadowString(d, c) ==
  CASE c.op = "GET"      -> ShadowGet(d, c)
    [] c.op = "SET"      -> ShadowSet(d, c)
    [] c.op = "SETNX"    -> ShadowSetNx(d, c)
    [] c.op = "APPEND"   -> ShadowAppend(d, c)
    [] c.op = "GETSET"   -> ShadowGetSet(d, c)
    [] c.op = "STRLEN"   -> ShadowStrLen(d, c)
    [] c.op = "MSET"     -> ShadowMSet(d, c)
    [] c.op = "GETRANGE" -> ShadowGetRange(d, c)
    [] c.op = "SETRANGE" -> ShadowSetRange(d, c)
    [] c.op = "SETBIT"   -> ShadowSetBit(d, c)
    [] c.op = "GETBIT"   -> ShadowGetBit(d, c)
    [] c.op = "GETDEL"   -> ShadowGetDel(d, c)
    [] c.op = "INCRBY"   -> ShadowIncr(d, c)
    [] c.op = "INCRBYFLOAT" -> ShadowFloat(d, c)

ShadowKey(d, c) ==
  CASE c.op = "DEL"     -> ShadowDel(d, c)
    [] c.op = "EXISTS"  -> ShadowExists(d, c)
    [] c.op = "TYPE"    -> ShadowType(d, c)
    [] c.op = "DBSIZE"  -> ShadowDbSize(d, c)
    [] c.op = "FLUSHDB" -> ShadowFlush(d, c)
    [] c.op = "RENAME"  -> ShadowRename(d, c)

ShadowCollection(d, c) ==
  CASE c.op = "LPUSH"    -> ShadowLPush(d, c)
    [] c.op = "RPUSH"    -> ShadowRPush(d, c)
    [] c.op = "LPOP"     -> ShadowLPop(d, c)
    [] c.op = "RPOP"     -> ShadowRPop(d, c)
    [] c.op = "LLEN"     -> ShadowLLen(d, c)
    [] c.op = "LINDEX"   -> ShadowLIndex(d, c)
    [] c.op = "LRANGE"   -> ShadowLRange(d, c)
    [] c.op = "SADD"     -> ShadowSAdd(d, c)
    [] c.op = "SREM"     -> ShadowSRem(d, c)
    [] c.op = "SCARD"    -> ShadowSCard(d, c)
    [] c.op = "SISMEMBER" -> ShadowSIsMember(d, c)
    [] c.op = "SMEMBERS" -> ShadowSMembers(d, c)
    [] c.op = "HSET"     -> ShadowHSet(d, c)
    [] c.op = "HGET"     -> ShadowHGet(d, c)
    [] c.op = "HDEL"     -> ShadowHDel(d, c)
    [] c.op = "HLEN"     -> ShadowHLen(d, c)
    [] c.op = "HEXISTS"  -> ShadowHExists(d, c)
    [] c.op = "HINCRBY"  -> ShadowHIncrBy(d, c)
    [] c.op = "ZADD"     -> ShadowZAdd(d, c)
    [] c.op = "ZREM"     -> ShadowZRem(d, c)
    [] c.op = "ZCARD"    -> ShadowZCard(d, c)
    [] c.op = "ZSCORE"   -> ShadowZScore(d, c)
    [] c.op = "ZRANGE"   -> ShadowZRange(d, c)

Shadow(d, c) ==
  CASE c.group = "string"     -> ShadowString(d, c)
    [] c.group = "key"        -> ShadowKey(d, c)
    [] c.group = "collection" -> ShadowCollection(d, c)

(* The type the key of a guarded operation must have, if it has one. *)
GuardedType ==
  "APPEND" :> "string" @@ "GETRANGE" :> "string" @@ "SETRANGE" :> "string" @@
  "LPUSH" :> "list" @@ "RPUSH" :> "list" @@ "SADD" :> "set" @@
  "HSET" :> "hash" @@ "HINCRBY" :> "hash" @@ "ZADD" :> "zset"

(* The guards the harness puts on an operation; its hash counters stay far *)
(* from overflow.                                                          *)
Tried(d, c) ==
  /\ c.op \in DOMAIN GuardedType => OrNone(d, c.key, GuardedType[c.op])
  /\ c.op = "HINCRBY" => LET h == ContentOr(d, c.key, <<>>)
                         IN  c.field \in DOMAIN h /\ IsI64(h[c.field])
                               => InI64(I64Of(h[c.field]) + c.n)

(* What the harness compares of an answer. *)
Seen(c, r) ==
  IF c.op \notin {"LRANGE", "SMEMBERS", "ZRANGE"} \/ IsError(r) THEN r
  ELSE Num(IF c.op = "SMEMBERS" THEN Cardinality(r[2]) ELSE Len(r[2]))

-----------------------------------------------------------------------------
CONSTANTS Commands,     \* the commands clients send
          DstCommands,  \* the ones executor_dst generates
          ClockTimes,   \* the times set_time is called with
          TxPairs,   \* the ones put into transactions
          MaxLen        \* bound on the length of a stored string or list

VARIABLE ks             \* data, expirations and current_time

(* Bounds of the model, not of the code. *)
SmallValue(v) ==
  CASE Type(v) \in {"string", "list"} -> Len(Content(v)) <= MaxLen
    [] OTHER                          -> TRUE
Small(s) == \A k \in DOMAIN s.data : SmallValue(s.data[k])

Init == ks = EmptyState

Command == \E c \in Commands : ks' = Execute(ks, c).s /\ Small(ks')

(* The actor sets the clock before a command; the times grow. *)
SetClock == \E t \in ClockTimes : t > ks.now /\ ks' = SetTime(ks, t)

Next == Command \/ SetClock

Spec == Init /\ [][Next]_ks

----------------------------------------------------------------------------
(* Properties *)

(* CommandExecutor::verify_invariants: only stored keys expire, no list,   *)
(* set or hash is stored empty, and the two halves of every sorted set     *)
(* agree and are in order.  (An empty sorted set is stored by ZADD XX.)    *)
TablesConsistent ==
  /\ DOMAIN ks.exp \subseteq DOMAIN ks.data
  /\ \A k \in DOMAIN ks.data :
       IF Type(ks.data[k]) = "zset"
       THEN ZsetConsistent(Content(ks.data[k])) /\ ZsetSorted(Content(ks.data[k]))
       ELSE ~IsEmptyOf(ks.data[k])

(* The commands that look at the tables past is_expired: DEL counts, MSET, *)
(* MSETNX and SET KEEPTTL store under an expiration that has passed.       *)
PastExpiry(c) ==
  \/ c.op \in {"DEL", "MSET", "MSETNX", "EVAL"}
  \/ c.op = "SET" /\ c.ttl.kind = "KEEPTTL"

(* Expired keys are removed when they are next read, or when the clock     *)
(* moves.  No other command can tell the difference: its answer, and the   *)
(* keys it leaves to be seen, are those of an executor that has removed    *)
(* every expired key first.                                                *)
AlikeToClients(e, f) == e.r = f.r /\ LiveState(e.s) = LiveState(f.s)

LazyExpiryInvisible ==
  DOMAIN ks.data # Live(ks) =>
    \A c \in Commands :
      PastExpiry(c) \/ AlikeToClients(Execute(ks, c), Execute(EvictExpired(ks), c))

(* executor_dst: on every state the executor reaches, each command of the  *)
(* harness answers what the shadow expects and leaves the values the       *)
(* shadow has afterwards.                                                  *)
AsShadowed(c, e, w) == Seen(c, e.r) = w.r /\ ShadowOf(e.s).data = EvictExpired(w.s).data

ShadowAgrees ==
  \A c \in DstCommands :
    LET d == ShadowOf(ks)
    IN  Tried(d, c) => AsShadowed(c, Execute(EvictExpired(ks), c), Shadow(d, c))

(* executor_dst follows EXPIRE, PEXPIRE and PERSIST by their answers: a    *)
(* harness that trusts them has the executor's keys and deadlines, and TTL *)
(* is positive after an EXPIRE that said 1.  (The harness's times are too  *)
(* small for an expire-time error.)                                        *)
FollowsExpiry(d, c, e) ==
  c.op = "PERSIST" \/ (c.flag = "" /\ c.n > 0 /\ ~IsError(e.r)) =>
    /\ e.r \in {Num(0), Num(1)}
    /\ ShadowOf(e.s) = CASE c.op = "EXPIRE"  -> ShadowExpire(d, c, e.r)
                         [] c.op = "PEXPIRE" -> ShadowPExpire(d, c, e.r)
                         [] c.op = "PERSIST" -> ShadowPersist(d, c, e.r)
    /\ c.op = "EXPIRE" /\ e.r = Num(1) => Ttl(e.s, c).r[2] > 0

ShadowExpiry ==
  \A c \in Commands :
    c.op \in {"EXPIRE", "PEXPIRE", "PERSIST"} =>
      FollowsExpiry(ShadowOf(ks), c, Execute(EvictExpired(ks), c))

(* A command that answers with an error has changed nothing a client can   *)
(* see, but for LMOVE and RPOPLPUSH onto a key of another type, which have *)
(* popped the element by then, and for scripts.                            *)
ErrorChangesNothing(c, e) ==
  IsError(e.r) /\ c.op # "EVAL" =>
    \/ LiveState(e.s) = LiveState(ks)
    \/ c.op = "LMOVE" /\ Exists(ks, c.dst) /\ Type(ks.data[c.dst]) # "list"

(* What the rest of the server believes of a command is true of its        *)
(* execution: one that is_read_only changes nothing to be seen, and any    *)
(* other leaves the keys that get_keys does not name as they were.  (A     *)
(* script may touch keys it does not declare; FLUSHDB touches all.)        *)
AsIn(s, k) == [v |-> Raw(s, k), e |-> k \in DOMAIN s.exp]

KeyTablesTrue(c, was, is) ==
  c.op \notin {"EVAL", "FLUSHDB"} =>
    /\ IsReadOnly(c) => was = is
    /\ {k \in DOMAIN was.data \cup DOMAIN is.data : AsIn(was, k) # AsIn(is, k)} \subseteq GetKeys(c)

Contained(c, e) ==
  ErrorChangesNothing(c, e) /\ KeyTablesTrue(c, LiveState(ks), LiveState(e.s))

CommandsKeepToThemselves == \A c \in Commands : Contained(c, Execute(ks, c))

(* transaction_dst, on every state of the executor and for every pair of   *)
(* commands: a transaction answers and does what its commands would        *)
(* outside of one; a discarded one does nothing; EXEC refuses, changing    *)
(* nothing, exactly when the value of the watched key has changed since    *)
(* the WATCH, unless an UNWATCH came between.  Nothing of a transaction is *)
(* left behind.                                                            *)
Scripts(c1, c2) ==
  LET Tx(op) == [group |-> "tx", op |-> op, keys |-> <<c1.key>>]
  IN  [first   |-> <<c1>>,
       direct  |-> <<c1, c2>>,
       queued  |-> <<Tx("MULTI"), c1, c2, Tx("EXEC")>>,
       dropped |-> <<Tx("MULTI"), c1, c2, Tx("DISCARD"), Tx("EXEC")>>,
       raced   |-> <<Tx("WATCH"), c1, Tx("MULTI"), c2, Tx("EXEC")>>,
       unraced |-> <<Tx("WATCH"), c1, Tx("UNWATCH"), Tx("MULTI"), c2, Tx("EXEC")>>]

EndsRight(x, k, end) ==
  /\ Last(end.queued.rs) = Array(end.direct.rs) /\ end.queued.x = end.direct.x
  /\ end.dropped.x = x /\ IsError(Last(end.dropped.rs))
  /\ IF Raw(end.first.x.s, k) = Raw(x.s, k) THEN end.raced.x = end.direct.x
     ELSE Last(end.raced.rs) = Nil /\ end.raced.x = end.first.x
  /\ end.unraced.x = end.direct.x

TransactionsHold ==
  \A p \in TxPairs :
    LET todo == Scripts(p[1], p[2])
        x    == Fresh(ks)
    IN  EndsRight(x, p[1].key, [how \in DOMAIN todo |-> TxRun(x, todo[how])])

(* The keys a client collects by following SCAN's cursors, count at a time. *)
PageRead(acc, r) ==
  [cursor |-> I64Of(Content(r[1])), keys |-> acc.keys \o r[2][2], done |-> Content(r[1]) = <<48>>]

ScanAll(s, count) ==
  FoldLeft(LAMBDA acc, i :
             IF acc.done THEN acc
             ELSE PageRead(acc, Scan(s, [cursor  |-> acc.cursor, count |-> count,
                                         pattern |-> <<42>>]).r[2]),
           [cursor |-> 0, keys |-> <<>>, done |-> FALSE],
           [i \in 1..(Cardinality(DOMAIN s.data) + 1) |-> i])

(* Over an unchanged keyspace the cursors end, and every visible key was   *)
(* returned once, whatever the page size.                                  *)
AllSeen(all) == all.done /\ Len(all.keys) = Cardinality(Live(ks)) /\ ToSet(all.keys) = Live(ks)

ScanCovers == \A count \in 1..2 : AllSeen(ScanAll(ks, count))

(* The paths around execute, execute_readonly and get_direct, answer as it *)
(* does.                                                                   *)
ReadPathsAgree ==
  \A c \in Commands :
    c.op \in {"GET", "EXISTS", "KEYS"} => ExecuteReadonly(ks, c).r = Execute(ks, c).r
=============================================================================
