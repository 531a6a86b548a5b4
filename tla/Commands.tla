------------------------------ MODULE Commands ------------------------------
(***************************************************************************)
(* The dispatch of CommandExecutor::execute, and scripts, whose calls go   *)
(* through it again.  A command is a record of its group, its name op and  *)
(* its arguments.                                                          *)
(***************************************************************************)
EXTENDS CollectionOps

(* The dispatch of the commands that read or write keys. *)
StringDispatch(s, c) ==
  CASE c.op = "GET"      -> Get(s, c)
    [] c.op = "SET"      -> SetCmd(s, c)
    [] c.op = "SETNX"    -> SetNx(s, c)
    [] c.op = "APPEND"   -> AppendCmd(s, c)
    [] c.op = "GETSET"   -> GetSet(s, c)
    [] c.op = "STRLEN"   -> StrLen(s, c)
    [] c.op = "MGET"     -> MGet(s, c)
    [] c.op = "MSET"     -> MSet(s, c)
    [] c.op = "MSETNX"   -> MSetNx(s, c)
    [] c.op = "GETRANGE" -> GetRange(s, c)
    [] c.op = "SETRANGE" -> SetRange(s, c)
    [] c.op = "SETBIT"   -> SetBit(s, c)
    [] c.op = "GETBIT"   -> GetBit(s, c)
    [] c.op = "GETEX"    -> GetEx(s, c)
    [] c.op = "GETDEL"   -> GetDel(s, c)
    [] c.op = "INCRBY"   -> IncrBy(s, c)
    [] c.op = "INCRBYFLOAT" -> IncrByFloat(s, c)

KeyDispatch(s, c) ==
  CASE c.op = "DEL"      -> Del(s, c)
    [] c.op = "EXISTS"   -> ExistsCmd(s, c)
    [] c.op = "TYPE"     -> TypeOf(s, c)
    [] c.op = "KEYS"     -> KeysCmd(s, c)
    [] c.op = "DBSIZE"   -> DbSize(s, c)
    [] c.op = "RANDOMKEY" -> RandomKey(s, c)
    [] c.op = "FLUSHDB"  -> Flush(s, c)
    [] c.op = "EXPIRE"   -> ExpireCmd(s, c)
    [] c.op = "PEXPIRE"  -> PExpire(s, c)
    [] c.op = "EXPIREAT" -> ExpireAt(s, c)
    [] c.op = "PEXPIREAT" -> PExpireAt(s, c)
    [] c.op = "TTL"      -> Ttl(s, c)
    [] c.op = "PTTL"     -> PTtl(s, c)
    [] c.op = "EXPIRETIME" -> ExpireTime(s, c)
    [] c.op = "PEXPIRETIME" -> PExpireTime(s, c)
    [] c.op = "PERSIST"  -> Persist(s, c)
    [] c.op = "RENAME"   -> Rename(s, c)
    [] c.op = "RENAMENX" -> RenameNx(s, c)
    [] c.op = "ENCODING" -> ObjectEncoding(s, c)
    [] c.op = "OBJECT"   -> ObjectInfo(s, c)
    [] c.op = "SORT"     -> SortCmd(s, c)
    [] c.op = "SCAN"     -> Scan(s, c)

CollectionDispatch(s, c) ==
  CASE c.op = "LPUSH"    -> LPush(s, c)
    [] c.op = "RPUSH"    -> RPush(s, c)
    [] c.op = "LPOP"     -> LPop(s, c)
    [] c.op = "RPOP"     -> RPop(s, c)
    [] c.op = "LLEN"     -> LLen(s, c)
    [] c.op = "LINDEX"   -> LIndex(s, c)
    [] c.op = "LRANGE"   -> LRange(s, c)
    [] c.op = "LSET"     -> LSet(s, c)
    [] c.op = "LTRIM"    -> LTrim(s, c)
    [] c.op = "LMOVE"    -> LMove(s, c)
    [] c.op = "SADD"     -> SAdd(s, c)
    [] c.op = "SREM"     -> SRem(s, c)
    [] c.op = "SMEMBERS" -> SMembers(s, c)
    [] c.op = "SISMEMBER" -> SIsMember(s, c)
    [] c.op = "SCARD"    -> SCard(s, c)
    [] c.op = "SPOP"     -> SPop(s, c)
    [] c.op = "HSET"     -> HSet(s, c)
    [] c.op = "HGET"     -> HGet(s, c)
    [] c.op = "HDEL"     -> HDel(s, c)
    [] c.op = "HGETALL"  -> HGetAll(s, c)
    [] c.op = "HKEYS"    -> HKeys(s, c)
    [] c.op = "HVALS"    -> HVals(s, c)
    [] c.op = "HLEN"     -> HLen(s, c)
    [] c.op = "HEXISTS"  -> HExists(s, c)
    [] c.op = "HINCRBY"  -> HIncrBy(s, c)
    [] c.op = "HSCAN"    -> HScan(s, c)
    [] c.op = "ZADD"     -> ZAdd(s, c)
    [] c.op = "ZREM"     -> ZRem(s, c)
    [] c.op = "ZRANGE"   -> ZRange(s, c)
    [] c.op = "ZSCORE"   -> ZScore(s, c)
    [] c.op = "ZRANK"    -> ZRank(s, c)
    [] c.op = "ZCARD"    -> ZCard(s, c)
    [] c.op = "ZCOUNT"   -> ZCount(s, c)
    [] c.op = "ZRANGEBYSCORE" -> ZRangeByScore(s, c)
    [] c.op = "ZSCAN"    -> ZScan(s, c)

Dispatch(s, c) ==
  CASE c.group = "string"     -> StringDispatch(s, c)
    [] c.group = "key"        -> KeyDispatch(s, c)
    [] c.group = "collection" -> CollectionDispatch(s, c)

(* Command::is_read_only, of the commands above. *)
IsReadOnly(c) ==
  c.op \in {"GET", "GETRANGE", "GETBIT", "STRLEN", "MGET", "EXISTS", "TYPE", "KEYS", "TTL", "PTTL",
            "EXPIRETIME", "PEXPIRETIME", "LLEN", "LINDEX", "LRANGE", "SMEMBERS", "SISMEMBER",
            "SCARD", "HGET", "HGETALL", "HKEYS", "HVALS", "HLEN", "HEXISTS", "ZRANGE", "ZSCORE",
            "ZRANK", "ZCARD", "ZCOUNT", "ZRANGEBYSCORE", "SCAN", "HSCAN", "ZSCAN",
            "ENCODING", "OBJECT", "RANDOMKEY", "DBSIZE"}

(* Mutation: a command with a destination names only its source. *)
GetKeysSource(c) ==
  CASE c.op \in {"DEL", "EXISTS", "MGET", "WATCH"} -> ToSet(c.keys)
    [] c.op \in {"MSET", "MSETNX"}                 -> {c.pairs[i][1] : i \in DOMAIN c.pairs}
    [] OTHER                                       -> {c.key}

(* Command::get_keys *)
GetKeys(c) ==
  CASE c.op \in {"DEL", "EXISTS", "MGET", "WATCH"}    -> ToSet(c.keys)
    [] c.op \in {"MSET", "MSETNX"}                    -> {c.pairs[i][1] : i \in DOMAIN c.pairs}
    [] c.op \in {"LMOVE", "RENAME", "RENAMENX"}       -> {c.key, c.dst}
    [] c.op = "SORT"                                  -> {c.key} \cup (IF c.store THEN {c.dst} ELSE {})
    [] c.op \in {"SCAN", "FLUSHDB", "DBSIZE", "RANDOMKEY"} -> {}
    [] c.op = "KEYS"                                  -> {c.pattern}
    [] OTHER                                          -> {c.key}

(* Command::get_primary_key, in a sequence when there is one. *)
PrimaryKey(c) ==
  CASE c.op \in {"DEL", "EXISTS", "MGET", "WATCH"} -> <<c.keys[1]>>
    [] c.op \in {"MSET", "MSETNX"}                 -> <<c.pairs[1][1]>>
    [] c.op \in {"SCAN", "KEYS", "FLUSHDB", "DBSIZE", "RANDOMKEY"} \/ "key" \notin DOMAIN c -> <<>>
    [] OTHER                                       -> <<c.key>>

(* A reply on its way through Lua: nil is no table entry there, and the     *)
(* way back stops at the first missing entry.                              *)
ThroughLua(r) ==
  IF r[1] # "options" THEN r
  ELSE LET end == CHOOSE n \in 0..Len(r[2]) :
                    /\ \A i \in 1..n : r[2][i] # Nil
                    /\ n < Len(r[2]) => r[2][n + 1] = Nil
       IN  Options(SubSeq(r[2], 1, end))

(* EVAL: the script's calls run one by one; the error of a redis.call ends *)
(* the script, the error of a redis.pcall is a value to it.  What ran      *)
(* before an error stays.  The script returns its last answer.             *)
CallEnds(call, x) == [s |-> x.s, r |-> x.r, stop |-> IsError(x.r) /\ ~call.protected]

ScriptReturns(end) == Reply(end.s, ThroughLua(end.r))

Eval(s, c) ==
  ScriptReturns(
    FoldLeft(LAMBDA acc, call : IF acc.stop THEN acc ELSE CallEnds(call, Dispatch(acc.s, call.cmd)),
             [s |-> s, r |-> Nil, stop |-> FALSE], c.calls))

Execute(s, c) == IF c.op = "EVAL" THEN Eval(s, c) ELSE Dispatch(s, c)

-----------------------------------------------------------------------------
(***************************************************************************)
(* MULTI, EXEC, DISCARD, WATCH, UNWATCH and the script cache, as a         *)
(* CommandExecutor has them.  A state x is the keyspace s with the         *)
(* in_transaction flag, the queue, the snapshots of the watched keys and   *)
(* the cached scripts.  Scripts stand for their SHA1.                      *)
(***************************************************************************)

Answer(x, r) == [x |-> x, r |-> r]

(* The keyspace and the answer of a command that ran. *)
Ran(x, e) == Answer([x EXCEPT !.s = e.s], e.r)

(* The answers so far and one more. *)
WithReply(acc, e) == [x |-> e.x, rs |-> Append(acc.rs, e.r)]

Fresh(s) == [s |-> s, on |-> FALSE, queue |-> <<>>, watched |-> <<>>, scripts |-> {}]

Raw(s, k) == IF k \in DOMAIN s.data THEN <<s.data[k]>> ELSE <<>>

Multi(x) ==
  IF x.on THEN Answer(x, Error) ELSE Answer([x EXCEPT !.on = TRUE, !.queue = <<>>], OK)

Watch(x, c) ==
  Answer([x EXCEPT !.watched = [k \in ToSet(c.keys) |-> Raw(x.s, k)] @@ @], OK)

Unwatch(x) == Answer([x EXCEPT !.watched = <<>>], OK)

Ended(x) == [x EXCEPT !.on = FALSE, !.queue = <<>>, !.watched = <<>>]

Discard(x) == IF x.on THEN Answer(Ended(x), OK) ELSE Answer(x, Error)

(* EVAL caches its script; EVALSHA runs a cached one; SCRIPT LOAD, EXISTS  *)
(* and FLUSH.  A script is its calls.                                      *)
ScriptOps == {"EVAL", "EVALSHA", "SCRIPT LOAD", "SCRIPT EXISTS", "SCRIPT FLUSH"}

Cached(x, c) == [x EXCEPT !.scripts = @ \cup {c.calls}]

ScriptOp(x, c) ==
  LET known == c.calls \in x.scripts
  IN  CASE c.op = "EVAL" \/ (c.op = "EVALSHA" /\ known) -> Ran(Cached(x, c), Eval(x.s, c))
        [] c.op = "EVALSHA" /\ ~known -> Answer(x, <<"error", "NOSCRIPT">>)
        [] c.op = "SCRIPT LOAD"       -> Answer(Cached(x, c), OK)
        [] c.op = "SCRIPT EXISTS"     -> Answer(x, Num(IF known THEN 1 ELSE 0))
        [] c.op = "SCRIPT FLUSH"      -> Answer([x EXCEPT !.scripts = {}], OK)

Immediate(x, c) ==
  CASE c.op \in ScriptOps -> ScriptOp(x, c)
    [] c.op = "MULTI"     -> Multi(x)
    [] c.op = "DISCARD"   -> Discard(x)
    [] c.op = "WATCH"     -> Watch(x, c)
    [] c.op = "UNWATCH"   -> Unwatch(x)
    [] OTHER -> Ran(x, Dispatch(x.s, c))

WatchViolated(x) == \E k \in DOMAIN x.watched : Raw(x.s, k) # x.watched[k]

Committed(end) == Answer(end.x, Array(end.rs))

QueueRun(x) ==
  Committed(FoldLeft(LAMBDA acc, c : WithReply(acc, Immediate(acc.x, c)),
                     [x |-> Ended(x), rs |-> <<>>], x.queue))

(* Mutation: a refused EXEC goes on watching. *)
ExecKeepsWatching(x) ==
  CASE ~x.on                      -> Answer(x, Error)
    [] x.on /\ WatchViolated(x)   -> Answer([x EXCEPT !.on = FALSE, !.queue = <<>>], Nil)
    [] x.on /\ ~WatchViolated(x)  -> QueueRun(x)

(* EXEC: nothing runs when a watched key no longer holds the value it had; *)
(* otherwise the queue runs in order, errors and all.                      *)
Exec(x) ==
  CASE ~x.on                      -> Answer(x, Error)
    [] x.on /\ WatchViolated(x)   -> Answer(Ended(x), Nil)
    [] x.on /\ ~WatchViolated(x)  -> QueueRun(x)

TxExecute(x, c) ==
  CASE c.op = "EXEC" -> Exec(x)
    [] x.on /\ c.op = "WATCH" -> Answer(x, Error)
    [] x.on /\ c.op \notin {"EXEC", "DISCARD", "MULTI", "WATCH"} ->
         Answer([x EXCEPT !.queue = Append(@, c)], Simple("QUEUED"))
    [] OTHER -> Immediate(x, c)

(* One command after another, with their replies. *)
TxRun(x, cs) ==
  FoldLeft(LAMBDA acc, c : WithReply(acc, TxExecute(acc.x, c)), [x |-> x, rs |-> <<>>], cs)
=============================================================================
