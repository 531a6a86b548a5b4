--------------------------- MODULE ZeroCopyGrammar ---------------------------
(***************************************************************************)
(* Command::from_resp_zero_copy (redis/commands.rs): the second copy of    *)
(* the command parser, the one the connection handler calls on the values  *)
(* of RespCodec.  One operator per stretch of the match on the name.       *)
(***************************************************************************)
EXTENDS Grammar

UnlinkToRename(n, a) ==
  CASE n = "UNLINK"    -> Many(a, "Del", <<>>, "str", 1)
    [] n = "WAIT"      -> Fixed(a, "Wait", <<"int", "int">>)
    [] n = "SORT"      -> SortForm(a)
    [] n = "RANDOMKEY" -> Bare("RandomKey")
    [] n = "RENAME"    -> Fixed(a, "Rename", <<"str", "str">>)
    [] n = "RENAMENX"  -> Fixed(a, "RenameNx", <<"str", "str">>)
    [] OTHER           -> Ok("Unknown", <<n>>, <<>>, {})

GetRangeToPExpireTime(n, a) ==
  CASE n \in {"GETRANGE", "SUBSTR"} -> Fixed(a, "GetRange", <<"str", "int", "int">>)
    [] n = "SETRANGE"    -> Fixed(a, "SetRange", <<"str", "offset", "str">>)
    [] n = "SETBIT"      -> Fixed(a, "SetBit", <<"str", "u64", "bit">>)
    [] n = "GETBIT"      -> Fixed(a, "GetBit", <<"str", "u64">>)
    [] n = "GETEX"       -> WithOptions(a, "GetEx", <<"str">>,
                              Valued({"EX", "PX", "EXAT", "PXAT"}, <<"int">>) @@ Flag({"PERSIST"}),
                              Err, kSubset(2, {"EX", "PX", "EXAT", "PXAT", "PERSIST"}))
    [] n = "GETDEL"      -> Fixed(a, "GetDel", <<"str">>)
    [] n = "INCRBYFLOAT" -> Fixed(a, "IncrByFloat", <<"str", "finite">>)
    [] n = "PSETEX"      -> TimedSet(a, "PX")
    [] n = "EXPIRETIME"  -> Fixed(a, "ExpireTime", <<"str">>)
    [] n = "PEXPIRETIME" -> Fixed(a, "PExpireTime", <<"str">>)
    [] OTHER             -> UnlinkToRename(n, a)

FunctionToDebug(n, a) ==
  LET sub == Uppercase(a[1]) IN
  CASE n = "COMMAND" /\ a = <<>> -> Bare("CommandCommand")
    [] n \in {"FUNCTION", "COMMAND", "CLIENT", "OBJECT", "DEBUG"}
         /\ (a = <<>> \/ ~Accepts("str", a[1])) -> Err
    [] n = "FUNCTION" -> IF sub = "FLUSH" THEN Bare("FunctionFlush")
                         ELSE Ok("Unknown", <<n, sub>>, <<>>, {})
    [] n = "COMMAND"  -> Bare(IF sub = "COUNT" THEN "CommandCount" ELSE "CommandCommand")
    [] n = "CLIENT"   -> CASE sub = "SETNAME" -> Fixed(Tail(a), "ClientSetName", <<"str">>)
                           [] sub = "GETNAME" -> Bare("ClientGetName")
                           [] sub = "ID"      -> Bare("ClientId")
                           [] sub = "INFO"    -> Bare("ClientInfo")
                           [] OTHER           -> Ok("Unknown", <<n, sub>>, <<>>, {})
    [] n = "OBJECT"   -> CASE sub = "HELP" -> Bare("ObjectHelp")
                           [] sub \in {"ENCODING", "REFCOUNT", "IDLETIME", "FREQ"} ->
                                Fixed(Tail(a), <<"Object", sub>>, <<"str">>)
                           [] OTHER -> Ok("Unknown", <<n, sub>>, <<>>, {})
    [] n = "DEBUG"    -> CASE sub = "SLEEP"  -> Fixed(Tail(a), "DebugSleep", <<"float">>)
                           [] sub = "OBJECT" -> Fixed(Tail(a), "DebugObject", <<"str">>)
                           [] OTHER -> Optional(Tail(a), <<"DebugSet", sub>>, <<>>, "str", FALSE)
    [] OTHER          -> GetRangeToPExpireTime(n, a)

ScanForms(n, a) ==
  LET options == [MATCH |-> <<"str">>, COUNT |-> <<"int">>] IN
  CASE n = "SCAN"  -> WithOptions(a, "Scan", <<"u64">>, options, Panic, {})
    [] n = "HSCAN" -> WithOptions(a, "HScan", <<"str", "u64">>, options, Panic, {})
    [] n = "ZSCAN" -> WithOptions(a, "ZScan", <<"str", "u64">>, options, Panic, {})
    [] OTHER       -> FunctionToDebug(n, a)

SortedSetForms(n, a) ==
  CASE n = "ZRANGE"        -> RangeForm(a, "ZRange")
    [] n = "ZREVRANGE"     -> RangeForm(a, "ZRevRange")
    [] n = "ZSCORE"        -> Fixed(a, "ZScore", <<"str", "str">>)
    [] n = "ZREM"          -> Many(a, "ZRem", <<"str">>, "str", 1)
    [] n = "ZRANK"         -> Fixed(a, "ZRank", <<"str", "str">>)
    [] n = "ZCARD"         -> Fixed(a, "ZCard", <<"str">>)
    [] n = "ZCOUNT"        -> Fixed(a, "ZCount", <<"str", "str", "str">>)
    [] n = "ZRANGEBYSCORE" -> WithOptions(a, "ZRangeByScore", <<"str", "str", "str">>,
                                [WITHSCORES |-> <<>>, LIMIT |-> <<"int", "int">>], Err, {})
    [] OTHER               -> ScanForms(n, a)

ZAddForm(n, a) ==
  IF n = "ZADD" THEN FlagPairs(a, "ZAdd", {"NX", "XX", "GT", "LT", "CH"})
  ELSE SortedSetForms(n, a)

SetAndHashForms(n, a) ==
  CASE n = "SADD"      -> Many(a, "SAdd", <<"str">>, "str", 1)
    [] n = "SMEMBERS"  -> Fixed(a, "SMembers", <<"str">>)
    [] n = "SISMEMBER" -> Fixed(a, "SIsMember", <<"str", "str">>)
    [] n = "SREM"      -> Many(a, "SRem", <<"str">>, "str", 1)
    [] n = "SCARD"     -> Fixed(a, "SCard", <<"str">>)
    [] n = "SPOP"      -> Optional(a, "SPop", <<"str">>, "usize", TRUE)
    [] n = "HSET"      -> Pairs(a, "HSet", <<"str">>, <<"str", "str">>, {})
    [] n = "HGET"      -> Fixed(a, "HGet", <<"str", "str">>)
    [] n = "HGETALL"   -> Fixed(a, "HGetAll", <<"str">>)
    [] n = "HINCRBY"   -> Fixed(a, "HIncrBy", <<"str", "str", "int">>)
    [] n = "HDEL"      -> Many(a, "HDel", <<"str">>, "str", 1)
    [] n = "HKEYS"     -> Fixed(a, "HKeys", <<"str">>)
    [] n = "HVALS"     -> Fixed(a, "HVals", <<"str">>)
    [] n = "HLEN"      -> Fixed(a, "HLen", <<"str">>)
    [] n = "HEXISTS"   -> Fixed(a, "HExists", <<"str", "str">>)
    [] OTHER           -> ZAddForm(n, a)

ListForms(n, a) ==
  CASE n = "LPUSH"     -> Many(a, "LPush", <<"str">>, "str", 1)
    [] n = "RPUSH"     -> Many(a, "RPush", <<"str">>, "str", 1)
    [] n = "LPOP"      -> Fixed(a, "LPop", <<"str">>)
    [] n = "RPOP"      -> Fixed(a, "RPop", <<"str">>)
    [] n = "LRANGE"    -> Fixed(a, "LRange", <<"str", "int", "int">>)
    [] n = "LLEN"      -> Fixed(a, "LLen", <<"str">>)
    [] n = "LINDEX"    -> Fixed(a, "LIndex", <<"str", "int">>)
    [] n = "LSET"      -> Fixed(a, "LSet", <<"str", "int", "str">>)
    [] n = "LTRIM"     -> Fixed(a, "LTrim", <<"str", "int", "int">>)
    [] n = "RPOPLPUSH" -> Fixed(a, "RPopLPush", <<"str", "str">>)
    [] n = "LMOVE"     -> Fixed(a, "LMove", <<"str", "str", "side", "side">>)
    [] OTHER           -> SetAndHashForms(n, a)

IncrToMSetNx(n, a) ==
  CASE n = "INCR"   -> Fixed(a, "Incr", <<"str">>)
    [] n = "DECR"   -> Fixed(a, "Decr", <<"str">>)
    [] n = "INCRBY" -> Fixed(a, "IncrBy", <<"str", "int">>)
    [] n = "DECRBY" -> Fixed(a, "DecrBy", <<"str", "int">>)
    [] n = "APPEND" -> Fixed(a, "Append", <<"str", "str">>)
    [] n = "GETSET" -> Fixed(a, "GetSet", <<"str", "str">>)
    [] n = "STRLEN" -> Fixed(a, "StrLen", <<"str">>)
    [] n = "MGET"   -> Many(a, "MGet", <<>>, "str", 1)
    [] n = "MSET"   -> Pairs(a, "MSet", <<>>, <<"str", "str">>, {})
    [] n = "MSETNX" -> Pairs(a, "MSetNx", <<>>, <<"str", "str">>, {})
    [] OTHER        -> ListForms(n, a)

DelToPersist(n, a) ==
  LET when  == Flag({"NX", "XX", "GT", "LT"})
      clash == {{"NX", o} : o \in {"XX", "GT", "LT"}} \union {{"GT", "LT"}}
  IN
  CASE n = "DEL"       -> Many(a, "Del", <<>>, "str", 1)
    [] n = "EXISTS"    -> Many(a, "Exists", <<>>, "str", 1)
    [] n = "TYPE"      -> Fixed(a, "TypeOf", <<"str">>)
    [] n = "KEYS"      -> Fixed(a, "Keys", <<"str">>)
    [] n = "EXPIRE"    -> WithOptions(a, "Expire", <<"str", "int">>, when, Err, clash)
    [] n = "PEXPIRE"   -> WithOptions(a, "PExpire", <<"str", "int">>, when, Err, clash)
    [] n = "EXPIREAT"  -> Fixed(a, "ExpireAt", <<"str", "int">>)
    [] n = "PEXPIREAT" -> Fixed(a, "PExpireAt", <<"str", "int">>)
    [] n = "TTL"       -> Fixed(a, "Ttl", <<"str">>)
    [] n = "PTTL"      -> Fixed(a, "Pttl", <<"str">>)
    [] n = "PERSIST"   -> Fixed(a, "Persist", <<"str">>)
    [] OTHER           -> IncrToMSetNx(n, a)

GetToSetNx(n, a) ==
  LET times == {"EX", "PX", "EXAT", "PXAT"} IN
  CASE n = "GET"   -> Fixed(a, "Get", <<"str">>)
    [] n = "SET"   -> WithOptions(a, "Set", <<"str", "str">>,
                        Flag({"NX", "XX", "GET", "KEEPTTL"}) @@ Valued(times, <<"int">>),
                        Err, {{"NX", "XX"}} \union {{"KEEPTTL", o} : o \in times})
    [] n = "SETEX" -> TimedSet(a, "EX")
    [] n = "SETNX" -> Fixed(a, "SetNx", <<"str", "str">>)
    [] OTHER       -> DelToPersist(n, a)

FlushToScript(n, a) ==
  CASE n = "FLUSHDB"  -> Bare("FlushDb")
    [] n = "FLUSHALL" -> Bare("FlushAll")
    [] n = "MULTI"    -> Bare("Multi")
    [] n = "EXEC"     -> Bare("Exec")
    [] n = "DISCARD"  -> Bare("Discard")
    [] n = "WATCH"    -> Many(a, "Watch", <<>>, "str", 1)
    [] n = "UNWATCH"  -> Bare("Unwatch")
    [] n = "EVAL"     -> KeysThenArgs(a, "Eval")
    [] n = "EVALSHA"  -> KeysThenArgs(a, "EvalSha")
    [] n = "SCRIPT"   -> Subcommand(a, [LOAD   |-> Fixed(Tail(a), "ScriptLoad", <<"str">>),
                                        EXISTS |-> Many(Tail(a), "ScriptExists", <<>>, "str", 1),
                                        FLUSH  |-> Bare("ScriptFlush")])
    [] OTHER          -> GetToSetNx(n, a)

AclForms(n, a) ==
  IF n = "ACL"
  THEN Subcommand(a,
         [WHOAMI  |-> Bare("AclWhoami"),
          LIST    |-> Bare("AclList"),
          USERS   |-> Bare("AclUsers"),
          GETUSER |-> Fixed(Tail(a), "AclGetUser", <<"str">>),
          SETUSER |-> Many(Tail(a), "AclSetUser", <<"str">>, "str", 0),
          DELUSER |-> Many(Tail(a), "AclDelUser", <<>>, "str", 1),
          CAT     |-> Optional(Tail(a), "AclCat", <<>>, "str", FALSE),
          GENPASS |-> Optional(Tail(a), "AclGenPass", <<>>, "usize", FALSE),
          DRYRUN  |-> Many(Tail(a), "AclDryrun", <<"str", "str">>, "str", 0),
          LOG     |-> IF Len(a) = 2 /\ Uppercase(a[2]) = "RESET" THEN Bare("AclLogReset")
                      ELSE Optional(Tail(a), "AclLog", <<>>, "usize", TRUE),
          HELP    |-> Ok("Unknown", <<"ACL HELP">>, <<>>, {}),
          LOAD    |-> Ok("Unknown", <<"ACL LOAD">>, <<>>, {}),
          SAVE    |-> Ok("Unknown", <<"ACL SAVE">>, <<>>, {})])
  ELSE FlushToScript(n, a)

PingToAuth(n, a) ==
  CASE n = "PING"   -> Optional(a, "Ping", <<>>, "str", FALSE)
    [] n = "INFO"   -> Bare("Info")
    [] n = "TIME"   -> Bare("Time")
    [] n = "DBSIZE" -> Bare("DbSize")
    [] n = "CONFIG" -> Subcommand(a, [GET |-> Fixed(Tail(a), "ConfigGet", <<"str">>),
                                      SET |-> Fixed(Tail(a), "ConfigSet", <<"str", "str">>),
                                      RESETSTAT |-> Bare("ConfigResetStat")])
    [] n = "SELECT" -> Fixed(a, "Select", <<"db">>)
    [] n = "ECHO"   -> Fixed(a, "Echo", <<"str">>)
    [] n = "AUTH"   -> Optional(a, "Auth", <<"str">>, "str", TRUE)
    [] OTHER        -> AclForms(n, a)

FromRespZeroCopy(line) ==
  IF line = <<>> \/ ~Accepts("str", line[1]) THEN Err
  ELSE PingToAuth(Uppercase(line[1]), Tail(line))
=============================================================================
