------------------------------- MODULE MCWire -------------------------------
(* Instances of Wire for TLC. *)
EXTENDS Wire

MCNumeral == ("-1" :> -1) @@ ("1" :> 1) @@ ("20" :> 20) @@ (":1" :> 1)
MCUpper   == ("nx" :> "NX") @@ ("get" :> "GET")

NoArgs == {"INFO", "TIME", "DBSIZE", "FLUSHDB", "FLUSHALL", "MULTI", "EXEC", "DISCARD",
           "UNWATCH", "RANDOMKEY", "NOSUCH"}
Plain  == {"PING", "SELECT", "ECHO", "AUTH", "WATCH", "get", "SETEX", "SETNX", "DEL",
           "EXISTS", "TYPE", "KEYS", "EXPIREAT", "PEXPIREAT", "TTL", "PTTL", "PERSIST", "INCR",
           "DECR", "INCRBY", "DECRBY", "APPEND", "GETSET", "STRLEN", "MGET", "MSET", "MSETNX",
           "LPUSH", "RPUSH", "LPOP", "RPOP", "LRANGE", "LLEN", "LINDEX", "LSET", "LTRIM",
           "RPOPLPUSH", "SADD", "SMEMBERS", "SISMEMBER", "SREM", "SCARD", "SPOP", "HSET", "HGET",
           "HGETALL", "HINCRBY", "HDEL", "HKEYS", "HVALS", "HLEN", "HEXISTS", "ZSCORE", "ZREM",
           "ZRANK", "ZCARD", "ZCOUNT", "GETRANGE", "SUBSTR", "SETRANGE", "SETBIT", "GETBIT",
           "GETDEL", "INCRBYFLOAT", "PSETEX", "EXPIRETIME", "PEXPIRETIME", "UNLINK", "WAIT",
           "RENAME", "RENAMENX"}
(* The words of a name that has options or subcommands. *)
Special ==
  [SET     |-> {"k", "1", "nx", "XX", "GET", "EX", "PXAT", "KEEPTTL", "IFEQ"},
   EXPIRE  |-> {"k", "1", "NX", "XX", "GT", "LT"},
   PEXPIRE |-> {"k", "1", "nx", "XX", "GT", "LT"},
   GETEX   |-> {"k", "1", "EX", "PX", "EXAT", "PERSIST"},
   ZADD    |-> {"k", "1", "1.5", "NX", "CH"},
   ZRANGE  |-> {"k", "1", ":1", "WITHSCORES"},
   ZREVRANGE |-> {"k", "1", "WITHSCORES"},
   ZRANGEBYSCORE |-> {"k", "1", "-1", "WITHSCORES", "LIMIT"},
   LMOVE   |-> {"k", "LEFT", "RIGHT"},
   SCAN    |-> {"1", "k", "MATCH", "COUNT"},
   HSCAN   |-> {"k", "1", "MATCH", "COUNT"},
   ZSCAN   |-> {"k", "1", "MATCH", "COUNT"},
   SORT    |-> {"k", ":1", "STORE", "ALPHA"},
   EVAL    |-> {"k", "1", "-1", "20"},
   EVALSHA |-> {"k", "1", "-1"},
   SCRIPT  |-> {"LOAD", "EXISTS", "FLUSH", "k"},
   CONFIG  |-> {"GET", "SET", "RESETSTAT", "k"},
   CLIENT  |-> {"SETNAME", "GETNAME", "ID", "INFO", "k"},
   OBJECT  |-> {"HELP", "ENCODING", "REFCOUNT", "IDLETIME", "FREQ", "k"},
   DEBUG   |-> {"SLEEP", "JMAP", "OBJECT", "1.5", "k"},
   FUNCTION |-> {"FLUSH", "k", ":1"},
   COMMAND |-> {"COUNT", "k", ":1"},
   ACL     |-> {"WHOAMI", "LIST", "USERS", "GETUSER", "SETUSER", "DELUSER", "CAT", "GENPASS",
                "DRYRUN", "LOG", "RESET", "HELP", "k", "1"}]

MCNames == NoArgs \union Plain \union DOMAIN Special
MCWords(n) == IF n \in NoArgs THEN {"k"}
              ELSE IF n \in DOMAIN Special THEN Special[n]
              ELSE {"k", "1", "-1", "1.5", ":1"}

-----------------------------------------------------------------------------
GET == <<71, 69, 84>>
SET == <<115, 101, 116>>
DEL == <<68, 69, 76>>
K   == <<107>>

(* A key that looks like the end of a line and the start of the next. *)
Odd == <<13, 10, 36>>

Gets(n) == [i \in 1..n |-> Request(<<GET, K>>)]

MCPipelines ==
  { Gets(3),
    <<Request(<<GET, Odd>>), Request(<<SET, K, Odd>>), Request(<<DEL, K>>)>>,
    <<Request(<<SET, K, <<>>>>), Request(<<SET, K, K>>)>>,
    <<Request(<<GET, K, K>>), Request(<<GET, <<>>>>)>>,
    <<Request(<<DEL, K>>), Request(<<GET, K>>), Request(<<GET, K>>)>>,
    << <<"int", -7>>, <<"simple", K>>, <<"error", K>>,
       <<"array", << <<"array", <<>> >>, <<"bulk", Odd>> >> >>, <<"nil">>, <<"nilarray">> >>,
    <<Request(<<GET, K>>), <<"raw", <<63>>>>, Request(<<GET, K>>)>> }
=============================================================================
