----------------------------- MODULE MCExecutor -----------------------------
(***************************************************************************)
(* The executor with two keys, small values and a short clock; and, as a   *)
(* second scene of the same run, chosen in the initial state, the skip     *)
(* list under a sorted set, with members a < b and an infinite score. A    *)
(* scene leaves the variables of the other as they are.                    *)
(***************************************************************************)
EXTENDS Executor

CONSTANTS MaxLevel, MaxEntries

VARIABLES scene, sl, members

a == <<97>>
b == <<98>>
one == <<49>>
x   == <<120>>

S(op, key) == [group |-> "string", op |-> op, key |-> key]
K(op, key) == [group |-> "key", op |-> op, key |-> key]
C(op, key) == [group |-> "collection", op |-> op, key |-> key]

None == [kind |-> "NONE", n |-> 0]
SetWith(k, v, ttl, cond, get) ==
  S("SET", k) @@ [val |-> v, ttl |-> ttl, cond |-> cond, get |-> get]

MCStrings ==
  {S(op, a) : op \in {"GET", "STRLEN", "GETDEL"}}
  \cup {S(op, a) @@ [val |-> x] : op \in {"SETNX", "APPEND", "GETSET"}}
  \cup {SetWith(a, one, None, "", FALSE), SetWith(b, x, None, "", FALSE)}
  \cup {S("MSET", a) @@ [pairs |-> <<<<a, x>>, <<a, one>>>>]}
  \cup {S("GETRANGE", a) @@ [start |-> i, stop |-> j] : i \in {-1, 0, 1}, j \in {-3, -1, 1}}
  \cup {S("SETRANGE", a) @@ [offset |-> i, val |-> one] : i \in {0, 1}}
  \cup {S("SETBIT", a) @@ [offset |-> 3, bit |-> i] : i \in {0, 1}}
  \cup {S("GETBIT", a) @@ [offset |-> i] : i \in {3, 10}}
  \cup {S("INCRBY", a) @@ [n |-> n] : n \in {13, -13}}
  \cup {S("INCRBYFLOAT", a) @@ [n |-> 5]}

MCKeys ==
  {K("DEL", a) @@ [keys |-> <<a>>], K("EXISTS", a) @@ [keys |-> <<a>>],
   K("TYPE", a), K("DBSIZE", a), K("FLUSHDB", a), K("RENAME", b) @@ [dst |-> a]}

MCCollections ==
  {C(op, a) @@ [vals |-> <<x>>] : op \in {"LPUSH", "SREM", "ZREM"}}
  \cup {C(op, a) @@ [vals |-> <<v>>] : op \in {"RPUSH", "SADD"}, v \in {one, x}}
  \cup {C(op, a) : op \in {"LPOP", "RPOP", "LLEN", "SCARD", "HLEN", "ZCARD"}}
  \cup {C("LINDEX", a) @@ [index |-> i] : i \in {-1, 1}}
  \cup {C("SISMEMBER", a) @@ [val |-> x], C("SMEMBERS", a)}
  \cup {C(op, a) @@ [start |-> 0, stop |-> -1, rev |-> FALSE] : op \in {"LRANGE", "ZRANGE"}}
  \cup {C("HSET", a) @@ [pairs |-> <<<<x, v>>>>] : v \in {one, x}}
  \cup {C(op, a) @@ [field |-> x] : op \in {"HGET", "HEXISTS"}}
  \cup {C("HDEL", a) @@ [fields |-> <<x>>], C("HINCRBY", a) @@ [field |-> x, n |-> 6]}
  \cup {C("ZADD", a) @@ [pairs |-> <<p>>, flags |-> {}] : p \in {<<1, x>>, <<2, x>>, <<1, one>>}}
  \cup {C("ZSCORE", a) @@ [val |-> x]}

(* The commands executor_dst has a shadow for. *)
MCDstCommands == MCStrings \cup MCKeys \cup MCCollections

Calls == <<[cmd |-> SetWith(b, x, None, "", FALSE), protected |-> FALSE],
           [cmd |-> S("INCRBY", b) @@ [n |-> 1], protected |-> TRUE],
           [cmd |-> S("MGET", a) @@ [keys |-> <<a, b>>], protected |-> FALSE]>>

MCOthers ==
  {SetWith(a, x, [kind |-> t, n |-> 1], "", FALSE) : t \in {"EX", "PX"}}
  \cup {SetWith(a, x, [kind |-> "PXAT", n |-> 3], "", g) : g \in BOOLEAN}
  \cup {SetWith(b, x, [kind |-> "EXAT", n |-> n], "", FALSE) : n \in {0, 2}}
  \cup {SetWith(a, one, [kind |-> "KEEPTTL", n |-> 0], cond, TRUE) : cond \in {"NX", "XX"}}
  \cup {S("MSETNX", a) @@ [pairs |-> <<<<a, x>>, <<b, x>>>>], S("MGET", a) @@ [keys |-> <<a, b>>]}
  \cup {S("GETEX", a) @@ [ttl |-> [kind |-> k, n |-> n]] :
          k \in {"EX", "PXAT", "PERSIST", "NONE"}, n \in {0, 3}}
  \cup {K("EXPIRE", a) @@ [n |-> n, flag |-> f] : n \in {-1, 1, 6}, f \in {"", "NX", "XX", "GT", "LT"}}
  \cup {K("PEXPIRE", a) @@ [n |-> 3, flag |-> ""]}
  \cup {K(op, a) @@ [n |-> n] : op \in {"EXPIREAT", "PEXPIREAT"}, n \in {1, 2}}
  \cup {K(op, a) : op \in {"TTL", "PTTL", "EXPIRETIME", "PEXPIRETIME", "PERSIST", "RANDOMKEY", "ENCODING"}}
  \cup {K("KEYS", a) @@ [pattern |-> p] : p \in {<<42>>, <<91, 97, 93>>}}
  \cup {K("RENAMENX", b) @@ [dst |-> a], K("OBJECT", a) @@ [what |-> "REFCOUNT"],
         K("SORT", a) @@ [store |-> TRUE, dst |-> b], K("SORT", b) @@ [store |-> FALSE, dst |-> a],
         K("SCAN", a) @@ [cursor |-> 0, count |-> 1, pattern |-> <<63>>]}
  \cup {C("LSET", a) @@ [index |-> i, val |-> one] : i \in {-1, 2}}
  \cup {C("LTRIM", a) @@ [start |-> 1, stop |-> -1], C("RPUSH", b) @@ [vals |-> <<x>>]}
  \cup {C("LMOVE", k) @@ [dst |-> a, from |-> "RIGHT", to |-> t] : k \in {a, b}, t \in {"LEFT", "RIGHT"}}
  \cup {C("SPOP", a) @@ [count |-> n, order |-> o] : n \in {-1, 2}, o \in {<<one, x>>, <<x, one>>}}
  \cup {C(op, a) : op \in {"HGETALL", "HKEYS", "HVALS"}}
  \cup {C(op, a) @@ [cursor |-> 0, count |-> 1, pattern |-> <<42>>] : op \in {"HSCAN", "ZSCAN"}}
  \cup {C("ZADD", a) @@ [pairs |-> <<<<2, x>>, <<1, one>>>>, flags |-> f] :
          f \in {{"NX"}, {"XX", "CH"}, {"GT"}, {"LT", "CH"}}}
  \cup {C("ZRANGE", a) @@ [start |-> -1, stop |-> 5, rev |-> TRUE], C("ZRANK", a) @@ [val |-> x]}
  \cup {C(op, a) @@ [lo |-> [score |-> 1, open |-> o], hi |-> [score |-> 2, open |-> FALSE],
                     offset |-> -1, count |-> 1] : op \in {"ZCOUNT", "ZRANGEBYSCORE"}, o \in BOOLEAN}
  \cup {[group |-> "script", op |-> "EVAL", calls |-> Calls]}

MCTxPairs ==
  LET incr    == S("INCRBY", a) @@ [n |-> 13]
      gone    == K("EXPIRE", a) @@ [n |-> -1, flag |-> ""]
      script(op) == [group |-> "script", op |-> op, key |-> b, calls |-> Calls]
  IN  {<<incr, incr>>, <<gone, incr>>, <<incr, gone>>,
       <<script("EVAL"), script("EVALSHA")>>, <<script("EVALSHA"), incr>>}

MCCommands == MCDstCommands \cup MCOthers

----------------------------------------------------------------------------

Skip == INSTANCE SkipList WITH Members <- {<<97>>, <<98>>}, Scores <- {1, 2, Inf}

SceneInit == scene \in {"commands", "list"} /\ Init /\ Skip!Init

SceneNext ==
  /\ UNCHANGED scene
  /\ \/ scene = "commands" /\ Next /\ UNCHANGED <<sl, members>>
     \/ scene = "list" /\ Skip!Next /\ UNCHANGED ks

SceneSpec == SceneInit /\ [][SceneNext]_<<scene, ks, sl, members>>

(* CommandExecutor::verify_invariants, after every command.                *)
TablesHold == scene = "commands" => TablesConsistent

(* Lazily removed keys show in no answer, the read paths around execute    *)
(* agree with it, and SCAN's cursors end and return every key once.        *)
ReadsRight == scene = "commands" => LazyExpiryInvisible /\ ReadPathsAgree /\ ScanCovers

(* The shadow of executor_dst predicts every answer and every value, and   *)
(* its bookkeeping of EXPIRE, PEXPIRE and PERSIST matches the deadlines.   *)
ShadowHolds == scene = "commands" => ShadowAgrees /\ ShadowExpiry

(* A command that fails has no effect, and is_read_only and get_keys are   *)
(* true of what a command does.                                            *)
CommandsContained == scene = "commands" => CommandsKeepToThemselves

(* MULTI, EXEC, DISCARD, WATCH and UNWATCH do what transaction_dst checks. *)
TransactionsRight == scene = "commands" => TransactionsHold

(* The skip list's links are well-formed, every span is the distance it    *)
(* skips, the backward links mirror the forward ones and free slots are on *)
(* no chain; ranks and ranges computed from the spans are those of the     *)
(* sequence, and unless a score is infinite the member table agrees.       *)
ListExact ==
  Skip!TypeOK /\ Skip!SpansExact /\ Skip!BackwardExact /\ Skip!AnswersExact /\ Skip!FiniteConsistent

(* The skip list implements a sorted sequence of entries.                  *)
RefinesSequence == Skip!RefinesSequence
=============================================================================
