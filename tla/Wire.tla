-------------------------------- MODULE Wire --------------------------------
(***************************************************************************)
(* The way from bytes to a command: a client either writes a pipeline,     *)
(* whose bytes the server frames, or spells one request line word by word, *)
(* which the three command parsers read: those of RespGrammar, of          *)
(* ZeroCopyGrammar and that of the Lua translator, below.                  *)
(***************************************************************************)
EXTENDS Bytes, FiniteSetsExt, Grammar

-----------------------------------------------------------------------------
(***************************************************************************)
(* Bytes to requests: what the connection handler (production/             *)
(* connection_optimized.rs) does with the bytes of its read buffer.  Three *)
(* readers look at the same buffer: the batch collectors, the GET/SET fast *)
(* path and RespCodec (redis/resp_optimized.rs).  The requests are         *)
(* executed as they are recognised; here they are appended to `done`.      *)
(*                                                                         *)
(* A RESP value is <<"bulk", bytes>>, <<"nil">>, <<"int", n>>, <<"simple", *)
(* bytes>>, <<"error", bytes>>, <<"array", values>> or <<"nilarray">>;     *)
(* a pipeline may also hold <<"raw", bytes>>, bytes that are not RESP.     *)
(***************************************************************************)

CONSTANTS Pipelines,      \* the request sequences a client sends
          MinPipeline,    \* ConnectionConfig::min_pipeline_buffer
          BatchThreshold, \* ConnectionConfig::batch_threshold
          MaxBuffer       \* ConnectionConfig::max_buffer_size

VARIABLES sent,    \* the pipeline the client wrote
          arrived, \* how many of its bytes the server has read
          buffer,  \* the connection's read buffer
          done,    \* what was executed, in order
          open     \* FALSE once the server closed the connection

fvars == <<sent, arrived, buffer, done, open>>

CR == 13
LF == 10
Crlf == <<CR, LF>>

(* encode_resp_into; RespCodec::encode_into and RespParser::encode write   *)
(* the same bytes.                                                         *)
RECURSIVE Encode(_)
Encode(v) ==
  CASE v[1] = "raw"      -> v[2]
    [] v[1] = "simple"   -> <<43>> \o v[2] \o Crlf
    [] v[1] = "error"    -> <<45>> \o v[2] \o Crlf
    [] v[1] = "int"      -> <<58>> \o FormatInt(v[2]) \o Crlf
    [] v[1] = "nil"      -> <<36, 45, 49>> \o Crlf
    [] v[1] = "bulk"     -> <<36>> \o Digits(Len(v[2])) \o Crlf \o v[2] \o Crlf
    [] v[1] = "nilarray" -> <<42, 45, 49>> \o Crlf
    [] v[1] = "array"    -> <<42>> \o Digits(Len(v[2])) \o Crlf
                              \o FlattenSeq([i \in DOMAIN v[2] |-> Encode(v[2][i])])

-----------------------------------------------------------------------------
(* The two RESP readers.  A result is <<"value", value, bytes used>>,      *)
(* <<"more">>, <<"bad">> for an error, or <<"panic">>.                     *)

From(b, i) == SubSeq(b, i, Len(b))

FirstCr(b) == IF \E i \in DOMAIN b : b[i] = CR
              THEN Min({i \in DOMAIN b : b[i] = CR}) ELSE 0

(* RespCodec looks at the first CR only; RespParser at the first CR LF.    *)
(* 0 stands for None.                                                      *)
FindCrlf(b) == LET p == FirstCr(b)
               IN  IF p > 0 /\ p < Len(b) /\ b[p + 1] = LF THEN p ELSE 0


ScanCrlf(b) ==
  LET at == {i \in 1..(Len(b) - 1) : b[i] = CR /\ b[i + 1] = LF}
  IN  IF at = {} THEN 0 ELSE Min(at)

ParseLine(b, p) ==
  LET text == SubSeq(b, 2, p - 1)
  IN  CASE p = 0 -> <<"more">>
        [] b[1] = 43 -> <<"value", <<"simple", text>>, p + 1>>
        [] b[1] = 45 -> <<"value", <<"error", text>>, p + 1>>
        [] b[1] = 58 -> IF IsI64(text) THEN <<"value", <<"int", I64Of(text)>>, p + 1>>
                        ELSE <<"bad">>

(* Mutation: the two bytes after the string are not waited for. *)
ParseBulkEarly(b, p) ==
  LET text == SubSeq(b, 2, p - 1)
      end  == p + 1 + I64Of(text)
  IN  IF p = 0 THEN <<"more">>
      ELSE IF ~IsI64(text) THEN <<"bad">>
      ELSE IF I64Of(text) = -1 THEN <<"value", <<"nil">>, p + 1>>
      ELSE IF I64Of(text) < -1 THEN <<"panic">>
      ELSE IF end > Len(b) THEN <<"more">>
      ELSE <<"value", <<"bulk", SubSeq(b, p + 2, end)>>, end + 2>>

(* A length below -1 becomes a huge usize: the slice or the allocation     *)
(* panics.                                                                 *)
ParseBulk(b, p) ==
  LET text == SubSeq(b, 2, p - 1)
      end  == p + 1 + I64Of(text)
  IN  IF p = 0 THEN <<"more">>
      ELSE IF ~IsI64(text) THEN <<"bad">>
      ELSE IF I64Of(text) = -1 THEN <<"value", <<"nil">>, p + 1>>
      ELSE IF I64Of(text) < -1 THEN <<"panic">>
      ELSE IF end + 2 > Len(b) THEN <<"more">>
      ELSE <<"value", <<"bulk", SubSeq(b, p + 2, end)>>, end + 2>>

RECURSIVE TryParse(_, _), Elements_(_, _, _, _, _)
Elements_(b, used, n, got, first) ==
  IF n <= 0 THEN <<"value", <<"array", got>>, used>>
  ELSE IF used >= Len(b) THEN <<"more">>
  ELSE LET e == TryParse(From(b, used + 1), first)
       IN  IF e[1] # "value" THEN e
           ELSE Elements_(b, used + e[3], n - 1, Append(got, e[2]), first)

(* `first` selects RespCodec's search for the end of a line. *)
TryParse(b, first) ==
  LET p    == IF first THEN FindCrlf(b) ELSE ScanCrlf(b)
      text == SubSeq(b, 2, p - 1)
  IN  IF b = <<>> THEN <<"more">>
      ELSE CASE b[1] \in {43, 45, 58} -> ParseLine(b, p)
             [] b[1] = 36 -> ParseBulk(b, p)
             [] b[1] = 42 -> IF p = 0 THEN <<"more">>
                             ELSE IF ~IsI64(text) THEN <<"bad">>
                             ELSE IF I64Of(text) = -1 THEN <<"value", <<"nilarray">>, p + 1>>
                             ELSE IF I64Of(text) < -1 THEN <<"panic">>
                             ELSE Elements_(b, p + 1, I64Of(text), <<>>, first)
             [] OTHER -> <<"bad">>

CodecParse(b) == TryParse(b, TRUE)

(* RespParser has one kind of error: an unfinished value is one too. *)
MoreIsBad(r) == IF r = <<"more">> THEN <<"bad">> ELSE r

ParserParse(b) == MoreIsBad(TryParse(b, FALSE))

-----------------------------------------------------------------------------
(* The GET/SET readers.  Each recognises its command by the 14 bytes       *)
(* before the key and never looks at the bytes that end the key and value. *)
(* A result is <<"value", key or <<key, value>>, bytes used>>, <<"more">>  *)
(* or <<"not">>.                                                           *)

Get == {<<71, 69, 84>>, <<103, 101, 116>>}
Set == {<<83, 69, 84>>, <<115, 101, 116>>}

Header(n, name) == <<42, 48 + n>> \o Crlf \o <<36, 51>> \o Crlf \o name \o Crlf
HeaderLen == 14

StartsWith(b, n, names) == \E name \in names : IsPrefix(Header(n, name), b)

(* $<len>\r\n<bytes>\r\n at the start of b; parse_usize_fast reads digits. *)
FieldUpTo(b, start, end) ==
  IF Len(b) < end + 2 THEN <<"more">> ELSE <<"value", SubSeq(b, start, end), end + 2>>

FieldAfter(b, p) ==
  LET text == SubSeq(b, 2, p - 1)
  IN  IF p = 0 THEN <<"more">>
      ELSE IF ~AllDigits(text) THEN <<"not">>
      ELSE FieldUpTo(b, p + 2, p + 1 + DigitsValue(text))

Field(b) ==
  IF b = <<>> THEN <<"more">>
  ELSE IF b[1] # 36 THEN <<"not">>
  ELSE FieldAfter(b, FirstCr(b))

(* A field f read at offset n of the request. *)
At(n, f) == IF f[1] = "value" THEN <<"value", f[2], n + f[3]>> ELSE f

FastGet(b) == At(HeaderLen, Field(From(b, HeaderLen + 1)))

KeyWith(k, v) == IF v[1] = "value" THEN <<"value", <<k, v[2]>>, v[3]>> ELSE v

ThenValue(b, k) ==
  IF k[1] # "value" THEN k ELSE KeyWith(k[2], At(k[3], Field(From(b, k[3] + 1))))

FastSet(b) == ThenValue(b, FastGet(b))

Request(words) == <<"array", [i \in DOMAIN words |-> <<"bulk", words[i]>>]>>

(* What the fast path ran, as the request it stands for. *)
NameOf(b) == SubSeq(b, 9, 11)

GetRequest(b, g) ==
  IF g[1] = "value" THEN <<"value", Request(<<NameOf(b), g[2]>>), g[3]>> ELSE g

SetRequest(b, s) ==
  IF s[1] = "value" THEN <<"value", Request(<<NameOf(b)>> \o s[2]), s[3]>> ELSE s

ReadGet(b) == IF StartsWith(b, 2, Get) THEN GetRequest(b, FastGet(b)) ELSE <<"not">>
ReadSet(b) == IF StartsWith(b, 3, Set) THEN SetRequest(b, FastSet(b)) ELSE <<"not">>

FastPath(b) ==
  CASE Len(b) < 12 -> <<"not">>
    [] Len(b) >= 12 /\ StartsWith(b, 2, Get)  -> ReadGet(b)
    [] Len(b) >= 12 /\ ~StartsWith(b, 2, Get) -> ReadSet(b)

RECURSIVE CollectGetKeys(_, _), MoreGetKeys(_, _, _)
MoreGetKeys(b, got, g) ==
  IF g[1] = "value" THEN CollectGetKeys(From(b, g[3] + 1), Append(got, g[2])) ELSE <<got, b>>
CollectGetKeys(b, got) == MoreGetKeys(b, got, ReadGet(b))

RECURSIVE CollectSetPairs(_, _), MoreSetPairs(_, _, _)
MoreSetPairs(b, got, s) ==
  IF s[1] = "value" THEN CollectSetPairs(From(b, s[3] + 1), Append(got, s[2])) ELSE <<got, b>>
CollectSetPairs(b, got) == MoreSetPairs(b, got, ReadSet(b))

-----------------------------------------------------------------------------
(* try_execute_command until it needs more bytes.  A parse error drains    *)
(* the buffer and is answered with "protocol error".                       *)
FastOrCodec(b, f) == IF f[1] = "not" THEN CodecParse(b) ELSE f

RECURSIVE Sequential(_, _), Continue(_, _, _)
Continue(b, ran, c) ==
  CASE c[1] = "more"             -> <<ran, b>>
    [] c[1] = "value"            -> Sequential(From(b, c[3] + 1), Append(ran, c[2]))
    [] c[1] \in {"bad", "panic"} -> <<Append(ran, <<"protocol error">>), <<>>>>
Sequential(b, ran) ==
  IF b = <<>> THEN <<ran, b>> ELSE Continue(b, ran, FastOrCodec(b, FastPath(b)))

(* The two collectors take what they recognise out of the buffer, and run  *)
(* it when there are at least BatchThreshold of them.                      *)
Kept(found) == IF Len(found) >= BatchThreshold THEN found ELSE <<>>

BothKept(found, s) == <<Kept(found) \o Kept(s[1]), s[2]>>

ThenSets(b, g) ==
  BothKept(g[1], IF Len(b) >= MinPipeline /\ Len(g[2]) >= MinPipeline
                 THEN CollectSetPairs(g[2], <<>>) ELSE <<<<>>, g[2]>>)

Batches(b) ==
  ThenSets(b, IF Len(b) >= MinPipeline THEN CollectGetKeys(b, <<>>) ELSE <<<<>>, b>>)

ThenSequential(t) == Sequential(t[2], t[1])

Drain(b) == ThenSequential(Batches(b))

-----------------------------------------------------------------------------
Bytes_(pipeline) == FlattenSeq([i \in DOMAIN pipeline |-> Encode(pipeline[i])])

FramingInit ==
  /\ sent \in Pipelines
  /\ arrived = 0
  /\ buffer = <<>>
  /\ done = <<>>
  /\ open = TRUE

(* One read of the socket returns any non-empty run of the bytes that are  *)
(* under way; a read that would overfill the buffer closes the connection. *)
Receive ==
  \E n \in 1..(Len(Bytes_(sent)) - arrived) :
    /\ open
    /\ arrived' = arrived + n
    /\ IF Len(buffer) + n > MaxBuffer
       THEN /\ open' = FALSE
            /\ UNCHANGED <<buffer, done>>
       ELSE \E r \in {Drain(buffer \o SubSeq(Bytes_(sent), arrived + 1, arrived + n))} :
            /\ done' = done \o r[1]
            /\ buffer' = r[2]
            /\ UNCHANGED open
    /\ UNCHANGED sent

FramingNext == Receive

-----------------------------------------------------------------------------
(* The pipeline up to the first bytes that are not RESP, and the requests  *)
(* of it that have arrived completely.                                     *)
Clean ==
  LET raw == {i \in DOMAIN sent : sent[i][1] = "raw"}
  IN  IF raw = {} THEN sent ELSE SubSeq(sent, 1, Min(raw) - 1)

ArrivedWhole ==
  LET whole(k) == Len(Bytes_(SubSeq(Clean, 1, k))) <= arrived
  IN  SubSeq(Clean, 1, Max({k \in 0..Len(Clean) : whole(k)}))

(* However the network cuts the byte stream into reads, the server has     *)
(* executed exactly the requests that have arrived completely, in order    *)
(* and with their bytes intact, and holds back exactly the bytes of the    *)
(* unfinished one: batch collectors, fast path and RespCodec never lose,   *)
(* repeat, reorder or tear a request.  Bytes that are not RESP do not undo *)
(* the requests before them.                                               *)
ChunkingInvisible ==
  open => IF arrived <= Len(Bytes_(Clean))
          THEN /\ done = ArrivedWhole
               /\ Bytes_(done) \o buffer = SubSeq(Bytes_(sent), 1, arrived)
          ELSE IsPrefix(Clean, done)


-----------------------------------------------------------------------------
(***************************************************************************)
(* parse_lua_command_bytes (redis/executor/script_ops.rs): the third       *)
(* command parser, for redis.call and redis.pcall inside a script.  It     *)
(* knows a subset of the commands and takes bulk strings only.             *)
(***************************************************************************)

LuaSortedSetForms(n, a) ==
  CASE n = "ZADD"   -> FlagPairs(a, "ZAdd", {"NX", "XX", "GT", "LT", "CH"})
    [] n = "ZREM"   -> Many(a, "ZRem", <<"str">>, "str", 1)
    [] n = "ZRANGE" -> Fixed(a, "ZRange", <<"str", "int", "int">>)
    [] n = "ZSCORE" -> Fixed(a, "ZScore", <<"str", "str">>)
    [] n = "ZCARD"  -> Fixed(a, "ZCard", <<"str">>)
    [] n = "ZCOUNT" -> Fixed(a, "ZCount", <<"str", "str", "str">>)
    [] n = "ZRANGEBYSCORE" -> WithOptions(a, "ZRangeByScore", <<"str", "str", "str">>,
                                [WITHSCORES |-> <<>>, LIMIT |-> <<"int", "usize">>], Err, {})
    [] OTHER        -> Err

LuaSetToHash(n, a) ==
  CASE n = "SADD"      -> Many(a, "SAdd", <<"str">>, "str", 1)
    [] n = "SREM"      -> Many(a, "SRem", <<"str">>, "str", 1)
    [] n = "SMEMBERS"  -> Fixed(a, "SMembers", <<"str">>)
    [] n = "EXISTS"    -> Many(a, "Exists", <<>>, "str", 1)
    [] n = "EXPIRE"    -> Fixed(a, "Expire", <<"str", "int">>)
    [] n = "TTL"       -> Fixed(a, "Ttl", <<"str">>)
    [] n = "TYPE"      -> Fixed(a, "TypeOf", <<"str">>)
    [] n = "HINCRBY"   -> Fixed(a, "HIncrBy", <<"str", "str", "int">>)
    [] n = "LRANGE"    -> Fixed(a, "LRange", <<"str", "int", "int">>)
    [] n = "RPOPLPUSH" -> Fixed(a, "RPopLPush", <<"str", "str">>)
    [] n = "LMOVE"     -> Fixed(a, "LMove", <<"str", "str", "side", "side">>)
    [] n = "HGETALL"   -> Fixed(a, "HGetAll", <<"str">>)
    [] n = "SISMEMBER" -> Fixed(a, "SIsMember", <<"str", "str">>)
    [] OTHER           -> LuaSortedSetForms(n, a)

LuaDelToLLen(n, a) ==
  CASE n = "DEL"    -> Many(a, "Del", <<>>, "str", 1)
    [] n = "INCR"   -> Fixed(a, "Incr", <<"str">>)
    [] n = "DECR"   -> Fixed(a, "Decr", <<"str">>)
    [] n = "INCRBY" -> Fixed(a, "IncrBy", <<"str", "int">>)
    [] n = "HGET"   -> Fixed(a, "HGet", <<"str", "str">>)
    [] n = "HSET"   -> Pairs(a, "HSet", <<"str">>, <<"str", "str">>, {})
    [] n = "HDEL"   -> Many(a, "HDel", <<"str">>, "str", 1)
    [] n = "LPUSH"  -> Many(a, "LPush", <<"str">>, "str", 1)
    [] n = "RPUSH"  -> Many(a, "RPush", <<"str">>, "str", 1)
    [] n = "LPOP"   -> Fixed(a, "LPop", <<"str">>)
    [] n = "RPOP"   -> Fixed(a, "RPop", <<"str">>)
    [] n = "LLEN"   -> Fixed(a, "LLen", <<"str">>)
    [] OTHER        -> LuaSetToHash(n, a)

(* SET from a script has no EXAT, PXAT or KEEPTTL, and NX and XX are not   *)
(* refused together.                                                       *)
LuaGetSet(n, a) ==
  CASE n = "GET" -> Fixed(a, "Get", <<"str">>)
    [] n = "SET" -> WithOptions(a, "Set", <<"str", "str">>,
                      Flag({"NX", "XX", "GET"}) @@ Valued({"EX", "PX"}, <<"int">>), Err, {})
    [] OTHER     -> LuaDelToLLen(n, a)

ParseLuaCommand(parts) ==
  IF parts = <<>> THEN Err ELSE LuaGetSet(Uppercase(parts[1]), Tail(parts))

-----------------------------------------------------------------------------
CONSTANTS Names,    \* the command names a line starts with
          Words(_), \* the words that may follow a name
          MaxWords  \* the longest line

VARIABLE line

vars == <<fvars, line>>

R == INSTANCE RespGrammar
Z == INSTANCE ZeroCopyGrammar

Init == FramingInit /\ line = <<>>

Speller == CHOOSE p \in Pipelines : TRUE

(* The client adds one word to its line.  The lines do not depend on the   *)
(* pipeline, so they are spelled beside one of them only.                  *)
Spell ==
  /\ arrived = 0 /\ sent = Speller
  /\ Len(line) < MaxWords
  /\ \E w \in IF line = <<>> THEN Names ELSE Words(line[1]) : line' = Append(line, w)
  /\ UNCHANGED fvars

Read == line = <<>> /\ FramingNext /\ UNCHANGED line

Next == Spell \/ Read

Spec == Init /\ [][Next]_vars

-----------------------------------------------------------------------------
(* The ACL subcommands only the zero-copy parser knows as stubs. *)
AclStub(l) ==
  Len(l) > 1 /\ Uppercase(l[1]) = "ACL" /\ Uppercase(l[2]) \in {"HELP", "LOAD", "SAVE"}

(* The two copies of the command parser, from_resp and                     *)
(* from_resp_zero_copy, take every request line to the same command, or    *)
(* both refuse it: a command does not change its meaning with the server   *)
(* (simulated or production) that reads it.                                *)
CopiesAgree(r, z) == ~AclStub(line) => r = z

(* A script's redis.call runs a command only if a client could send the    *)
(* same words, and runs the same command then; the one exception is SET    *)
(* with both NX and XX, which only a script may ask for.                   *)
LuaAgrees(l, z) ==
  l[1] = "ok" /\ ~({"NX", "XX"} \subseteq {p[1] : p \in l[5]}) => z = l

(* All three parsers give a request line one meaning.                      *)
Agree(r, z, l) == CopiesAgree(r, z) /\ LuaAgrees(l, z)

ParsersAgree == Agree(R!FromResp(line), Z!FromRespZeroCopy(line), ParseLuaCommand(line))
=============================================================================
