------------------------------- MODULE KeyOps -------------------------------
(***************************************************************************)
(* The commands on keys of any type: deletion, expiration, renaming,       *)
(* scanning, sorting and OBJECT.                                           *)
(***************************************************************************)
EXTENDS StringOps

(* DEL counts every stored key, expired or not. *)
Del(s, c) ==
  Reply(FoldLeft(Drop, s, c.keys), Num(Cardinality(ToSet(c.keys) \cap DOMAIN s.data)))

ExistsCmd(s, c) == Reply(s, Num(Len(SelectSeq(c.keys, LAMBDA k : Exists(s, k)))))

TypeOf(s, c) ==
  LET t == Touch(s, c.key)
  IN  Reply(t, Simple(IF c.key \in DOMAIN t.data THEN Type(t.data[c.key]) ELSE "none"))

KeysCmd(s, c) == Reply(s, Set({k \in Live(s) : GlobMatch(k, c.pattern)}))

DbSize(s, c) == Reply(s, Num(Cardinality(Live(s))))

RandomKey(s, c) == Reply(s, IF Live(s) = {} THEN Nil ELSE Set(Live(s)))

Flush(s, c) == Reply([s EXCEPT !.data = <<>>, !.exp = <<>>], OK)

(* EXPIRE and PEXPIRE with the flag NX, XX, GT or LT; the interval is      *)
(* refused when it cannot be added to the clock, and removes the key when  *)
(* it is not positive, whatever the flag.                                  *)
Flagged(s, k, flag, new) ==
  CASE flag = "NX" -> k \notin DOMAIN s.exp
    [] flag = "XX" -> k \in DOMAIN s.exp
    [] flag = "GT" -> k \in DOMAIN s.exp /\ new > s.exp[k]
    [] flag = "LT" -> k \in DOMAIN s.exp => new < s.exp[k]
    [] OTHER       -> TRUE

ExpireIn(s, c, ms) ==
  IF ~Exists(s, c.key) THEN Reply(s, Num(0))
  ELSE IF ms <= 0 THEN Reply(Drop(s, c.key), Num(1))
  ELSE IF Flagged(s, c.key, c.flag, s.now + ms)
       THEN Reply(Expire(s, c.key, s.now + ms), Num(1))
       ELSE Reply(s, Num(0))

PastMax(s, ms) == ms > 0 /\ ms > I64Max - (EpochMs + s.now)

ExpireCmd(s, c) ==
  IF \/ c.n > I64Max \div MsPerSec
     \/ c.n < -((I64Max + 1) \div MsPerSec)
     \/ PastMax(s, c.n * MsPerSec)
  THEN Reply(s, Error)
  ELSE ExpireIn(s, c, c.n * MsPerSec)

PExpire(s, c) ==
  IF PastMax(s, c.n) \/ c.n < -((I64Max + 1) \div 2) THEN Reply(s, Error)
  ELSE ExpireIn(s, c, c.n)

(* EXPIREAT and PEXPIREAT: a time that has passed removes the key. *)
ExpireTo(s, c, at) ==
  IF ~Exists(s, c.key) THEN Reply(s, Num(0))
  ELSE Reply(IF at <= s.now THEN Drop(s, c.key) ELSE Expire(s, c.key, at), Num(1))

ExpireAt(s, c)  == ExpireTo(s, c, Relative(Saturate(c.n * MsPerSec)))
PExpireAt(s, c) == ExpireTo(s, c, Relative(c.n))

(* -2 for a missing key, -1 for one that does not expire. *)
Remaining(s, c, F(_)) ==
  Reply(s, Num(IF ~Exists(s, c.key) THEN -2
               ELSE IF c.key \notin DOMAIN s.exp THEN -1 ELSE F(s.exp[c.key])))

Ttl(s, c)  == Remaining(s, c, LAMBDA e : MaxOf((e - s.now + MsPerSec - 1) \div MsPerSec, 0))
PTtl(s, c) == Remaining(s, c, LAMBDA e : MaxOf(e - s.now, 0))
ExpireTime(s, c)  == Remaining(s, c, LAMBDA e : (EpochMs + e) \div MsPerSec)
PExpireTime(s, c) == Remaining(s, c, LAMBDA e : EpochMs + e)

Persist(s, c) ==
  IF Exists(s, c.key) /\ c.key \in DOMAIN s.exp
  THEN Reply(NoExpiry(s, c.key), Num(1)) ELSE Reply(s, Num(0))

(* The value moves with its expiration, over whatever dst held. *)
Move(s, src, dst) ==
  LET moved == Store(Drop(s, src), dst, s.data[src])
  IN  IF src \in DOMAIN s.exp THEN Expire(moved, dst, s.exp[src]) ELSE NoExpiry(moved, dst)

Rename(s, c) ==
  IF ~Exists(s, c.key) THEN Reply(s, Error) ELSE Reply(Move(s, c.key, c.dst), OK)

RenameNx(s, c) ==
  IF ~Exists(s, c.key) THEN Reply(s, Error)
  ELSE IF Exists(s, c.dst) THEN Reply(s, Num(0))
  ELSE Reply(Move(s, c.key, c.dst), Num(1))

(* OBJECT ENCODING, REFCOUNT, IDLETIME, FREQ and DEBUG OBJECT all answer    *)
(* for the touched key; the encodings of short values are the only ones     *)
(* the modelled values reach.                                               *)
ObjectEncoding(s, c) ==
  LET t == Touch(s, c.key)
  IN  Reply(t, IF c.key \notin DOMAIN t.data THEN Error
               ELSE Simple(IF Type(t.data[c.key]) # "string" THEN "listpack"
                           ELSE IF IsI64(Content(t.data[c.key])) THEN "int" ELSE "embstr"))

ObjectInfo(s, c) ==
  LET t == Touch(s, c.key)
  IN  Reply(t, IF c.key \in DOMAIN t.data THEN Num(IF c.what = "REFCOUNT" THEN 1 ELSE 0) ELSE Error)

(* A page of a sorted sequence by position: the keys after the cursor and  *)
(* the next cursor, 0 when the page reaches the end (SCAN, HSCAN, ZSCAN).  *)
Page(all, cursor, count) ==
  LET rest == SubSeq(all, cursor + 1, Len(all))
  IN  IF Len(rest) > count THEN [cursor |-> cursor + count, page |-> SubSeq(rest, 1, count)]
      ELSE [cursor |-> 0, page |-> rest]

PageReply(p) == Array(<<Bulk(FormatInt(p.cursor)), Array(p.page)>>)

Scan(s, c) ==
  Reply(s, PageReply(Page(SortStrings({k \in Live(s) : GlobMatch(k, c.pattern)}),
                          c.cursor, c.count)))

(* SORT of a list or a set, by bytes, with an optional destination. *)
SortSeqBytes(l) == SortSeq(l, LexLess)

SortedReply(t, c, sorted) ==
  IF ~c.store THEN Reply(t, Array(sorted))
  ELSE Reply(IF sorted = <<>> THEN Drop(t, c.dst)
             ELSE NoExpiry(Store(t, c.dst, List(sorted)), c.dst),
             Num(Len(sorted)))

SortValue(t, c, v) ==
  CASE Type(v) = "set"  -> SortedReply(t, c, SortStrings(Content(v)))
    [] Type(v) = "list" -> SortedReply(t, c, SortSeqBytes(Content(v)))
    [] OTHER            -> Reply(t, WrongType)

SortCmd(s, c) ==
  LET t == Touch(s, c.key)
  IN  SortValue(t, c, IF c.key \in DOMAIN t.data THEN t.data[c.key] ELSE List(<<>>))

(* execute_readonly, the commands the replicated state may answer without  *)
(* touching a key; every other command is an error.                        *)
ExecuteReadonly(s, c) ==
  CASE c.op = "GET" ->
         Reply(s, IF ~Exists(s, c.key) THEN Nil
                  ELSE IF Type(s.data[c.key]) = "string" THEN Bulk(Content(s.data[c.key]))
                  ELSE WrongType)
    [] c.op = "EXISTS" -> ExistsCmd(s, c)
    [] c.op = "KEYS"   -> KeysCmd(s, c)
    [] OTHER           -> Reply(s, Error)
=============================================================================
