----------------------------- MODULE StringOps -----------------------------
(***************************************************************************)
(* The string, bitmap and counter commands of the executor.  c is the      *)
(* command, a record of its arguments.                                     *)
(***************************************************************************)
EXTENDS Keyspace

CONSTANTS MsPerSec,    \* milliseconds in a second, 1000 in the code
          EpochMs,     \* simulation_start_epoch_ms
          MaxString,   \* 512 MB in the code: the longest string SETRANGE makes
          MaxBit       \* MAX_BIT_OFFSET

Saturate(n) == MaxOf(-I64Max - 1, MinOf(n, I64Max))

(* A Unix timestamp in milliseconds as virtual time. *)
Relative(ms) == Saturate(ms - EpochMs)

Get(s, c) == WithKey(s, c.key, "string",
                     LAMBDA t, b : Reply(t, Bulk(b)), LAMBDA t : Reply(t, Nil))

SetNx(s, c) ==
  IF Exists(s, c.key) THEN Reply(s, Num(0))
  ELSE Reply(NoExpiry(Store(s, c.key, Str(c.val)), c.key), Num(1))

(* The time option of SET and GETEX, [kind, n], and the time it names. *)
BadTime(ttl) ==
  \/ ttl.kind = "EX" /\ (ttl.n <= 0 \/ ttl.n > I64Max \div MsPerSec)
  \/ ttl.kind \in {"PX", "EXAT", "PXAT"} /\ ttl.n <= 0

Deadline(s, ttl) ==
  CASE ttl.kind = "EX"   -> s.now + ttl.n * MsPerSec
    [] ttl.kind = "PX"   -> s.now + ttl.n
    [] ttl.kind = "EXAT" -> Relative(Saturate(ttl.n * MsPerSec))
    [] ttl.kind = "PXAT" -> Relative(ttl.n)

(* An absolute time before the start of the server removes the key; one    *)
(* between the start and now is stored as it is, already passed.           *)
ApplyDeadline(s, k, ttl) ==
  IF Deadline(s, ttl) <= 0 THEN Drop(s, k) ELSE Expire(s, k, Deadline(s, ttl))

SetCmd(s, c) ==
  LET t       == IF c.get THEN Touch(s, c.key) ELSE s
      exists  == Exists(t, c.key)
      old     == IF c.get /\ exists THEN Bulk(Content(t.data[c.key])) ELSE Nil
      stored  == Store(t, c.key, Str(c.val))
      done    == CASE c.ttl.kind = "KEEPTTL" -> stored
                   [] c.ttl.kind = "NONE"    -> NoExpiry(stored, c.key)
                   [] OTHER                  -> ApplyDeadline(stored, c.key, c.ttl)
  IN  IF BadTime(c.ttl) THEN Reply(s, Error)
      ELSE IF c.get /\ exists /\ Type(t.data[c.key]) # "string" THEN Reply(t, WrongType)
      ELSE IF c.cond = "NX" /\ exists THEN Reply(t, old)
      ELSE IF c.cond = "XX" /\ ~exists THEN Reply(t, Nil)
      ELSE Reply(done, IF c.get THEN old ELSE OK)

(* get_direct and set_direct, the fast paths past the command enum. *)
GetDirect(s, c) == Get(s, c)
SetDirect(s, c) == Reply(NoExpiry(Store(s, c.key, Str(c.val)), c.key), OK)

AppendCmd(s, c) ==
  WithKey(s, c.key, "string",
          LAMBDA t, b : Reply(Store(t, c.key, Str(b \o c.val)), Num(Len(b \o c.val))),
          LAMBDA t : Reply(Store(t, c.key, Str(c.val)), Num(Len(c.val))))

(* GETSET leaves the expiration alone. *)
GetSet(s, c) ==
  WithKey(s, c.key, "string",
          LAMBDA t, b : Reply(Store(t, c.key, Str(c.val)), Bulk(b)),
          LAMBDA t : Reply(Store(t, c.key, Str(c.val)), Nil))

StrLen(s, c) == WithKey(s, c.key, "string",
                        LAMBDA t, b : Reply(t, Num(Len(b))), LAMBDA t : Reply(t, Num(0)))

(* MGET and BATCHGET: a key of another type reads as nil, and every key    *)
(* read is touched.                                                        *)
MGet(s, c) ==
  LET t == FoldLeft(Touch, s, c.keys)
  IN  Reply(t, Options([i \in DOMAIN c.keys |->
                        IF c.keys[i] \in DOMAIN t.data /\ Type(t.data[c.keys[i]]) = "string"
                        THEN Bulk(Content(t.data[c.keys[i]])) ELSE Nil]))

StorePairs(s, pairs) == FoldLeft(LAMBDA t, p : Store(t, p[1], Str(p[2])), s, pairs)

(* MSET and BATCHSET store over whatever is there and leave the            *)
(* expirations alone; so does MSETNX, whose keys may hold a past one.      *)
MSet(s, c) == Reply(StorePairs(s, c.pairs), OK)

MSetNx(s, c) ==
  IF \E i \in DOMAIN c.pairs : Exists(s, c.pairs[i][1]) THEN Reply(s, Num(0))
  ELSE Reply(StorePairs(s, c.pairs), Num(1))

(* Mutation: a negative end is not clamped to the start of the string. *)
GetRangeUnclamped(s, c) ==
  LET Start(n) == IF c.start < 0 THEN MaxOf(n + c.start, 0) ELSE MinOf(c.start, n)
      End(n)   == IF c.stop < 0 THEN n + c.stop ELSE c.stop
  IN  WithKey(s, c.key, "string",
              LAMBDA t, b : Reply(t, Bulk(SubSeq(b, Start(Len(b)) + 1, MinOf(End(Len(b)), Len(b) - 1)))),
              LAMBDA t : Reply(t, Bulk(<<>>)))

GetRange(s, c) ==
  LET Start(n) == IF c.start < 0 THEN MaxOf(n + c.start, 0) ELSE MinOf(c.start, n)
      End(n)   == IF c.stop < 0 THEN MaxOf(n + c.stop, 0) ELSE MinOf(c.stop, n - 1)
  IN  WithKey(s, c.key, "string",
              LAMBDA t, b :
                Reply(t, Bulk(IF b = <<>> \/ Start(Len(b)) > End(Len(b)) \/ Start(Len(b)) >= Len(b)
                              THEN <<>>
                              ELSE SubSeq(b, Start(Len(b)) + 1, End(Len(b)) + 1))),
              LAMBDA t : Reply(t, Bulk(<<>>)))

Zeros(n) == [i \in 1..n |-> 0]
Padded(b, n) == IF n > Len(b) THEN b \o Zeros(n - Len(b)) ELSE b

(* val written over b from the zero-based offset on. *)
Overwrite(b, offset, val) ==
  LET room == Padded(b, offset + Len(val))
  IN  [i \in DOMAIN room |->
         IF i > offset /\ i <= offset + Len(val) THEN val[i - offset] ELSE room[i]]

Written(t, k, w) == Reply(Store(t, k, Str(w)), Num(Len(w)))

SetRange(s, c) ==
  LET needed == c.offset + Len(c.val)
      Write(t, b) == Written(t, c.key, Overwrite(b, c.offset, c.val))
  IN  IF needed > MaxString THEN Reply(s, Error)
      ELSE WithKey(s, c.key, "string", Write,
                   LAMBDA t : IF needed = 0 THEN Reply(t, Num(0)) ELSE Write(t, <<>>))

Mask(offset)   == 2 ^ (7 - (offset % 8))
Bit(b, offset) == IF offset \div 8 >= Len(b) THEN 0
                  ELSE (b[offset \div 8 + 1] \div Mask(offset)) % 2

BitSet(t, c, room) ==
  Reply(Store(t, c.key, Str([room EXCEPT ![c.offset \div 8 + 1] =
                               @ + ((c.bit - Bit(room, c.offset)) * Mask(c.offset))])),
        Num(Bit(room, c.offset)))

SetBit(s, c) ==
  LET Write(t, b) == BitSet(t, c, Padded(b, c.offset \div 8 + 1))
  IN  IF c.offset >= MaxBit THEN Reply(s, Error)
      ELSE WithKey(s, c.key, "string", Write, LAMBDA t : Write(t, <<>>))

GetBit(s, c) ==
  IF c.offset >= MaxBit THEN Reply(s, Error)
  ELSE WithKey(s, c.key, "string",
               LAMBDA t, b : Reply(t, Num(Bit(b, c.offset))), LAMBDA t : Reply(t, Num(0)))

GetEx(s, c) ==
  WithKey(s, c.key, "string",
          LAMBDA t, b :
            IF c.ttl.kind \in {"EX", "PX"} /\ BadTime(c.ttl) THEN Reply(t, Error)
            ELSE Reply(CASE c.ttl.kind = "NONE"    -> t
                         [] c.ttl.kind = "PERSIST" -> NoExpiry(t, c.key)
                         [] OTHER                  -> ApplyDeadline(t, c.key, c.ttl),
                       Bulk(b)),
          LAMBDA t : Reply(t, Nil))

GetDel(s, c) == WithKey(s, c.key, "string",
                        LAMBDA t, b : Reply(Drop(t, c.key), Bulk(b)),
                        LAMBDA t : Reply(t, Nil))

(* INCR, DECR, INCRBY and, with the decrement negated, DECRBY. *)
IncrBy(s, c) ==
  LET Count(t, n) == Reply(Store(t, c.key, Str(FormatInt(n))), Num(n))
  IN  IF ~InI64(c.n) THEN Reply(s, Error)
      ELSE WithKey(s, c.key, "string",
                   LAMBDA t, b : IF IsI64(b) /\ InI64(I64Of(b) + c.n)
                                 THEN Count(t, I64Of(b) + c.n) ELSE Reply(t, Error),
                   LAMBDA t : Count(t, c.n))

BulkStored(t, k, v) == Reply(Store(t, k, Str(v)), Bulk(v))

(* The increment is finite; a stored infinity makes the sum one. *)
IncrByFloat(s, c) ==
  LET Sum(t, n) == BulkStored(t, c.key, FormatFloat(n))
  IN  WithKey(s, c.key, "string",
              LAMBDA t, b : IF IsFinite(b) THEN Sum(t, TenthsOf(b) + c.n) ELSE Reply(t, Error),
              LAMBDA t : Sum(t, c.n))
=============================================================================
