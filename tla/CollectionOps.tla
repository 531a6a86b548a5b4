--------------------------- MODULE CollectionOps ---------------------------
(***************************************************************************)
(* The list, set, hash and sorted set commands of the executor.            *)
(***************************************************************************)
EXTENDS KeyOps, Bytes

-----------------------------------------------------------------------------
(***************************************************************************)
(* The values behind the list, set and hash commands: RedisList as a       *)
(* sequence of byte strings, RedisSet as a set of strings and RedisHash as *)
(* a function from strings to byte strings.  Members and fields are kept   *)
(* as strings, so their bytes are decoded on the way in; list elements and *)
(* hash values stay bytes.  The methods that a command calls once for each *)
(* of its arguments take the sequence of the arguments.                    *)
(***************************************************************************)

----------------------------------------------------------------------------
(* RedisList *)

ListLPush(l, vals) == Reverse(vals) \o l

ListRPush(l, vals) == l \o vals

\* lpop and rpop: the element and the list without it.
ListLPop(l) == [item |-> Head(l), rest |-> Tail(l)]

ListRPop(l) == [item |-> Last(l), rest |-> Front(l)]

\* A signed index as a position, outside DOMAIN l when out of range.
ListPosition(l, index) == (IF index < 0 THEN Len(l) + index ELSE index) + 1

ListHas(l, index) == ListPosition(l, index) \in DOMAIN l

ListGet(l, index) == l[ListPosition(l, index)]

ListSet(l, index, v) == ReplaceAt(l, ListPosition(l, index), v)

\* trim clears the list when the range is empty.
ListTrim(l, start, stop) == RangeOf(l, start, stop)

----------------------------------------------------------------------------
(* RedisSet *)

SetAdd(m, vals) == m \cup {Utf8Lossy(vals[i]) : i \in DOMAIN vals}

SetRemove(m, vals) == m \ {Utf8Lossy(vals[i]) : i \in DOMAIN vals}

SetContains(m, v) == Utf8Lossy(v) \in m

\* pop and pop_count take what the table's iteration yields first; the order
\* given is any order of the members.
SetPopCount(m, count, order) ==
  LET o == SelectSeq(order, LAMBDA x : x \in m)
  IN  SubSeq(o, 1, MinOf(count, Len(o)))

SetPop(m, order) == SetPopCount(m, 1, order)[1]

----------------------------------------------------------------------------
(* RedisHash *)

HashSet(h, f, v) == (Utf8Lossy(f) :> v) @@ h

HashExists(h, f) == Utf8Lossy(f) \in DOMAIN h

HashGet(h, f) == h[Utf8Lossy(f)]

HashDelete(h, fields) == [x \in SetRemove(DOMAIN h, fields) |-> h[x]]

HashGetAll(h) == {<<f, h[f]>> : f \in DOMAIN h}

\* The values, in field order for want of the table's.
HashValues(h) == LET fs == SortStrings(DOMAIN h) IN [i \in DOMAIN fs |-> h[fs[i]]]

-----------------------------------------------------------------------------
----------------------------------------------------------------------------
(* Lists *)

LPush(s, c) ==
  WithEntry(s, c.key, "list", <<>>,
            LAMBDA t, l : Reply(Store(t, c.key, List(ListLPush(l, c.vals))),
                                Num(Len(l) + Len(c.vals))))

RPush(s, c) ==
  WithEntry(s, c.key, "list", <<>>,
            LAMBDA t, l : Reply(Store(t, c.key, List(ListRPush(l, c.vals))),
                                Num(Len(l) + Len(c.vals))))

LPop(s, c) ==
  WithKey(s, c.key, "list",
          LAMBDA t, l : IF l = <<>> THEN Reply(Drop(t, c.key), Nil)
                        ELSE Reply(StoreOrDrop(t, c.key, List(ListLPop(l).rest)),
                                   Bulk(ListLPop(l).item)),
          LAMBDA t : Reply(t, Nil))

RPop(s, c) ==
  WithKey(s, c.key, "list",
          LAMBDA t, l : IF l = <<>> THEN Reply(Drop(t, c.key), Nil)
                        ELSE Reply(StoreOrDrop(t, c.key, List(ListRPop(l).rest)),
                                   Bulk(ListRPop(l).item)),
          LAMBDA t : Reply(t, Nil))

LLen(s, c) == WithKey(s, c.key, "list",
                      LAMBDA t, l : Reply(t, Num(Len(l))), LAMBDA t : Reply(t, Num(0)))

LIndex(s, c) ==
  WithKey(s, c.key, "list",
          LAMBDA t, l : Reply(t, IF ListHas(l, c.index) THEN Bulk(ListGet(l, c.index)) ELSE Nil),
          LAMBDA t : Reply(t, Nil))

LRange(s, c) == WithKey(s, c.key, "list",
                        LAMBDA t, l : Reply(t, Array(RangeOf(l, c.start, c.stop))),
                        LAMBDA t : Reply(t, Array(<<>>)))

LSet(s, c) ==
  WithKey(s, c.key, "list",
          LAMBDA t, l : IF ListHas(l, c.index)
                        THEN Reply(Store(t, c.key, List(ListSet(l, c.index, c.val))), OK)
                        ELSE Reply(t, Error),
          LAMBDA t : Reply(t, Error))

LTrim(s, c) ==
  WithKey(s, c.key, "list",
          LAMBDA t, l : Reply(StoreOrDrop(t, c.key, List(ListTrim(l, c.start, c.stop))), OK),
          LAMBDA t : Reply(t, OK))

(* LMOVE, and RPOPLPUSH as its RIGHT LEFT form: the element leaves the     *)
(* source before the type of the destination is looked at.                 *)
LMove(s, c) ==
  LET Popped(l) == IF c.from = "LEFT" THEN ListLPop(l) ELSE ListRPop(l)
      Push(t, v) ==
        WithEntry(t, c.dst, "list", <<>>,
                  LAMBDA u, l : Reply(Store(u, c.dst, List(IF c.to = "LEFT" THEN ListLPush(l, <<v>>)
                                                           ELSE ListRPush(l, <<v>>))),
                                      Bulk(v)))
  IN  WithKey(s, c.key, "list",
              LAMBDA t, l :
                IF l = <<>> THEN Reply(t, Nil)
                ELSE Push(StoreOrDrop(t, c.key, List(Popped(l).rest)), Popped(l).item),
              LAMBDA t : Reply(t, Nil))

----------------------------------------------------------------------------
(* Sets *)

SAdd(s, c) ==
  WithEntry(s, c.key, "set", {},
            LAMBDA t, m : LET new == SetAdd(m, c.vals)
                          IN  Reply(Store(t, c.key, SetV(new)), Num(Cardinality(new \ m))))

SRem(s, c) ==
  WithKey(s, c.key, "set",
          LAMBDA t, m : LET new == SetRemove(m, c.vals)
                        IN  Reply(StoreOrDrop(t, c.key, SetV(new)), Num(Cardinality(m \ new))),
          LAMBDA t : Reply(t, Num(0)))

SMembers(s, c) == WithKey(s, c.key, "set",
                          LAMBDA t, m : Reply(t, Set(m)), LAMBDA t : Reply(t, Set({})))

SIsMember(s, c) ==
  WithKey(s, c.key, "set",
          LAMBDA t, m : Reply(t, Num(IF SetContains(m, c.val) THEN 1 ELSE 0)),
          LAMBDA t : Reply(t, Num(0)))

SCard(s, c) == WithKey(s, c.key, "set",
                       LAMBDA t, m : Reply(t, Num(Cardinality(m))), LAMBDA t : Reply(t, Num(0)))

(* The command carries the order the table's iteration has; without a      *)
(* count (-1) one member is popped and is the answer.                      *)
PopReply(t, c, m, p) ==
  Reply(StoreOrDrop(t, c.key, SetV(m \ ToSet(p))), IF c.count = -1 THEN Bulk(p[1]) ELSE Array(p))

SPop(s, c) ==
  WithKey(s, c.key, "set",
          LAMBDA t, m : PopReply(t, c, m, IF c.count = -1 THEN <<SetPop(m, c.order)>>
                                          ELSE SetPopCount(m, c.count, c.order)),
          LAMBDA t : Reply(t, IF c.count = -1 THEN Nil ELSE Array(<<>>)))

----------------------------------------------------------------------------
(* Hashes *)

HSet(s, c) ==
  WithEntry(s, c.key, "hash", <<>>,
            LAMBDA t, h :
              LET new == FoldLeft(LAMBDA g, p : HashSet(g, p[1], p[2]), h, c.pairs)
              IN  Reply(Store(t, c.key, Hash(new)), Num(Cardinality(DOMAIN new \ DOMAIN h))))

HGet(s, c) ==
  WithKey(s, c.key, "hash",
          LAMBDA t, h : Reply(t, IF HashExists(h, c.field) THEN Bulk(HashGet(h, c.field)) ELSE Nil),
          LAMBDA t : Reply(t, Nil))

HDel(s, c) ==
  WithKey(s, c.key, "hash",
          LAMBDA t, h :
            LET new == HashDelete(h, c.fields)
            IN  Reply(StoreOrDrop(t, c.key, Hash(new)), Num(Cardinality(DOMAIN h \ DOMAIN new))),
          LAMBDA t : Reply(t, Num(0)))

HGetAll(s, c) == WithKey(s, c.key, "hash",
                         LAMBDA t, h : Reply(t, Set(HashGetAll(h))), LAMBDA t : Reply(t, Set({})))
HKeys(s, c)   == WithKey(s, c.key, "hash",
                         LAMBDA t, h : Reply(t, Set(DOMAIN h)), LAMBDA t : Reply(t, Set({})))
HVals(s, c)   == WithKey(s, c.key, "hash",
                         LAMBDA t, h : Reply(t, Array(HashValues(h))),
                         LAMBDA t : Reply(t, Array(<<>>)))
HLen(s, c)    == WithKey(s, c.key, "hash",
                         LAMBDA t, h : Reply(t, Num(Cardinality(DOMAIN h))),
                         LAMBDA t : Reply(t, Num(0)))
HExists(s, c) == WithKey(s, c.key, "hash",
                         LAMBDA t, h : Reply(t, Num(IF HashExists(h, c.field) THEN 1 ELSE 0)),
                         LAMBDA t : Reply(t, Num(0)))

(* The hash is created before the old value is parsed; an absent field     *)
(* counts as 0, which never overflows, so an error leaves no empty hash.   *)
FieldCounted(t, c, h, old) ==
  IF IsI64(old) /\ InI64(I64Of(old) + c.n)
  THEN Reply(Store(t, c.key, Hash(HashSet(h, c.field, FormatInt(I64Of(old) + c.n)))),
             Num(I64Of(old) + c.n))
  ELSE Reply(t, Error)

HIncrBy(s, c) ==
  WithEntry(s, c.key, "hash", <<>>,
            LAMBDA t, h :
              FieldCounted(t, c, h, IF HashExists(h, c.field) THEN HashGet(h, c.field) ELSE <<48>>))

HashPageReply(h, p) ==
  Array(<<Bulk(FormatInt(p.cursor)), Array([i \in DOMAIN p.page |-> <<p.page[i], h[p.page[i]]>>])>>)

HScan(s, c) ==
  WithKey(s, c.key, "hash",
          LAMBDA t, h :
            Reply(t, HashPageReply(h, Page(SortStrings({f \in DOMAIN h : GlobMatch(f, c.pattern)}),
                                           c.cursor, c.count))),
          LAMBDA t : Reply(t, Array(<<Bulk(<<48>>), Array(<<>>)>>)))

----------------------------------------------------------------------------
(* Sorted sets *)

(* ZADD flags NX, XX, GT, LT; CH counts changes instead of additions.  The *)
(* set is created first, whether or not a pair passes its flags.           *)
Admitted(zs, flags, m, sc) ==
  LET old == ZsetHas(zs, m)
  IN  /\ "NX" \in flags => ~old
      /\ "XX" \in flags => old
      /\ "GT" \in flags /\ old => sc > Score(zs, m)
      /\ "LT" \in flags /\ old => sc < Score(zs, m)

PairAdded(acc, flags, m, sc) ==
  LET old == ZsetHas(acc.zs, m)
  IN  IF ~Admitted(acc.zs, flags, m, sc) THEN acc
      ELSE [zs      |-> ZsetAdd(acc.zs, m, sc),
            added   |-> acc.added + (IF old THEN 0 ELSE 1),
            changed |-> acc.changed + (IF old /\ Score(acc.zs, m) = sc THEN 0 ELSE 1)]

AddedReply(t, c, end) ==
  Reply(Store(t, c.key, Zset(end.zs)), Num(IF "CH" \in c.flags THEN end.changed ELSE end.added))

ZAdd(s, c) ==
  WithEntry(s, c.key, "zset", EmptyZset,
            LAMBDA t, zs :
              AddedReply(t, c, FoldLeft(LAMBDA acc, p : PairAdded(acc, c.flags, Utf8Lossy(p[2]), p[1]),
                                        [zs |-> zs, added |-> 0, changed |-> 0], c.pairs)))

ZRem(s, c) ==
  WithKey(s, c.key, "zset",
          LAMBDA t, zs :
            LET gone == DOMAIN zs.members \ SetRemove(DOMAIN zs.members, c.vals)
            IN  Reply(StoreOrDrop(t, c.key, Zset(FoldLeft(ZsetRemove, zs, SetToSeq(gone)))),
                      Num(Cardinality(gone))),
          LAMBDA t : Reply(t, Num(0)))

ZRead(s, c, F(_), absent) ==
  WithKey(s, c.key, "zset", LAMBDA t, zs : Reply(t, F(zs)), LAMBDA t : Reply(t, absent))

ZRange(s, c) ==
  ZRead(s, c, LAMBDA zs : Array(IF c.rev THEN ZsetRevRange(zs, c.start, c.stop)
                                ELSE ZsetRange(zs, c.start, c.stop)), Array(<<>>))

ZScore(s, c) ==
  ZRead(s, c, LAMBDA zs : IF ZsetHas(zs, Utf8Lossy(c.val)) THEN Num(Score(zs, Utf8Lossy(c.val)))
                          ELSE Nil, Nil)

RankReply(r) == IF r < 0 THEN Nil ELSE Num(r)

ZRank(s, c) ==
  ZRead(s, c, LAMBDA zs : RankReply(ZsetRank(zs, Utf8Lossy(c.val))), Nil)

ZCard(s, c) == ZRead(s, c, LAMBDA zs : Num(ZsetLen(zs)), Num(0))

ZCount(s, c) == ZRead(s, c, LAMBDA zs : Num(Len(ZsetByScore(zs, c.lo, c.hi))), Num(0))

(* ZRANGEBYSCORE with LIMIT offset count; a negative offset counts as 0. *)
ZRangeByScore(s, c) ==
  ZRead(s, c, LAMBDA zs : LET all  == ZsetByScore(zs, c.lo, c.hi)
                              from == MaxOf(c.offset, 0)
                          IN  Array(SubSeq(all, from + 1, MinOf(from + c.count, Len(all)))),
        Array(<<>>))

ZScan(s, c) ==
  ZRead(s, c, LAMBDA zs :
                PageReply(Page(SortSeq(SelectSeq(zs.order, LAMBDA e : GlobMatch(e.member, c.pattern)),
                                       LAMBDA e, f : LexLess(e.member, f.member)),
                               c.cursor, c.count)),
        Array(<<Bulk(<<48>>), Array(<<>>)>>))
=============================================================================
