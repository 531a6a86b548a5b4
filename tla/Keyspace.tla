------------------------------ MODULE Keyspace ------------------------------
(***************************************************************************)
(* The state of a CommandExecutor and the way every command reaches it.    *)
(*                                                                         *)
(* A state is [data, exp, now]: data maps the stored keys to values, exp   *)
(* maps keys to the virtual time (ms) at which they expire, now is         *)
(* current_time.  A value is a pair of its type and its content.  A        *)
(* command is a function of the state: it yields the new state and the     *)
(* reply, [s, r].  Replies are tuples headed by their RESP kind.           *)
(***************************************************************************)
EXTENDS SortedSet

WrongType == <<"error", "WRONGTYPE">>
Error     == <<"error", "ERR">>
OK        == <<"simple", "OK">>
Nil       == <<"nil">>
Num(n)    == <<"int", n>>
Bulk(b)   == <<"bulk", b>>
Simple(x) == <<"simple", x>>
Array(xs) == <<"array", xs>>
Options(xs) == <<"options", xs>>   \* an array of replies, some of them nil
Set(xs)   == <<"set", xs>>     \* an array in hash-table order

IsError(r) == r[1] = "error"
IsInt(r)   == r[1] = "int"

Reply(s, r) == [s |-> s, r |-> r]

EmptyState == [data |-> <<>>, exp |-> <<>>, now |-> 0]

Put(f, k, v)  == k :> v @@ f
Without(f, k) == [x \in DOMAIN f \ {k} |-> f[x]]

Type(v)    == v[1]
Content(v) == v[2]

Str(b)  == <<"string", b>>
List(l) == <<"list", l>>
SetV(m) == <<"set", m>>
Hash(h) == <<"hash", h>>
Zset(z) == <<"zset", z>>

IsExpired(s, k) == k \in DOMAIN s.exp /\ s.exp[k] <= s.now

(* Mutation: a key counts as present until it is removed. *)
ExistsStored(s, k) == k \in DOMAIN s.data

(* The key is stored and has not expired. *)
Exists(s, k) == ~IsExpired(s, k) /\ k \in DOMAIN s.data

(* Mutation: the value goes and its expiration stays. *)
DropValueOnly(s, k) == [s EXCEPT !.data = Without(@, k)]

Drop(s, k)      == [s EXCEPT !.data = Without(@, k), !.exp = Without(@, k)]
Store(s, k, v)  == [s EXCEPT !.data = Put(@, k, v)]
Expire(s, k, t) == [s EXCEPT !.exp = Put(@, k, t)]
NoExpiry(s, k)  == [s EXCEPT !.exp = Without(@, k)]

(* get_value, get_value_mut: reading an expired key removes it. *)
Touch(s, k) == IF IsExpired(s, k) THEN Drop(s, k) ELSE s

(* The shape of most commands: touch the key, then act on its content when *)
(* it holds a value of type ty, or on its absence; any other type is an    *)
(* error that changes nothing else.                                        *)
WithTouched(t, k, ty, Some(_, _), Absent(_)) ==
  IF k \notin DOMAIN t.data THEN Absent(t)
  ELSE IF Type(t.data[k]) # ty THEN Reply(t, WrongType)
  ELSE Some(t, Content(t.data[k]))

WithKey(s, k, ty, Some(_, _), Absent(_)) == WithTouched(Touch(s, k), k, ty, Some, Absent)

(* entry(key).or_insert_with(new): the same with a fresh value stored for  *)
(* an absent key.                                                          *)
WithEntry(s, k, ty, new, Some(_, _)) ==
  WithKey(s, k, ty, Some, LAMBDA t : Some(Store(t, k, <<ty, new>>), new))

(* Redis removes a collection that became empty. *)
IsEmptyOf(v) ==
  CASE Type(v) = "string" -> FALSE
    [] Type(v) = "list"   -> Content(v) = <<>>
    [] Type(v) = "set"    -> Content(v) = {}
    [] Type(v) = "hash"   -> DOMAIN Content(v) = {}
    [] Type(v) = "zset"   -> DOMAIN Content(v).members = {}

StoreOrDrop(s, k, v) == IF IsEmptyOf(v) THEN Drop(s, k) ELSE Store(s, k, v)

(* evict_expired_keys, called by set_time, and evict_expired_direct, called *)
(* by the TTL manager: the clock moves and every expired key goes.          *)
SetTime(s, t) ==
  LET gone == {k \in DOMAIN s.exp : s.exp[k] <= t}
  IN  [data |-> [k \in DOMAIN s.data \ gone |-> s.data[k]],
       exp  |-> [k \in DOMAIN s.exp \ gone |-> s.exp[k]],
       now  |-> t]

(* The keys a client can see, and the state without the others. *)
Live(s) == {k \in DOMAIN s.data : ~IsExpired(s, k)}

LiveState(s) ==
  [data |-> [k \in Live(s) |-> s.data[k]],
   exp  |-> [k \in Live(s) \cap DOMAIN s.exp |-> s.exp[k]],
   now  |-> s.now]
=============================================================================
