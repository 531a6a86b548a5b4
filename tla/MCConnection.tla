---------------------------- MODULE MCConnection ----------------------------
(* Two connections and two callers, two keys each, on two shards. *)
EXTENDS Connection

CONSTANTS c1, c2, p1, p2

a == <<97>>
b == <<98>>
d == <<100>>
e == <<101>>
t == <<116>>
one == <<49>>
x   == <<120>>

MCHash == a :> 1 @@ b :> 2 @@ d :> 2 @@ e :> 1 @@ t :> 2
MCOtherHash == a :> 2 @@ b :> 2 @@ d :> 2 @@ e :> 1 @@ t :> 2

S(op, key) == [group |-> "string", op |-> op, key |-> key]
K(op, key) == [group |-> "key", op |-> op, key |-> key]
GET(k) == S("GET", k)
None == [kind |-> "NONE", n |-> 0]
SET(k, v) == S("SET", k) @@ [val |-> v, ttl |-> None, cond |-> "", get |-> FALSE]
SETPX(k, v) == [SET(k, v) EXCEPT !.ttl = [kind |-> "PX", n |-> 1]]
MGET(ks) == S("MGET", ks[1]) @@ [keys |-> ks]
MSET(ps) == S("MSET", ps[1][1]) @@ [pairs |-> ps]
Many(op, ks) == K(op, ks[1]) @@ [keys |-> ks]
Only(op) == [group |-> "key", op |-> op]
LPUSH(k) == [group |-> "collection", op |-> "LPUSH", key |-> k, vals |-> <<x>>]
INCR(k) == S("INCRBY", k) @@ [n |-> 1]
KEYSAB == Only("KEYS") @@ [pattern |-> <<91, 97, 98, 93>>]
MULTI == Only("MULTI")
EXEC  == Only("EXEC")
WATCH(ks) == Many("WATCH", ks)

First == {<<SET(a, one), SET(b, x), GET(b)>>}

Later == {<<GET(b), GET(a), SET(b, one), SET(a, x)>>,
          <<MULTI, INCR(a), MGET(<<b, a>>), EXEC, GET(a)>>,
          <<WATCH(<<a, b>>), MSET(<<<<b, one>>, <<a, one>>>>), MULTI, Many("DEL", <<a, b>>), EXEC>>,
          <<WATCH(<<b>>), MULTI, Many("DEL", <<a, b>>), EXEC>>,
          <<MULTI, BAD, MULTI, WATCH(<<a>>), EXEC, Many("EXISTS", <<a, b, a>>)>>,
          <<KEYSAB, Only("PING"), EXEC, MULTI, Only("DISCARD"), GARBAGE, GET(a)>>}

Other == {<<SET(e, x), Only("DBSIZE"), MGET(<<e, d>>)>>}

(* Two clients at work; two callers that share the pool of slots; two keys *)
(* that expire under the manager's sweeps.                                 *)
Scene(pipelines, manager, maxClock) ==
  [pipelines |-> [c \in Clients |-> IF c \in DOMAIN pipelines THEN pipelines[c] ELSE <<>>],
   manager |-> manager, maxClock |-> maxClock]

Busy == Scene(c1 :> <<First, Later>> @@ c2 :> <<Other>>, FALSE, 0)

Fast == Scene(p1 :> <<{<<SET(a, one), SET(b, x), GET(b), GET(a)>>}, {<<GET(a), SET(a, x), GET(a)>>}>>
              @@ p2 :> <<{<<SET(d, x), GET(d)>>}, {<<GET(e)>>}>>, FALSE, 0)

Expiring == Scene(c1 :> <<{<<SETPX(t, x), Only("UNWATCH")>>}>> @@ c2 :> <<{<<SETPX(e, x)>>}>>, TRUE, 1)

MCScenes == [busy |-> Busy, fast |-> Fast, expiring |-> Expiring]
=============================================================================
