-------------------------------- MODULE Acl --------------------------------
(***************************************************************************)
(* The access control lists of the server: the AclManager all connections  *)
(* share, the user each connection has authenticated as, the ACL log, and  *)
(* the permission check of the top-level command path.  A second kind of   *)
(* behaviour is the simulation harness of acl_dst.rs, which applies the    *)
(* same calls to a manager and to a shadow of its users.                   *)
(*                                                                         *)
(* Every handler runs under the manager's lock, so each one is a step.     *)
(* Release builds are modelled: verify_invariants does nothing.            *)
(***************************************************************************)
EXTENDS Naturals, Sequences, FiniteSets, SequencesExt

-----------------------------------------------------------------------------
(***************************************************************************)
(* The data of security/acl: command categories, the permissions of a      *)
(* user, the rules of ACL SETUSER, and the line a user is saved as.        *)
(*                                                                         *)
(* A rule is a tuple: its leading mark (the whole word for rules without   *)
(* an argument) and its argument.  Commands are upper-case names, keys and *)
(* key patterns are sequences of one-character strings, and the SHA-256 of *)
(* a password is the injective pair <<"sha256", password>>.                *)
(***************************************************************************)

All == "all"

\* What ACL SETUSER may list after +@ and -@.
CommandCategory ==
  [read |-> {"GET", "MGET", "HGET", "HGETALL", "HKEYS", "HVALS", "HLEN", "HEXISTS",
             "LRANGE", "LINDEX", "LLEN", "SMEMBERS", "SISMEMBER", "SCARD", "ZRANGE",
             "ZREVRANGE", "ZSCORE", "ZRANK", "ZCARD", "ZCOUNT", "ZRANGEBYSCORE",
             "STRLEN", "EXISTS", "TYPE", "TTL", "PTTL", "SCAN", "HSCAN", "ZSCAN",
             "KEYS", "DBSIZE", "INFO"},
   write |-> {"SET", "SETEX", "PSETEX", "SETNX", "MSET", "APPEND", "GETSET", "INCR",
              "DECR", "INCRBY", "DECRBY", "LPUSH", "RPUSH", "LPOP", "RPOP", "LSET",
              "LTRIM", "RPOPLPUSH", "LMOVE", "HSET", "HDEL", "HINCRBY", "SADD", "SREM",
              "ZADD", "ZREM", "DEL", "EXPIRE", "PEXPIRE", "EXPIREAT", "PEXPIREAT",
              "PERSIST"},
   admin |-> {"CONFIG", "DEBUG", "SHUTDOWN", "SLAVEOF", "REPLICAOF", "BGREWRITEAOF",
              "BGSAVE", "SAVE", "LASTSAVE"},
   dangerous |-> {"FLUSHALL", "FLUSHDB", "DEBUG", "SHUTDOWN"},
   keyspace |-> {"KEYS", "SCAN", "HSCAN", "ZSCAN", "DEL", "EXISTS", "TYPE", "EXPIRE",
                 "PEXPIRE", "EXPIREAT", "PEXPIREAT", "TTL", "PTTL", "PERSIST"},
   string |-> {"GET", "SET", "SETEX", "PSETEX", "SETNX", "MGET", "MSET", "APPEND",
               "GETSET", "STRLEN", "GETRANGE", "INCR", "DECR", "INCRBY", "DECRBY"},
   list |-> {"LPUSH", "RPUSH", "LPOP", "RPOP", "LRANGE", "LINDEX", "LLEN", "LSET",
             "LTRIM", "RPOPLPUSH", "LMOVE"},
   set |-> {"SADD", "SREM", "SMEMBERS", "SISMEMBER", "SCARD"},
   hash |-> {"HSET", "HGET", "HDEL", "HGETALL", "HKEYS", "HVALS", "HLEN", "HEXISTS",
             "HINCRBY", "HSCAN"},
   sortedset |-> {"ZADD", "ZREM", "ZSCORE", "ZRANK", "ZRANGE", "ZREVRANGE", "ZCARD",
                  "ZCOUNT", "ZRANGEBYSCORE", "ZSCAN"},
   connection |-> {"AUTH", "PING", "ECHO", "SELECT", "QUIT", "CLIENT"},
   server |-> {"INFO", "DBSIZE", "TIME", "COMMAND"},
   scripting |-> {"EVAL", "EVALSHA", "SCRIPT"},
   transaction |-> {"MULTI", "EXEC", "DISCARD", "WATCH", "UNWATCH"},
   pubsub |-> {"PUBLISH", "SUBSCRIBE", "UNSUBSCRIBE", "PSUBSCRIBE", "PUNSUBSCRIBE",
               "PUBSUB", "SPUBLISH", "SSUBSCRIBE", "SUNSUBSCRIBE"},
   slow |-> {}, fast |-> {},
   bitmap |-> {"BITCOUNT", "BITFIELD", "BITOP", "BITPOS", "GETBIT", "SETBIT"},
   hyperloglog |-> {"PFADD", "PFCOUNT", "PFMERGE"},
   geo |-> {"GEOADD", "GEODIST", "GEOHASH", "GEOPOS", "GEORADIUS", "GEOSEARCH"},
   stream |-> {"XADD", "XLEN", "XRANGE", "XREVRANGE", "XREAD", "XINFO", "XTRIM", "XDEL",
               "XACK", "XCLAIM", "XPENDING", "XGROUP"},
   all |-> {}]

\* CommandCategory::from_str: the names a category rule may use.
CategoryNames == DOMAIN CommandCategory

-----------------------------------------------------------------------------
\* CommandPermissions.

DenyAllCommands ==
  [allowAll |-> FALSE, allowed |-> {}, denied |-> {}, categories |-> {}, deniedCategories |-> {}]

AllowAllCommands == [DenyAllCommands EXCEPT !.allowAll = TRUE]

AddCategory(p, cat) == [p EXCEPT !.categories = @ \cup {cat}]

RemoveCategory(p, cat) ==
  [p EXCEPT !.categories = @ \ {cat}, !.deniedCategories = @ \cup {cat}]


AllowCommand(p, cmd) == [p EXCEPT !.denied = @ \ {cmd}, !.allowed = @ \cup {cmd}]

DenyCommand(p, cmd) == [p EXCEPT !.allowed = @ \ {cmd}, !.denied = @ \cup {cmd}]

InSome(cats, cmd) == \E cat \in cats : cmd \in CommandCategory[cat]

\* An explicit denial, an explicit grant, a denied category, a granted one, the default.
IsCommandPermitted(p, cmd) ==
  /\ cmd \notin p.denied
  /\ \/ cmd \in p.allowed
     \/ /\ ~InSome(p.deniedCategories, cmd)
        /\ All \in p.categories \/ InSome(p.categories, cmd) \/ p.allowAll

-----------------------------------------------------------------------------
\* Key patterns.

\* glob_match_impl: one left-to-right scan that remembers the last star and, on
\* a mismatch, lets that star swallow one character more.
GlobMatch(pattern, text) ==
  LET n == Len(pattern)
      m == Len(text)
      Stars(p) == \A i \in p .. n : pattern[i] = "*"
      scan[p \in 1 .. n + 1, t \in 1 .. m + 1, star \in 0 .. n, from \in 0 .. m + 1] ==
        CASE t > m -> Stars(p)
          [] t =< m /\ p =< n /\ pattern[p] = "*" -> scan[p + 1, t, p, t]
          [] t =< m /\ p =< n /\ pattern[p] # "*" /\ pattern[p] \in {"?", text[t]} ->
               scan[p + 1, t + 1, star, from]
          [] OTHER -> star > 0 /\ scan[star + 1, from + 1, star, from + 1]
  IN scan[1, 1, 0, 0]

NoKeys == [allowAll |-> FALSE, patterns |-> {}]
EveryKey == [allowAll |-> TRUE, patterns |-> {}]

\* KeyPattern carries read and write flags that matches() does not look at.
KeyPattern(pattern, read, write) == [pattern |-> pattern, read |-> read, write |-> write]

IsKeyPermitted(k, key) == k.allowAll \/ \E q \in k.patterns : GlobMatch(q.pattern, key)

-----------------------------------------------------------------------------
\* AclUser.

HashPassword(password) == <<"sha256", password>>

IsHash(h) == h[1] = "sha256"

NewUser ==
  [passwords |-> {}, enabled |-> FALSE, commands |-> DenyAllCommands, keys |-> NoKeys,
   nopass |-> FALSE]

DefaultUser ==
  [passwords |-> {}, enabled |-> TRUE, commands |-> AllowAllCommands, keys |-> EveryKey,
   nopass |-> TRUE]

AddPassword(u, password) == [u EXCEPT !.passwords = @ \cup {HashPassword(password)}]

RemovePassword(u, password) == [u EXCEPT !.passwords = @ \ {HashPassword(password)}]

VerifyPassword(u, password) == u.nopass \/ HashPassword(password) \in u.passwords

-----------------------------------------------------------------------------
\* apply_rule: the user the rule makes of u; a rule that is refused makes none.

RuleOK(r) ==
  CASE r[1] \in {"on", "off", "nopass", "resetpass", "allcommands", "nocommands", "allkeys",
                 "resetkeys", "allchannels", "resetchannels", "reset", "sanitize-payload",
                 "skip-sanitize-payload"} -> TRUE
    [] r[1] = "#" -> IsHash(r[2])
    [] r[1] \in {"+@", "-@"} -> r[2] \in CategoryNames
    [] r[1] = "%" -> r[2] \in {"R~", "W~", "RW~"}
    [] OTHER -> r[1] \in {">", "<", "!", "+", "-", "+|", "-|", "~", "&"}

ApplyRule(u, r) ==
  CASE r[1] = "on" -> [u EXCEPT !.enabled = TRUE]
    [] r[1] = "off" -> [u EXCEPT !.enabled = FALSE]
    [] r[1] = "nopass" -> [u EXCEPT !.nopass = TRUE]
    [] r[1] = "resetpass" -> [u EXCEPT !.passwords = {}, !.nopass = FALSE]
    [] r[1] = "allcommands" \/ r = <<"+@", All>> ->
         [u EXCEPT !.commands.allowAll = TRUE, !.commands.categories = @ \cup {All}]
    [] r[1] = "nocommands" \/ r = <<"-@", All>> ->
         [u EXCEPT !.commands.allowAll = FALSE, !.commands.categories = {},
                   !.commands.allowed = {}]
    [] r[1] = "allkeys" \/ r = <<"~", <<"*">>>> -> [u EXCEPT !.keys.allowAll = TRUE]
    [] r[1] = "resetkeys" -> [u EXCEPT !.keys = NoKeys]
    [] r[1] = "reset" -> NewUser
    [] r[1] = ">" -> AddPassword(u, r[2])
    [] r[1] = "<" -> RemovePassword(u, r[2])
    [] r[1] = "#" -> [u EXCEPT !.passwords = @ \cup {r[2]}]
    [] r[1] = "!" -> [u EXCEPT !.passwords = @ \ {r[2]}]
    [] r[1] = "+@" /\ r[2] # All -> [u EXCEPT !.commands = AddCategory(@, r[2])]
    [] r[1] = "-@" /\ r[2] # All -> [u EXCEPT !.commands = RemoveCategory(@, r[2])]
    [] r[1] = "+" -> [u EXCEPT !.commands = AllowCommand(@, r[2])]
    [] r[1] = "-" -> [u EXCEPT !.commands = DenyCommand(@, r[2])]
    [] r[1] = "+|" -> [u EXCEPT !.commands.allowed = @ \cup {r[2]}]
    [] r[1] = "-|" -> [u EXCEPT !.commands.denied = @ \cup {r[2]}]
    [] r[1] = "~" /\ r[2] # <<"*">> ->
         [u EXCEPT !.keys.patterns = @ \cup {KeyPattern(r[2], TRUE, TRUE)}]
    [] r[1] = "%" ->
         [u EXCEPT !.keys.patterns =
            @ \cup {KeyPattern(r[3], r[2] # "W~", r[2] # "R~")}]
    [] OTHER -> u

\* The rules of one call, in order; <<>> when one of them is refused.
ApplyRules(u, rules) ==
  IF \A i \in DOMAIN rules : RuleOK(rules[i])
  THEN <<FoldLeft(ApplyRule, u, rules)>>
  ELSE <<>>

-----------------------------------------------------------------------------
\* The line of ACL LIST and of an ACL file, as the rules it holds.  The order
\* within a hash set is arbitrary in the code; here it is some fixed order.

Marked(mark, args) == SetToSeq({<<mark, a>> : a \in args})

Allowances(cmds, subcommands) ==
  Marked("+", cmds \ subcommands) \o Marked("+|", cmds \cap subcommands)

Denials(cmds, subcommands) ==
  Marked("-", cmds \ subcommands) \o Marked("-|", cmds \cap subcommands)

\* subcommands are the names of the form COMMAND|SUBCOMMAND.
ToAclString(u, subcommands) ==
  LET c == u.commands
      denials == Marked("-@", c.deniedCategories) \o Denials(c.denied, subcommands)
  IN <<IF u.enabled THEN <<"on">> ELSE <<"off">>>>
     \o (IF u.nopass THEN <<<<"nopass">>>> ELSE <<>>)
     \o Marked("#", u.passwords)
     \o <<<<"sanitize-payload">>>>
     \o (IF u.keys.allowAll THEN <<<<"~", <<"*">>>>>>
                            ELSE Marked("~", {q.pattern : q \in u.keys.patterns}))
     \o <<<<"allchannels">>>>
     \o (IF c.allowAll
         THEN <<<<"+@", All>>>>
         ELSE <<<<"-@", All>>>> \o Marked("+@", c.categories)
              \o Allowances(c.allowed, subcommands))
     \o denials


\* ACL GETUSER's commands field.
FormatCommands(u, subcommands) ==
  LET c == u.commands
      parts == (IF c.allowAll THEN <<<<"+@", All>>>> ELSE <<>>)
               \o Marked("+@", c.categories) \o Marked("-@", c.deniedCategories)
               \o Allowances(c.allowed, subcommands)
               \o Denials(c.denied, subcommands)
  IN IF parts = <<>> THEN <<<<"-@", All>>>> ELSE parts

\* parse_user_line: a fresh user under the rules of the line.
ParseUserLine(rules) == ApplyRules(NewUser, rules)

-----------------------------------------------------------------------------
CONSTANTS
  Conns,          \* client connections
  Names,          \* user names clients may use, "default" among them
  Passwords,
  Subcommands,    \* names of the form COMMAND|SUBCOMMAND
  Requests,       \* [name, sub, args, keys]: a command, its pipe form, its arguments, get_keys()
  RuleLists,      \* the rule lists of ACL SETUSER
  HarnessRules,   \* the rule lists the simulation harness generates
  Texts,          \* keys on which the patterns of an ACL file are tried
  Configs,        \* [kind, requireAuth, requirePass, file, maxSets, maxId]: ways the
                  \* manager is started, with bounds on the SETUSERs and log entries
  MaxEntries,     \* capacity of the ACL log
  MaxCount        \* bound: denials counted in one entry

VARIABLES
  config,         \* how this behaviour was started
  users,          \* AclManager.users
  auth,           \* per connection, what it keeps of the user it authenticated as
  log,            \* AclLogStore: entries, agg_index, next_entry_id
  shadow,         \* the users of the harness's shadow
  sets            \* how many SETUSERs the connections have sent

vars == <<config, users, auth, log, shadow, sets>>

None == "none"
NoUser == [name |-> "nobody", unrestricted |-> FALSE]
Closed == [name |-> "closed", unrestricted |-> FALSE]
Default == "default"

Put(f, x, v) == [y \in DOMAIN f \cup {x} |-> IF y = x THEN v ELSE f[y]]
Without(f, x) == [y \in DOMAIN f \ {x} |-> f[y]]

-----------------------------------------------------------------------------
\* AclManager.

\* authenticate: an unknown user, a disabled one and a wrong password fail alike.
Authenticates(n, password) ==
  n \in DOMAIN users /\ users[n].enabled /\ VerifyPassword(users[n], password)

\* check_command, for a user record or for no user.
CheckUser(u, cmd, keys) ==
  CASE ~u.enabled -> "disabled"
    [] u.enabled /\ ~IsCommandPermitted(u.commands, cmd) -> "command"
    [] u.enabled /\ IsCommandPermitted(u.commands, cmd)
         /\ \E k \in keys : ~IsKeyPermitted(u.keys, k) -> "key"
    [] OTHER -> "ok"

-----------------------------------------------------------------------------
\* AclLogStore.

NewLog == [entries |-> <<>>, index |-> <<>>, nextId |-> 0]

LogKey(e) == <<e.user, e.reason, e.object>>

\* Mutation: the entries that move down keep their old index.
EvictUnshifted(l) ==
  [l EXCEPT !.entries = Tail(@), !.index = Without(@, LogKey(Head(l.entries)))]

\* Make room for one entry: the oldest goes, with its index, and all others move down.
Evict(l) ==
  LET left == Without(l.index, LogKey(Head(l.entries)))
  IN [l EXCEPT !.entries = Tail(@), !.index = [k \in DOMAIN left |-> left[k] - 1]]

RecordDenial(l, user, reason, object) ==
  LET key == <<user, reason, object>>
      entry == [id |-> l.nextId, count |-> 1, user |-> user, reason |-> reason,
                object |-> object]
      room == IF Len(l.entries) >= MaxEntries THEN Evict(l) ELSE l
  IN IF key \in DOMAIN l.index
     THEN [l EXCEPT !.entries[l.index[key]].count = @ + 1]
     ELSE [entries |-> Append(room.entries, entry),
           index |-> Put(room.index, key, Len(room.entries) + 1),
           nextId |-> l.nextId + 1]

\* reset keeps next_entry_id.
LogReset(l) == [NewLog EXCEPT !.nextId = l.nextId]

-----------------------------------------------------------------------------
\* The connection.

\* What a connection keeps: the name, and the copy of the user's keys that the
\* GET/SET fast path asks about.
Copy(n) == [name |-> n, unrestricted |-> users[n].keys.allowAll]

\* The manager's user of a connection, looked up again for every command.
Current(c) == users[auth[c].name]

CheckAclPermission(c, req) ==
  IF auth[c] = NoUser THEN IF config.requireAuth THEN "noauth" ELSE "ok"
  ELSE IF auth[c].name \notin DOMAIN users THEN IF config.requireAuth THEN "noauth" ELSE "ok"
  ELSE LET u == Current(c)
       IN IF req.sub \in u.commands.allowed
          THEN IF \A k \in ToSet(req.keys) : IsKeyPermitted(u.keys, k) THEN "ok" ELSE "key"
          ELSE CheckUser(u, req.name, ToSet(req.keys))

-----------------------------------------------------------------------------
\* ACL DRYRUN: its own lookup of a command's keys among its arguments.

ExtractDryrunKeys(cmd, args) ==
  CASE cmd \in {"MSET", "MSETNX"} -> {args[i] : i \in {j \in DOMAIN args : j % 2 = 1}}
    [] cmd \in {"DEL", "UNLINK", "EXISTS", "MGET", "WATCH"} -> {args[i] : i \in DOMAIN args}
    [] cmd \in {"RENAME", "RENAMENX", "RPOPLPUSH", "LMOVE"} ->
         {args[i] : i \in DOMAIN args \cap 1 .. 2}
    [] OTHER -> {args[i] : i \in DOMAIN args \cap {1}}

HandleDryrun(n, cmd, args) ==
  LET u == users[n]
  IN CASE n \notin DOMAIN users -> "notfound"
       [] n \in DOMAIN users /\ (~u.enabled \/ ~IsCommandPermitted(u.commands, cmd)) -> "command"
       [] OTHER ->
            IF \E k \in ExtractDryrunKeys(cmd, args) : ~IsKeyPermitted(u.keys, k)
            THEN "key" ELSE "ok"

-----------------------------------------------------------------------------
\* The handlers.

Serving == config.kind = "server"

\* A connection is accepted; cn is the name in its client certificate, if it has one.
Connect(c, cn) ==
  /\ Serving /\ auth[c] = Closed
  /\ LET fallback == IF config.requireAuth THEN NoUser ELSE Copy(Default)
     IN auth' = [auth EXCEPT ![c] =
          IF cn \in DOMAIN users THEN IF users[cn].enabled THEN Copy(cn) ELSE NoUser
          ELSE fallback]
  /\ UNCHANGED <<config, users, log, shadow, sets>>

Auth(c, n, password) ==
  /\ Serving /\ auth[c] # Closed
  /\ Authenticates(n, password)
  /\ auth' = [auth EXCEPT ![c] = Copy(n)]
  /\ UNCHANGED <<config, users, log, shadow, sets>>

\* handle_setuser: the rules change a copy, which is stored if none is refused.
SetUser(c, n, rules) ==
  /\ Serving /\ auth[c] # Closed
  /\ LET u == ApplyRules(IF n \in DOMAIN users THEN users[n] ELSE NewUser, rules)
     IN users' = IF u = <<>> THEN users ELSE Put(users, n, u[1])
  /\ sets < config.maxSets /\ sets' = sets + 1
  /\ UNCHANGED <<config, auth, log, shadow>>

\* handle_deluser: stops at "default", and what it removed before stays removed.
DelUser(c, ns) ==
  /\ Serving /\ auth[c] # Closed
  /\ LET upTo == SelectInSeq(ns, LAMBDA n : n = Default)
         gone == IF upTo = 0 THEN ToSet(ns) ELSE ToSet(SubSeq(ns, 1, upTo - 1))
     IN users' = [n \in DOMAIN users \ gone |-> users[n]]
  /\ UNCHANGED <<config, auth, log, shadow, sets>>

\* A command outside MULTI that is neither an ACL command nor a stub: executed,
\* or refused and recorded in the log under the connection's user.
Request(c, req) ==
  /\ Serving /\ auth[c] # Closed
  /\ LET outcome == CheckAclPermission(c, req)
         user == IF auth[c] = NoUser THEN Default ELSE auth[c].name
         reason == IF outcome = "key" THEN "key" ELSE "command"
         object == IF outcome = "key" THEN Head(req.keys) ELSE <<req.name>>
     IN log' = IF outcome = "ok" THEN log ELSE RecordDenial(log, user, reason, object)
  /\ log'.nextId =< config.maxId
  /\ \A i \in DOMAIN log'.entries : log'.entries[i].count =< MaxCount
  /\ UNCHANGED <<config, users, auth, shadow, sets>>

ResetLog(c) ==
  /\ Serving /\ auth[c] # Closed
  /\ log' = LogReset(log)
  /\ UNCHANGED <<config, users, auth, shadow, sets>>

Disconnect(c) ==
  /\ Serving /\ auth[c] # Closed
  /\ auth' = [auth EXCEPT ![c] = Closed]
  /\ UNCHANGED <<config, users, log, shadow, sets>>

-----------------------------------------------------------------------------
\* acl_dst.rs: the shadow users and the operations of the harness.

ShadowNew ==
  [enabled |-> FALSE, nopass |-> FALSE, hashes |-> {}, allowAll |-> FALSE, allowed |-> {},
   denied |-> {}, categories |-> {}, deniedCategories |-> {}, keysAll |-> FALSE,
   patterns |-> <<>>]

ShadowDefault ==
  [ShadowNew EXCEPT !.enabled = TRUE, !.nopass = TRUE, !.allowAll = TRUE, !.keysAll = TRUE]

ShadowApply(s, r) ==
  CASE r[1] = "on" -> [s EXCEPT !.enabled = TRUE]
    [] r[1] = "off" -> [s EXCEPT !.enabled = FALSE]
    [] r[1] = "nopass" -> [s EXCEPT !.nopass = TRUE]
    [] r[1] = "resetpass" -> [s EXCEPT !.hashes = {}, !.nopass = FALSE]
    [] r[1] = "allcommands" \/ r = <<"+@", All>> ->
         [s EXCEPT !.allowAll = TRUE, !.categories = @ \cup {All}]
    [] r[1] = "nocommands" \/ r = <<"-@", All>> ->
         [s EXCEPT !.allowAll = FALSE, !.categories = {}, !.allowed = {}]
    [] r[1] = "allkeys" \/ r = <<"~", <<"*">>>> -> [s EXCEPT !.keysAll = TRUE]
    [] r[1] = "resetkeys" -> [s EXCEPT !.keysAll = FALSE, !.patterns = <<>>]
    [] r[1] = "reset" -> ShadowNew
    [] r[1] = ">" -> [s EXCEPT !.hashes = @ \cup {HashPassword(r[2])}]
    [] r[1] = "<" -> [s EXCEPT !.hashes = @ \ {HashPassword(r[2])}]
    [] r[1] = "#" -> [s EXCEPT !.hashes = @ \cup {r[2]}]
    [] r[1] = "+@" /\ r[2] \in CategoryNames \ {All} -> [s EXCEPT !.categories = @ \cup {r[2]}]
    [] r[1] = "-@" /\ r[2] \in CategoryNames \ {All} ->
         [s EXCEPT !.categories = @ \ {r[2]}, !.deniedCategories = @ \cup {r[2]}]
    [] r[1] = "+" -> [s EXCEPT !.denied = @ \ {r[2]}, !.allowed = @ \cup {r[2]}]
    [] r[1] = "-" -> [s EXCEPT !.allowed = @ \ {r[2]}, !.denied = @ \cup {r[2]}]
    [] r[1] = "~" /\ r[2] # <<"*">> -> [s EXCEPT !.patterns = Append(@, r[2])]
    [] OTHER -> s

ShadowCommand(s, cmd) ==
  /\ cmd \notin s.denied
  /\ \/ cmd \in s.allowed
     \/ /\ ~InSome(s.deniedCategories, cmd)
        /\ All \in s.categories \/ InSome(s.categories, cmd) \/ s.allowAll

ShadowKey(s, key) == s.keysAll \/ \E i \in DOMAIN s.patterns : GlobMatch(s.patterns[i], key)

ShadowPassword(s, password) == s.nopass \/ HashPassword(password) \in s.hashes

\* The harness draws its names from a pool without the default user.
Simulating == config.kind = "harness"

OpSetUser(n, rules) ==
  /\ Simulating /\ n # Default
  /\ LET u == ApplyRules(IF n \in DOMAIN users THEN users[n] ELSE NewUser, rules)
         s == FoldLeft(ShadowApply, IF n \in DOMAIN shadow THEN shadow[n] ELSE ShadowNew, rules)
     IN /\ users' = IF u = <<>> THEN users ELSE Put(users, n, u[1])
        /\ shadow' = Put(shadow, n, s)
        /\ Len(s.patterns) =< 1
  /\ UNCHANGED <<config, auth, log, sets>>

OpDelUser(n) ==
  /\ Simulating /\ n # Default
  /\ users' = Without(users, n)
  /\ shadow' = Without(shadow, n)
  /\ UNCHANGED <<config, auth, log, sets>>

\* The harness's comparisons of the manager with the shadow.
OpAuth(n, password) ==
  Authenticates(n, password) =
    (n \in DOMAIN shadow /\ shadow[n].enabled /\ ShadowPassword(shadow[n], password))

OpCheckCommand(n, cmd, keys) ==
  (n \in DOMAIN users /\ CheckUser(users[n], cmd, keys) = "ok") =
    (/\ n \in DOMAIN shadow /\ shadow[n].enabled
     /\ ShadowCommand(shadow[n], cmd) /\ \A k \in keys : ShadowKey(shadow[n], k))

OpCheckKey(n, key) ==
  (n \in DOMAIN users /\ IsKeyPermitted(users[n].keys, key)) =
    (n \in DOMAIN shadow /\ ShadowKey(shadow[n], key))

CheckUserList == DOMAIN users = DOMAIN shadow /\ Default \in DOMAIN users

-----------------------------------------------------------------------------
\* create_acl_manager: the default user with the configured password, then the
\* users of the ACL file, unless a line of the file does not load.
CreateAclManager(cfg) ==
  LET default == IF cfg.requirePass = None THEN DefaultUser
                 ELSE [AddPassword(DefaultUser, cfg.requirePass) EXCEPT !.nopass = FALSE]
      loaded == [n \in DOMAIN cfg.file |-> ParseUserLine(cfg.file[n])]
  IN IF \E n \in DOMAIN loaded : loaded[n] = <<>>
     THEN [n \in {Default} |-> default]
     ELSE [n \in DOMAIN loaded \cup {Default} |->
             IF n \in DOMAIN loaded THEN loaded[n][1] ELSE default]

Init ==
  /\ config \in Configs
  /\ users = CreateAclManager(config)
  /\ auth = [c \in Conns |-> Closed]
  /\ log = NewLog
  /\ shadow = [n \in {Default} |-> ShadowDefault]
  /\ sets = 0

Next ==
  \/ \E c \in Conns :
       \/ \E cn \in Names \cup {None} : Connect(c, cn)
       \/ \E n \in Names, p \in Passwords : Auth(c, n, p)
       \/ \E n \in Names, rules \in RuleLists : SetUser(c, n, rules)
       \/ \E n, m \in Names : DelUser(c, <<n, m>>)
       \/ \E req \in Requests : Request(c, req)
       \/ ResetLog(c)
       \/ Disconnect(c)
  \/ \E n \in Names :
       \/ \E rules \in HarnessRules : OpSetUser(n, rules)
       \/ OpDelUser(n)

Spec == Init /\ [][Next]_vars

-----------------------------------------------------------------------------
\* Properties.

AllCommands == {req.name : req \in Requests}
AllKeys == UNION {ToSet(req.keys) : req \in Requests}

\* What a user may do, and with which passwords it may log in.
Permissions(u) ==
  [enabled |-> u.enabled,
   passwords |-> {p \in Passwords : VerifyPassword(u, p)},
   commands |-> {c \in AllCommands : IsCommandPermitted(u.commands, c)},
   subcommands |-> u.commands.allowed \cap Subcommands,
   keys |-> {k \in AllKeys : IsKeyPermitted(u.keys, k)}]

TypeOK ==
  /\ config \in Configs
  /\ Default \in DOMAIN users /\ DOMAIN users \subseteq Names
  /\ \A c \in Conns : auth[c] \in {NoUser, Closed} \cup [name : Names, unrestricted : BOOLEAN]
  /\ log.nextId \in 0 .. config.maxId /\ sets \in 0 .. config.maxSets

\* The harness's comparisons never report a difference: after any sequence of
\* SETUSER and DELUSER the manager and the shadow list the same users, accept the
\* same passwords and permit the same commands and keys (op_auth,
\* op_check_command, op_check_key and check_user_list_invariant of acl_dst.rs).
HarnessAgrees ==
  Simulating =>
    /\ CheckUserList
    /\ \A n \in Names :
         /\ \A p \in Passwords : OpAuth(n, p)
         /\ \A cmd \in AllCommands, keys \in SUBSET AllKeys : OpCheckCommand(n, cmd, keys)
         /\ \A k \in AllKeys : OpCheckKey(n, k)


\* The aggregation index finds every entry of the log and nothing else: it maps
\* the key of each entry to the entry's position, through evictions and resets
\* (record_denial's shifting of agg_index), and ids grow along the log.
LogIndexExact ==
  /\ Len(log.entries) =< MaxEntries
  /\ DOMAIN log.index = {LogKey(log.entries[i]) : i \in DOMAIN log.entries}
  /\ \A i \in DOMAIN log.entries : log.index[LogKey(log.entries[i])] = i
  /\ \A i, j \in DOMAIN log.entries : i < j => log.entries[i].id < log.entries[j].id

\* ACL DRYRUN predicts the check: whatever a connection cached when it
\* authenticated, a request is executed for it now exactly when DRYRUN answers OK
\* for its user ("uses the latest user state", check_acl_permission against
\* handle_dryrun and its own extraction of keys).
DryRunPredicts ==
  \A c \in Conns :
    auth[c] \notin {NoUser, Closed} =>
      \A req \in Requests :
        auth[c].name \in DOMAIN users /\ req.sub = None =>
          (CheckAclPermission(c, req) = "ok") =
            (HandleDryrun(auth[c].name, req.name, req.args) = "ok")

\* A text matches a pattern when the pattern's characters can be laid along it.
Laid(pattern, text) ==
  \E at \in [1 .. Len(pattern) + 1 -> 1 .. Len(text) + 1] :
    /\ at[1] = 1 /\ at[Len(pattern) + 1] = Len(text) + 1
    /\ \A i \in DOMAIN pattern :
         IF pattern[i] = "*" THEN at[i] =< at[i + 1]
         ELSE at[i + 1] = at[i] + 1 /\ pattern[i] \in {"?", text[at[i]]}

\* The scan with one remembered star accepts exactly the texts the pattern can be
\* laid along (glob_match_impl against the definition of a glob), for the
\* patterns of the users an ACL file brings.
GlobExact ==
  config.kind = "file" =>
    \A q \in UNION {users[n].keys.patterns : n \in DOMAIN users}, key \in Texts :
      GlobMatch(q.pattern, key) = Laid(q.pattern, key)
=============================================================================
