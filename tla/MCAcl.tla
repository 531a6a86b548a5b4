------------------------------- MODULE MCAcl -------------------------------
(* A small instance of Acl: one user beside the default one. *)
EXTENDS Acl

MCNames == {"default", "alice"}
MCPasswords == {"p", "q"}
MCSubcommands == {"DEBUG|OBJECT"}

MCTexts == UNION {[1 .. n -> {"a", "b"}] : n \in 0 .. 4}
Patterns == UNION {[1 .. n -> {"a", "b", "*", "?"}] : n \in 1 .. 3}

Req(name, sub, args, keys) == [name |-> name, sub |-> sub, args |-> args, keys |-> keys]

MCRequests ==
  {Req("GET", "none", <<k>>, <<k>>) : k \in {<<"a">>, <<"b">>}}
  \cup {Req("MSET", "none", <<<<"a">>, <<"v">>, <<"b">>, <<"v">>>>, <<<<"a">>, <<"b">>>>),
        Req("LMOVE", "none", <<<<"b">>, <<"a">>, <<"left">>, <<"right">>>>, <<<<"b">>, <<"a">>>>),
        Req("DEBUG", "DEBUG|OBJECT", <<<<"object">>, <<"a">>>>, <<<<"a">>>>)}

\* Lists a client sends: one of each kind of rule, and lists a later rule refuses.
MCRuleLists ==
  {<<<<"on">>, <<"+@", "read">>>>, <<<<"off">>>>, <<<<">", "p">>>>,
   <<<<"allcommands">>>>, <<<<"-@", "all">>>>, <<<<"+|", "DEBUG|OBJECT">>>>,
   <<<<"-@", "write">>, <<"+", "MSET">>>>, <<<<"allkeys">>>>,
   <<<<"resetkeys">>, <<"%", "R~", <<"a", "*">>>>>>, <<<<"reset">>>>,
   <<<<"on">>, <<"-@", "nosuch">>>>}

\* What random_rules generates, for one category, one command and one pattern.
MCHarnessRules ==
  {<<r>> : r \in {<<"on">>, <<"off">>, <<">", "p">>, <<"nopass">>, <<"+@", "read">>,
                  <<"-@", "read">>, <<"+@", "all">>, <<"~", <<"*">>>>,
                  <<"~", <<"a", "*">>>>, <<"+", "GET">>, <<"-", "GET">>}}

Config(kind, requireAuth, requirePass, file, maxSets, maxId) ==
  [kind |-> kind, requireAuth |-> requireAuth, requirePass |-> requirePass, file |-> file,
   maxSets |-> maxSets, maxId |-> maxId]

File(n, rules) == [m \in {n} |-> rules]

MCConfigs ==
  {Config("harness", FALSE, "none", <<>>, 0, 0),
   Config("server", FALSE, "none", <<>>, 3, 0),
   Config("server", TRUE, "q", File("alice", <<<<"on">>, <<"#", HashPassword("p")>>>>), 1, 3),
   Config("server", TRUE, "none", File("alice", <<<<"on">>, <<"#", <<"text", "p">>>>>>), 1, 0)}
  \cup {Config("file", FALSE, "none", File("alice", <<<<"~", p>>>>), 0, 0) : p \in Patterns}

=============================================================================
