----------------------------- MODULE Connection -----------------------------
(***************************************************************************)
(* The server: connection handlers that read pipelines, route commands and *)
(* keep the client's transaction; shard actors that take one message at a  *)
(* time; the pool of reusable response slots; the TTL manager.  Each await *)
(* of the code is a place where the others may step.                       *)
(*                                                                         *)
(* A pipeline is the sequence of whole frames one read delivers.  A frame  *)
(* is a command, BAD (a frame that is no command) or GARBAGE (bytes that   *)
(* are no frame).  The client is the default user, who may do everything.  *)
(* The handler's own attempts at batching and at the fast path never       *)
(* recognise a request (see Wire), so every frame takes the full path;     *)
(* the pooled and the batched calls of ShardedActorState are used by       *)
(* Callers, which hold the server state in process.                        *)
(***************************************************************************)
EXTENDS Commands

-----------------------------------------------------------------------------
(***************************************************************************)
(* ShardedActorState: which messages a command becomes, what a shard actor *)
(* does with a message, and how the replies are put together again.        *)
(*                                                                         *)
(* A request is [shard, mode, cmds]: mode "command" carries one command    *)
(* for CommandExecutor::execute, stamped with the time it was issued;      *)
(* "direct" carries GETs or SETs for get_direct and set_direct, which take *)
(* no time; "evict" is a sweep.  A shard answers one reply per command.    *)
(***************************************************************************)

CONSTANTS NumShards,
          HashKey,       \* the shard of a key hashed as a string
          HashKeyBytes   \* the shard of a key hashed as bytes

Shards == 1..NumShards

Request(sh, mode, cmds, at) == [shard |-> sh, mode |-> mode, cmds |-> cmds, at |-> at]

(* Shard 0 of the code, 1 here, takes the commands without a key. *)
PrimaryShard(c) == IF PrimaryKey(c) = <<>> THEN 1 ELSE HashKey[PrimaryKey(c)[1]]

(* One request for every shard that homes one of the items, with the       *)
(* positions of its items.                                                 *)
Grouped(n, Home(_), Make(_, _)) ==
  LET At(sh) == SetToSortSeq({i \in 1..n : Home(i) = sh}, LAMBDA i, j : i < j)
      used   == SelectSeq([sh \in Shards |-> sh], LAMBDA sh : At(sh) # <<>>)
  IN  [i \in DOMAIN used |-> Make(used[i], At(used[i]))]

Pick(xs, at) == [j \in DOMAIN at |-> xs[at[j]]]

(* Every shard is asked the same. *)
ToAll(c) == [sh \in Shards |-> Request(sh, "command", <<c>>, <<>>)]

KeysByShard(c, op) ==
  Grouped(Len(c.keys), LAMBDA i : HashKey[c.keys[i]],
          LAMBDA sh, at : Request(sh, "command", <<[c EXCEPT !.op = op, !.keys = Pick(@, at)]>>, at))

PairsByShard(c) ==
  Grouped(Len(c.pairs), LAMBDA i : HashKey[c.pairs[i][1]],
          LAMBDA sh, at : Request(sh, "command", <<[c EXCEPT !.pairs = Pick(@, at)]>>, at))

OnePerKey(c) ==
  [i \in DOMAIN c.keys |-> Request(HashKey[c.keys[i]], "command", <<[c EXCEPT !.keys = <<c.keys[i]>>]>>, <<i>>)]

(* execute: the messages of a command.  SCAN asks every shard from its     *)
(* beginning.                                                              *)
Requests(c) ==
  CASE c.op = "PING"                        -> <<>>
    [] c.op \in {"FLUSHDB", "KEYS", "DBSIZE"} -> ToAll(c)
    [] c.op = "SCAN"                        -> ToAll([c EXCEPT !.cursor = 0])
    [] c.op = "MGET"                        -> KeysByShard(c, "MGET")
    [] c.op = "MSET"                        -> PairsByShard(c)
    [] c.op = "DEL" /\ Len(c.keys) > 1      -> KeysByShard(c, "DEL")
    [] c.op = "EXISTS"                      -> OnePerKey(c)
    [] OTHER -> <<Request(PrimaryShard(c), "command", <<c>>, <<1>>)>>

(* FLUSHDB and KEYS await each shard before they ask the next; the others  *)
(* send to all of them and await them together.                            *)
OneByOne(c) == c.op \in {"FLUSHDB", "KEYS"}

(* fast_batch_get_pipeline, fast_batch_set_pipeline *)
BatchRequests(cmds) ==
  Grouped(Len(cmds), LAMBDA i : HashKeyBytes[cmds[i].key],
          LAMBDA sh, at : Request(sh, "direct", Pick(cmds, at), at))

(* Mutation: the answers are put one after the other, shard by shard. *)
Concatenated(n, reqs, rs, default) == FlattenSeq(rs)

(* The original positions filled from the shards' answers. *)
Scattered(n, reqs, rs, default) ==
  [i \in 1..n |->
     IF \E q \in DOMAIN reqs : i \in ToSet(reqs[q].at)
     THEN LET q == CHOOSE q \in DOMAIN reqs : i \in ToSet(reqs[q].at)
              j == CHOOSE j \in DOMAIN reqs[q].at : reqs[q].at[j] = i
          IN  rs[q][j]
     ELSE default]

SumOf(rs) == FoldLeft(LAMBDA acc, r : acc + (IF IsInt(r[1]) THEN r[1][2] ELSE 0), 0, rs)

(* The reply of execute from those of the shards, rs[q] for request q. *)
Merged(c, reqs, rs) ==
  CASE c.op = "PING"    -> Simple("PONG")
    [] c.op \in {"FLUSHDB", "MSET"} -> OK
    [] c.op = "KEYS"    -> Set(UNION {rs[q][1][2] : q \in DOMAIN rs})
    [] c.op = "SCAN"    -> Array(<<Bulk(<<48>>), Array(FlattenSeq([q \in DOMAIN rs |-> rs[q][1][2][2][2]]))>>)
    [] c.op = "MGET"    -> Options(Scattered(Len(c.keys), reqs, [q \in DOMAIN rs |-> rs[q][1][2]], Nil))
    [] c.op \in {"DBSIZE", "EXISTS"} \/ (c.op = "DEL" /\ Len(c.keys) > 1) -> Num(SumOf(rs))
    [] OTHER            -> rs[1][1]

(* ShardActor::run: the executor of the shard and its answers. *)
Direct(s, c) == IF c.op = "GET" THEN GetDirect(s, c) ELSE SetDirect(s, c)

Executed(rs, e) == [s |-> e.s, rs |-> Append(rs, e.r)]

HandleDirect(s, cmds) ==
  FoldLeft(LAMBDA acc, c : Executed(acc.rs, Direct(acc.s, c)), [s |-> s, rs |-> <<>>], cmds)

HandleCommand(s, m) == Executed(<<>>, Execute(SetTime(s, m.time), m.cmds[1]))

Handle(s, m) ==
  CASE m.mode = "command" -> HandleCommand(s, m)
    [] m.mode = "direct"  -> HandleDirect(s, m.cmds)
    [] m.mode = "evict"   -> [s |-> SetTime(s, m.time), rs |-> <<>>]

-----------------------------------------------------------------------------
CONSTANTS Conns,         \* connections
          Callers,       \* in-process users of the pooled and batched calls
          Scenes,        \* what the clients may ask, see Init
          PoolCapacity,  \* the response pool's capacity ...
          Prewarm        \* ... and how many slots it starts with

ASSUME ConnectionAssumption ==
  /\ NumShards \in Nat \ {0}
  /\ Prewarm \in 0..PoolCapacity
  /\ Conns \cap Callers = {}

Clients == Conns \cup Callers

VARIABLES scene,   \* the scene being played, fixed
          conn,    \* per client, the state of its handler or caller
          shard,   \* per shard, the executor
          inbox,   \* per shard, its mailbox
          slots,   \* response slots: the value, and who waits for it
          pool,    \* free slots, oldest first
          clock,   \* the time source
          ttl,     \* the TTL manager
          session, \* history: the client's view, a single executor ...
          want     \* ... and what it answers to the pipeline being read

vars == <<scene, conn, shard, inbox, slots, pool, clock, ttl, session, want>>

-----------------------------------------------------------------------------
(* What a client is entitled to: one executor with one transaction.  A     *)
(* reply that depends on the other clients or on the time Varies.          *)
Varies == <<"varies">>
ExecAbort == <<"error", "EXECABORT">>
BAD     == [op |-> "BAD"]
GARBAGE == [op |-> "GARBAGE"]

FreshSession == [x |-> Fresh(EmptyState), errs |-> FALSE]

SessionExecuted(z, e) == [z |-> [x |-> e.x, errs |-> z.errs /\ e.x.on], r |-> e.r]

SessionStep(z, c) ==
  CASE c.op \in {"BAD", "GARBAGE"} ->
         [z |-> [z EXCEPT !.errs = z.x.on /\ (c.op = "BAD" \/ @)], r |-> Error]
    [] c.op = "EXEC" /\ z.x.on /\ z.errs ->
         [z |-> [x |-> Ended(z.x), errs |-> FALSE], r |-> ExecAbort]
    [] c.op \in {"DBSIZE", "SCAN"} /\ ~z.x.on -> [z |-> z, r |-> Varies]
    [] c.op = "PING" /\ ~z.x.on -> [z |-> z, r |-> Simple("PONG")]
    [] OTHER -> SessionExecuted(z, TxExecute(z.x, c))

(* Frames after a protocol error are dropped with it. *)
Accepted(p) ==
  LET bad == SelectInSeq(p, LAMBDA c : c.op = "GARBAGE") IN IF bad = 0 THEN p ELSE SubSeq(p, 1, bad)

SessionNoted(rs, e) == [z |-> e.z, rs |-> Append(rs, e.r)]

SessionRun(z, p) ==
  FoldLeft(LAMBDA acc, c : SessionNoted(acc.rs, SessionStep(acc.z, c)),
           [z |-> z, rs |-> <<>>], Accepted(p))

-----------------------------------------------------------------------------
NoCall == [reqs |-> <<>>, unsent |-> {}, got |-> <<>>, time |-> 0]

NewConnection ==
  [input |-> <<>>, phase |-> "read", reads |-> 0, out |-> <<>>,
   on |-> FALSE, errs |-> FALSE, queue |-> <<>>, watched |-> <<>>,
   job |-> "idle", todo |-> <<>>, results |-> <<>>,
   call |-> NoCall, slot |-> 0, awake |-> TRUE]

SlotIds == 1..(Prewarm + Cardinality(Clients))
EmptySlot == [value |-> <<>>, waker |-> <<>>]

(* A scene gives, per client, the pipelines that may arrive at its first   *)
(* read, its second read, ...; the last value of the clock; and whether    *)
(* there is a TTL manager.                                                 *)
Init ==
  /\ scene   \in DOMAIN Scenes
  /\ conn    = [c \in Clients |-> NewConnection]
  /\ shard   = [sh \in Shards |-> EmptyState]
  /\ inbox   = [sh \in Shards |-> <<>>]
  /\ slots   = [i \in SlotIds |-> EmptySlot]
  /\ pool    = [i \in 1..Prewarm |-> i]
  /\ clock   = 0
  /\ ttl     = [at |-> 0, time |-> 0, waits |-> FALSE, shutdown |-> IF Scenes[scene].manager THEN "no" ELSE "done"]
  /\ session = [c \in Clients |-> FreshSession]
  /\ want    = [c \in Clients |-> <<>>]

-----------------------------------------------------------------------------
(* The handler, as functions of its state k. *)
Say(k, r) ==
  [k EXCEPT !.job = "idle", !.todo = <<>>, !.results = <<>>, !.call = NoCall,
            !.out = Append(@, r)]

Ends(k) == [k EXCEPT !.on = FALSE, !.errs = FALSE, !.queue = <<>>, !.watched = <<>>]

Start(k, job, cmds) == [k EXCEPT !.job = job, !.todo = cmds, !.results = <<>>]

GetOf(key) == [group |-> "string", op |-> "GET", key |-> key]

RunQueue(k) ==
  IF k.queue = <<>> THEN Say(Ends(k), Array(<<>>)) ELSE Start(Ends(k), "run", k.queue)

(* EXEC: abort, or compare the watched keys, or run at once. *)
ExecStart(k) ==
  IF k.errs THEN Say(Ends(k), ExecAbort)
  ELSE IF k.watched = <<>> THEN RunQueue(k)
  ELSE Start([k EXCEPT !.on = FALSE], "check", [i \in DOMAIN k.watched |-> GetOf(k.watched[i][1])])

InTransaction(k, c) ==
  CASE c.op = "EXEC"              -> ExecStart(k)
    [] c.op = "DISCARD"           -> Say(Ends(k), OK)
    [] c.op \in {"MULTI", "WATCH"} -> Say(k, Error)
    [] c.op = "BAD"               -> Say([k EXCEPT !.errs = TRUE], Error)
    [] OTHER                      -> Say([k EXCEPT !.queue = Append(@, c)], Simple("QUEUED"))

OutsideTransaction(k, c) ==
  CASE c.op = "MULTI"   -> Say([k EXCEPT !.on = TRUE, !.queue = <<>>, !.errs = FALSE], OK)
    [] c.op \in {"EXEC", "DISCARD", "BAD"} -> Say(k, Error)
    [] c.op = "WATCH"   -> Start(k, "watch", [i \in DOMAIN c.keys |-> GetOf(c.keys[i])])
    [] c.op = "UNWATCH" -> Say([k EXCEPT !.watched = <<>>], OK)
    [] OTHER            -> Start(k, "one", <<c>>)

(* A command of the job in progress has been answered with r. *)
Answered(k, r) ==
  LET rest == Tail(k.todo)
      next == [k EXCEPT !.todo = rest, !.results = Append(@, r), !.call = NoCall]
      snap == <<k.todo[1].key, r>>
  IN  CASE k.job = "one" -> Say(k, r)
        [] k.job = "watch" ->
             LET w == [next EXCEPT !.watched = Append(@, snap)]
             IN  IF rest = <<>> THEN Say(w, OK) ELSE w
        [] k.job = "check" ->
             IF r # k.watched[Len(k.results) + 1][2] THEN Say(Ends(k), Nil)
             ELSE IF rest = <<>> THEN RunQueue([next EXCEPT !.job = "idle"]) ELSE next
        [] k.job = "run" ->
             IF rest = <<>> THEN Say(k, Array(next.results)) ELSE next

-----------------------------------------------------------------------------
(* run: a read; the frames are then taken one by one. *)
Read(c) ==
  LET k == conn[c] IN
  /\ k.phase = "read" /\ k.reads < Len(Scenes[scene].pipelines[c])
  /\ \E p \in Scenes[scene].pipelines[c][k.reads + 1] : \E run \in {SessionRun(session[c], p)} :
       /\ conn' = [conn EXCEPT ![c] =
                     [k EXCEPT !.input = p, !.reads = @ + 1, !.out = <<>>, !.phase = "loop"]]
       /\ session' = [session EXCEPT ![c] = run.z]
       /\ want' = [want EXCEPT ![c] = run.rs]
  /\ UNCHANGED <<scene, shard, inbox, slots, pool, clock, ttl>>

Idle(k) == k.phase = "loop" /\ k.job = "idle" /\ k.input # <<>>

(* A caller hands any run of GETs, or of SETs, to the batched call. *)
CallBatch(c) ==
  LET k == conn[c] IN
  /\ Idle(k)
  /\ \E n \in DOMAIN k.input :
       LET batch == SubSeq(k.input, 1, n)
           reqs  == BatchRequests(batch)
       IN  /\ \A i \in 1..n : batch[i].op = batch[1].op
           /\ conn' = [conn EXCEPT ![c] =
                [k EXCEPT !.input = SubSeq(@, n + 1, Len(@)), !.job = "batch", !.todo = batch,
                          !.call = [reqs |-> reqs, unsent |-> DOMAIN reqs, got |-> <<>>, time |-> 0]]]
  /\ UNCHANGED <<scene, shard, inbox, slots, pool, clock, ttl, session, want>>

(* pooled_fast_get, pooled_fast_set: a slot of the pool, or a new one,     *)
(* carries the answer.                                                     *)
FreshSlot ==
  CHOOSE i \in SlotIds : i \notin ToSet(pool) /\ \A d \in Clients : conn[d].slot # i

CallPooled(c) ==
  LET k  == conn[c]
      h  == Head(k.input)
      id == IF pool # <<>> THEN Head(pool) ELSE FreshSlot
      sh == HashKeyBytes[h.key]
  IN  /\ Idle(k)
      /\ pool' = IF pool # <<>> THEN Tail(pool) ELSE pool
      /\ inbox' = [inbox EXCEPT ![sh] =
                     Append(@, [mode |-> "direct", cmds |-> <<h>>, time |-> 0, to |-> <<"slot", id>>])]
      /\ conn' = [conn EXCEPT ![c] =
                    [k EXCEPT !.input = Tail(@), !.job = "fast", !.slot = id, !.awake = TRUE]]
      /\ UNCHANGED <<scene, shard, slots, clock, ttl, session, want>>

(* Mutation: the slot goes back to the pool with the answer still in it. *)
PollLeavesValue(c) ==
  LET k  == conn[c]
      id == k.slot
  IN  /\ k.job = "fast" /\ k.awake
      /\ IF slots[id].value # <<>>
         THEN /\ conn' = [conn EXCEPT ![c] = Say([k EXCEPT !.slot = 0], slots[id].value[1])]
              /\ pool' = IF Len(pool) < PoolCapacity THEN Append(pool, id) ELSE pool
              /\ UNCHANGED slots
         ELSE /\ conn'  = [conn EXCEPT ![c].awake = FALSE]
              /\ slots' = [slots EXCEPT ![id].waker = <<c>>]
              /\ UNCHANGED pool
      /\ UNCHANGED <<scene, shard, inbox, clock, ttl, session, want>>

(* Mutation: a future that finds no answer does not leave its waker. *)
PollNoWaker(c) ==
  LET k  == conn[c]
      id == k.slot
  IN  /\ k.job = "fast" /\ k.awake
      /\ IF slots[id].value # <<>>
         THEN /\ conn'  = [conn EXCEPT ![c] = Say([k EXCEPT !.slot = 0], slots[id].value[1])]
              /\ slots' = [slots EXCEPT ![id] = EmptySlot]
              /\ pool'  = IF Len(pool) < PoolCapacity THEN Append(pool, id) ELSE pool
         ELSE conn' = [conn EXCEPT ![c].awake = FALSE] /\ UNCHANGED <<slots, pool>>
      /\ UNCHANGED <<scene, shard, inbox, clock, ttl, session, want>>

(* poll of the response future; the slot goes back empty, if there is room. *)
Poll(c) ==
  LET k  == conn[c]
      id == k.slot
  IN  /\ k.job = "fast" /\ k.awake
      /\ IF slots[id].value # <<>>
         THEN /\ conn'  = [conn EXCEPT ![c] = Say([k EXCEPT !.slot = 0], slots[id].value[1])]
              /\ slots' = [slots EXCEPT ![id] = EmptySlot]
              /\ pool'  = IF Len(pool) < PoolCapacity THEN Append(pool, id) ELSE pool
         ELSE /\ conn'  = [conn EXCEPT ![c].awake = FALSE]
              /\ slots' = [slots EXCEPT ![id].waker = <<c>>]
              /\ UNCHANGED pool
      /\ UNCHANGED <<scene, shard, inbox, clock, ttl, session, want>>

(* try_execute_command; the fast path comes back with NotFastPath. *)
TryExecute(c) ==
  LET k == conn[c]
      h == Head(k.input)
      rest == [k EXCEPT !.input = Tail(@)]
  IN  /\ Idle(k)
      /\ conn' = [conn EXCEPT ![c] =
           CASE h.op = "GARBAGE" -> Say([k EXCEPT !.input = <<>>], Error)
             [] h.op # "GARBAGE" /\ k.on  -> InTransaction(rest, h)
             [] h.op # "GARBAGE" /\ ~k.on -> OutsideTransaction(rest, h)]
      /\ UNCHANGED <<scene, shard, inbox, slots, pool, clock, ttl, session, want>>

(* The buffer is drained: the replies go out and the next read begins. *)
Flushed(c) ==
  /\ conn[c].phase = "loop" /\ conn[c].job = "idle" /\ conn[c].input = <<>>
  /\ conn' = [conn EXCEPT ![c].phase = "read"]
  /\ UNCHANGED <<scene, shard, inbox, slots, pool, clock, ttl, session, want>>

-----------------------------------------------------------------------------
(* ShardedActorState::execute for the next command of the job: the time is *)
(* taken, the messages go out, the answers come back.                      *)
Calling(k) == k.call.reqs # <<>>

BeginCall(c) ==
  LET k == conn[c]
  IN  /\ k.job \in {"one", "watch", "check", "run"} /\ ~Calling(k)
      /\ \E reqs \in {Requests(Head(k.todo))} : conn' = [conn EXCEPT ![c] =
           IF reqs = <<>> THEN Answered(k, Merged(Head(k.todo), <<>>, <<>>))
           ELSE [k EXCEPT !.call = [reqs |-> reqs, unsent |-> DOMAIN reqs, got |-> <<>>, time |-> clock]]]
      /\ UNCHANGED <<scene, shard, inbox, slots, pool, clock, ttl, session, want>>

Send(c) ==
  LET k == conn[c] IN
  \E i \in k.call.unsent :
    /\ k.job # "batch" /\ OneByOne(Head(k.todo)) => DOMAIN k.call.got = 1..(i - 1)
    /\ inbox' = [inbox EXCEPT ![k.call.reqs[i].shard] =
                   Append(@, [mode |-> k.call.reqs[i].mode, cmds |-> k.call.reqs[i].cmds,
                              time |-> k.call.time, to |-> <<"conn", c, i>>])]
    /\ conn' = [conn EXCEPT ![c].call.unsent = @ \ {i}]
    /\ UNCHANGED <<scene, shard, slots, pool, clock, ttl, session, want>>

EndCall(c) ==
  LET k  == conn[c]
      rs == [i \in DOMAIN k.call.reqs |-> k.call.got[i]]
  IN  /\ Calling(k) /\ DOMAIN k.call.got = DOMAIN k.call.reqs
      /\ conn' = [conn EXCEPT ![c] =
           IF k.job = "batch"
           THEN [Say(k, Nil) EXCEPT !.out = k.out \o Scattered(Len(k.todo), k.call.reqs, rs, Nil)]
           ELSE Answered(k, Merged(Head(k.todo), k.call.reqs, rs))]
      /\ UNCHANGED <<scene, shard, inbox, slots, pool, clock, ttl, session, want>>

-----------------------------------------------------------------------------
(* A shard takes its next message, executes it and answers. *)
ShardStep(sh) ==
  /\ inbox[sh] # <<>>
  /\ LET m  == Head(inbox[sh])
         to == m.to
     IN  \E done \in {Handle(shard[sh], m)} :
         /\ shard' = [shard EXCEPT ![sh] = done.s]
         /\ inbox' = [inbox EXCEPT ![sh] = Tail(@)]
         /\ CASE to[1] = "conn" ->
                   /\ conn' = [conn EXCEPT ![to[2]].call.got = Put(@, to[3], done.rs)]
                   /\ UNCHANGED <<slots, ttl>>
              [] to[1] = "slot" ->
                   /\ slots' = [slots EXCEPT ![to[2]] = [value |-> done.rs, waker |-> <<>>]]
                   /\ conn' = [d \in Clients |->
                        IF <<d>> = slots[to[2]].waker THEN [conn[d] EXCEPT !.awake = TRUE] ELSE conn[d]]
                   /\ UNCHANGED ttl
              [] to[1] = "ttl" -> ttl' = [ttl EXCEPT !.waits = FALSE] /\ UNCHANGED <<conn, slots>>
  /\ UNCHANGED <<scene, pool, clock, session, want>>

Tick ==
  /\ clock < Scenes[scene].maxClock
  /\ clock' = clock + 1
  /\ UNCHANGED <<scene, conn, shard, inbox, slots, pool, ttl, session, want>>

-----------------------------------------------------------------------------
(* TtlManagerActor: at is the shard of the sweep in progress, 0 for none. *)
Sweeping == ttl.at > 0
Running  == ttl.shutdown \in {"no", "asked"}

TtlOnly == UNCHANGED <<scene, conn, shard, slots, pool, clock, session, want>>

(* Mutation: the sweep does not take the time. *)
BeginSweepUntimed ==
  /\ Running /\ ~Sweeping
  /\ ttl' = [ttl EXCEPT !.at = 1]
  /\ UNCHANGED inbox /\ TtlOnly

BeginSweep ==
  /\ Running /\ ~Sweeping
  /\ ttl' = [ttl EXCEPT !.at = 1, !.time = clock]
  /\ UNCHANGED inbox /\ TtlOnly

SweepShard ==
  /\ Sweeping /\ ~ttl.waits /\ ttl.at <= NumShards
  /\ inbox' = [inbox EXCEPT ![ttl.at] =
                 Append(@, [mode |-> "evict", cmds |-> <<>>, time |-> ttl.time, to |-> <<"ttl">>])]
  /\ ttl' = [ttl EXCEPT !.at = @ + 1, !.waits = TRUE]
  /\ TtlOnly

EndSweep ==
  /\ ttl.at > NumShards /\ ~ttl.waits
  /\ ttl' = [ttl EXCEPT !.at = 0, !.time = 0]
  /\ UNCHANGED inbox /\ TtlOnly

(* TtlManagerHandle::shutdown, and the manager's reaction between sweeps. *)
AskShutdown ==
  /\ ttl.shutdown = "no"
  /\ ttl' = [ttl EXCEPT !.shutdown = "asked"]
  /\ UNCHANGED inbox /\ TtlOnly

TtlShutdown ==
  /\ ttl.shutdown = "asked" /\ ~Sweeping
  /\ ttl' = [ttl EXCEPT !.shutdown = "done"]
  /\ UNCHANGED inbox /\ TtlOnly

-----------------------------------------------------------------------------
Call(c) == BeginCall(c) \/ Send(c) \/ EndCall(c) \/ Flushed(c)

Handler(c) == TryExecute(c) \/ Call(c)
Caller(c)  == CallBatch(c) \/ CallPooled(c) \/ Poll(c) \/ Call(c)

Task(c) == IF c \in Conns THEN Handler(c) ELSE Caller(c)

Manager == SweepShard \/ EndSweep \/ BeginSweep

Next ==
  \/ \E c \in Clients : Read(c)
  \/ \E c \in Conns : Handler(c)
  \/ \E c \in Callers : Caller(c)
  \/ \E sh \in Shards : ShardStep(sh)
  \/ Tick \/ Manager \/ AskShutdown \/ TtlShutdown

Spec == Init /\ [][Next]_vars

(* The runtime polls some client task while there is one that can run,     *)
(* some shard while there is one with a message, and the manager; a select *)
(* that is polled with its shutdown message waiting takes it.  tokio gives *)
(* more: every single task that can run is polled.                         *)
FairSpec ==
  /\ Spec
  /\ WF_vars(\E c \in Clients : Task(c))
  /\ WF_vars(\E sh \in Shards : ShardStep(sh))
  /\ WF_vars(Manager) /\ SF_vars(TtlShutdown)

-----------------------------------------------------------------------------
(* A client that shares its keys with nobody cannot tell the server from a *)
(* single executor: whatever is batched, answered through a pooled slot,   *)
(* split over shards, queued or watched, it gets one reply per command, in *)
(* the order it sent them, with the values the commands would have given   *)
(* one after the other.                                                    *)
RepliesMatch ==
  \A c \in Clients :
    LET o == conn[c].out
        w == want[c]
    IN  /\ Len(o) <= Len(w)
        /\ \A i \in DOMAIN o : w[i] = Varies \/ o[i] = w[i]
        /\ conn[c].phase = "read" => Len(o) = Len(w)

(* A response slot serves one request at a time: a slot in the pool is     *)
(* there once, holds nothing, and neither a handler nor a message on its   *)
(* way to a shard refers to it; two handlers never hold the same slot.     *)
SlotsExclusive ==
  LET sent == {m \in UNION {ToSet(inbox[sh]) : sh \in Shards} : m.to[1] = "slot"}
  IN  /\ \A i, j \in DOMAIN pool : pool[i] = pool[j] => i = j
      /\ \A id \in ToSet(pool) :
           slots[id] = EmptySlot /\ (\A m \in sent : m.to[2] # id) /\ (\A c \in Clients : conn[c].slot # id)
      /\ \A c, d \in Clients : c # d /\ conn[c].slot = conn[d].slot => conn[c].slot = 0

(* Every pipeline is answered: no reply is lost between a shard, a slot    *)
(* and a handler that has gone to sleep on it.  shutdown() of the TTL      *)
(* manager returns too, also when it comes in a sweep.                     *)
PipelinesAnswered ==
  /\ \A c \in Clients : conn[c].phase # "read" ~> conn[c].phase = "read"
  /\ ttl.shutdown = "asked" ~> ttl.shutdown = "done"

(* While the TTL manager runs, keys that are past their deadline do not    *)
(* stay, even if nobody asks for them and although commands carry times    *)
(* that were taken before they were sent.                                  *)
Overdue ==
  \E sh \in Shards : \E k \in DOMAIN shard[sh].exp :
    k \in DOMAIN shard[sh].data /\ shard[sh].exp[k] <= clock

ExpiredEvicted == Overdue ~> (~Running \/ ~Overdue)
=============================================================================
