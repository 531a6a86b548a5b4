-------------------------------- MODULE Wal --------------------------------
(***************************************************************************)
(* The write-ahead log: WalRotator (streaming/wal.rs) driven by WalActor   *)
(* (streaming/wal_actor.rs) on behalf of the callers of WalActorHandle.    *)
(*                                                                         *)
(* The actor is one task that receives messages from a bounded channel.    *)
(* In Always mode it batches: "recv" waits for a first message, "wait" is  *)
(* the group-commit window, "drain" empties the channel and ends with one  *)
(* fsync that resolves the acks of the batch.  In the other modes it stays *)
(* in "recv".  A crash of the machine keeps the synced records of a file   *)
(* and any prefix of the others; a restart opens the directory again.      *)
(***************************************************************************)
EXTENDS Naturals, Sequences, Functions

CONSTANTS
    Entry,                   \* the write requests (a delta and its Lamport timestamp)
    Timestamp,               \* Timestamp[e]: value.timestamp.time of entry e
    Header, Torn,            \* the two kinds of record that are not entries
    Awaited,                 \* the writes sent with write_durable
    Policy,                  \* config.fsync_policy
    MaxFileSize,             \* config.max_file_size, in records
    GroupCommitMaxEntries,   \* config.group_commit_max_entries
    ChannelCapacity,         \* WAL_CHANNEL_CAPACITY
    Faults,                  \* the I/O operations that may fail
    TruncateTimes,           \* arguments of WalActorHandle::truncate
    MaxCrashes               \* bound on the crashes of a behaviour

ASSUME TimestampAssumption == Timestamp \in [Entry -> Nat]

ASSUME RecordAssumption == Header # Torn /\ Header \notin Entry /\ Torn \notin Entry

ASSUME AwaitedAssumption == Awaited \subseteq Entry

ASSUME PolicyAssumption == Policy \in {"Always", "EverySecond", "No"}

ASSUME BoundsAssumption ==
    /\ MaxFileSize \in Nat \ {0, 1}
    /\ GroupCommitMaxEntries \in Nat \ {0}
    /\ ChannelCapacity \in Nat \ {0}
    /\ MaxCrashes \in Nat
    /\ TruncateTimes \subseteq Nat

ASSUME FaultsAssumption ==
    Faults \subseteq {"encode", "create", "append", "partial", "fsync", "delete"}

VARIABLES
    channel,           \* rx: the queued messages
    result,            \* result[e]: what the caller of the write knows
    shutdown,          \* progress of WalActorHandle::shutdown
    pc,                \* where the actor's loop is
    pendingAcks,       \* pending_acks
    entriesSinceSync,  \* entries_since_sync
    files,             \* the directory: sequence number -> file
    current,           \* sequence of current_writer, 0 for None
    currentSequence,   \* current_sequence
    crashes,           \* number of crashes so far
    closedUnsynced,    \* history: entries in a writer dropped before an fsync
    truncatedTo        \* history: largest threshold a truncation ran with

actorVars == <<pendingAcks, entriesSinceSync>>
rotatorVars == <<files, current, currentSequence, closedUnsynced>>
vars == <<channel, result, shutdown, pc, actorVars, rotatorVars, crashes, truncatedTo>>

-----------------------------------------------------------------------------
(* The files of the log as the storage layer keeps them (wal_store.rs).  A *)
(* file is the sequence of the records appended to it and the number of    *)
(* leading records an fsync has covered.  A record is the file header, a   *)
(* whole entry, or Torn: the bytes a failed write_all leaves behind, which *)
(* the checksum of WalEntry::decode rejects.  Sizes are counted in records.*)
Record == Entry \cup {Header, Torn}

File == [data : Seq(Record), synced : Nat]

EmptyFile == [data |-> <<>>, synced |-> 0]

\* WalFileWriter::append of one record.
AppendRecord(f, r) == [f EXCEPT !.data = Append(@, r)]

\* WalFileWriter::sync: everything appended so far becomes durable.
SyncFile(f) == [f EXCEPT !.synced = Len(f.data)]

\* WalReader::open: the file starts with a valid header.
Openable(f) == f.data # <<>> /\ f.data[1] = Header

\* Record i is an entry WalReader::entries returns: the header is valid and no
\* record up to i fails to decode.
Decodes(f, i) == Openable(f) /\ i >= 2 /\ \A j \in 2..i : f.data[j] \in Entry

\* WalReader::entries over the first n records.
EntriesIn(f, n) == {f.data[i] : i \in {i \in 1..Len(f.data) : i <= n /\ Decodes(f, i)}}

\* What a reader of the file returns while the machine is up.
ReadableIn(f) == EntriesIn(f, Len(f.data))

\* What a reader is sure to return after a crash of the machine.
DurableIn(f) == EntriesIn(f, f.synced)

\* A crash keeps the synced records and any prefix of what follows them.
CrashImages(f) ==
    {[data |-> SubSeq(f.data, 1, n), synced |-> n] : n \in f.synced..Len(f.data)}

\* WalStore::create: a new, empty file replaces whatever had the name.
PutFile(fs, n, f) == [m \in DOMAIN fs \cup {n} |-> IF m = n THEN f ELSE fs[m]]

\* WalStore::delete of the files whose sequence numbers are in D.
DropFiles(fs, D) == Restrict(fs, DOMAIN fs \ D)

\* WalRotator::recover_all_entries (the order does not matter to a CRDT replay).
Readable(fs) == UNION {ReadableIn(fs[n]) : n \in DOMAIN fs}
Durable(fs) == UNION {DurableIn(fs[n]) : n \in DOMAIN fs}

-----------------------------------------------------------------------------
(* The state of the actor and its callers.                                 *)
Message ==
    [type : {"Write"}, entry : Entry, ack : BOOLEAN]
        \cup [type : {"SyncTick", "Shutdown"}]
        \cup [type : {"TruncateUpTo"}, time : TruncateTimes]

Results == {"new", "waiting", "ok", "err", "timeout", "forgotten", "dropped", "lost"}

TypeOK ==
    /\ channel \in Seq(Message) /\ Len(channel) <= ChannelCapacity
    /\ result \in [Entry -> Results]
    /\ shutdown \in {"no", "requested", "answered"}
    /\ pc \in {"recv", "wait", "drain", "stopped", "down"}
    /\ pendingAcks \in Seq(Entry)
    /\ entriesSinceSync \in Nat
    /\ DOMAIN files \subseteq Nat \ {0}
    /\ \A n \in DOMAIN files : files[n] \in File /\ files[n].synced <= Len(files[n].data)
    /\ current \in DOMAIN files \cup {0}
    /\ currentSequence \in Nat
    /\ crashes \in 0..MaxCrashes
    /\ closedUnsynced \subseteq Entry
    /\ truncatedTo \in Nat

Init ==
    /\ channel = <<>>
    /\ result = [e \in Entry |-> "new"]
    /\ shutdown = "no"
    /\ pc = "recv"
    /\ pendingAcks = <<>>
    /\ entriesSinceSync = 0
    /\ files = [n \in {} |-> EmptyFile]
    /\ current = 0
    /\ currentSequence = 0
    /\ crashes = 0
    /\ closedUnsynced = {}
    /\ truncatedTo = 0

Running == pc \in {"recv", "wait", "drain"}

-----------------------------------------------------------------------------
Send(m) ==
    /\ Running
    /\ Len(channel) < ChannelCapacity
    /\ channel' = Append(channel, m)

\* write_durable waits for room in the channel, then for the ack.
WriteDurable(e) ==
    /\ e \in Awaited
    /\ result[e] = "new"
    /\ \/ /\ Send([type |-> "Write", entry |-> e, ack |-> TRUE])
          /\ result' = [result EXCEPT ![e] = "waiting"]
       \/ /\ pc = "stopped"
          /\ result' = [result EXCEPT ![e] = "err"]
          /\ UNCHANGED channel
    /\ UNCHANGED <<shutdown, pc, actorVars, rotatorVars, crashes, truncatedTo>>

\* write_fire_and_forget drops the delta when try_send fails.
WriteFireAndForget(e) ==
    /\ e \notin Awaited
    /\ result[e] = "new"
    /\ pc # "down"
    /\ \/ /\ Send([type |-> "Write", entry |-> e, ack |-> FALSE])
          /\ result' = [result EXCEPT ![e] = "forgotten"]
       \/ /\ pc = "stopped" \/ Len(channel) = ChannelCapacity
          /\ result' = [result EXCEPT ![e] = "dropped"]
          /\ UNCHANGED channel
    /\ UNCHANGED <<shutdown, pc, actorVars, rotatorVars, crashes, truncatedTo>>

\* The five-second timeout around the ack of write_durable.
AckTimeout(e) ==
    /\ pc # "down"
    /\ result[e] = "waiting"
    /\ result' = [result EXCEPT ![e] = "timeout"]
    /\ UNCHANGED <<channel, shutdown, pc, actorVars, rotatorVars, crashes, truncatedTo>>

\* The one-second timer of the server, in EverySecond mode.
SyncTick ==
    /\ Policy = "EverySecond"
    /\ Send([type |-> "SyncTick"])
    /\ UNCHANGED <<result, shutdown, pc, actorVars, rotatorVars, crashes, truncatedTo>>

Truncate(t) ==
    /\ Send([type |-> "TruncateUpTo", time |-> t])
    /\ UNCHANGED <<result, shutdown, pc, actorVars, rotatorVars, crashes, truncatedTo>>

RequestShutdown ==
    /\ shutdown = "no"
    /\ Send([type |-> "Shutdown"])
    /\ shutdown' = "requested"
    /\ UNCHANGED <<result, pc, actorVars, rotatorVars, crashes, truncatedTo>>

-----------------------------------------------------------------------------
(* WalRotator.                                                             *)

Unsynced(f) == ReadableIn(f) \ DurableIn(f)

\* The writer is dropped without an fsync: what it had not synced is exposed.
Dropping(fs, n) == IF n = 0 THEN {} ELSE Unsynced(fs[n])

NeedsNewFile == current # 0 => Len(files[current].data) >= MaxFileSize

\* Mutant of AppendEntry: the writer stays in use after a failed write.
AppendEntryKeepingWriter(n, fs, exposed, e, r) ==
    /\ current' = n
    /\ closedUnsynced' = exposed
    /\ \/ r = "ok" /\ files' = [fs EXCEPT ![n] = AppendRecord(@, e)]
       \/ /\ r = "err"
          /\ \/ "append" \in Faults /\ files' = fs
             \/ "partial" \in Faults /\ files' = [fs EXCEPT ![n] = AppendRecord(@, Torn)]

\* append_entry on the writer of file n of directory fs; an error of any kind
\* drops the writer so that the next append starts a clean file.
AppendEntry(n, fs, exposed, e, r) ==
    \/ /\ r = "ok"
       /\ files' = [fs EXCEPT ![n] = AppendRecord(@, e)]
       /\ current' = n
       /\ closedUnsynced' = exposed
    \/ /\ r = "err"
       /\ current' = 0
       /\ closedUnsynced' = exposed \cup Dropping(fs, n)
       /\ \/ "append" \in Faults /\ files' = fs
          \/ "partial" \in Faults /\ files' = [fs EXCEPT ![n] = AppendRecord(@, Torn)]

\* rotate: drop the writer, take the next sequence number, create the file and
\* write its header, or fail at one of these two.
Rotate(e, r) ==
    LET n == currentSequence + 1
        exposed == closedUnsynced \cup Dropping(files, current)
    IN  /\ currentSequence' = n
        /\ \/ AppendEntry(n, PutFile(files, n, AppendRecord(EmptyFile, Header)), exposed, e, r)
           \/ /\ "create" \in Faults
              /\ r = "err"
              /\ current' = 0
              /\ closedUnsynced' = exposed
              /\ files' \in {files, PutFile(files, n, EmptyFile),
                             PutFile(files, n, AppendRecord(EmptyFile, Torn))}

RotatorAppend(e, r) ==
    \/ NeedsNewFile /\ Rotate(e, r)
    \/ /\ ~NeedsNewFile
       /\ AppendEntry(current, files, closedUnsynced, e, r)
       /\ UNCHANGED currentSequence

\* sync covers the current file only; without a writer it succeeds at once.
RotatorSync(r) ==
    /\ \/ r = "ok" /\ current = 0 /\ UNCHANGED files
       \/ r = "ok" /\ current # 0 /\ files' = [files EXCEPT ![current] = SyncFile(@)]
       \/ r = "err" /\ current # 0 /\ "fsync" \in Faults /\ UNCHANGED files
    /\ UNCHANGED <<current, currentSequence, closedUnsynced>>

\* Mutant of Truncatable: a file goes as soon as one of its entries is covered.
TruncatableSomeCovered(t) ==
    {n \in DOMAIN files \ {current} :
        Openable(files[n]) /\ \E e \in ReadableIn(files[n]) : Timestamp[e] <= t}

\* truncate_before: every file but the current one whose readable entries are
\* all at or below t.  A file without a valid header is left alone.
Truncatable(t) ==
    {n \in DOMAIN files \ {current} :
        Openable(files[n]) /\ \A e \in ReadableIn(files[n]) : Timestamp[e] <= t}

\* The files are visited in order; an error of delete ends the visit.
TruncateBefore(t) ==
    /\ \/ files' = DropFiles(files, Truncatable(t))
       \/ /\ "delete" \in Faults
          /\ \E stop \in Truncatable(t) :
                files' = DropFiles(files, {n \in Truncatable(t) : n < stop})
    /\ truncatedTo' = IF t > truncatedTo THEN t ELSE truncatedTo
    /\ UNCHANGED <<current, currentSequence, closedUnsynced>>

-----------------------------------------------------------------------------
(* WalActor.                                                               *)

\* Sending on the oneshots of the writes in S: only a caller that still waits
\* learns the outcome.
Resolve(res, S, r) ==
    [e \in Entry |-> IF e \in S /\ res[e] = "waiting" THEN r ELSE res[e]]

\* The writes whose ack channels die with the receiver when the actor ends.
Queued == {channel[i].entry : i \in {i \in 2..Len(channel) : channel[i].type = "Write"}}

WriteOutcome(m, r) ==
    \/ r = "err" /\ "encode" \in Faults /\ UNCHANGED rotatorVars
    \/ RotatorAppend(m.entry, r)

\* Mutant of FlushGroupCommit: the outcome of the fsync is not looked at.
FlushGroupCommitIgnoringSync(S) ==
    \/ /\ entriesSinceSync = 0
       /\ result' = Resolve(result, S, "err")
       /\ UNCHANGED <<rotatorVars, actorVars>>
    \/ /\ entriesSinceSync > 0
       /\ \E r \in {"ok", "err"} : RotatorSync(r)
       /\ result' = Resolve(Resolve(result, Range(pendingAcks), "ok"), S, "err")
       /\ pendingAcks' = <<>>
       /\ entriesSinceSync' = 0

\* flush_group_commit; S are the writes that get an error right after it.
FlushGroupCommit(S) ==
    \/ /\ entriesSinceSync = 0
       /\ result' = Resolve(result, S, "err")
       /\ UNCHANGED <<rotatorVars, actorVars>>
    \/ /\ entriesSinceSync > 0
       /\ \E r \in {"ok", "err"} :
            /\ RotatorSync(r)
            /\ result' = Resolve(Resolve(result, Range(pendingAcks), r), S, "err")
       /\ pendingAcks' = <<>>
       /\ entriesSinceSync' = 0
\* Mutant of AlwaysWrite: an acked write is not counted as unsynced.
AlwaysWriteUncounted(m) ==
    /\ m.type = "Write"
    /\ \/ /\ WriteOutcome(m, "ok")
          /\ IF m.ack
             THEN pendingAcks' = Append(pendingAcks, m.entry) /\ UNCHANGED entriesSinceSync
             ELSE entriesSinceSync' = entriesSinceSync + 1 /\ UNCHANGED pendingAcks
          /\ UNCHANGED result
       \/ /\ WriteOutcome(m, "err")
          /\ result' = Resolve(result, {m.entry}, "err")
          /\ UNCHANGED actorVars
    /\ UNCHANGED <<shutdown, truncatedTo>>


AlwaysWrite(m) ==
    /\ m.type = "Write"
    /\ \/ /\ WriteOutcome(m, "ok")
          /\ entriesSinceSync' = entriesSinceSync + 1
          /\ pendingAcks' = IF m.ack THEN Append(pendingAcks, m.entry) ELSE pendingAcks
          /\ UNCHANGED result
       \/ /\ WriteOutcome(m, "err")
          /\ result' = Resolve(result, {m.entry}, "err")
          /\ UNCHANGED actorVars
    /\ UNCHANGED <<shutdown, truncatedTo>>

HandleTruncation(m) ==
    /\ m.type = "TruncateUpTo"
    /\ TruncateBefore(m.time)
    /\ UNCHANGED <<result, shutdown, actorVars>>

\* handle_message_always for the messages after which the loop goes on.
HandleMessageAlways(m) ==
    \/ AlwaysWrite(m)
    \/ HandleTruncation(m)
    \/ m.type = "SyncTick" /\ UNCHANGED <<result, shutdown, actorVars, rotatorVars, truncatedTo>>

\* handle_message_always for Shutdown: final flush and the response.
HandleShutdownAlways(m, S) ==
    /\ m.type = "Shutdown"
    /\ FlushGroupCommit(S)
    /\ shutdown' = "answered"
    /\ UNCHANGED truncatedTo

\* run_always_mode, the first message of a batch.
AlwaysRecv ==
    /\ pc = "recv" /\ channel # <<>>
    /\ \/ /\ HandleMessageAlways(Head(channel))
          /\ pc' = IF entriesSinceSync' \in 1..(GroupCommitMaxEntries - 1) THEN "wait" ELSE "drain"
          /\ channel' = Tail(channel)
       \/ /\ HandleShutdownAlways(Head(channel), Queued)
          /\ pc' = "stopped"
          /\ channel' = <<>>
    /\ UNCHANGED crashes

\* run_always_mode, a message inside the group-commit window.  A Shutdown ends
\* the window, not the loop around it.
AlwaysWaitRecv ==
    /\ pc = "wait" /\ channel # <<>>
    /\ entriesSinceSync < GroupCommitMaxEntries
    /\ \/ HandleMessageAlways(Head(channel)) /\ UNCHANGED pc
       \/ HandleShutdownAlways(Head(channel), {}) /\ pc' = "drain"
    /\ channel' = Tail(channel)
    /\ UNCHANGED crashes

\* The window ends: group_commit_max_wait has passed or the batch is full.
AlwaysWaitEnd ==
    /\ pc = "wait"
    /\ pc' = "drain"
    /\ UNCHANGED <<channel, result, shutdown, actorVars, rotatorVars, crashes, truncatedTo>>

\* run_always_mode, a message that is already there after the window.
AlwaysDrainRecv ==
    /\ pc = "drain" /\ channel # <<>>
    /\ entriesSinceSync < GroupCommitMaxEntries
    /\ \/ /\ HandleMessageAlways(Head(channel))
          /\ channel' = Tail(channel)
          /\ UNCHANGED pc
       \/ /\ HandleShutdownAlways(Head(channel), Queued)
          /\ pc' = "stopped"
          /\ channel' = <<>>
    /\ UNCHANGED crashes

\* The end of an iteration: fsync what was appended, resolve the acks.
AlwaysFlush ==
    /\ pc = "drain"
    /\ channel = <<>> \/ entriesSinceSync >= GroupCommitMaxEntries
    /\ FlushGroupCommit({})
    /\ pc' = "recv"
    /\ UNCHANGED <<channel, shutdown, crashes, truncatedTo>>

\* A write in EverySecond or No mode: append and ack, no fsync.
UnsyncedWrite(m) ==
    /\ m.type = "Write"
    /\ \E r \in {"ok", "err"} :
        /\ WriteOutcome(m, r)
        /\ result' = Resolve(result, IF m.ack THEN {m.entry} ELSE {}, r)
        /\ entriesSinceSync' =
              IF r = "ok" /\ Policy = "EverySecond" THEN entriesSinceSync + 1 ELSE entriesSinceSync
    /\ UNCHANGED <<pendingAcks, shutdown, truncatedTo>>

\* SyncTick: the counter is reset whether or not the fsync succeeded.
HandleSyncTick(m) ==
    /\ m.type = "SyncTick"
    /\ IF Policy = "EverySecond" /\ entriesSinceSync > 0
       THEN \E r \in {"ok", "err"} : RotatorSync(r)
       ELSE UNCHANGED rotatorVars
    /\ entriesSinceSync' = 0
    /\ UNCHANGED <<result, pendingAcks, shutdown, truncatedTo>>

HandleShutdownUnsynced(m) ==
    /\ m.type = "Shutdown"
    /\ IF Policy = "EverySecond" /\ entriesSinceSync > 0
       THEN \E r \in {"ok", "err"} : RotatorSync(r)
       ELSE UNCHANGED rotatorVars
    /\ result' = Resolve(result, Queued, "err")
    /\ shutdown' = "answered"
    /\ UNCHANGED <<actorVars, truncatedTo>>

\* run_everysec_mode and run_no_mode: one message.
UnsyncedRecv ==
    /\ pc = "recv" /\ channel # <<>>
    /\ \/ /\ \/ UnsyncedWrite(Head(channel))
             \/ HandleSyncTick(Head(channel))
             \/ HandleTruncation(Head(channel))
          /\ channel' = Tail(channel)
          /\ UNCHANGED pc
       \/ /\ HandleShutdownUnsynced(Head(channel))
          /\ pc' = "stopped"
          /\ channel' = <<>>
    /\ UNCHANGED crashes

ActorStep ==
    \/ /\ Policy = "Always"
       /\ AlwaysRecv \/ AlwaysWaitRecv \/ AlwaysWaitEnd \/ AlwaysDrainRecv \/ AlwaysFlush
    \/ Policy # "Always" /\ UnsyncedRecv

-----------------------------------------------------------------------------
(* The machine stops and starts again.                                     *)

Crash ==
    /\ pc # "down" /\ crashes < MaxCrashes
    /\ pc' = "down"
    /\ crashes' = crashes + 1
    /\ files' \in {fs \in [DOMAIN files -> UNION {CrashImages(files[n]) : n \in DOMAIN files}] :
                      \A n \in DOMAIN files : fs[n] \in CrashImages(files[n])}
    /\ result' = Resolve(result, Entry, "lost")
    /\ channel' = <<>> /\ pendingAcks' = <<>> /\ entriesSinceSync' = 0 /\ current' = 0
    /\ shutdown' = "no"
    /\ UNCHANGED <<currentSequence, closedUnsynced, truncatedTo>>

\* Mutant of Restart: the numbering starts again without a look at the directory.
RestartFromZero ==
    /\ pc = "down"
    /\ pc' = "recv"
    /\ currentSequence' = 0
    /\ UNCHANGED <<channel, result, shutdown, actorVars, files, current, crashes,
                   closedUnsynced, truncatedTo>>

\* spawn_wal_actor: WalRotator::new takes the largest sequence in the directory.
Restart ==
    /\ pc = "down"
    /\ pc' = "recv"
    /\ \E n \in DOMAIN files \cup {0} :
        /\ \A m \in DOMAIN files : m <= n
        /\ currentSequence' = n
    /\ UNCHANGED <<channel, result, shutdown, actorVars, files, current, crashes,
                   closedUnsynced, truncatedTo>>

-----------------------------------------------------------------------------
Callers ==
    \/ \E e \in Entry : WriteDurable(e) \/ WriteFireAndForget(e) \/ AckTimeout(e)
    \/ SyncTick
    \/ \E t \in TruncateTimes : Truncate(t)
    \/ RequestShutdown

Next == Callers \/ ActorStep \/ Crash \/ Restart

Spec == Init /\ [][Next]_vars

\* tokio polls the actor's task again whenever it can make progress, and the
\* group-commit timer fires.
FairSpec == Spec /\ WF_vars(ActorStep)

-----------------------------------------------------------------------------
(* Properties.                                                             *)

Streamed(e) == Timestamp[e] <= truncatedTo

\* Always mode: a write whose ack said Ok is readable after any crash, unless a
\* truncation was told that its timestamp has been streamed
\* (flush_group_commit: "All entries are durable -- resolve all acks with Ok").
AckedDurable ==
    Policy = "Always" =>
        \A e \in Entry : result[e] = "ok" => e \in Durable(files) \/ Streamed(e)

\* Always mode, what the rotator really guarantees: the only acknowledged
\* writes a crash can take are those in a writer that rotate or a failed append
\* dropped without an fsync.
AckedDurableOrExposed ==
    Policy = "Always" =>
        \A e \in Entry : result[e] = "ok" =>
            e \in Durable(files) \/ Streamed(e) \/ e \in closedUnsynced

\* Nothing is ever written behind bytes a reader cannot decode: every entry in a
\* file is one WalReader::entries returns, because append gives up a file after
\* its first failed write.
EntriesReadable ==
    \A n \in DOMAIN files : \A i \in 1..Len(files[n].data) :
        files[n].data[i] \in Entry => Decodes(files[n], i)

\* The file of the open writer has a header and nothing that does not decode.
WriterClean ==
    current # 0 => /\ Openable(files[current])
                   /\ \A j \in 2..Len(files[current].data) : files[current].data[j] \in Entry

\* No file has a number the rotator will hand out again.
SequenceFresh == pc # "down" => \A n \in DOMAIN files : n <= currentSequence

\* Acks are pending in Always mode only, each of a write that the next fsync
\* reaches or that is already durable, streamed or exposed.
PendingHeld ==
    \A e \in Range(pendingAcks) :
        /\ Policy = "Always"
        /\ \/ e \in Durable(files) \/ Streamed(e) \/ e \in closedUnsynced
           \/ current # 0 /\ e \in ReadableIn(files[current])

\* verify_invariants of the actor: no more acks wait than entries were appended
\* since the last fsync, so a flush that finds entries_since_sync = 0 strands
\* nobody.
PendingAcksCounted == Len(pendingAcks) <= entriesSinceSync

\* No step (a crash, a restart that reuses the directory, a rotation that
\* creates a file, a truncation that deletes some) loses a durable entry that
\* was not streamed.
DurableKept ==
    [][\A e \in Durable(files) : e \in Durable(files') \/ Timestamp[e] <= truncatedTo']_vars

\* The inductive invariant behind the safety properties: whatever the actor, the
\* callers and the machine do, the next rotation creates a file that is not
\* there yet, the writer's file is readable to its end, and every pending ack
\* belongs to a write that the next fsync makes durable.
IInv ==
    /\ TypeOK
    /\ AckedDurableOrExposed
    /\ EntriesReadable
    /\ PendingAcksCounted
    /\ WriterClean
    /\ SequenceFresh
    /\ PendingHeld

\* While the machine is up, what the log holds only shrinks by a truncation
\* that covers it, synced or not.
ReadableKept ==
    [][pc' # "down" =>
        \A e \in Readable(files) : e \in Readable(files') \/ Timestamp[e] <= truncatedTo']_vars

\* A write the actor has taken or still has queued is answered: the batch it is
\* in gets its fsync, or the actor ends and drops the ack channel.
WritesAnswered == \A e \in Entry : result[e] = "waiting" ~> result[e] # "waiting"

=============================================================================
