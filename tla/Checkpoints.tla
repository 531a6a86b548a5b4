----------------------------- MODULE Checkpoints -----------------------------
(***************************************************************************)
(* Checkpoints of the streaming persistence: the file format and its       *)
(* checks, CheckpointManager (streaming/checkpoint.rs), the manifest's     *)
(* compact_segments (streaming/manifest.rs) and the recovery that starts   *)
(* from a checkpoint (streaming/recovery.rs).                              *)
(*                                                                         *)
(* Nothing in the server creates checkpoints yet; the task that would is   *)
(* modelled from the flow checkpoint.rs documents: should_checkpoint,      *)
(* create_checkpoint with a snapshot of the state, then compact_segments   *)
(* through the manifest's update with optimistic locking. Other tasks      *)
(* write and flush between its steps. A flush is one step here that writes *)
(* a segment file; Streaming has its details.                              *)
(*                                                                         *)
(* A key's value is its version, 0 when it has none. A file is a sequence  *)
(* of parts, and a checksum is the value it is computed from.              *)
(***************************************************************************)
EXTENDS Naturals, Sequences, FiniteSetsExt, FiniteSets, SequencesExt

-----------------------------------------------------------------------------
(***************************************************************************)
(* The file format of a segment (streaming/segment.rs): a header, the      *)
(* records of the deltas, possibly compressed, and a footer.               *)
(*                                                                         *)
(* A file is a sequence of parts, and a checksum is the value it is        *)
(* computed from. A delta has a key and a value, the time of its stamp.    *)
(***************************************************************************)

\* SegmentHeader::compute_checksum
SummedHeader(h) == <<h.magic, h.version, h.flags, h.count, h.min, h.max>>

\* SegmentHeader::new and to_bytes
SegmentHeader(count, min, max, flags) ==
    LET h == [part |-> "header", magic |-> "RSEG", version |-> 1, flags |-> flags,
              count |-> count, min |-> min, max |-> max, sum |-> <<>>]
    IN  [h EXCEPT !.sum = SummedHeader(h)]

\* SegmentFooter::new and to_bytes
SegmentFooter(records, size, compressed) ==
    [part |-> "footer", data |-> records, size |-> size, compressed |-> compressed,
     magic |-> "GESR"]

\* SegmentWriter::write_delta: a length and the serialised delta.
Record(d) == [part |-> "record", delta |-> d]

\* SegmentWriter::finish; an empty segment is an error, and no caller asks for one.
WriteSegment(deltas, compressed) ==
    LET records == [i \in DOMAIN deltas |-> Record(deltas[i])]
        times   == {deltas[i].value : i \in DOMAIN deltas}
        final   == IF compressed THEN <<[part |-> "zstd", data |-> records]>> ELSE records
    IN  <<SegmentHeader(Len(deltas), Min(times), Max(times), IF compressed THEN 1 ELSE 0)>>
            \o final \o <<SegmentFooter(records, Len(records), Len(final))>>

\* SegmentHeader::from_bytes and validate
SegmentHeaderValid(h) ==
    /\ h.part = "header" /\ h.magic = "RSEG" /\ h.version = 1
    /\ h.sum = SummedHeader(h)

\* SegmentFooter::from_bytes: the magic number is all that is looked at.
SegmentFooterFound(x) == x.part = "footer" /\ x.magic = "GESR"

\* SegmentReader::open: the footer is what the file ends with.
OpensSegment(f) ==
    /\ Len(f) >= 2
    /\ SegmentHeaderValid(f[1])
    /\ SegmentFooterFound(f[Len(f)])
    /\ f[1].flags \in {0, 1}

RecordData(f) == SubSeq(f, 2, Len(f) - 1)

\* decompress_data; decode_all fails on anything but what the encoder wrote.
Decompresses(f) ==
    f[1].flags = 1 => Len(RecordData(f)) = 1 /\ RecordData(f)[1].part = "zstd"

Decompressed(f) == IF f[1].flags = 1 THEN RecordData(f)[1].data ELSE RecordData(f)

\* SegmentReader::validate
SegmentValidates(f) == Decompresses(f) /\ Decompressed(f) = f[Len(f)].data

\* DeltaIterator: as many records as the header counts, or as there are.
DeltasOf(f) ==
    LET records == Decompressed(f)
    IN  [i \in 1 .. Min({f[1].count, Len(records)}) |-> records[i].delta]

\* RecoveryManager::load_segment and the compactor read what passes both.
SegmentReadable(f) == OpensSegment(f) /\ SegmentValidates(f)

\* The files that a cut, a lost part or a change of one part can turn f into.
SegmentDamages(f) ==
    {SubSeq(f, 1, n) : n \in 0 .. (Len(f) - 1)}
        \cup {SubSeq(f, 1, i - 1) \o SubSeq(f, i + 1, Len(f)) : i \in DOMAIN f}
        \cup {[f EXCEPT ![1].count = n] : n \in 0 .. (f[1].count + 1)}
        \cup {[f EXCEPT ![1].flags = n] : n \in 0 .. 2}
        \cup {[f EXCEPT ![1].version = 2], [f EXCEPT ![1].magic = "damaged"],
              [f EXCEPT ![1].max = @ + 1]}
        \cup {[f EXCEPT ![i] = [part |-> "damaged"]] : i \in DOMAIN f}
        \cup {[f EXCEPT ![i].delta.value = @ + 1] : i \in {j \in DOMAIN f : f[j].part = "record"}}
        \cup {[f EXCEPT ![Len(f)].size = @ + 1], [f EXCEPT ![Len(f)].magic = "damaged"]}

-----------------------------------------------------------------------------
CONSTANTS Keys,
          Compression,   \* whether the data is compressed: compression_enabled, with
                         \* the zstd feature, of each process that takes a checkpoint
          MinSegments,   \* CheckpointConfig::min_segments
          Interval,      \* CheckpointConfig::interval
          MaxVersion, MaxSegments, MaxTime, MaxCrashes  \* bounds

VARIABLES state,      \* the replicated state: the version of each key
          buffer,     \* the deltas not yet flushed
          segments,   \* the segments in the object store
          manifest,   \* listed segments, checkpoint, next segment id
          files,      \* the checkpoint files in the object store, by timestamp
          now,        \* the time source
          task,       \* what the checkpointing task does
          crashes,
          flushed,    \* the newest version of each key a flush has reported
          raced       \* a flush has fallen between the version check and the
                      \* save of an update, which then undid it

vars == <<state, buffer, segments, manifest, files, now, task, crashes, flushed, raced>>

NoCheckpoint == [time |-> 0, last |-> 0, exists |-> FALSE]

-----------------------------------------------------------------------------
(* The file: header, length of the data, data, footer. *)

Summed(h) == <<h.magic, h.version, h.flags, h.keys, h.time, h.last>>

\* CheckpointHeader::new
NewHeader(count, time, last, flags) ==
    LET h == [part |-> "header", magic |-> "RCHK", version |-> 1, flags |-> flags,
              keys |-> count, time |-> time, last |-> last, sum |-> <<>>]
    IN  [h EXCEPT !.sum = Summed(h)]

\* CheckpointFooter::new: the checksum and the size are those of the data
\* before compression.
NewFooter(data) ==
    [part |-> "footer", data |-> data, size |-> Len(data), sum |-> <<data, Len(data)>>]

Entry(k, s) == [part |-> "entry", key |-> k, value |-> s[k]]

Serialized(s) == SetToSeq({Entry(k, s) : k \in {x \in Keys : s[x] > 0}})

Encoded(data, compressed) == IF compressed THEN <<[part |-> "zstd", data |-> data]>> ELSE data

\* CheckpointWriter::write
WriteFile(s, time, last, compressed) ==
    LET data == Serialized(s)
        final == Encoded(data, compressed)
    IN  <<NewHeader(Len(data), time, last, IF compressed THEN 1 ELSE 0),
          [part |-> "length", n |-> Len(final)]>> \o final \o <<NewFooter(data)>>

\* Mutation: the header's checksum is not compared.
HeaderValidUnchecked(h) == h.part = "header" /\ h.magic = "RCHK" /\ h.version = 1

\* CheckpointHeader::read_from and validate
HeaderValid(h) ==
    /\ h.part = "header" /\ h.magic = "RCHK" /\ h.version = 1
    /\ h.sum = Summed(h)

\* CheckpointReader::open
Opens(f) == f # <<>> /\ HeaderValid(f[1])

DataOf(f) == SubSeq(f, 3, 2 + f[2].n)

\* zstd::decode_all fails on anything but what the encoder wrote.
Decodes(f) == f[1].flags = 1 => Len(DataOf(f)) = 1 /\ DataOf(f)[1].part = "zstd"

Decoded(f) == IF f[1].flags = 1 THEN DataOf(f)[1].data ELSE DataOf(f)

\* CheckpointFooter::read_from: what is not a footer where the length says the
\* footer starts fails the footer's checksum.
FooterValid(x) == x.part = "footer" /\ x.sum = <<x.data, x.size>>

\* CheckpointReader::validate
Validates(f) ==
    /\ Len(f) >= 2 /\ f[2].part = "length"
    /\ Len(f) >= 3 + f[2].n
    /\ LET footer == f[3 + f[2].n]
       IN  /\ FooterValid(footer)
           /\ Decodes(f)
           /\ Decoded(f) = footer.data
           /\ Len(Decoded(f)) = footer.size

\* CheckpointReader::load: the state as a map of the keys it has.
Load(f) ==
    [k \in Keys |->
        LET found == {i \in DOMAIN Decoded(f) : Decoded(f)[i].key = k}
        IN  IF found = {} THEN 0 ELSE Decoded(f)[CHOOSE i \in found : TRUE].value]

-----------------------------------------------------------------------------
(* The manifest and the recovery. *)

NewManifest == [listed |-> {}, checkpoint |-> NoCheckpoint, next |-> 0, version |-> 0]

AddSegment(m, id) ==
    [m EXCEPT !.listed = @ \cup {id}, !.next = Max({@, id + 1}), !.version = @ + 1]

\* Mutation: the segment after the last one covered goes too.
CompactOneMore(m, c) ==
    [m EXCEPT !.listed = {i \in @ : i > c.last + 1}, !.checkpoint = c, !.version = @ + 1]

CompactSegments(m, c) ==
    [m EXCEPT !.listed = {i \in @ : i > c.last}, !.checkpoint = c, !.version = @ + 1]

\* The listed segments, after a checkpoint only the ones it does not cover.
ToReplay ==
    IF manifest.checkpoint.exists THEN {i \in manifest.listed : i > manifest.checkpoint.last}
                                  ELSE manifest.listed

\* RecoveryManager::recover fails on a checkpoint or a segment it cannot read.
Recoverable ==
    /\ manifest.checkpoint.exists =>
          /\ manifest.checkpoint.time \in DOMAIN files
          /\ Opens(files[manifest.checkpoint.time]) /\ Validates(files[manifest.checkpoint.time])
    /\ \A i \in ToReplay : SegmentReadable(segments[i])

Base == IF manifest.checkpoint.exists THEN Load(files[manifest.checkpoint.time])
                                      ELSE [k \in Keys |-> 0]

\* The replayed deltas are merged into the checkpoint: the newest version stays.
Recovered ==
    LET replayed == UNION {ToSet(DeltasOf(segments[i])) : i \in ToReplay}
    IN  [k \in Keys |-> Max({Base[k]} \cup {d.value : d \in {e \in replayed : e.key = k}})]

-----------------------------------------------------------------------------
(* The server. *)

Init ==
    /\ state = [k \in Keys |-> 0] /\ buffer = {}
    /\ segments = [i \in {} |-> <<>>]
    /\ manifest = NewManifest
    /\ files = [t \in {} |-> <<>>]
    /\ now = 1
    /\ task = [at |-> "idle"]
    /\ crashes = 0
    /\ flushed = [k \in Keys |-> 0] /\ raced = FALSE

Write(k) ==
    /\ state[k] < MaxVersion
    /\ state' = [state EXCEPT ![k] = @ + 1]
    /\ buffer' = buffer \cup {[key |-> k, value |-> state'[k]]}
    /\ UNCHANGED <<segments, manifest, files, now, task, crashes, flushed, raced>>

Flush ==
    /\ buffer # {}
    /\ manifest.next < MaxSegments
    /\ segments' = [i \in DOMAIN segments \cup {manifest.next} |->
                       IF i = manifest.next THEN WriteSegment(SetToSeq(buffer), TRUE)
                                            ELSE segments[i]]
    /\ manifest' = AddSegment(manifest, manifest.next)
    /\ flushed' = [k \in Keys |-> Max({flushed[k]} \cup {d.value : d \in {e \in buffer : e.key = k}})]
    /\ buffer' = {}
    /\ raced' = (raced \/ task.at = "save")
    /\ UNCHANGED <<state, files, now, task, crashes>>

TimePasses ==
    /\ now < MaxTime
    /\ now' = now + 1
    /\ UNCHANGED <<state, buffer, segments, manifest, files, task, crashes, flushed, raced>>

-----------------------------------------------------------------------------
(* The checkpointing task. *)

ShouldCheckpoint(m) ==
    /\ Cardinality(m.listed) >= MinSegments
    /\ m.checkpoint.exists => now - m.checkpoint.time >= Interval

\* The task looks at the manifest and takes the newest segment listed as the
\* last one its checkpoint will cover: 0 when there is none.
Decide ==
    /\ task.at = "idle"
    /\ ShouldCheckpoint(manifest)
    /\ task' = [at |-> "snapshot", last |-> Max(manifest.listed \cup {0})]
    /\ UNCHANGED <<state, buffer, segments, manifest, files, now, crashes, flushed, raced>>

\* create_checkpoint up to its put.
Snapshot ==
    /\ task.at = "snapshot"
    /\ \E compressed \in Compression :
          task' = [at |-> "put", last |-> task.last, time |-> now,
                   file |-> WriteFile(state, now, task.last, compressed)]
    /\ UNCHANGED <<state, buffer, segments, manifest, files, now, crashes, flushed, raced>>

PutFile ==
    /\ task.at = "put"
    /\ files' = [t \in DOMAIN files \cup {task.time} |->
                    IF t = task.time THEN task.file ELSE files[t]]
    /\ task' = [at |-> "load", checkpoint |-> [time |-> task.time, last |-> task.last,
                                               exists |-> TRUE]]
    /\ UNCHANGED <<state, buffer, segments, manifest, now, crashes, flushed, raced>>

\* ManifestManager::update: load and change, compare the versions, save.
UpdateLoad ==
    /\ task.at = "load"
    /\ task' = [at |-> "check", version |-> manifest.version,
                manifest |-> CompactSegments(manifest, task.checkpoint)]
    /\ UNCHANGED <<state, buffer, segments, manifest, files, now, crashes, flushed, raced>>

UpdateCheck ==
    /\ task.at = "check"
    /\ task' = IF manifest.version = task.version THEN [at |-> "save", manifest |-> task.manifest]
                                                  ELSE [at |-> "idle"]
    /\ UNCHANGED <<state, buffer, segments, manifest, files, now, crashes, flushed, raced>>

UpdateSave ==
    /\ task.at = "save"
    /\ manifest' = task.manifest
    /\ task' = [at |-> "idle"]
    /\ UNCHANGED <<state, buffer, segments, files, now, crashes, flushed, raced>>

\* A crash loses the state and the buffer; the restart recovers.
CrashRestart ==
    /\ crashes < MaxCrashes
    /\ Recoverable
    /\ crashes' = crashes + 1
    /\ state' = Recovered
    /\ buffer' = {} /\ task' = [at |-> "idle"]
    /\ UNCHANGED <<segments, manifest, files, now, flushed, raced>>

Next ==
    \/ \E k \in Keys : Write(k)
    \/ Flush \/ TimePasses
    \/ Decide \/ Snapshot \/ PutFile \/ UpdateLoad \/ UpdateCheck \/ UpdateSave
    \/ CrashRestart

Spec == Init /\ [][Next]_vars

-----------------------------------------------------------------------------
(* Properties. *)

\* A recovery never brings back less than what flushes reported as stored,
\* though a checkpoint stands in for the segments before it: its snapshot is
\* taken after the manifest is read, later segments are replayed over it, and
\* the version check keeps an update from undoing a flush - but for a flush
\* between the check and the save.
FlushedRecovered ==
    raced \/ (Recoverable /\ \A k \in Keys : Recovered[k] >= flushed[k])

\* The files a damage to one part, or a cut, can turn a file into.
Damaged(f) ==
    {SubSeq(f, 1, n) : n \in 0 .. (Len(f) - 1)}
        \cup {[f EXCEPT ![1].keys = @ + 1], [f EXCEPT ![1].flags = 1 - @],
              [f EXCEPT ![1].last = @ + 1], [f EXCEPT ![1].version = @ + 1]}
        \cup {[f EXCEPT ![2].n = n] : n \in 0 .. (Len(f) + 1)}
        \cup {[f EXCEPT ![i] = [part |-> "damaged"]] : i \in 2 .. Len(f)}
        \cup {[f EXCEPT ![i].value = @ + 1] : i \in {j \in DOMAIN f : f[j].part = "entry"}}
        \cup {[f EXCEPT ![Len(f)].size = @ + 1]}

\* What a recovery reads from a damaged checkpoint file is the state that was
\* written or an error, never another state: the checksums of the header, the
\* data and the footer leave no part out but the length, and a wrong length
\* leaves no footer to be found.
DamageDetected ==
    \A t \in DOMAIN files :
        /\ Opens(files[t]) /\ Validates(files[t])
        /\ \A f \in Damaged(files[t]) :
            Opens(f) /\ Validates(f) => /\ Load(f) = Load(files[t])
                                        /\ f[1] = files[t][1]

\* What a recovery or a compaction reads from a damaged segment file is the
\* deltas that were flushed, in their order, or an error: the count that says
\* when the reader stops is under the header's checksum, the records are under
\* the footer's, and the sizes in the footer, which nothing covers, are not used.
SegmentDamageDetected(ids) ==
    \A i \in ids, compressed \in Compression :
        LET deltas == DeltasOf(segments[i])
            file   == WriteSegment(deltas, compressed)
        IN  /\ SegmentReadable(file) /\ DeltasOf(file) = deltas
            /\ \A f \in SegmentDamages(file) :
                  SegmentReadable(f) => DeltasOf(f) = deltas
=============================================================================
