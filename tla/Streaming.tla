----------------------------- MODULE Streaming -----------------------------
(***************************************************************************)
(* Streaming persistence: the persistence actor that flushes its buffer    *)
(* (streaming/persistence.rs) and the compaction worker                    *)
(* (streaming/compaction.rs), two tasks that read and replace the same     *)
(* manifest in the object store, one store call at a time.                 *)
(*                                                                         *)
(* Both save a manifest by writing manifest.json.tmp and renaming it; the  *)
(* temporary key is the same for both.  A crash loses the buffer and the   *)
(* work of both tasks; a restart runs the recovery and starts them again.  *)
(***************************************************************************)
EXTENDS Naturals, FiniteSets

-----------------------------------------------------------------------------
(***************************************************************************)
(* What the streaming persistence keeps in the object store: segments of   *)
(* deltas, and the manifest that lists them (streaming/manifest.rs).       *)
(*                                                                         *)
(* A delta carries the whole replicated value of its key, so of a delta    *)
(* only the key, the Lamport time and whether it is a tombstone matter.    *)
(* A segment is the set of its deltas, or Torn when its checksum fails.    *)
(* A manifest lists segments with their ids and sizes, in deltas.          *)
(***************************************************************************)

CONSTANTS
    Delta,    \* the deltas: records with a key, a time and a dead flag
    Torn      \* an object that is cut off or fails its checksum

ASSUME DeltaAssumption ==
    /\ \A d \in Delta : d.time \in Nat /\ d.dead \in BOOLEAN
    /\ \A d, e \in Delta : d.key = e.key /\ d.time = e.time => d = e

ASSUME TornAssumption == \A s \in SUBSET Delta : s # Torn

Segment == (SUBSET Delta) \cup {Torn}

SegmentInfo == [id : Nat, size : Nat]

Manifest == [segments : SUBSET SegmentInfo, next : Nat]

Listed(m) == {s.id : s \in m.segments}

\* Manifest::new
NewManifest == [segments |-> {}, next |-> 0]

\* allocate_segment_id hands out next_segment_id.
Allocate(m) == [m EXCEPT !.next = @ + 1]

\* Manifest::add_segment
AddSegment(m, id, size) ==
    [segments |-> m.segments \cup {[id |-> id, size |-> size]},
     next     |-> IF id >= m.next THEN id + 1 ELSE m.next]

\* segments.retain(..) of the compactor
RemoveSegments(m, ids) ==
    [m EXCEPT !.segments = {s \in @ : s.id \notin ids}]

\* Manifest::verify_invariants: no two segments have the same id, and
\* next_segment_id is above every id.
OrderedManifest(m) ==
    /\ \A s, t \in m.segments : s.id = t.id => s = t
    /\ \A i \in Listed(m) : i < m.next

-----------------------------------------------------------------------------
(* The map key -> latest delta that compaction builds.                     *)
\* Mutant of Latest: the first delta read for a key wins.
LatestFirstRead(got, read) ==
    got \cup {d \in read : \A e \in got : e.key # d.key}

Latest(got, read) ==
    {d \in got \cup read : \A e \in got \cup read : e.key = d.key => e.time <= d.time}

\* delta_time < tombstone_cutoff
Expired(d, cutoff) == d.dead /\ d.time < cutoff

-----------------------------------------------------------------------------
(* RecoveryManager::recover over a directory of segments.                  *)
Loadable(segments, i) == i \in DOMAIN segments /\ segments[i] # Torn

\* Every listed segment must load, or the whole recovery fails.
Recoverable(segments, m) == \A i \in Listed(m) : Loadable(segments, i)

RecoveredDeltas(segments, m) ==
    UNION {segments[i] : i \in {j \in Listed(m) : Loadable(segments, j)}}

-----------------------------------------------------------------------------
CONSTANTS
    Backpressure,       \* backpressure_threshold_bytes, in deltas
    MaxSegments,        \* compaction.max_segments, 0 for no compaction
    MinToCompact,       \* compaction.min_segments_to_compact
    MaxPerCompaction,   \* compaction.max_segments_per_compaction
    TargetSize,         \* compaction.target_segment_size, in deltas
    TombstoneCutoff,    \* now - tombstone_ttl, as compared with Lamport times
    Overlap,            \* whether the two tasks run at the same time
    Faults,             \* the store operations that may fail
    MaxCrashes,         \* bound on the crashes of a behaviour
    Absent              \* no object under a key

ASSUME ObjectAssumption == {Torn, Absent} \cap Manifest = {} /\ Torn # Absent

ASSUME BoundsAssumption ==
    /\ Backpressure \in Nat \ {0}
    /\ MaxSegments \in Nat /\ MinToCompact \in Nat \ {0}
    /\ MaxPerCompaction \in Nat /\ TargetSize \in Nat /\ TombstoneCutoff \in Nat
    /\ MaxCrashes \in Nat
    /\ Overlap \in BOOLEAN

ASSUME FaultsAssumption ==
    Faults \subseteq {"get", "put", "partial", "rename", "copied", "delete"}

VARIABLES
    up,          \* the process runs
    clock,       \* clock[k]: the last Lamport time given to a write of k
    buffer,      \* StreamingPersistence::buffer
    flush,       \* the flush in progress
    compaction,  \* the compaction in progress
    segments,    \* the segment objects: id -> content
    manifest,    \* the object manifest.json
    temp,        \* the object manifest.json.tmp
    crashes,     \* number of crashes so far
    written      \* history: deltas a flush reported, or a save took, as stored

taskVars == <<buffer, flush, compaction>>
storeVars == <<segments, manifest, temp>>
vars == <<up, clock, taskVars, storeVars, crashes, written>>

Key == {d.key : d \in Delta}

IdleFlush == [pc |-> "idle", deltas |-> {}, manifest |-> NewManifest, id |-> 0]

IdleCompaction ==
    [pc |-> "idle", manifest |-> NewManifest, todo |-> {}, got |-> {}, taken |-> {},
     missing |-> FALSE]

Manifests == {m \in {manifest, temp} : m \notin {Absent, Torn}}

TypeOK ==
    /\ up \in BOOLEAN
    /\ clock \in [Key -> Nat]
    /\ buffer \subseteq Delta /\ Cardinality(buffer) <= Backpressure
    /\ flush.pc \in {"idle", "put", "temp", "rename"} /\ flush.deltas \subseteq Delta
    /\ compaction.pc \in {"idle", "read", "temp", "rename", "delete"}
    /\ compaction.got \subseteq Delta
    /\ DOMAIN segments \subseteq Nat /\ \A i \in DOMAIN segments : segments[i] \in Segment
    /\ \A m \in Manifests \cup {flush.manifest, compaction.manifest} : m \in Manifest
    /\ crashes \in 0..MaxCrashes
    /\ written \subseteq Delta

Init ==
    /\ up = TRUE
    /\ clock = [k \in Key |-> 0]
    /\ buffer = {}
    /\ flush = IdleFlush
    /\ compaction = IdleCompaction
    /\ segments = [i \in {} |-> {}]
    /\ manifest = Absent
    /\ temp = Absent
    /\ crashes = 0
    /\ written = {}

-----------------------------------------------------------------------------
(* The object store, one operation at a time.                              *)
\* ManifestManager::load_or_create; a manifest that does not parse is an error.
LoadedManifest == IF manifest = Absent THEN NewManifest ELSE manifest

StoreSegment(id, content) ==
    segments' = [i \in DOMAIN segments \cup {id} |-> IF i = id THEN content ELSE segments[i]]

\* A put that fails may leave a cut-off object behind.
PutFails(id) ==
    \/ "put" \in Faults /\ UNCHANGED segments
    \/ "partial" \in Faults /\ StoreSegment(id, Torn)

PutTempFails ==
    \/ "put" \in Faults /\ UNCHANGED temp
    \/ "partial" \in Faults /\ temp' = Torn

\* rename fails without its source; on S3 it is a copy and a delete.
RenameFails ==
    \/ temp = Absent /\ UNCHANGED <<manifest, temp>>
    \/ "rename" \in Faults /\ UNCHANGED <<manifest, temp>>

RenameCopies ==
    /\ "copied" \in Faults
    /\ temp # Absent
    /\ manifest' = temp
    /\ UNCHANGED temp

Rename ==
    /\ temp # Absent
    /\ manifest' = temp
    /\ temp' = Absent

-----------------------------------------------------------------------------
\* A write of the shard: its delta reaches push, which refuses it above the
\* backpressure threshold.  The actor takes no message during a flush.
Push(d) ==
    /\ up /\ flush.pc = "idle"
    /\ d.time > clock[d.key]
    /\ clock' = [clock EXCEPT ![d.key] = d.time]
    /\ buffer' = IF Cardinality(buffer) >= Backpressure THEN buffer ELSE buffer \cup {d}
    /\ UNCHANGED <<up, flush, compaction, storeVars, crashes, written>>

\* flush: take the buffer, load the manifest, allocate an id.
\* The interval may have passed at any time, so should_flush is "not empty".
FlushBegin ==
    /\ up /\ flush.pc = "idle" /\ buffer # {}
    /\ Overlap \/ compaction.pc = "idle"
    /\ buffer' = {}
    /\ \/ /\ manifest # Torn
          /\ flush' = [pc |-> "put", deltas |-> buffer, id |-> LoadedManifest.next,
                       manifest |-> Allocate(LoadedManifest)]
       \/ /\ manifest = Torn \/ "get" \in Faults
          /\ UNCHANGED flush
    /\ UNCHANGED <<up, clock, compaction, storeVars, crashes, written>>

\* An error returns from flush; the deltas that were taken are gone.
FlushPut ==
    /\ up /\ flush.pc = "put"
    /\ \/ /\ StoreSegment(flush.id, flush.deltas)
          /\ flush' = [flush EXCEPT !.pc = "temp",
                           !.manifest = AddSegment(@, flush.id, Cardinality(flush.deltas))]
       \/ PutFails(flush.id) /\ flush' = IdleFlush
    /\ UNCHANGED <<up, clock, buffer, compaction, manifest, temp, crashes, written>>

FlushTemp ==
    /\ up /\ flush.pc = "temp"
    /\ \/ temp' = flush.manifest /\ flush' = [flush EXCEPT !.pc = "rename"]
       \/ PutTempFails /\ flush' = IdleFlush
    /\ UNCHANGED <<up, clock, buffer, compaction, segments, manifest, crashes, written>>

FlushRename ==
    /\ up /\ flush.pc = "rename"
    /\ flush' = IdleFlush
    /\ \/ Rename /\ written' = written \cup flush.deltas
       \/ /\ RenameCopies
          /\ written' = IF temp = flush.manifest THEN written \cup flush.deltas ELSE written
       \/ RenameFails /\ UNCHANGED written
    /\ UNCHANGED <<up, clock, buffer, compaction, segments, crashes>>

-----------------------------------------------------------------------------
(* The compaction worker.                                                  *)
\* select_segments_to_compact: the lowest ids among the small segments.
SmallSegments(m) == {i \in Listed(m) : \E s \in m.segments : s.id = i /\ s.size < TargetSize}

SelectSegments(m) ==
    {i \in SmallSegments(m) : Cardinality({j \in SmallSegments(m) : j < i}) < MaxPerCompaction}

\* compact_if_needed loads the manifest to compare its length with max_segments,
\* compact loads it and selects.  Too few segments end the pass.
CompactBegin ==
    /\ up /\ MaxSegments > 0 /\ compaction.pc = "idle"
    /\ Overlap \/ flush.pc = "idle"
    /\ manifest # Torn
    /\ Cardinality(Listed(LoadedManifest)) >= MaxSegments
    /\ Cardinality(SelectSegments(LoadedManifest)) >= MinToCompact
    /\ compaction' = [IdleCompaction EXCEPT
                          !.pc = "read",
                          !.manifest = LoadedManifest,
                          !.todo = SelectSegments(LoadedManifest)]
    /\ UNCHANGED <<up, clock, buffer, flush, storeVars, crashes, written>>

\* Each segment is fetched in turn.  One that does not validate is skipped and
\* stays listed; one that cannot be fetched, whatever the error, is taken as
\* missing and will be removed from the manifest.
CompactRead ==
    \E i \in compaction.todo :
        /\ up /\ compaction.pc = "read"
        /\ \A j \in compaction.todo : i <= j
        /\ \/ /\ Loadable(segments, i)
              /\ compaction' = [compaction EXCEPT !.todo = @ \ {i}, !.taken = @ \cup {i},
                                                  !.got = Latest(@, segments[i])]
           \/ /\ i \in DOMAIN segments /\ segments[i] = Torn
              /\ compaction' = [compaction EXCEPT !.todo = @ \ {i}]
           \/ /\ i \notin DOMAIN segments \/ "get" \in Faults
              /\ compaction' = [compaction EXCEPT !.todo = @ \ {i}, !.taken = @ \cup {i},
                                                  !.missing = TRUE]
        /\ UNCHANGED <<up, clock, buffer, flush, storeVars, crashes, written>>

\* The deltas the new segment gets: key_to_delta without expired tombstones.
Kept == {d \in compaction.got : ~Expired(d, TombstoneCutoff)}

ReadDone == up /\ compaction.pc = "read" /\ compaction.todo = {}

OnlyMissing == compaction.missing /\ compaction.got = {}

\* Only missing segments: the manifest is cleaned and no object is deleted.
CompactOnlyMissing ==
    /\ ReadDone
    /\ OnlyMissing
    /\ compaction' = [compaction EXCEPT !.pc = "temp", !.taken = {},
                          !.manifest = RemoveSegments(@, compaction.taken)]
    /\ UNCHANGED <<up, clock, buffer, flush, storeVars, crashes, written>>

CompactTooFew ==
    /\ ReadDone
    /\ ~OnlyMissing
    /\ Cardinality(compaction.taken) < MinToCompact
    /\ compaction' = IdleCompaction
    /\ UNCHANGED <<up, clock, buffer, flush, storeVars, crashes, written>>

\* Nothing remains: the segments are removed without a new one.
CompactNothingKept ==
    /\ ReadDone
    /\ ~OnlyMissing /\ Cardinality(compaction.taken) >= MinToCompact
    /\ Kept = {}
    /\ compaction' = [compaction EXCEPT !.pc = "temp",
                          !.manifest = RemoveSegments(@, compaction.taken)]
    /\ UNCHANGED <<up, clock, buffer, flush, storeVars, crashes, written>>

\* Mutant of CompactPut: next_segment_id stays at the id of the new segment.
CompactPutSameNext ==
    /\ ReadDone
    /\ ~OnlyMissing /\ Cardinality(compaction.taken) >= MinToCompact
    /\ Kept # {}
    /\ StoreSegment(compaction.manifest.next, Kept)
    /\ compaction' = [compaction EXCEPT
           !.pc = "temp",
           !.manifest = [AddSegment(RemoveSegments(@, compaction.taken), @.next,
                                    Cardinality(Kept)) EXCEPT !.next = @ - 1]]
    /\ UNCHANGED <<up, clock, buffer, flush, manifest, temp, crashes, written>>

\* The new segment takes the next id of the manifest loaded at the start.
CompactPut ==
    /\ ReadDone
    /\ ~OnlyMissing /\ Cardinality(compaction.taken) >= MinToCompact
    /\ Kept # {}
    /\ LET id == compaction.manifest.next
       IN  \/ /\ StoreSegment(id, Kept)
              /\ compaction' = [compaction EXCEPT
                     !.pc = "temp",
                     !.manifest = [AddSegment(RemoveSegments(@, compaction.taken), id,
                                              Cardinality(Kept)) EXCEPT !.next = id + 1]]
           \/ PutFails(id) /\ compaction' = IdleCompaction
    /\ UNCHANGED <<up, clock, buffer, flush, manifest, temp, crashes, written>>

CompactTemp ==
    /\ up /\ compaction.pc = "temp"
    /\ \/ temp' = compaction.manifest /\ compaction' = [compaction EXCEPT !.pc = "rename"]
       \/ PutTempFails /\ compaction' = IdleCompaction
    /\ UNCHANGED <<up, clock, buffer, flush, segments, manifest, crashes, written>>

\* The old segments are deleted only after the manifest is saved.
CompactRename ==
    /\ up /\ compaction.pc = "rename"
    /\ \/ Rename /\ compaction' = [compaction EXCEPT !.pc = "delete"]
       \/ (RenameCopies \/ RenameFails) /\ compaction' = IdleCompaction
    /\ UNCHANGED <<up, clock, buffer, flush, segments, crashes, written>>

\* Deletes are best effort: a failure leaves an object nobody lists.
CompactDelete ==
    /\ up /\ compaction.pc = "delete"
    /\ \/ \E i \in compaction.taken :
              /\ \A j \in compaction.taken : i <= j
              /\ compaction' = [compaction EXCEPT !.taken = @ \ {i}]
              /\ \/ segments' = [j \in DOMAIN segments \ {i} |-> segments[j]]
                 \/ "delete" \in Faults /\ UNCHANGED segments
       \/ compaction.taken = {} /\ compaction' = IdleCompaction /\ UNCHANGED segments
    /\ UNCHANGED <<up, clock, buffer, flush, manifest, temp, crashes, written>>

-----------------------------------------------------------------------------
(* The process.                                                            *)
Crash ==
    /\ up /\ crashes < MaxCrashes
    /\ up' = FALSE
    /\ crashes' = crashes + 1
    /\ buffer' = {} /\ flush' = IdleFlush /\ compaction' = IdleCompaction
    /\ UNCHANGED <<clock, storeVars, written>>

\* The server starts only if the recovery of the object store succeeds.
Restart ==
    /\ ~up
    /\ manifest # Torn
    /\ Recoverable(segments, LoadedManifest)
    /\ up' = TRUE
    /\ UNCHANGED <<clock, taskVars, storeVars, crashes, written>>

FlushStep == FlushBegin \/ FlushPut \/ FlushTemp \/ FlushRename

CompactStep ==
    \/ CompactBegin \/ CompactRead
    \/ CompactOnlyMissing \/ CompactTooFew \/ CompactNothingKept \/ CompactPut
    \/ CompactTemp \/ CompactRename \/ CompactDelete

Next ==
    \/ \E d \in Delta : Push(d)
    \/ FlushStep
    \/ CompactStep
    \/ Crash
    \/ Restart

Spec == Init /\ [][Next]_vars

-----------------------------------------------------------------------------
(* Properties.                                                             *)
Recovered == RecoveredDeltas(segments, LoadedManifest)

\* verify_invariants: in no manifest, stored or in memory, has next_segment_id
\* fallen to the id of a listed segment, even when the two tasks overwrite
\* each other's manifest.
ManifestsOrdered ==
    \A m \in Manifests \cup {flush.manifest, compaction.manifest} : OrderedManifest(m)

\* The manifest lists only segments that exist and validate, so that a restart
\* can recover: RecoveryManager fails on the first segment it cannot load.
ManifestReadable == manifest # Torn /\ Recoverable(segments, LoadedManifest)

\* A delta is settled when recovery returns its key with this write or a later
\* one, or returns nothing for a key that was deleted at or after the write.
Settled(d) ==
    \/ \E e \in Recovered : e.key = d.key /\ e.time >= d.time
    \/ /\ \A e \in Recovered : e.key # d.key
       /\ \E t \in written : t.dead /\ t.key = d.key /\ t.time >= d.time

\* What a flush reported as written is what a recovery brings back: no later
\* flush, compaction, failure or crash loses it or revives an older value.
WrittenRecovered == manifest # Torn /\ \A d \in written : Settled(d)

\* A segment keeps its content as long as the manifest lists it: ids are never
\* handed out twice and a put never replaces live data.
ListedKept ==
    \A i \in Listed(LoadedManifest) \cap Listed(LoadedManifest') :
        i \in DOMAIN segments => i \in DOMAIN segments' /\ segments'[i] = segments[i]

=============================================================================
