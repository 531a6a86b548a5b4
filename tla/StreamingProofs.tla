-------------------------- MODULE StreamingProofs --------------------------
(***************************************************************************)
(* Proofs about Streaming, for any set of deltas, any configuration of the *)
(* two tasks and any number of crashes.                                    *)
(*                                                                         *)
(* Whatever fails and however the two tasks interleave, the state is       *)
(* well-typed and no manifest lists an id that it may hand out again. The  *)
(* second invariant, Numbered, rests on the first, Typed. When flush and   *)
(* compaction do not overlap:                                              *)
(*                                                                         *)
(*   - a restart can always follow the manifest (StoreReadable), and a     *)
(*     listed segment keeps its content (SegmentsImmutable): Apart;        *)
(*   - if besides no fetch fails, what a flush reported is recovered       *)
(*     (NothingLost, EverythingRecovered): Durable.                        *)
(***************************************************************************)
EXTENDS Streaming, FiniteSetTheorems, TLAPS

FiniteDeltas == {S \in SUBSET Delta : IsFiniteSet(S)}

FlushState ==
    [pc : {"idle", "put", "temp", "rename"}, deltas : FiniteDeltas, manifest : Manifest, id : Nat]

CompactionState ==
    [pc : {"idle", "read", "temp", "rename", "delete"}, manifest : Manifest, todo : SUBSET Nat,
     got : FiniteDeltas, taken : SUBSET Nat, missing : BOOLEAN]

Typed ==
    /\ up \in BOOLEAN
    /\ clock \in [Key -> Nat]
    /\ buffer \in FiniteDeltas /\ Cardinality(buffer) <= Backpressure
    /\ flush \in FlushState
    /\ compaction \in CompactionState
    /\ DOMAIN segments \subseteq Nat
    /\ \A i \in DOMAIN segments : segments[i] \in FiniteDeltas \cup {Torn}
    /\ manifest \in Manifest \cup {Absent, Torn}
    /\ temp \in Manifest \cup {Absent, Torn}
    /\ crashes \in 0..MaxCrashes
    /\ written \subseteq Delta

\* The id of a flush was handed out by the manifest it works on: it is above
\* every id that manifest lists.
Numbered ==
    /\ ManifestsOrdered
    /\ flush.pc = "put" =>
           flush.manifest.next = flush.id + 1 /\ \A i \in Listed(flush.manifest) : i < flush.id

-----------------------------------------------------------------------------
(* Deltas, segments and manifests.                                         *)

\* Finite sets of deltas: the buffer, a segment, what a compaction keeps.
LEMMA FiniteDeltasFacts ==
    /\ {} \in FiniteDeltas
    /\ \A S \in FiniteDeltas : Cardinality(S) \in Nat /\ S \subseteq Delta
    /\ \A S \in FiniteDeltas : \A T \in SUBSET S : T \in FiniteDeltas
    /\ \A S, T \in FiniteDeltas : S \cup T \in FiniteDeltas
  BY Zenon, FS_EmptySet, FS_CardinalityType, FS_Subset, FS_Union DEF FiniteDeltas

\* What Manifest's methods return is a manifest.
LEMMA ManifestTypes ==
    ASSUME NEW m \in Manifest, NEW id \in Nat, NEW size \in Nat, NEW ids
    PROVE  /\ NewManifest \in Manifest
           /\ Allocate(m) \in Manifest
           /\ AddSegment(m, id, size) \in Manifest
           /\ RemoveSegments(m, ids) \in Manifest
           /\ m.next \in Nat
           /\ Listed(m) \subseteq Nat
  BY DEF Manifest, SegmentInfo, NewManifest, Allocate, AddSegment, RemoveSegments, Listed

\* The ids a manifest lists after allocate_segment_id, after add_segment and
\* after the compactor's retain.
LEMMA ListedAllocate ==
    ASSUME NEW m \in Manifest, NEW n \in Nat
    PROVE  /\ Listed(NewManifest) = {}
           /\ Listed(Allocate(m)) = Listed(m) /\ Allocate(m).next = m.next + 1
           /\ Listed([m EXCEPT !.next = n]) = Listed(m)
<1>1. Listed(NewManifest) = {}
  BY DEF NewManifest, Listed
<1>2. Allocate(m).segments = m.segments /\ Allocate(m).next = m.next + 1
  BY DEF Allocate, Manifest
<1>3. [m EXCEPT !.next = n].segments = m.segments
  BY DEF Manifest
<1> QED BY Zenon, <1>1, <1>2, <1>3 DEF Listed

\* The segment that is added joins them.
LEMMA ListedAdd ==
    ASSUME NEW m \in Manifest, NEW id \in Nat, NEW size \in Nat
    PROVE  Listed(AddSegment(m, id, size)) = Listed(m) \cup {id}
<1>1. AddSegment(m, id, size).segments = m.segments \cup {[id |-> id, size |-> size]}
  BY DEF AddSegment
<1>2. \A i \in Listed(AddSegment(m, id, size)) : i \in Listed(m) \cup {id}
  BY <1>1 DEF Listed
<1>3. \A i \in Listed(m) : i \in Listed(AddSegment(m, id, size))
  BY <1>1 DEF Listed
<1>4. id \in Listed(AddSegment(m, id, size))
  <2>1. [id |-> id, size |-> size] \in AddSegment(m, id, size).segments
    BY <1>1
  <2> QED BY <2>1 DEF Listed
<1> QED BY <1>2, <1>3, <1>4

\* The segments that are removed leave them.
LEMMA ListedRemove ==
    ASSUME NEW m \in Manifest, NEW ids
    PROVE  /\ Listed(RemoveSegments(m, ids)) = Listed(m) \ ids
           /\ RemoveSegments(m, ids).next = m.next
<1>1. /\ RemoveSegments(m, ids).segments = {s \in m.segments : s.id \notin ids}
      /\ RemoveSegments(m, ids).next = m.next
  BY DEF RemoveSegments, Manifest
<1>2. \A i \in Listed(RemoveSegments(m, ids)) : i \in Listed(m) \ ids
  BY <1>1 DEF Listed
<1>3. \A i \in Listed(m) \ ids : i \in Listed(RemoveSegments(m, ids))
  BY <1>1 DEF Listed
<1> QED BY <1>1, <1>2, <1>3

\* verify_invariants is kept by allocate_segment_id, by retain, and by
\* add_segment of an id above the listed ones.
LEMMA ManifestOrder ==
    ASSUME NEW m \in Manifest, OrderedManifest(m),
           NEW id \in Nat, NEW size \in Nat, NEW ids
    PROVE  /\ OrderedManifest(NewManifest)
           /\ OrderedManifest(Allocate(m))
           /\ OrderedManifest(RemoveSegments(m, ids))
           /\ id \notin Listed(m) => OrderedManifest(AddSegment(m, id, size))
           /\ id \notin Listed(m) /\ id >= m.next =>
                  OrderedManifest([AddSegment(m, id, size) EXCEPT !.next = id + 1])
<1>1. OrderedManifest(NewManifest)
  BY DEF OrderedManifest, NewManifest, Listed
<1>2. OrderedManifest(Allocate(m))
  BY ListedAllocate, ManifestTypes DEF OrderedManifest, Allocate, Manifest
<1>3. OrderedManifest(RemoveSegments(m, ids))
  <2>1. /\ RemoveSegments(m, ids).segments \subseteq m.segments
        /\ RemoveSegments(m, ids).next = m.next
    BY DEF RemoveSegments, Manifest
  <2>2. Listed(RemoveSegments(m, ids)) \subseteq Listed(m)
    BY <2>1 DEF Listed
  <2> QED BY <2>1, <2>2 DEF OrderedManifest
<1>4. ASSUME id \notin Listed(m) PROVE OrderedManifest(AddSegment(m, id, size))
  BY <1>4, ListedAdd, ManifestTypes DEF OrderedManifest, AddSegment, Manifest, SegmentInfo, Listed
<1>5. ASSUME id \notin Listed(m), id >= m.next
      PROVE  OrderedManifest([AddSegment(m, id, size) EXCEPT !.next = id + 1])
  <2>1. [AddSegment(m, id, size) EXCEPT !.next = id + 1] = AddSegment(m, id, size)
    BY <1>5 DEF AddSegment
  <2> QED BY <2>1, <1>5, <1>4
<1> QED BY <1>1, <1>2, <1>3, <1>4, <1>5

\* load_or_create returns a manifest.
LEMMA LoadedTyped ==
    ASSUME Typed, manifest # Torn
    PROVE  LoadedManifest \in Manifest
  BY ManifestTypes DEF Typed, LoadedManifest, NewManifest, Manifest, SegmentInfo

\* The idle states of the two tasks.
LEMMA IdleTyped == IdleFlush \in FlushState /\ IdleCompaction \in CompactionState
  BY FiniteDeltasFacts
     DEF IdleFlush, IdleCompaction, FlushState, CompactionState, NewManifest, Manifest, SegmentInfo

-----------------------------------------------------------------------------
(* Typed.                                                                  *)

\* What a put may leave in the store is a segment.
LEMMA StoreTyped ==
    ASSUME Typed, NEW id \in Nat, NEW content \in FiniteDeltas \cup {Torn},
           StoreSegment(id, content)
    PROVE  /\ DOMAIN segments' \subseteq Nat
           /\ \A i \in DOMAIN segments' : segments'[i] \in FiniteDeltas \cup {Torn}
  BY DEF Typed, StoreSegment

\* So is what a put that fails may leave.
LEMMA PutFailsTyped ==
    ASSUME Typed, NEW id \in Nat, PutFails(id)
    PROVE  /\ DOMAIN segments' \subseteq Nat
           /\ \A i \in DOMAIN segments' : segments'[i] \in FiniteDeltas \cup {Torn}
<1>1. CASE UNCHANGED segments
  BY <1>1 DEF Typed
<1>2. CASE StoreSegment(id, Torn)
  BY <1>2, StoreTyped
<1> QED BY <1>1, <1>2 DEF PutFails

\* Every step of the flush keeps the types.
LEMMA FlushTyped ==
    ASSUME Typed, FlushStep
    PROVE  Typed'
<1> USE IdleTyped
<1>1. CASE FlushBegin
  <2>1. buffer' = {} /\ buffer' \in FiniteDeltas /\ Cardinality(buffer') <= Backpressure
    BY <1>1, FiniteDeltasFacts, FS_EmptySet, BoundsAssumption DEF FlushBegin
  <2>2. flush' \in FlushState
    <3>1. CASE UNCHANGED flush
      BY <3>1 DEF Typed
    <3>2. CASE /\ manifest # Torn
               /\ flush' = [pc |-> "put", deltas |-> buffer, id |-> LoadedManifest.next,
                            manifest |-> Allocate(LoadedManifest)]
      BY <3>2, LoadedTyped, ManifestTypes DEF Typed, FlushState
    <3> QED BY <1>1, <3>1, <3>2 DEF FlushBegin
  <2> QED BY <1>1, <2>1, <2>2 DEF FlushBegin, Typed, storeVars
<1>2. CASE FlushPut
  <2>1. /\ flush \in FlushState /\ flush.deltas \in FiniteDeltas
        /\ flush.id \in Nat /\ flush.manifest \in Manifest
    BY DEF Typed, FlushState
  <2>2. /\ flush' \in FlushState
        /\ DOMAIN segments' \subseteq Nat
        /\ \A i \in DOMAIN segments' : segments'[i] \in FiniteDeltas \cup {Torn}
    <3>1. CASE /\ StoreSegment(flush.id, flush.deltas)
               /\ flush' = [flush EXCEPT !.pc = "temp",
                               !.manifest = AddSegment(@, flush.id, Cardinality(flush.deltas))]
      <4>1. AddSegment(flush.manifest, flush.id, Cardinality(flush.deltas)) \in Manifest
        BY <2>1, ManifestTypes, FiniteDeltasFacts
      <4>2. flush' \in FlushState
        BY Zenon, <3>1, <2>1, <4>1 DEF FlushState
      <4> QED BY <3>1, <2>1, <4>2, StoreTyped
    <3>2. CASE PutFails(flush.id) /\ flush' = IdleFlush
      BY <3>2, <2>1, PutFailsTyped
    <3> QED BY <1>2, <3>1, <3>2 DEF FlushPut
  <2> QED BY <1>2, <2>2 DEF FlushPut, Typed
<1>3. CASE FlushTemp
  <2>1. flush' \in FlushState /\ temp' \in Manifest \cup {Absent, Torn}
    BY <1>3 DEF FlushTemp, PutTempFails, Typed, FlushState
  <2> QED BY <1>3, <2>1 DEF FlushTemp, Typed
<1>4. CASE FlushRename
  <2>1. written' \subseteq Delta
    BY <1>4, FiniteDeltasFacts DEF FlushRename, Typed, FlushState
  <2>2. /\ manifest' \in Manifest \cup {Absent, Torn}
        /\ temp' \in Manifest \cup {Absent, Torn}
    BY <1>4 DEF FlushRename, Rename, RenameCopies, RenameFails, Typed
  <2> QED BY <1>4, <2>1, <2>2 DEF FlushRename, Typed
<1> QED BY <1>1, <1>2, <1>3, <1>4 DEF FlushStep

\* Every step of the compaction keeps the types.
LEMMA CompactTyped ==
    ASSUME Typed, CompactStep
    PROVE  Typed'
<1> USE IdleTyped
<1> DEFINE c == compaction
<1>0. /\ compaction \in CompactionState
      /\ c.manifest \in Manifest /\ c.todo \subseteq Nat /\ c.taken \subseteq Nat
      /\ c.got \in FiniteDeltas /\ c.missing \in BOOLEAN
  BY DEF Typed, CompactionState
<1>1. CASE CompactBegin
  <2>1. SelectSegments(LoadedManifest) \subseteq Nat
    BY <1>1, LoadedTyped, ManifestTypes DEF CompactBegin, SelectSegments, SmallSegments
  <2>2. compaction' \in CompactionState
    BY Zenon, <1>1, <2>1, LoadedTyped DEF CompactBegin, CompactionState
  <2> QED BY <1>1, <2>2 DEF CompactBegin, Typed, storeVars
<1>2. CASE CompactRead
  <2>1. PICK i \in c.todo :
            \/ /\ Loadable(segments, i)
               /\ compaction' = [compaction EXCEPT !.todo = @ \ {i}, !.taken = @ \cup {i},
                                                   !.got = Latest(@, segments[i])]
            \/ compaction' = [compaction EXCEPT !.todo = @ \ {i}]
            \/ compaction' = [compaction EXCEPT !.todo = @ \ {i}, !.taken = @ \cup {i},
                                                !.missing = TRUE]
    BY Zenon, <1>2 DEF CompactRead
  <2>2. ASSUME Loadable(segments, i) PROVE Latest(c.got, segments[i]) \in FiniteDeltas
    <3>1. segments[i] \in FiniteDeltas
      BY <2>2 DEF Loadable, Typed
    <3>2. c.got \cup segments[i] \in FiniteDeltas
      BY <1>0, <3>1, FiniteDeltasFacts
    <3>3. Latest(c.got, segments[i]) \subseteq c.got \cup segments[i]
      BY DEF Latest
    <3> QED BY <3>2, <3>3, FiniteDeltasFacts
  <2>3. i \in Nat /\ c.todo \ {i} \subseteq Nat /\ c.taken \cup {i} \subseteq Nat
    BY <1>0
  <2>4. compaction' \in CompactionState
    <3>1. CASE /\ Loadable(segments, i)
               /\ compaction' = [compaction EXCEPT !.todo = @ \ {i}, !.taken = @ \cup {i},
                                                   !.got = Latest(@, segments[i])]
      BY Zenon, <1>0, <2>2, <2>3, <3>1 DEF CompactionState
    <3>2. CASE compaction' = [compaction EXCEPT !.todo = @ \ {i}]
      BY <1>0, <2>3, <3>2 DEF CompactionState
    <3>3. CASE compaction' = [compaction EXCEPT !.todo = @ \ {i}, !.taken = @ \cup {i},
                                                !.missing = TRUE]
      BY Zenon, <1>0, <2>3, <3>3 DEF CompactionState
    <3> QED BY <2>1, <3>1, <3>2, <3>3
  <2> QED BY <1>2, <2>4 DEF CompactRead, Typed, storeVars
<1>3. CASE CompactOnlyMissing
  <2>1. compaction' \in CompactionState
    BY Zenon, <1>3, <1>0, ManifestTypes DEF CompactOnlyMissing, CompactionState
  <2> QED BY <1>3, <2>1 DEF CompactOnlyMissing, Typed, storeVars
<1>4. CASE CompactTooFew
  BY <1>4 DEF CompactTooFew, Typed, storeVars
<1>5. CASE CompactNothingKept
  <2>1. compaction' \in CompactionState
    BY Zenon, <1>5, <1>0, ManifestTypes DEF CompactNothingKept, CompactionState
  <2> QED BY <1>5, <2>1 DEF CompactNothingKept, Typed, storeVars
<1>6. CASE CompactPut
  <2>1. Kept \in FiniteDeltas /\ Cardinality(Kept) \in Nat
    BY <1>0, FiniteDeltasFacts DEF Kept
  <2>2. c.manifest.next \in Nat
    BY Zenon, <1>0, ManifestTypes
  <2> DEFINE m == [AddSegment(RemoveSegments(c.manifest, c.taken), c.manifest.next,
                              Cardinality(Kept)) EXCEPT !.next = c.manifest.next + 1]
  <2>3. m \in Manifest
    <3>1. AddSegment(RemoveSegments(c.manifest, c.taken), c.manifest.next, Cardinality(Kept))
              \in Manifest
      BY Zenon, <1>0, <2>1, <2>2, ManifestTypes
    <3> QED BY <3>1, <2>2 DEF Manifest
  <2>4. /\ compaction' \in CompactionState
        /\ DOMAIN segments' \subseteq Nat
        /\ \A i \in DOMAIN segments' : segments'[i] \in FiniteDeltas \cup {Torn}
    <3>1. CASE /\ StoreSegment(c.manifest.next, Kept)
               /\ compaction' = [compaction EXCEPT !.pc = "temp", !.manifest = m]
      <4> HIDE DEF m
      <4>1. compaction' \in CompactionState
        BY Zenon, <1>0, <2>3, <3>1 DEF CompactionState
      <4> QED BY <3>1, <4>1, <2>1, <2>2, StoreTyped
    <3>2. CASE PutFails(c.manifest.next) /\ compaction' = IdleCompaction
      BY <3>2, <2>2, PutFailsTyped
    <3> QED BY <1>6, <3>1, <3>2 DEF CompactPut
  <2> QED BY <1>6, <2>4 DEF CompactPut, Typed
<1>7. CASE CompactTemp
  <2>1. compaction' \in CompactionState /\ temp' \in Manifest \cup {Absent, Torn}
    BY <1>7, <1>0 DEF CompactTemp, PutTempFails, Typed, CompactionState
  <2> QED BY <1>7, <2>1 DEF CompactTemp, Typed
<1>8. CASE CompactRename
  <2>1. compaction' \in CompactionState
    BY <1>8, <1>0 DEF CompactRename, CompactionState
  <2>2. /\ manifest' \in Manifest \cup {Absent, Torn}
        /\ temp' \in Manifest \cup {Absent, Torn}
    BY <1>8 DEF CompactRename, Rename, RenameCopies, RenameFails, Typed
  <2> QED BY <1>8, <2>1, <2>2 DEF CompactRename, Typed
<1>9. CASE CompactDelete
  <2>1. compaction' \in CompactionState
    BY Zenon, <1>9, <1>0 DEF CompactDelete, CompactionState
  <2>2. /\ DOMAIN segments' \subseteq Nat
        /\ \A i \in DOMAIN segments' : segments'[i] \in FiniteDeltas \cup {Torn}
    BY Zenon, <1>9 DEF CompactDelete, Typed
  <2> QED BY <1>9, <2>1, <2>2 DEF CompactDelete, Typed
<1> QED BY <1>1, <1>2, <1>3, <1>4, <1>5, <1>6, <1>7, <1>8, <1>9 DEF CompactStep

\* Every step keeps the types.
LEMMA TypedStep ==
    ASSUME Typed, [Next]_vars
    PROVE  Typed'
<1>1. ASSUME NEW d \in Delta, Push(d) PROVE Typed'
  <2>1. buffer' \in FiniteDeltas /\ Cardinality(buffer') <= Backpressure
    <3>1. CASE Cardinality(buffer) >= Backpressure
      BY <1>1, <3>1 DEF Push, Typed
    <3>2. CASE ~(Cardinality(buffer) >= Backpressure)
      <4>1. /\ IsFiniteSet(buffer \cup {d})
            /\ \/ Cardinality(buffer \cup {d}) = Cardinality(buffer)
               \/ Cardinality(buffer \cup {d}) = Cardinality(buffer) + 1
        BY FS_AddElement DEF Typed, FiniteDeltas
      <4>2. Cardinality(buffer) \in Nat
        BY FiniteDeltasFacts DEF Typed
      <4> QED BY <1>1, <3>2, <4>1, <4>2, BoundsAssumption DEF Push, Typed, FiniteDeltas
    <3> QED BY <3>1, <3>2
  <2>2. clock' \in [Key -> Nat]
    BY <1>1, DeltaAssumption DEF Push, Typed, Key
  <2> QED BY <1>1, <2>1, <2>2 DEF Push, Typed, storeVars
<1>2. CASE Crash
  <2>1. /\ buffer' \in FiniteDeltas /\ Cardinality(buffer') <= Backpressure
        /\ crashes' \in 0..MaxCrashes
    BY <1>2, FiniteDeltasFacts, FS_EmptySet, BoundsAssumption DEF Crash, Typed
  <2>2. flush' \in FlushState /\ compaction' \in CompactionState
    BY <1>2, IdleTyped DEF Crash
  <2> QED BY Zenon, <1>2, <2>1, <2>2 DEF Crash, Typed, storeVars
<1>3. CASE Restart
  BY <1>3 DEF Restart, Typed, storeVars, taskVars
<1>4. CASE UNCHANGED vars
  BY <1>4 DEF vars, Typed, storeVars, taskVars
<1> QED BY <1>1, <1>2, <1>3, <1>4, FlushTyped, CompactTyped DEF Next

\* The initial state is typed.
LEMMA TypedInit == Init => Typed
  BY IdleTyped, FiniteDeltasFacts, FS_EmptySet, BoundsAssumption DEF Init, Typed

\* Typed is stronger than TypeOK.
LEMMA TypedIsTypeOK == Typed => TypeOK
<1> SUFFICES ASSUME Typed PROVE TypeOK
  OBVIOUS
<1>1. buffer \subseteq Delta /\ flush.deltas \subseteq Delta /\ compaction.got \subseteq Delta
  BY FiniteDeltasFacts DEF Typed, FlushState, CompactionState
<1>2. \A i \in DOMAIN segments : segments[i] \in Segment
  BY FiniteDeltasFacts DEF Typed, Segment
<1>3. \A m \in Manifests \cup {flush.manifest, compaction.manifest} : m \in Manifest
  BY DEF Typed, FlushState, CompactionState, Manifests
<1> QED BY <1>1, <1>2, <1>3 DEF Typed, TypeOK, FlushState, CompactionState

\* Every state of the flush, the compaction, the object store and the process
\* has the types of TypeOK; in particular the buffer never grows beyond the
\* backpressure threshold.
THEOREM TypeCorrect == Spec => []TypeOK
<1>1. Spec => []Typed
  BY TypedInit, TypedStep, PTL DEF Spec
<1> QED BY <1>1, TypedIsTypeOK, PTL

-----------------------------------------------------------------------------
(* Numbered.                                                               *)

\* A stored manifest lists each id once, below the next one, if it can be read.
StoredOrdered(m) == m \in {Absent, Torn} \/ OrderedManifest(m)

\* The manifests that Numbered speaks of, one by one.
LEMMA NumberedEach ==
    Numbered =>
        /\ StoredOrdered(manifest) /\ StoredOrdered(temp)
        /\ OrderedManifest(flush.manifest) /\ OrderedManifest(compaction.manifest)
        /\ manifest # Torn => OrderedManifest(LoadedManifest)
<1>1. OrderedManifest(NewManifest)
  BY DEF OrderedManifest, NewManifest, Listed
<1> QED BY <1>1 DEF Numbered, ManifestsOrdered, Manifests, StoredOrdered, LoadedManifest

\* Every step of the flush keeps the manifests in order.
LEMMA FlushNumbered ==
    ASSUME Typed, Numbered, FlushStep
    PROVE  Numbered'
<1> DEFINE f == flush
           FlushId == /\ flush.manifest.next = flush.id + 1
                      /\ \A i \in Listed(flush.manifest) : i < flush.id
<1>0. /\ StoredOrdered(manifest) /\ StoredOrdered(temp)
      /\ OrderedManifest(f.manifest) /\ OrderedManifest(compaction.manifest)
      /\ manifest # Torn => OrderedManifest(LoadedManifest)
      /\ f.pc = "put" => FlushId
      /\ flush \in FlushState /\ f.manifest \in Manifest
      /\ f.deltas \in FiniteDeltas /\ f.id \in Nat
  BY NumberedEach DEF Typed, FlushState, Numbered
<1>1. OrderedManifest(IdleFlush.manifest) /\ IdleFlush.pc = "idle"
  BY DEF IdleFlush, OrderedManifest, NewManifest, Listed
<1> HIDE DEF FlushId
<1>2. SUFFICES /\ StoredOrdered(manifest') /\ StoredOrdered(temp')
               /\ OrderedManifest(flush'.manifest) /\ OrderedManifest(compaction'.manifest)
               /\ flush'.pc = "put" => FlushId'
  BY DEF Numbered, ManifestsOrdered, Manifests, StoredOrdered, FlushId
<1>3. CASE FlushBegin
  <2>1. CASE UNCHANGED flush
    <3>1. UNCHANGED FlushId
      BY <2>1 DEF FlushId
    <3> QED BY <1>0, <1>3, <2>1, <3>1 DEF FlushBegin, storeVars
  <2>2. CASE /\ manifest # Torn
             /\ flush' = [pc |-> "put", deltas |-> buffer, id |-> LoadedManifest.next,
                          manifest |-> Allocate(LoadedManifest)]
    <3>1. LoadedManifest \in Manifest /\ OrderedManifest(LoadedManifest)
      BY <2>2, <1>0, LoadedTyped
    <3>2. /\ OrderedManifest(Allocate(LoadedManifest))
          /\ Allocate(LoadedManifest).next = LoadedManifest.next + 1
          /\ Listed(Allocate(LoadedManifest)) = Listed(LoadedManifest)
      BY Zenon, <3>1, ManifestOrder, ListedAllocate
    <3>3. FlushId'
      BY <2>2, <3>1, <3>2 DEF OrderedManifest, FlushId
    <3> QED BY <1>0, <1>3, <2>2, <3>2, <3>3 DEF FlushBegin, storeVars
  <2> QED BY <1>3, <2>1, <2>2 DEF FlushBegin
<1>4. CASE FlushPut
  <2>1. CASE flush' = [flush EXCEPT !.pc = "temp",
                           !.manifest = AddSegment(@, f.id, Cardinality(f.deltas))]
    <3>1. f.id \notin Listed(f.manifest) /\ Cardinality(f.deltas) \in Nat
      BY <1>0, <1>4, FiniteDeltasFacts, ManifestTypes DEF FlushPut, FlushId
    <3>2. OrderedManifest(AddSegment(f.manifest, f.id, Cardinality(f.deltas)))
      BY Zenon, <1>0, <3>1, ManifestOrder
    <3>3. flush'.pc = "temp" /\ OrderedManifest(flush'.manifest)
      BY <1>0, <2>1, <3>2 DEF FlushState
    <3> QED BY <1>0, <1>4, <3>3 DEF FlushPut
  <2>2. CASE flush' = IdleFlush
    BY <1>0, <1>1, <1>4, <2>2 DEF FlushPut
  <2> QED BY <1>4, <2>1, <2>2 DEF FlushPut
<1>5. CASE FlushTemp
  <2>1. /\ flush'.pc # "put" /\ OrderedManifest(flush'.manifest)
        /\ StoredOrdered(temp')
    BY <1>0, <1>1, <1>5 DEF FlushTemp, PutTempFails, StoredOrdered, FlushState
  <2> QED BY <1>0, <1>5, <2>1 DEF FlushTemp
<1>6. CASE FlushRename
  <2>1. StoredOrdered(manifest') /\ StoredOrdered(temp')
    BY <1>0, <1>6 DEF FlushRename, Rename, RenameCopies, RenameFails, StoredOrdered
  <2> QED BY <1>0, <1>1, <1>6, <2>1 DEF FlushRename
<1> QED BY <1>3, <1>4, <1>5, <1>6 DEF FlushStep

\* Every step of the compaction keeps the manifests in order.
LEMMA CompactNumbered ==
    ASSUME Typed, Numbered, CompactStep
    PROVE  Numbered'
<1> DEFINE c == compaction
<1>0. /\ StoredOrdered(manifest) /\ StoredOrdered(temp)
      /\ OrderedManifest(flush.manifest) /\ OrderedManifest(c.manifest)
      /\ manifest # Torn => OrderedManifest(LoadedManifest)
      /\ compaction \in CompactionState /\ c.manifest \in Manifest /\ c.got \in FiniteDeltas
      /\ c.manifest.next \in Nat
  BY Zenon, NumberedEach, ManifestTypes DEF Typed, CompactionState
<1>1. OrderedManifest(IdleCompaction.manifest)
  BY DEF IdleCompaction, OrderedManifest, NewManifest, Listed
<1>a. UNCHANGED flush
  BY Zenon DEF CompactStep, CompactBegin, CompactRead, CompactOnlyMissing, CompactTooFew,
         CompactNothingKept, CompactPut, CompactTemp, CompactRename, CompactDelete
<1>2. SUFFICES /\ StoredOrdered(manifest') /\ StoredOrdered(temp')
               /\ OrderedManifest(compaction'.manifest)
  BY <1>0, <1>a DEF Numbered, ManifestsOrdered, Manifests, StoredOrdered
<1>3. CASE CompactBegin
  BY <1>0, <1>3 DEF CompactBegin, IdleCompaction, storeVars
<1>4. CASE CompactRead
  <2>1. compaction'.manifest = c.manifest
    BY Zenon, <1>0, <1>4 DEF CompactRead, CompactionState
  <2> QED BY <1>0, <1>4, <2>1 DEF CompactRead, storeVars
<1>5. CASE CompactOnlyMissing \/ CompactNothingKept
  <2>1. compaction'.manifest = RemoveSegments(c.manifest, c.taken)
    BY Zenon, <1>0, <1>5 DEF CompactOnlyMissing, CompactNothingKept, CompactionState
  <2>2. OrderedManifest(RemoveSegments(c.manifest, c.taken))
    BY Zenon, <1>0, ManifestOrder
  <2> QED BY <1>0, <1>5, <2>1, <2>2 DEF CompactOnlyMissing, CompactNothingKept, storeVars
<1>6. CASE CompactTooFew
  BY <1>0, <1>1, <1>6 DEF CompactTooFew, storeVars
<1>7. CASE CompactPut
  <2> DEFINE r == RemoveSegments(c.manifest, c.taken)
             id == c.manifest.next
             m == [AddSegment(r, id, Cardinality(Kept)) EXCEPT !.next = id + 1]
  <2>1. Cardinality(Kept) \in Nat
    BY <1>0, FiniteDeltasFacts DEF Kept
  <2>2. r \in Manifest /\ OrderedManifest(r) /\ r.next = id
    BY Zenon, <1>0, ManifestTypes, ManifestOrder, ListedRemove
  <2>3. id \in Nat /\ id \notin Listed(r) /\ id >= r.next
    BY <1>0, <2>2 DEF OrderedManifest
  <2> HIDE DEF r
  <2>4. OrderedManifest(m)
    <3> HIDE DEF id
    <3> QED BY <2>1, <2>2, <2>3, ManifestOrder
  <2>5. CASE compaction' = [compaction EXCEPT !.pc = "temp", !.manifest = m]
    <3> HIDE DEF m
    <3>1. compaction'.manifest = m
      BY <1>0, <2>5 DEF CompactionState
    <3> QED BY <1>0, <1>7, <2>4, <3>1 DEF CompactPut
  <2>6. CASE compaction' = IdleCompaction
    BY <1>0, <1>1, <1>7, <2>6 DEF CompactPut
  <2> QED BY <1>7, <2>5, <2>6 DEF CompactPut, r
<1>8. CASE CompactTemp
  <2>1. OrderedManifest(compaction'.manifest) /\ StoredOrdered(temp')
    BY <1>0, <1>1, <1>8 DEF CompactTemp, PutTempFails, StoredOrdered, CompactionState
  <2> QED BY <1>0, <1>8, <2>1 DEF CompactTemp
<1>9. CASE CompactRename
  <2>1. StoredOrdered(manifest') /\ StoredOrdered(temp')
    BY <1>0, <1>9 DEF CompactRename, Rename, RenameCopies, RenameFails, StoredOrdered
  <2>2. OrderedManifest(compaction'.manifest)
    BY <1>0, <1>1, <1>9 DEF CompactRename, CompactionState
  <2> QED BY <2>1, <2>2
<1>10. CASE CompactDelete
  <2>1. OrderedManifest(compaction'.manifest)
    BY Zenon, <1>0, <1>1, <1>10 DEF CompactDelete, CompactionState
  <2> QED BY <1>0, <1>10, <2>1 DEF CompactDelete
<1> QED BY <1>3, <1>4, <1>5, <1>6, <1>7, <1>8, <1>9, <1>10 DEF CompactStep

\* Every step keeps the manifests in order.
LEMMA NumberedStep ==
    ASSUME Typed, Numbered, [Next]_vars
    PROVE  Numbered'
<1>1. CASE FlushStep
  BY <1>1, FlushNumbered
<1>2. CASE CompactStep
  BY <1>2, CompactNumbered
<1>3. CASE Crash
  <2>1. OrderedManifest(IdleFlush.manifest) /\ IdleFlush.pc = "idle"
        /\ OrderedManifest(IdleCompaction.manifest)
    BY DEF IdleFlush, IdleCompaction, OrderedManifest, NewManifest, Listed
  <2> QED BY <1>3, <2>1, NumberedEach
          DEF Crash, storeVars, Numbered, ManifestsOrdered, Manifests, StoredOrdered
<1>4. ASSUME UNCHANGED <<flush, compaction, manifest, temp>> PROVE Numbered'
  BY <1>4 DEF Numbered, ManifestsOrdered, Manifests
<1>5. CASE (\E d \in Delta : Push(d)) \/ Restart \/ UNCHANGED vars
  BY <1>4, <1>5 DEF Push, Restart, vars, storeVars, taskVars
<1> QED BY <1>1, <1>2, <1>3, <1>5 DEF Next

\* No manifest, in the store or in a task's hands, lists an id twice or has
\* next_segment_id at or below a listed id: whichever store calls fail, and
\* even when flush and compaction overwrite each other's manifest.
THEOREM ManifestsInOrder == Spec => []ManifestsOrdered
<1>1. Init => Typed /\ Numbered
  <2>1. Init => Numbered
    BY ManifestOrder
       DEF Init, Numbered, ManifestsOrdered, Manifests, IdleFlush, IdleCompaction,
           OrderedManifest, NewManifest, Listed
  <2> QED BY <2>1, TypedInit
<1>2. Typed /\ Numbered /\ [Next]_vars => (Typed /\ Numbered)'
  BY TypedStep, NumberedStep
<1>3. Typed /\ Numbered => ManifestsOrdered
  BY DEF Numbered
<1> QED BY <1>1, <1>2, <1>3, PTL DEF Spec

-----------------------------------------------------------------------------
(* Tasks that do not overlap. *)

\* One task at a time; the task at work started from the stored manifest, the
\* manifest it is about to save lists loadable segments only, and it is its own
\* manifest that lies under the temporary key.
FlushApart ==
    /\ flush.pc = "put" =>
           flush.id = LoadedManifest.next /\ flush.manifest = Allocate(LoadedManifest)
    /\ flush.pc \in {"temp", "rename"} => Recoverable(segments, flush.manifest)
    /\ flush.pc = "rename" => temp = flush.manifest

CompactionApart ==
    /\ compaction.pc = "read" =>
           /\ compaction.manifest = LoadedManifest
           /\ compaction.todo \cup compaction.taken \subseteq Listed(LoadedManifest)
    /\ compaction.pc \in {"temp", "rename"} =>
           /\ Recoverable(segments, compaction.manifest)
           /\ compaction.taken \cap Listed(compaction.manifest) = {}
    /\ compaction.pc = "rename" => temp = compaction.manifest
    /\ compaction.pc = "delete" => compaction.taken \cap Listed(LoadedManifest) = {}

Apart ==
    /\ flush.pc = "idle" \/ compaction.pc = "idle"
    /\ ManifestReadable
    /\ FlushApart
    /\ CompactionApart

-----------------------------------------------------------------------------
\* Some delta of S is for the key of d and not older.
Covered(d, S) == \E e \in S : e.key = d.key /\ e.time >= d.time

\* A tombstone that a compaction may drop was written for the key of d, not
\* before d.
Buried(d) ==
    \E t \in written : Expired(t, TombstoneCutoff) /\ t.key = d.key /\ t.time >= d.time

\* Everything a flush reported is recovered, possibly as a later write of the
\* key, or was deleted so long ago that the tombstone may be dropped.
Accounted == \A d \in written : Covered(d, Recovered) \/ Buried(d)

FlushAccounted ==
    flush.pc \in {"temp", "rename"} =>
        /\ Recovered \cup flush.deltas \subseteq RecoveredDeltas(segments, flush.manifest)
        /\ RecoveredDeltas(segments, flush.manifest) \subseteq written \cup flush.deltas

CompactionAccounted ==
    /\ ~compaction.missing
    /\ compaction.pc = "read" =>
           /\ compaction.got \subseteq written
           /\ \A i \in compaction.taken : \A d \in segments[i] : Covered(d, compaction.got)
    /\ compaction.pc \in {"temp", "rename"} =>
           /\ RecoveredDeltas(segments, compaction.manifest) \subseteq written
           /\ \A d \in Recovered :
                  Covered(d, RecoveredDeltas(segments, compaction.manifest)) \/ Buried(d)

Durable ==
    /\ Recovered \subseteq written
    /\ Accounted
    /\ FlushAccounted
    /\ CompactionAccounted

-----------------------------------------------------------------------------
(* Apart.                                                                  *)

\* Two states of the store agree on the segments a manifest lists.
SameFor(s1, s2, m) ==
    \A i \in Listed(m) :
        (i \in DOMAIN s1 <=> i \in DOMAIN s2) /\ (i \in DOMAIN s1 => s1[i] = s2[i])

\* Recovery reads nothing but the segments the manifest lists.
LEMMA SameRead ==
    ASSUME NEW s1, NEW s2, NEW m, SameFor(s1, s2, m)
    PROVE  /\ Recoverable(s1, m) <=> Recoverable(s2, m)
           /\ RecoveredDeltas(s1, m) = RecoveredDeltas(s2, m)
<1>1. \A i \in Listed(m) : Loadable(s1, i) <=> Loadable(s2, i)
  BY Zenon DEF SameFor, Loadable
<1>2. \A i \in Listed(m) : Loadable(s1, i) => s1[i] = s2[i]
  BY Zenon DEF SameFor, Loadable
<1>3. {s1[i] : i \in {j \in Listed(m) : Loadable(s1, j)}}
          = {s2[i] : i \in {j \in Listed(m) : Loadable(s2, j)}}
  BY Zenon, <1>1, <1>2
<1> QED BY Zenon, <1>1, <1>3 DEF Recoverable, RecoveredDeltas

\* A put, even one that fails, touches no segment with another id.
LEMMA PutElsewhere ==
    ASSUME NEW id, NEW content, NEW m, id \notin Listed(m),
           StoreSegment(id, content) \/ PutFails(id)
    PROVE  SameFor(segments, segments', m)
<1>1. ASSUME NEW x, StoreSegment(id, x) PROVE SameFor(segments, segments', m)
  BY Zenon, <1>1 DEF StoreSegment, SameFor
<1>2. CASE UNCHANGED segments
  BY Zenon, <1>2 DEF SameFor
<1> QED BY Zenon, <1>1, <1>2 DEF PutFails

\* The id the stored manifest hands out next is not in use.
LEMMA NextFree ==
    ASSUME Typed, Numbered, manifest # Torn
    PROVE  LoadedManifest.next \notin Listed(LoadedManifest)
<1>1. OrderedManifest(LoadedManifest)
  BY Zenon, NumberedEach
<1>2. LoadedManifest.next \in Nat
  BY Zenon, LoadedTyped, ManifestTypes
<1> QED BY <1>1, <1>2 DEF OrderedManifest

\* A manifest that is put under manifest.json is the one that is loaded.
LEMMA LoadedStored ==
    ASSUME manifest' \in Manifest
    PROVE  manifest' # Torn /\ LoadedManifest' = manifest'
  BY Zenon, ObjectAssumption DEF LoadedManifest

\* Every step of a flush that has the store to itself.
LEMMA FlushKeepsApart ==
    ASSUME Typed, Numbered, Apart, ~Overlap, FlushStep
    PROVE  Apart'
<1> DEFINE f == flush
           lm == LoadedManifest
<1>0. /\ flush \in FlushState /\ f.manifest \in Manifest
      /\ f.deltas \in FiniteDeltas /\ f.id \in Nat
      /\ manifest # Torn /\ Recoverable(segments, lm) /\ lm \in Manifest
      /\ lm.next \in Nat /\ lm.next \notin Listed(lm)
  BY Zenon, LoadedTyped, ManifestTypes, NextFree DEF Typed, FlushState, Apart, ManifestReadable
<1>1. compaction.pc = "idle" /\ compaction'.pc = "idle"
  BY Zenon DEF FlushStep, FlushBegin, FlushPut, FlushTemp, FlushRename, Apart
<1>2. IdleFlush.pc = "idle"
  BY Zenon DEF IdleFlush
<1>3. SUFFICES ManifestReadable' /\ FlushApart'
  BY Zenon, <1>1 DEF Apart, CompactionApart
<1>4. ASSUME UNCHANGED <<segments, manifest>> PROVE ManifestReadable'
  BY Zenon, <1>4 DEF Apart, ManifestReadable, LoadedManifest
<1>5. ASSUME flush' = IdleFlush PROVE FlushApart'
  BY Zenon, <1>5, <1>2 DEF FlushApart
<1>6. CASE FlushBegin
  <2>1. UNCHANGED <<segments, manifest, temp>> /\ LoadedManifest' = lm
    BY Zenon, <1>6 DEF FlushBegin, storeVars, LoadedManifest
  <2>2. FlushApart'
    <3>1. CASE UNCHANGED flush
      BY Zenon, <2>1, <3>1 DEF FlushApart, Apart
    <3>2. CASE flush' = [pc |-> "put", deltas |-> buffer, id |-> lm.next,
                         manifest |-> Allocate(lm)]
      BY Zenon, <2>1, <3>2 DEF FlushApart
    <3> QED BY Zenon, <1>6, <3>1, <3>2 DEF FlushBegin
  <2> QED BY Zenon, <1>4, <2>1, <2>2
<1>7. CASE FlushPut
  <2>1. f.id = lm.next /\ f.manifest = Allocate(lm) /\ UNCHANGED <<manifest, temp>>
        /\ LoadedManifest' = lm
    BY Zenon, <1>7 DEF FlushPut, Apart, FlushApart, LoadedManifest
  <2>2. SameFor(segments, segments', lm)
    BY Zenon, <1>0, <1>7, <2>1, PutElsewhere DEF FlushPut
  <2>3. ManifestReadable'
    BY Zenon, <1>0, <2>1, <2>2, SameRead DEF ManifestReadable
  <2>4. CASE /\ StoreSegment(f.id, f.deltas)
             /\ flush' = [flush EXCEPT !.pc = "temp",
                              !.manifest = AddSegment(@, f.id, Cardinality(f.deltas))]
    <3>1. /\ flush'.pc = "temp"
          /\ flush'.manifest = AddSegment(f.manifest, f.id, Cardinality(f.deltas))
      BY Zenon, <1>0, <2>4 DEF FlushState
    <3>2. Listed(flush'.manifest) = Listed(lm) \cup {f.id}
      <4>1. Cardinality(f.deltas) \in Nat
        BY Zenon, <1>0, FiniteDeltasFacts
      <4>2. Listed(f.manifest) = Listed(lm)
        BY Zenon, <1>0, <2>1, ListedAllocate
      <4>3. Listed(AddSegment(f.manifest, f.id, Cardinality(f.deltas)))
                = Listed(f.manifest) \cup {f.id}
        BY Zenon, <1>0, <4>1, ListedAdd
      <4> QED BY Zenon, <3>1, <4>2, <4>3
    <3>3. Loadable(segments', f.id)
      BY Zenon, <1>0, <2>4, TornAssumption, FiniteDeltasFacts DEF StoreSegment, Loadable
    <3>4. \A i \in Listed(lm) : Loadable(segments', i)
      BY Zenon, <2>1, <2>3 DEF ManifestReadable, Recoverable
    <3>5. Recoverable(segments', flush'.manifest)
      BY Zenon, <3>2, <3>3, <3>4 DEF Recoverable
    <3> QED BY Zenon, <2>3, <3>1, <3>5 DEF FlushApart
  <2> QED BY Zenon, <1>7, <1>5, <2>3, <2>4 DEF FlushPut
<1>8. CASE FlushTemp
  <2>1. UNCHANGED <<segments, manifest>>
    BY Zenon, <1>8 DEF FlushTemp
  <2>2. CASE temp' = f.manifest /\ flush' = [flush EXCEPT !.pc = "rename"]
    <3>1. flush'.pc = "rename" /\ flush'.manifest = f.manifest
      BY Zenon, <1>0, <2>2 DEF FlushState
    <3>2. Recoverable(segments, f.manifest)
      BY Zenon, <1>8 DEF FlushTemp, Apart, FlushApart
    <3> QED BY Zenon, <1>4, <2>1, <2>2, <3>1, <3>2 DEF FlushApart
  <2> QED BY Zenon, <1>8, <1>4, <1>5, <2>1, <2>2 DEF FlushTemp
<1>9. CASE FlushRename
  <2>1. /\ FlushApart' /\ UNCHANGED segments
        /\ temp = f.manifest /\ Recoverable(segments, f.manifest)
    BY Zenon, <1>9, <1>5 DEF FlushRename, Apart, FlushApart
  <2>2. CASE manifest' = temp
    <3>1. manifest' \in Manifest
      BY Zenon, <1>0, <2>1, <2>2
    <3>2. manifest' # Torn /\ LoadedManifest' = manifest'
      BY Zenon, <3>1, LoadedStored
    <3> QED BY Zenon, <2>1, <2>2, <3>2 DEF ManifestReadable
  <2>3. CASE UNCHANGED manifest
    BY Zenon, <1>4, <2>1, <2>3
  <2> QED BY Zenon, <1>9, <2>1, <2>2, <2>3 DEF FlushRename, Rename, RenameCopies, RenameFails
<1> QED BY Zenon, <1>6, <1>7, <1>8, <1>9 DEF FlushStep

\* What a compaction that has the store to itself puts into the manifest:
\* the ids it read go, the id of the new segment comes.
LEMMA CompactedListed ==
    ASSUME NEW m \in Manifest, NEW ids, NEW size \in Nat
    PROVE  /\ Listed(RemoveSegments(m, ids)) = Listed(m) \ ids
           /\ Listed([AddSegment(RemoveSegments(m, ids), m.next, size) EXCEPT !.next = m.next + 1])
                  = (Listed(m) \ ids) \cup {m.next}
<1>1. m.next \in Nat /\ m.next + 1 \in Nat
  BY ManifestTypes
<1> DEFINE r == RemoveSegments(m, ids)
<1>2. r \in Manifest /\ Listed(r) = Listed(m) \ ids
  BY Zenon, <1>1, ManifestTypes, ListedRemove
<1> HIDE DEF r
<1> DEFINE n == AddSegment(r, m.next, size)
<1>3. n \in Manifest /\ Listed(n) = Listed(r) \cup {m.next}
  BY Zenon, <1>1, <1>2, ManifestTypes, ListedAdd
<1> HIDE DEF n
<1>4. Listed([n EXCEPT !.next = m.next + 1]) = Listed(n)
  BY Zenon, <1>1, <1>3, ListedAllocate
<1> QED BY Zenon, <1>2, <1>3, <1>4 DEF r, n

\* Every step of a compaction that has the store to itself.
LEMMA CompactKeepsApart ==
    ASSUME Typed, Numbered, Apart, ~Overlap, CompactStep
    PROVE  Apart'
<1> DEFINE c == compaction
           lm == LoadedManifest
<1>0. /\ compaction \in CompactionState /\ c.manifest \in Manifest /\ c.got \in FiniteDeltas
      /\ manifest # Torn /\ Recoverable(segments, lm) /\ lm \in Manifest
      /\ lm.next \in Nat /\ lm.next \notin Listed(lm)
  BY Zenon, LoadedTyped, ManifestTypes, NextFree DEF Typed, CompactionState, Apart, ManifestReadable
<1>1. flush.pc = "idle" /\ flush'.pc = "idle"
  BY Zenon DEF CompactStep, CompactBegin, CompactRead, CompactOnlyMissing, CompactTooFew,
         CompactNothingKept, CompactPut, CompactTemp, CompactRename, CompactDelete, ReadDone, Apart
<1>2. IdleCompaction.pc = "idle"
  BY Zenon DEF IdleCompaction
<1>3. SUFFICES ManifestReadable' /\ CompactionApart'
  BY Zenon, <1>1 DEF Apart, FlushApart
<1>4. ASSUME UNCHANGED <<segments, manifest>> PROVE ManifestReadable'
  BY Zenon, <1>4 DEF Apart, ManifestReadable, LoadedManifest
<1>5. ASSUME compaction' = IdleCompaction PROVE CompactionApart'
  BY Zenon, <1>5, <1>2 DEF CompactionApart
<1>6. c.pc = "read" => c.manifest = lm /\ c.todo \cup c.taken \subseteq Listed(lm)
  BY Zenon DEF Apart, CompactionApart
<1>7. CASE CompactBegin
  <2>1. UNCHANGED <<segments, manifest>> /\ LoadedManifest' = lm
    BY Zenon, <1>7 DEF CompactBegin, storeVars, LoadedManifest
  <2>2. /\ compaction'.pc = "read" /\ compaction'.manifest = lm
        /\ compaction'.todo = SelectSegments(lm) /\ compaction'.taken = {}
    BY Zenon, <1>7 DEF CompactBegin, IdleCompaction
  <2>3. SelectSegments(lm) \subseteq Listed(lm)
    BY Zenon DEF SelectSegments, SmallSegments
  <2> QED BY Zenon, <1>4, <2>1, <2>2, <2>3 DEF CompactionApart
<1>8. CASE CompactRead
  <2>1. UNCHANGED <<segments, manifest>> /\ LoadedManifest' = lm
    BY Zenon, <1>8 DEF CompactRead, storeVars, LoadedManifest
  <2>2. /\ compaction'.pc = "read" /\ compaction'.manifest = c.manifest
        /\ compaction'.todo \cup compaction'.taken \subseteq c.todo \cup c.taken
    <3>1. PICK i \in c.todo :
              /\ compaction'.pc = c.pc /\ compaction'.manifest = c.manifest
              /\ compaction'.todo = c.todo \ {i} /\ compaction'.taken \subseteq c.taken \cup {i}
      BY Zenon, <1>0, <1>8 DEF CompactRead, CompactionState
    <3> QED BY Zenon, <1>8, <3>1 DEF CompactRead
  <2>3. c.pc = "read"
    BY Zenon, <1>8 DEF CompactRead
  <2> QED BY Zenon, <1>4, <1>6, <2>1, <2>2, <2>3 DEF CompactionApart
<1>9. CASE CompactOnlyMissing \/ CompactNothingKept
  <2>1. /\ c.pc = "read" /\ UNCHANGED <<segments, manifest>>
        /\ compaction'.pc = "temp" /\ compaction'.taken \subseteq c.taken
        /\ compaction'.manifest = RemoveSegments(c.manifest, c.taken)
    BY Zenon, <1>0, <1>9
       DEF CompactOnlyMissing, CompactNothingKept, ReadDone, storeVars, CompactionState
  <2>2. Listed(compaction'.manifest) = Listed(lm) \ c.taken
    BY <1>0, <1>6, <2>1, ListedRemove
  <2>3. Recoverable(segments', compaction'.manifest)
    BY Zenon, <1>0, <2>1, <2>2 DEF Recoverable
  <2> QED BY Zenon, <1>4, <2>1, <2>2, <2>3 DEF CompactionApart
<1>10. CASE CompactTooFew
  BY Zenon, <1>4, <1>5, <1>10 DEF CompactTooFew, storeVars
<1>11. CASE CompactPut
  <2> DEFINE m == [AddSegment(RemoveSegments(lm, c.taken), lm.next, Cardinality(Kept))
                       EXCEPT !.next = lm.next + 1]
  <2>1. /\ c.manifest = lm /\ c.taken \subseteq Listed(lm) /\ UNCHANGED manifest
        /\ LoadedManifest' = lm
    BY Zenon, <1>6, <1>11 DEF CompactPut, ReadDone, LoadedManifest
  <2>2. Kept \in FiniteDeltas /\ Cardinality(Kept) \in Nat
    BY <1>0, FiniteDeltasFacts DEF Kept
  <2>3. SameFor(segments, segments', lm)
    BY Zenon, <1>0, <1>11, <2>1, PutElsewhere DEF CompactPut
  <2>4. ManifestReadable'
    BY Zenon, <1>0, <2>1, <2>3, SameRead DEF ManifestReadable
  <2>5. CASE /\ StoreSegment(lm.next, Kept)
             /\ compaction' = [compaction EXCEPT !.pc = "temp", !.manifest = m]
    <3>1. Listed(m) = (Listed(lm) \ c.taken) \cup {lm.next}
      BY Zenon, <1>0, <2>2, CompactedListed
    <3> HIDE DEF m
    <3>2. compaction'.pc = "temp" /\ compaction'.manifest = m /\ compaction'.taken = c.taken
      BY Zenon, <1>0, <2>5 DEF CompactionState
    <3>3. Loadable(segments', lm.next)
      BY Zenon, <2>2, <2>5, TornAssumption, FiniteDeltasFacts DEF StoreSegment, Loadable
    <3>4. \A i \in Listed(lm) : Loadable(segments', i)
      BY Zenon, <2>1, <2>4 DEF ManifestReadable, Recoverable
    <3>5. Recoverable(segments', m)
      BY Zenon, <3>1, <3>3, <3>4 DEF Recoverable
    <3>6. c.taken \cap Listed(m) = {}
      BY Zenon, <1>0, <2>1, <3>1
    <3> QED BY Zenon, <2>4, <3>2, <3>5, <3>6 DEF CompactionApart
  <2>6. CASE compaction' = IdleCompaction
    BY Zenon, <1>5, <2>4, <2>6
  <2> QED BY Zenon, <1>11, <2>1, <2>5, <2>6 DEF CompactPut
<1>12. CASE CompactTemp
  <2>1. UNCHANGED <<segments, manifest>>
    BY Zenon, <1>12 DEF CompactTemp
  <2>2. CASE temp' = c.manifest /\ compaction' = [compaction EXCEPT !.pc = "rename"]
    <3>1. /\ compaction'.pc = "rename" /\ compaction'.manifest = c.manifest
          /\ compaction'.taken = c.taken
      BY Zenon, <1>0, <2>2 DEF CompactionState
    <3>2. Recoverable(segments, c.manifest) /\ c.taken \cap Listed(c.manifest) = {}
      BY Zenon, <1>12 DEF CompactTemp, Apart, CompactionApart
    <3> QED BY Zenon, <1>4, <2>1, <2>2, <3>1, <3>2 DEF CompactionApart
  <2> QED BY Zenon, <1>12, <1>4, <1>5, <2>1, <2>2 DEF CompactTemp
<1>13. CASE CompactRename
  <2>1. /\ UNCHANGED segments
        /\ temp = c.manifest /\ Recoverable(segments, c.manifest)
        /\ c.taken \cap Listed(c.manifest) = {}
    BY Zenon, <1>13 DEF CompactRename, Apart, CompactionApart
  <2>2. CASE manifest' = temp
    <3>1. manifest' \in Manifest
      BY Zenon, <1>0, <2>1, <2>2
    <3>2. manifest' # Torn /\ LoadedManifest' = c.manifest
      BY Zenon, <2>1, <2>2, <3>1, LoadedStored
    <3>3. ManifestReadable'
      BY Zenon, <2>1, <3>2 DEF ManifestReadable
    <3>4. CASE compaction' = [compaction EXCEPT !.pc = "delete"]
      <4>1. compaction'.pc = "delete" /\ compaction'.taken = c.taken
        BY Zenon, <1>0, <3>4 DEF CompactionState
      <4> QED BY Zenon, <2>1, <3>2, <3>3, <4>1 DEF CompactionApart
    <3> QED BY Zenon, <1>5, <1>13, <3>3, <3>4 DEF CompactRename
  <2>3. CASE RenameFails /\ compaction' = IdleCompaction
    BY Zenon, <1>4, <1>5, <2>1, <2>3 DEF RenameFails
  <2> QED BY Zenon, <1>13, <2>2, <2>3 DEF CompactRename, Rename, RenameCopies
<1>14. CASE CompactDelete
  <2>1. UNCHANGED manifest /\ LoadedManifest' = lm /\ c.taken \cap Listed(lm) = {}
    BY Zenon, <1>14 DEF CompactDelete, Apart, CompactionApart, LoadedManifest
  <2>2. CASE compaction' = IdleCompaction /\ UNCHANGED segments
    BY Zenon, <1>4, <1>5, <2>1, <2>2
  <2>3. CASE \E i \in c.taken :
                 /\ compaction' = [compaction EXCEPT !.taken = @ \ {i}]
                 /\ \/ segments' = [j \in DOMAIN segments \ {i} |-> segments[j]]
                    \/ UNCHANGED segments
    <3>1. PICK i \in c.taken :
              /\ compaction' = [compaction EXCEPT !.taken = @ \ {i}]
              /\ \/ segments' = [j \in DOMAIN segments \ {i} |-> segments[j]]
                 \/ UNCHANGED segments
      BY Zenon, <2>3
    <3>2. compaction'.pc = "delete" /\ compaction'.taken = c.taken \ {i}
      BY Zenon, <1>0, <1>14, <3>1 DEF CompactDelete, CompactionState
    <3>3. i \notin Listed(lm)
      BY Zenon, <2>1
    <3>4. SameFor(segments, segments', lm)
      BY Zenon, <3>1, <3>3 DEF SameFor
    <3>5. ManifestReadable'
      BY Zenon, <1>0, <2>1, <3>4, SameRead DEF ManifestReadable
    <3> QED BY Zenon, <2>1, <3>2, <3>5 DEF CompactionApart
  <2> QED BY Zenon, <1>14, <2>2, <2>3 DEF CompactDelete
<1> QED BY Zenon, <1>7, <1>8, <1>9, <1>10, <1>11, <1>12, <1>13, <1>14 DEF CompactStep

\* Every step keeps Apart, as long as the two tasks do not overlap.
LEMMA ApartStep ==
    ASSUME Typed, Numbered, Apart, ~Overlap, [Next]_vars
    PROVE  Apart'
<1>1. CASE FlushStep
  BY Zenon, <1>1, FlushKeepsApart
<1>2. CASE CompactStep
  BY Zenon, <1>2, CompactKeepsApart
<1>3. CASE Crash
  <2>1. flush'.pc = "idle" /\ compaction'.pc = "idle"
    BY Zenon, <1>3 DEF Crash, IdleFlush, IdleCompaction
  <2>2. ManifestReadable'
    BY Zenon, <1>3 DEF Crash, storeVars, Apart, ManifestReadable, LoadedManifest
  <2> QED BY Zenon, <2>1, <2>2 DEF Apart, FlushApart, CompactionApart
<1>4. CASE (\E d \in Delta : Push(d)) \/ Restart \/ UNCHANGED vars
  <2>1. UNCHANGED <<flush, compaction, segments, manifest, temp>>
    BY Zenon, <1>4 DEF Push, Restart, vars, storeVars, taskVars
  <2> QED BY Zenon, <2>1 DEF Apart, FlushApart, CompactionApart, ManifestReadable, LoadedManifest
<1> QED BY Zenon, <1>1, <1>2, <1>3, <1>4 DEF Next

\* The initial state satisfies the invariants.
LEMMA ApartInit == Init => Typed /\ Numbered /\ Apart
<1> SUFFICES ASSUME Init PROVE Typed /\ Numbered /\ Apart
  BY Zenon
<1>1. Numbered
  BY DEF Init, Numbered, ManifestsOrdered, Manifests, IdleFlush, IdleCompaction,
         OrderedManifest, NewManifest, Listed
<1>2. Apart
  BY Zenon, ObjectAssumption
     DEF Init, Apart, FlushApart, CompactionApart, ManifestReadable, Recoverable, LoadedManifest,
         NewManifest, Listed, IdleFlush, IdleCompaction
<1> QED BY Zenon, <1>1, <1>2, TypedInit

\* If flush and compaction do not overlap, a restart can always follow the
\* manifest: it parses, and every segment it lists is there and validates,
\* whichever store calls failed and wherever a crash fell.
THEOREM StoreReadable ==
    ASSUME ~Overlap
    PROVE  Spec => []ManifestReadable
<1> DEFINE I == Typed /\ Numbered /\ Apart
<1>1. I /\ [Next]_vars => I'
  BY Zenon, TypedStep, NumberedStep, ApartStep
<1>2. I => ManifestReadable
  BY Zenon DEF Apart
<1>3. Init => I
  BY Zenon, ApartInit
<1> QED BY <1>1, <1>2, <1>3, PTL DEF Spec

\* A segment keeps its content as long as the manifest lists it, if flush and
\* compaction do not overlap: ids are not handed out twice, a put never replaces
\* live data, and only what the saved manifest no longer lists is deleted.
THEOREM SegmentsImmutable ==
    ASSUME ~Overlap
    PROVE  Spec => [][ListedKept]_vars
<1> DEFINE I == Typed /\ Numbered /\ Apart
           lm == LoadedManifest
<1>1. I /\ [Next]_vars => I'
  BY Zenon, TypedStep, NumberedStep, ApartStep
<1>2. Init => I
  BY Zenon, ApartInit
<1>3. I /\ [Next]_vars => [ListedKept]_vars
  <2> SUFFICES ASSUME I, [Next]_vars PROVE ListedKept
    BY Zenon
  <2>1. lm.next \notin Listed(lm)
    BY Zenon, NextFree DEF Apart, ManifestReadable
  <2>2. ASSUME SameFor(segments, segments', lm) PROVE ListedKept
    BY Zenon, <2>2 DEF SameFor, ListedKept
  <2>3. CASE UNCHANGED segments
    BY Zenon, <2>3 DEF ListedKept
  <2>4. CASE FlushPut
    BY Zenon, <2>1, <2>2, <2>4, PutElsewhere DEF FlushPut, Apart, FlushApart
  <2>5. CASE CompactPut
    BY Zenon, <2>1, <2>2, <2>5, PutElsewhere DEF CompactPut, ReadDone, Apart, CompactionApart
  <2>6. CASE CompactDelete
    <3>1. compaction.taken \cap Listed(lm) = {}
      BY Zenon, <2>6 DEF CompactDelete, Apart, CompactionApart
    <3>2. SameFor(segments, segments', lm)
      BY Zenon, <2>6, <3>1 DEF CompactDelete, SameFor
    <3> QED BY Zenon, <2>2, <3>2
  <2> QED BY Zenon, <2>3, <2>4, <2>5, <2>6
          DEF Next, vars, storeVars, taskVars, Push, Crash, Restart, FlushStep, FlushBegin, FlushTemp,
              FlushRename, CompactStep, CompactBegin, CompactRead, CompactOnlyMissing,
              CompactTooFew, CompactNothingKept, CompactTemp, CompactRename
<1> QED BY <1>1, <1>2, <1>3, PTL DEF Spec

-----------------------------------------------------------------------------
(* Durable.                                                                *)

\* Among finitely many deltas one is not older than any other.
LEMMA NewestExists ==
    ASSUME NEW K \in FiniteDeltas, K # {}
    PROVE  \E d \in K : \A e \in K : e.time <= d.time
<1> DEFINE Above(d) == {e \in K : e.time > d.time}
           T == {Above(d) : d \in K}
<1>1. IsWellFoundedOn(StrictSubsetOrdering(K), SUBSET K)
  <2>1. IsFiniteSet(K)
    BY Zenon DEF FiniteDeltas
  <2>2. IsWellFoundedOn(StrictSubsetOrdering(K), FiniteSubsetsOf(K))
    BY Zenon, FS_StrictSubsetOrderingWellFounded
  <2> QED BY Zenon, <2>1, <2>2, FS_FiniteSubsetsOfFinite
<1>2. T \subseteq SUBSET K /\ T # {}
  BY Zenon
<1>3. PICK A \in T : \A B \in T : ~(<<B, A>> \in StrictSubsetOrdering(K))
  <2> HIDE DEF T
  <2> QED BY Zenon, <1>1, <1>2, WFMin
<1>4. PICK d \in K : A = Above(d)
  BY Zenon, <1>3
<1>5. \A e \in K : e.time \in Nat
  BY Zenon, FiniteDeltasFacts, DeltaAssumption
<1>6. ASSUME NEW e \in K, ~(e.time <= d.time) PROVE FALSE
  <2>1. e \in Above(d) /\ e \notin Above(e)
    BY <1>5, <1>6
  <2>2. \A x \in Above(e) : x \in Above(d)
    BY <1>5, <1>6
  <2>3. Above(e) \in T /\ Above(e) \subseteq Above(d) /\ Above(e) # Above(d)
    BY Zenon, <2>1, <2>2
  <2>4. <<Above(e), A>> \in StrictSubsetOrdering(K)
    BY Zenon, <1>4, <2>3 DEF StrictSubsetOrdering
  <2> QED BY Zenon, <1>3, <2>3, <2>4
<1> QED BY Zenon, <1>6

\* key_to_delta holds, for every delta read so far, that delta or a later one.
LEMMA LatestCovers ==
    ASSUME NEW got \in FiniteDeltas, NEW read \in FiniteDeltas, NEW d \in got \cup read
    PROVE  Covered(d, Latest(got, read))
<1> DEFINE S == got \cup read
           K == {e \in S : e.key = d.key /\ e.time >= d.time}
<1>1. S \in FiniteDeltas /\ \A e \in S : e.time \in Nat
  BY Zenon, FiniteDeltasFacts, DeltaAssumption
<1>2. K \in FiniteDeltas /\ d \in K
  BY <1>1, FiniteDeltasFacts
<1>3. PICK m \in K : \A e \in K : e.time <= m.time
  <2> HIDE DEF K
  <2> QED BY Zenon, <1>2, NewestExists
<1>4. \A e \in S : e.key = m.key => e.time <= m.time
  BY <1>1, <1>3
<1> QED BY Zenon, <1>3, <1>4 DEF Covered, Latest

\* Covered, step by step: by itself, in a larger set, and through a set whose
\* deltas are covered or buried themselves.
LEMMA CoveredFacts ==
    ASSUME written \subseteq Delta, NEW S \in SUBSET Delta, NEW d \in Delta
    PROVE  /\ d \in S => Covered(d, S)
           /\ \A T \in SUBSET Delta : Covered(d, S) /\ S \subseteq T => Covered(d, T)
           /\ \A T \in SUBSET Delta :
                  Covered(d, S) /\ (\A e \in S : Covered(e, T) \/ Buried(e)) =>
                      Covered(d, T) \/ Buried(d)
           /\ \A T \in SUBSET Delta :
                  Covered(d, S) /\ (\A e \in S : Covered(e, T)) => Covered(d, T)
<1>1. \A e \in Delta : e.time \in Nat
  BY Zenon, DeltaAssumption
<1>2. ASSUME NEW T \in SUBSET Delta, NEW e \in S, e.key = d.key, e.time >= d.time, Covered(e, T)
      PROVE  Covered(d, T)
  <2>1. PICK g \in T : g.key = e.key /\ g.time >= e.time
    BY Zenon, <1>2 DEF Covered
  <2>2. g.key = d.key /\ g.time >= d.time
    BY <1>1, <1>2, <2>1
  <2> QED BY Zenon, <2>2 DEF Covered
<1>3. ASSUME NEW e \in S, e.key = d.key, e.time >= d.time, Buried(e)
      PROVE  Buried(d)
  <2>1. PICK t \in written : Expired(t, TombstoneCutoff) /\ t.key = e.key /\ t.time >= e.time
    BY Zenon, <1>3 DEF Buried
  <2>2. t.key = d.key /\ t.time >= d.time
    BY <1>1, <1>3, <2>1
  <2> QED BY Zenon, <2>1, <2>2 DEF Buried
<1> QED BY <1>1, <1>2, <1>3 DEF Covered

\* What recovery returns, delta by delta.
LEMMA RecoveredMember ==
    ASSUME NEW s, NEW m, NEW d
    PROVE  d \in RecoveredDeltas(s, m) <=> \E i \in Listed(m) : Loadable(s, i) /\ d \in s[i]
  BY Zenon DEF RecoveredDeltas

\* Recovery returns deltas.
LEMMA RecoveredTyped ==
    ASSUME Typed, NEW m
    PROVE  RecoveredDeltas(segments, m) \subseteq Delta
<1>1. \A i \in Listed(m) : Loadable(segments, i) => segments[i] \subseteq Delta
  BY FiniteDeltasFacts DEF Typed, Loadable
<1> QED BY Zenon, <1>1, RecoveredMember

\* If neither what is stored and listed nor what was reported changes, what is
\* recovered and what is accounted for stay the same.
LEMMA StoreQuiet ==
    ASSUME Durable, LoadedManifest' = LoadedManifest, UNCHANGED written,
           SameFor(segments, segments', LoadedManifest)
    PROVE  Recovered' = Recovered /\ Accounted' /\ (Recovered \subseteq written)'
<1>1. Recovered' = Recovered
  BY Zenon, SameRead DEF Recovered
<1> QED BY Zenon, <1>1 DEF Durable, Accounted, Buried

\* In particular if nothing in the store changes.
LEMMA StoreUnchanged ==
    ASSUME Durable, UNCHANGED <<segments, manifest, written>>
    PROVE  /\ LoadedManifest' = LoadedManifest /\ Recovered' = Recovered
           /\ Accounted' /\ (Recovered \subseteq written)'
<1>1. LoadedManifest' = LoadedManifest /\ SameFor(segments, segments', LoadedManifest)
  BY Zenon DEF LoadedManifest, SameFor
<1> QED BY Zenon, <1>1, StoreQuiet

\* A flush puts exactly what it took: its manifest recovers what was there
\* before and the flushed deltas.
LEMMA FlushDurable ==
    ASSUME Typed, Numbered, Apart, Durable, ~Overlap, FlushStep
    PROVE  Durable'
<1> DEFINE f == flush
           lm == LoadedManifest
<1>0. /\ flush \in FlushState /\ f.manifest \in Manifest
      /\ f.deltas \in FiniteDeltas /\ f.id \in Nat
      /\ manifest # Torn /\ lm \in Manifest /\ lm.next \in Nat /\ lm.next \notin Listed(lm)
  BY Zenon, LoadedTyped, ManifestTypes, NextFree DEF Typed, FlushState, Apart, ManifestReadable
<1>1. compaction.pc = "idle" /\ UNCHANGED compaction
  BY Zenon DEF FlushStep, FlushBegin, FlushPut, FlushTemp, FlushRename, Apart
<1>2. CompactionAccounted'
  BY Zenon, <1>1 DEF Durable, CompactionAccounted
<1>3. ASSUME UNCHANGED <<segments, manifest, written>>
      PROVE  /\ LoadedManifest' = lm /\ Recovered' = Recovered
             /\ Accounted' /\ (Recovered \subseteq written)'
  BY Zenon, <1>3, StoreUnchanged
<1>4. ASSUME flush'.pc \notin {"temp", "rename"} PROVE FlushAccounted'
  BY Zenon, <1>4 DEF FlushAccounted
<1>5. IdleFlush.pc = "idle"
  BY Zenon DEF IdleFlush
<1>6. CASE FlushBegin
  <2>1. flush'.pc \notin {"temp", "rename"} /\ UNCHANGED <<segments, manifest, written>>
    BY <1>6 DEF FlushBegin, storeVars
  <2> QED BY Zenon, <1>2, <1>3, <1>4, <2>1 DEF Durable
<1>7. CASE FlushPut
  <2>1. f.id = lm.next /\ f.manifest = Allocate(lm) /\ UNCHANGED <<manifest, written>>
        /\ LoadedManifest' = lm
    BY Zenon, <1>7 DEF FlushPut, Apart, FlushApart, LoadedManifest
  <2>2. SameFor(segments, segments', lm)
    BY Zenon, <1>0, <1>7, <2>1, PutElsewhere DEF FlushPut
  <2>3. Recovered' = Recovered /\ Accounted' /\ (Recovered \subseteq written)'
    BY Zenon, <2>1, <2>2, StoreQuiet
  <2>4. CASE /\ StoreSegment(f.id, f.deltas)
             /\ flush' = [flush EXCEPT !.pc = "temp",
                              !.manifest = AddSegment(@, f.id, Cardinality(f.deltas))]
    <3>1. /\ flush'.manifest = AddSegment(f.manifest, f.id, Cardinality(f.deltas))
          /\ flush'.deltas = f.deltas
      BY Zenon, <1>0, <2>4 DEF FlushState
    <3>2. Listed(flush'.manifest) = Listed(lm) \cup {f.id}
      <4>1. Cardinality(f.deltas) \in Nat /\ Listed(f.manifest) = Listed(lm)
        BY Zenon, <1>0, <2>1, FiniteDeltasFacts, ListedAllocate
      <4> QED BY <1>0, <3>1, <4>1, ListedAdd
    <3>3. Loadable(segments', f.id) /\ segments'[f.id] = f.deltas
      BY Zenon, <1>0, <2>4, TornAssumption, FiniteDeltasFacts DEF StoreSegment, Loadable
    <3>4. \A d : d \in Recovered' <=>
                     \E i \in Listed(lm) : Loadable(segments', i) /\ d \in segments'[i]
      BY Zenon, <2>1, RecoveredMember DEF Recovered
    <3>5. \A d : d \in RecoveredDeltas(segments', flush'.manifest)
                     <=> d \in Recovered \cup f.deltas
      BY Zenon, <2>3, <3>2, <3>3, <3>4, RecoveredMember
    <3>6. RecoveredDeltas(segments', flush'.manifest) = Recovered \cup f.deltas
      BY Zenon, <3>5
    <3>7. FlushAccounted'
      BY Zenon, <2>1, <2>3, <3>1, <3>6 DEF FlushAccounted, Durable
    <3> QED BY Zenon, <1>2, <2>3, <3>7 DEF Durable
  <2> QED BY Zenon, <1>2, <1>4, <1>5, <1>7, <2>3, <2>4 DEF FlushPut, Durable
<1>8. CASE FlushTemp
  <2>1. UNCHANGED <<segments, manifest, written>>
    BY Zenon, <1>8 DEF FlushTemp
  <2>2. Recovered' = Recovered /\ Accounted' /\ (Recovered \subseteq written)'
    BY Zenon, <1>3, <2>1
  <2>3. CASE flush' = [flush EXCEPT !.pc = "rename"]
    <3>1. flush'.manifest = f.manifest /\ flush'.deltas = f.deltas
      BY Zenon, <1>0, <2>3 DEF FlushState
    <3>2. FlushAccounted'
      BY Zenon, <1>8, <2>1, <2>2, <3>1 DEF FlushTemp, FlushAccounted, Durable
    <3> QED BY Zenon, <1>2, <2>2, <3>2 DEF Durable
  <2> QED BY Zenon, <1>2, <1>4, <1>5, <1>8, <2>2, <2>3 DEF FlushTemp, Durable
<1>9. CASE FlushRename
  <2>1. flush'.pc = "idle" /\ UNCHANGED segments /\ temp = f.manifest /\ FlushAccounted'
    BY Zenon, <1>4, <1>5, <1>9 DEF FlushRename, Apart, FlushApart
  <2>2. CASE manifest' = temp /\ written' = written \cup f.deltas
    <3>1. LoadedManifest' = f.manifest
      BY Zenon, <1>0, <2>1, <2>2, LoadedStored
    <3>2. Recovered' = RecoveredDeltas(segments, f.manifest)
      BY Zenon, <2>1, <3>1 DEF Recovered
    <3>3. Recovered \cup f.deltas \subseteq Recovered' /\ Recovered' \subseteq written'
      BY Zenon, <1>9, <2>2, <3>2 DEF FlushRename, Durable, FlushAccounted
    <3>4. Recovered' \subseteq Delta /\ Recovered \subseteq Delta /\ f.deltas \subseteq Delta
      BY <1>0, <3>2, RecoveredTyped, FiniteDeltasFacts DEF Recovered
    <3>5. ASSUME NEW d \in written PROVE Covered(d, Recovered') \/ Buried(d)'
      <4>1. CASE Covered(d, Recovered)
        BY Zenon, <3>3, <4>1 DEF Covered
      <4>2. CASE Buried(d)
        BY Zenon, <2>2, <4>2 DEF Buried
      <4> QED BY Zenon, <4>1, <4>2 DEF Durable, Accounted
    <3>6. ASSUME NEW d \in f.deltas PROVE Covered(d, Recovered')
      BY Zenon, <3>3, <3>4, CoveredFacts DEF Typed
    <3>7. Accounted'
      BY Zenon, <2>2, <3>5, <3>6 DEF Accounted
    <3> QED BY Zenon, <1>2, <2>1, <3>3, <3>7 DEF Durable
  <2>3. CASE UNCHANGED <<manifest, written>>
    BY Zenon, <1>2, <1>3, <2>1, <2>3 DEF Durable
  <2> QED BY Zenon, <1>9, <2>1, <2>2, <2>3 DEF FlushRename, Rename, RenameCopies, RenameFails
<1> QED BY Zenon, <1>6, <1>7, <1>8, <1>9 DEF FlushStep

\* What a compaction may rely on: the segments it may read are all there, and
\* what it has read so far is covered by what it will write.
LEMMA CompactionFacts ==
    ASSUME Typed, Numbered, Apart, Durable
    PROVE  /\ compaction \in CompactionState
           /\ compaction.manifest \in Manifest /\ compaction.got \in FiniteDeltas
           /\ manifest # Torn /\ LoadedManifest \in Manifest
           /\ LoadedManifest.next \in Nat /\ LoadedManifest.next \notin Listed(LoadedManifest)
           /\ written \subseteq Delta /\ Recovered \subseteq written
           /\ ~compaction.missing
           /\ \A i \in Listed(LoadedManifest) :
                  /\ Loadable(segments, i) /\ segments[i] \in FiniteDeltas
                  /\ segments[i] \subseteq Recovered
           /\ compaction.pc = "read" =>
                  /\ compaction.manifest = LoadedManifest
                  /\ compaction.todo \cup compaction.taken \subseteq Listed(LoadedManifest)
                  /\ compaction.got \subseteq written
                  /\ \A i \in compaction.taken : \A d \in segments[i] : Covered(d, compaction.got)
<1> DEFINE lm == LoadedManifest
<1>1. /\ compaction \in CompactionState
      /\ compaction.manifest \in Manifest /\ compaction.got \in FiniteDeltas
  BY Zenon DEF Typed, CompactionState
<1>2. manifest # Torn /\ lm \in Manifest /\ Recoverable(segments, lm)
  BY Zenon, LoadedTyped DEF Apart, ManifestReadable
<1>3. lm.next \in Nat /\ lm.next \notin Listed(lm)
  BY Zenon, <1>2, ManifestTypes, NextFree
<1>4. written \subseteq Delta /\ Recovered \subseteq written /\ ~compaction.missing
  BY Zenon DEF Typed, Durable, CompactionAccounted
<1>5. ASSUME NEW i \in Listed(lm)
      PROVE  /\ Loadable(segments, i) /\ segments[i] \in FiniteDeltas
             /\ segments[i] \subseteq Recovered
  <2>1. Loadable(segments, i) /\ segments[i] \in FiniteDeltas
    BY Zenon, <1>2 DEF Recoverable, Loadable, Typed
  <2>2. ASSUME NEW d \in segments[i] PROVE d \in Recovered
    BY Zenon, <2>1, RecoveredMember DEF Recovered
  <2> QED BY Zenon, <2>1, <2>2
<1>6. compaction.pc = "read" =>
          /\ compaction.manifest = lm /\ compaction.todo \cup compaction.taken \subseteq Listed(lm)
          /\ compaction.got \subseteq written
          /\ \A i \in compaction.taken : \A d \in segments[i] : Covered(d, compaction.got)
  BY Zenon DEF Apart, CompactionApart, Durable, CompactionAccounted
<1> QED BY Zenon, <1>1, <1>2, <1>3, <1>4, <1>5, <1>6

\* Of what was read, the new segment covers all that is not buried.
LEMMA KeptCovers ==
    ASSUME Typed, Numbered, Apart, Durable, compaction.pc = "read",
           NEW i \in compaction.taken, NEW d \in segments[i]
    PROVE  Covered(d, Kept) \/ Buried(d)
<1>1. compaction.got \subseteq written /\ Covered(d, compaction.got)
  BY Zenon, CompactionFacts
<1>2. PICK e \in compaction.got : e.key = d.key /\ e.time >= d.time
  BY Zenon, <1>1 DEF Covered
<1>3. CASE Expired(e, TombstoneCutoff)
  BY Zenon, <1>1, <1>2, <1>3 DEF Buried
<1>4. CASE ~Expired(e, TombstoneCutoff)
  BY Zenon, <1>2, <1>4 DEF Kept, Covered
<1> QED BY Zenon, <1>3, <1>4

\* key_to_delta covers every segment read, the last one included.
LEMMA ReadAccounted ==
    ASSUME Typed, Numbered, Apart, Durable, "get" \notin Faults, CompactRead
    PROVE  CompactionAccounted'
<1> DEFINE c == compaction
           lm == LoadedManifest
<1>0. /\ compaction \in CompactionState /\ c.got \in FiniteDeltas
      /\ written \subseteq Delta /\ Recovered \subseteq written /\ Recovered \in SUBSET Delta
      /\ ~c.missing /\ lm \in Manifest /\ lm.next \in Nat /\ lm.next \notin Listed(lm)
      /\ \A i \in Listed(lm) : /\ Loadable(segments, i) /\ segments[i] \in FiniteDeltas
                               /\ segments[i] \subseteq Recovered
      /\ c.pc = "read" =>
             /\ c.manifest = lm /\ c.todo \cup c.taken \subseteq Listed(lm)
             /\ c.got \subseteq written
             /\ \A i \in c.taken : \A d \in segments[i] : Covered(d, c.got)
  BY Zenon, CompactionFacts
<1>1. UNCHANGED <<segments, manifest, written>> /\ c.pc = "read"
  BY Zenon DEF CompactRead, storeVars
<1>2. PICK i \in c.todo :
          compaction' = [compaction EXCEPT !.todo = @ \ {i}, !.taken = @ \cup {i},
                                           !.got = Latest(@, segments[i])]
  BY Zenon, <1>0, <1>1 DEF CompactRead, Loadable
<1>3. /\ compaction'.pc = "read" /\ compaction'.missing = c.missing
      /\ compaction'.taken = c.taken \cup {i}
      /\ compaction'.got = Latest(c.got, segments[i])
  BY Zenon, <1>0, <1>1, <1>2 DEF CompactionState
<1>4. /\ segments[i] \in FiniteDeltas /\ segments[i] \subseteq written
      /\ Latest(c.got, segments[i]) \subseteq c.got \cup segments[i]
  BY Zenon, <1>0, <1>1 DEF Latest
<1>5. compaction'.got \subseteq written
  BY Zenon, <1>0, <1>1, <1>3, <1>4
<1>6. \A d \in c.got \cup segments[i] : Covered(d, compaction'.got)
  BY <1>0, <1>3, <1>4, LatestCovers
<1>7. ASSUME NEW j \in c.taken, NEW d \in segments[j] PROVE Covered(d, compaction'.got)
  <2>1. Covered(d, c.got) /\ d \in Delta
    BY Zenon, <1>0, <1>1, FiniteDeltasFacts
  <2>2. c.got \in SUBSET Delta /\ compaction'.got \in SUBSET Delta
    BY Zenon, <1>0, <1>1, <1>5
  <2> QED BY <1>0, <1>6, <2>1, <2>2, CoveredFacts
<1> QED BY Zenon, <1>0, <1>1, <1>3, <1>5, <1>6, <1>7 DEF CompactionAccounted

\* A compaction that keeps nothing has read only what is buried.
LEMMA NothingKeptAccounted ==
    ASSUME Typed, Numbered, Apart, Durable, CompactNothingKept
    PROVE  CompactionAccounted'
<1> DEFINE c == compaction
           lm == LoadedManifest
<1>0. /\ compaction \in CompactionState /\ c.got \in FiniteDeltas
      /\ written \subseteq Delta /\ Recovered \subseteq written /\ Recovered \in SUBSET Delta
      /\ ~c.missing /\ lm \in Manifest /\ lm.next \in Nat /\ lm.next \notin Listed(lm)
      /\ \A i \in Listed(lm) : /\ Loadable(segments, i) /\ segments[i] \in FiniteDeltas
                               /\ segments[i] \subseteq Recovered
      /\ c.pc = "read" =>
             /\ c.manifest = lm /\ c.todo \cup c.taken \subseteq Listed(lm)
             /\ c.got \subseteq written
             /\ \A i \in c.taken : \A d \in segments[i] : Covered(d, c.got)
  BY Zenon, CompactionFacts
<1>1. /\ c.pc = "read" /\ UNCHANGED <<segments, manifest, written>> /\ Kept = {}
      /\ compaction'.pc = "temp" /\ compaction'.missing = c.missing
      /\ compaction'.manifest = RemoveSegments(lm, c.taken)
  BY Zenon, <1>0 DEF CompactNothingKept, ReadDone, storeVars, CompactionState
<1> DEFINE R == RecoveredDeltas(segments, compaction'.manifest)
<1>2. Listed(compaction'.manifest) = Listed(lm) \ c.taken
  BY <1>0, <1>1, ListedRemove
<1>3. \A d : d \in R <=> \E i \in Listed(lm) \ c.taken : d \in segments[i]
  BY Zenon, <1>0, <1>2, RecoveredMember
<1> HIDE DEF R
<1>4. R \subseteq Recovered
  BY Zenon, <1>0, <1>3
<1>5. ASSUME NEW d \in Recovered PROVE Covered(d, R) \/ Buried(d)
  <2>1. PICK i \in Listed(lm) : d \in segments[i]
    BY Zenon, RecoveredMember DEF Recovered
  <2>2. CASE i \in c.taken
    BY Zenon, KeptCovers, <1>1, <2>1, <2>2 DEF Covered
  <2>3. CASE i \notin c.taken
    <3>1. d \in R
      BY Zenon, <1>3, <2>1, <2>3
    <3> QED BY Zenon, <1>0, <1>4, <3>1, CoveredFacts
  <2> QED BY Zenon, <2>2, <2>3
<1>6. Recovered' = Recovered
  BY Zenon, <1>1, StoreUnchanged
<1>7. R = RecoveredDeltas(segments', compaction'.manifest)
  BY Zenon, <1>1 DEF R
<1> QED BY Zenon, <1>0, <1>1, <1>4, <1>5, <1>6, <1>7 DEF CompactionAccounted, Buried

\* The manifest with the new segment covers all that is recovered or buried.
LEMMA PutAccounted ==
    ASSUME Typed, Numbered, Apart, Durable, CompactPut
    PROVE  /\ CompactionAccounted'
           /\ Recovered' = Recovered /\ Accounted' /\ (Recovered \subseteq written)'
<1> DEFINE c == compaction
           lm == LoadedManifest
<1>0. /\ compaction \in CompactionState /\ c.got \in FiniteDeltas
      /\ written \subseteq Delta /\ Recovered \subseteq written /\ Recovered \in SUBSET Delta
      /\ ~c.missing /\ lm \in Manifest /\ lm.next \in Nat /\ lm.next \notin Listed(lm)
      /\ \A i \in Listed(lm) : /\ Loadable(segments, i) /\ segments[i] \in FiniteDeltas
                               /\ segments[i] \subseteq Recovered
      /\ c.pc = "read" =>
             /\ c.manifest = lm /\ c.todo \cup c.taken \subseteq Listed(lm)
             /\ c.got \subseteq written
             /\ \A i \in c.taken : \A d \in segments[i] : Covered(d, c.got)
  BY Zenon, CompactionFacts
<1> DEFINE m == [AddSegment(RemoveSegments(lm, c.taken), lm.next, Cardinality(Kept))
                     EXCEPT !.next = lm.next + 1]
<1>1. c.pc = "read" /\ c.manifest = lm /\ UNCHANGED <<manifest, written>> /\ LoadedManifest' = lm
  BY Zenon, <1>0 DEF CompactPut, ReadDone, LoadedManifest
<1>2. Kept \in FiniteDeltas /\ Cardinality(Kept) \in Nat /\ Kept \subseteq written
  BY <1>0, <1>1, FiniteDeltasFacts DEF Kept
<1>3. SameFor(segments, segments', lm)
  BY Zenon, <1>0, <1>1, PutElsewhere DEF CompactPut
<1>4. Recovered' = Recovered /\ Accounted' /\ (Recovered \subseteq written)'
  BY Zenon, <1>1, <1>3, StoreQuiet
<1>5. CASE /\ StoreSegment(lm.next, Kept)
           /\ compaction' = [compaction EXCEPT !.pc = "temp", !.manifest = m]
  <2>1. Listed(m) = (Listed(lm) \ c.taken) \cup {lm.next}
    BY Zenon, <1>0, <1>2, CompactedListed
  <2> HIDE DEF m
  <2>2. /\ compaction'.pc = "temp" /\ compaction'.manifest = m
        /\ compaction'.missing = c.missing
    BY Zenon, <1>0, <1>5 DEF CompactionState
  <2>3. Loadable(segments', lm.next) /\ segments'[lm.next] = Kept
    BY Zenon, <1>2, <1>5, TornAssumption, FiniteDeltasFacts DEF StoreSegment, Loadable
  <2>4. \A i \in Listed(lm) : Loadable(segments', i) /\ segments'[i] = segments[i]
    BY Zenon, <1>0, <1>3 DEF SameFor, Loadable
  <2> DEFINE R == RecoveredDeltas(segments', m)
  <2>5. \A d : d \in R <=> d \in Kept \/ \E i \in Listed(lm) \ c.taken : d \in segments[i]
    BY <2>1, <2>3, <2>4, RecoveredMember
  <2> HIDE DEF R
  <2>6. R \subseteq written /\ Kept \subseteq R
    BY Zenon, <1>0, <1>2, <2>5
  <2>7. ASSUME NEW d \in Recovered PROVE Covered(d, R) \/ Buried(d)
    <3>1. PICK i \in Listed(lm) : d \in segments[i]
      BY Zenon, RecoveredMember DEF Recovered
    <3>2. CASE i \in c.taken
      BY Zenon, KeptCovers, <1>1, <2>6, <3>1, <3>2 DEF Covered
    <3>3. CASE i \notin c.taken
      <4>1. d \in R
        BY Zenon, <2>5, <3>1, <3>3
      <4> QED BY Zenon, <1>0, <2>6, <4>1, CoveredFacts
    <3> QED BY Zenon, <3>2, <3>3
  <2> QED
    BY Zenon, <1>0, <1>1, <1>4, <2>2, <2>6, <2>7 DEF CompactionAccounted, Buried, R
<1>6. CASE compaction' = IdleCompaction
  BY Zenon, <1>4, <1>6 DEF CompactionAccounted, IdleCompaction
<1> QED BY Zenon, <1>1, <1>5, <1>6 DEF CompactPut

\* A compaction drops a delta only for a later one of its key, or because it is
\* or was followed by an expired tombstone.
LEMMA CompactDurable ==
    ASSUME Typed, Numbered, Apart, Durable, ~Overlap, "get" \notin Faults, CompactStep
    PROVE  Durable'
<1> DEFINE c == compaction
           lm == LoadedManifest
<1>0. compaction \in CompactionState /\ c.manifest \in Manifest /\ ~c.missing
      /\ written \subseteq Delta /\ Recovered \in SUBSET Delta
  BY Zenon, CompactionFacts
<1>1. flush.pc = "idle" /\ UNCHANGED <<flush, written>>
  BY Zenon DEF CompactStep, CompactBegin, CompactRead, CompactOnlyMissing, CompactTooFew,
               CompactNothingKept, CompactPut, CompactTemp, CompactRename, CompactDelete,
               ReadDone, Apart
<1>2. FlushAccounted'
  BY Zenon, <1>1 DEF FlushAccounted
<1>3. ASSUME UNCHANGED <<segments, manifest>>
      PROVE  Recovered' = Recovered /\ Accounted' /\ (Recovered \subseteq written)'
  BY Zenon, <1>1, <1>3, StoreUnchanged
<1>4. ASSUME compaction' = IdleCompaction PROVE CompactionAccounted'
  BY Zenon, <1>4 DEF CompactionAccounted, IdleCompaction
<1>10. CASE CompactBegin
  <2>1. /\ UNCHANGED <<segments, manifest>>
        /\ compaction'.pc = "read" /\ compaction'.missing = FALSE
        /\ compaction'.got = {} /\ compaction'.taken = {}
    BY Zenon, <1>10 DEF CompactBegin, IdleCompaction, storeVars
  <2>2. CompactionAccounted'
    BY Zenon, <2>1 DEF CompactionAccounted
  <2> QED BY Zenon, <1>2, <1>3, <2>1, <2>2 DEF Durable
<1>11. CASE CompactRead
  BY Zenon, <1>2, <1>3, <1>11, ReadAccounted DEF CompactRead, storeVars, Durable
<1>12. CASE CompactOnlyMissing
  BY Zenon, <1>0, <1>12 DEF CompactOnlyMissing, OnlyMissing
<1>13. CASE CompactTooFew
  BY Zenon, <1>2, <1>3, <1>4, <1>13 DEF CompactTooFew, storeVars, Durable
<1>14. CASE CompactNothingKept
  BY Zenon, <1>2, <1>3, <1>14, NothingKeptAccounted DEF CompactNothingKept, storeVars, Durable
<1>15. CASE CompactPut
  BY Zenon, <1>2, <1>15, PutAccounted DEF Durable
<1>16. CASE CompactTemp
  <2>1. UNCHANGED <<segments, manifest>>
    BY Zenon, <1>16 DEF CompactTemp
  <2>2. Recovered' = Recovered /\ Accounted' /\ (Recovered \subseteq written)'
    BY Zenon, <1>3, <2>1
  <2>3. CASE compaction' = [compaction EXCEPT !.pc = "rename"]
    <3>1. /\ compaction'.pc = "rename" /\ compaction'.manifest = c.manifest
          /\ compaction'.missing = c.missing
      BY Zenon, <1>0, <2>3 DEF CompactionState
    <3>2. CompactionAccounted'
      BY Zenon, <1>1, <1>16, <2>1, <2>2, <3>1
         DEF CompactTemp, Durable, CompactionAccounted, Buried
    <3> QED BY Zenon, <1>2, <2>2, <3>2 DEF Durable
  <2> QED BY Zenon, <1>2, <1>4, <1>16, <2>2, <2>3 DEF CompactTemp, Durable
<1>17. CASE CompactRename
  <2>1. /\ UNCHANGED segments /\ temp = c.manifest
        /\ compaction'.pc \in {"delete", "idle"} /\ ~compaction'.missing
    BY <1>0, <1>17
       DEF CompactRename, Apart, CompactionApart, CompactionState, IdleCompaction
  <2>2. CompactionAccounted'
    BY Zenon, <2>1 DEF CompactionAccounted
  <2>3. CASE manifest' = temp
    <3>1. Recovered' = RecoveredDeltas(segments, c.manifest)
      BY Zenon, <1>0, <2>1, <2>3, LoadedStored DEF Recovered
    <3>2. /\ Recovered' \subseteq written
          /\ \A d \in Recovered : Covered(d, Recovered') \/ Buried(d)
      BY Zenon, <1>17, <3>1 DEF CompactRename, Durable, CompactionAccounted
    <3>3. ASSUME NEW d \in written, Covered(d, Recovered)
          PROVE  Covered(d, Recovered') \/ Buried(d)
      <4>1. Recovered' \in SUBSET Delta /\ d \in Delta
        BY Zenon, <1>0, <3>2
      <4> QED BY <1>0, <3>2, <3>3, <4>1, CoveredFacts
    <3>4. Accounted'
      BY Zenon, <1>1, <3>3 DEF Durable, Accounted, Buried
    <3> QED BY Zenon, <1>1, <1>2, <2>2, <3>2, <3>4 DEF Durable
  <2>4. CASE UNCHANGED manifest
    BY Zenon, <1>2, <1>3, <2>1, <2>2, <2>4 DEF Durable
  <2> QED BY Zenon, <1>17, <2>3, <2>4 DEF CompactRename, Rename, RenameCopies, RenameFails
<1>18. CASE CompactDelete
  <2>1. UNCHANGED manifest /\ LoadedManifest' = lm /\ c.taken \cap Listed(lm) = {}
    BY Zenon, <1>18 DEF CompactDelete, Apart, CompactionApart, LoadedManifest
  <2>2. compaction'.pc \in {"delete", "idle"} /\ ~compaction'.missing
    <3>1. CASE compaction' = IdleCompaction
      BY Zenon, <3>1 DEF IdleCompaction
    <3>2. CASE \E i \in c.taken : compaction' = [compaction EXCEPT !.taken = @ \ {i}]
      <4>1. compaction'.pc = c.pc /\ compaction'.missing = c.missing
        BY Zenon, <1>0, <3>2 DEF CompactionState
      <4> QED BY Zenon, <1>0, <1>18, <4>1 DEF CompactDelete
    <3> QED BY Zenon, <1>18, <3>1, <3>2 DEF CompactDelete
  <2>3. SameFor(segments, segments', lm)
    BY Zenon, <1>18, <2>1 DEF CompactDelete, SameFor
  <2>4. CompactionAccounted'
    BY Zenon, <2>2 DEF CompactionAccounted
  <2> QED BY Zenon, <1>1, <1>2, <2>1, <2>3, <2>4, StoreQuiet DEF Durable
<1> QED BY Zenon, <1>10, <1>11, <1>12, <1>13, <1>14, <1>15, <1>16, <1>17, <1>18 DEF CompactStep

\* Every step keeps Durable, if the two tasks do not overlap and no fetch fails.
LEMMA DurableStep ==
    ASSUME Typed, Numbered, Apart, Durable, ~Overlap, "get" \notin Faults, [Next]_vars
    PROVE  Durable'
<1>1. CASE FlushStep
  BY Zenon, <1>1, FlushDurable
<1>2. CASE CompactStep
  BY Zenon, <1>2, CompactDurable
<1>3. ASSUME UNCHANGED <<segments, manifest, written>>
      PROVE  Recovered' = Recovered /\ Accounted' /\ (Recovered \subseteq written)'
  BY Zenon, <1>3, StoreUnchanged
<1>4. CASE Crash
  <2>1. /\ flush'.pc = "idle" /\ compaction'.pc = "idle" /\ ~compaction'.missing
        /\ UNCHANGED <<segments, manifest, written>>
    BY Zenon, <1>4 DEF Crash, IdleFlush, IdleCompaction, storeVars
  <2> QED BY Zenon, <1>3, <2>1 DEF Durable, FlushAccounted, CompactionAccounted
<1>5. CASE (\E d \in Delta : Push(d)) \/ Restart \/ UNCHANGED vars
  <2>1. UNCHANGED <<flush, compaction, segments, manifest, written>>
    BY Zenon, <1>5 DEF Push, Restart, vars, storeVars, taskVars
  <2> QED BY Zenon, <1>3, <2>1 DEF Durable, FlushAccounted, CompactionAccounted, Buried
<1> QED BY Zenon, <1>1, <1>2, <1>4, <1>5 DEF Next

\* If flush and compaction do not overlap and no fetch fails, every delta that
\* a flush reported as written is recovered, as itself or as a later write of
\* its key, or its key was deleted, at or after that write, by a tombstone old
\* enough to be dropped: whichever puts, renames and deletes failed or left cut
\* off objects, and wherever the process crashed.
THEOREM NothingLost ==
    ASSUME ~Overlap, "get" \notin Faults
    PROVE  Spec => []Accounted
<1> DEFINE I == Typed /\ Numbered /\ Apart /\ Durable
<1>1. I /\ [Next]_vars => I'
  BY Zenon, TypedStep, NumberedStep, ApartStep, DurableStep
<1>2. I => Accounted
  BY Zenon DEF Durable
<1>3. Init => I
  <2>1. Init => Durable
    BY DEF Init, Durable, Accounted, FlushAccounted, CompactionAccounted, Recovered,
           RecoveredDeltas, LoadedManifest, NewManifest, Listed, IdleFlush, IdleCompaction
  <2> QED BY Zenon, <2>1, ApartInit
<1> QED BY <1>1, <1>2, <1>3, PTL DEF Spec

\* If besides no tombstone is old enough to be dropped, recovery returns, for
\* every delta a flush reported as written, that delta or a later one of its key.
THEOREM EverythingRecovered ==
    ASSUME ~Overlap, "get" \notin Faults, \A d \in Delta : ~Expired(d, TombstoneCutoff)
    PROVE  Spec => []WrittenRecovered
<1>1. Typed /\ Accounted /\ ManifestReadable => WrittenRecovered
  BY Zenon DEF Typed, Accounted, Buried, Covered, ManifestReadable, WrittenRecovered, Settled
<1>2. Spec => []Typed
  BY TypedInit, TypedStep, PTL DEF Spec
<1>3. Spec => []Accounted
  BY Zenon, NothingLost
<1>4. Spec => []ManifestReadable
  BY Zenon, StoreReadable
<1> QED BY <1>1, <1>2, <1>3, <1>4, PTL

=============================================================================
