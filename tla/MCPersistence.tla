--------------------------- MODULE MCPersistence ---------------------------
(***************************************************************************)
(* The instances of the persistence to the object store, as scenes of one  *)
(* run, chosen in the initial state: "configured", the flush and the       *)
(* compaction as the constants say; "together", in which they interleave   *)
(* at every await; and "checkpoint", the checkpointing task and the        *)
(* recovery of Checkpoints. A scene leaves the variables of the others as  *)
(* they are. The writes are of two keys, in the order of their shard's     *)
(* Lamport clock.                                                          *)
(***************************************************************************)
EXTENDS Streaming

CONSTANTS Scenes, Keys, Compression, MinSegments, Interval, MaxVersion, MaxFlushes, MaxTime

VARIABLES scene, state, unsaved, stored, index, files, now, task, restarts, flushed, raced

Write(k, t) == [key |-> k, time |-> t, dead |-> FALSE]
Delete(k, t) == [key |-> k, time |-> t, dead |-> TRUE]

\* One key is written, deleted and written again; another is written.
DeltaWithDelete == {Write("a", 1), Delete("a", 2), Write("a", 3), Write("b", 4)}

\* Two keys, overwritten.
DeltaLive == {Write("a", 1), Write("b", 2), Write("a", 3), Write("b", 4)}

\* Three writes of two keys.
DeltaThree == {d \in DeltaWithDelete : ~d.dead}

Together == INSTANCE Streaming WITH
    Delta <- DeltaThree, Backpressure <- 1, Overlap <- TRUE,
    Faults <- {"get", "put", "partial", "rename"}

Checkpointing == INSTANCE Checkpoints WITH
    MaxSegments <- MaxFlushes, buffer <- unsaved, segments <- stored, manifest <- index,
    crashes <- restarts

checkpointVars == <<state, unsaved, stored, index, files, now, task, restarts, flushed, raced>>
sceneVars == <<scene, vars, checkpointVars>>

SceneInit ==
    /\ scene \in Scenes
    /\ Init
    /\ Checkpointing!Init

SceneNext ==
    /\ UNCHANGED scene
    /\ \/ scene = "configured" /\ Next /\ UNCHANGED checkpointVars
       \/ scene = "together" /\ Together!Next /\ UNCHANGED checkpointVars
       \/ scene = "checkpoint" /\ Checkpointing!Next /\ UNCHANGED vars

SceneSpec == SceneInit /\ [][SceneNext]_sceneVars

\* Without overlap, recovery can follow the manifest - it parses and every
\* segment it lists can be loaded - and what a flush reported as written is what
\* it returns, whatever put, rename or delete failed and wherever a crash fell.
ApartRecovered == scene = "configured" => ManifestReadable /\ WrittenRecovered

\* A recovery that starts from a checkpoint brings back every flushed version,
\* wherever in create_checkpoint and the manifest's update the process stopped.
CheckpointComplete == scene = "checkpoint" => Checkpointing!FlushedRecovered

\* One damaged part of a checkpoint file is refused by CheckpointReader or
\* changes nothing of what it loads; so is one of a segment file by
\* SegmentReader. It is the newest segment that is looked at, between its flush
\* and the next write.
DamageRefused ==
    scene = "checkpoint" =>
        /\ Checkpointing!DamageDetected
        /\ unsaved = {} /\ task.at = "idle" /\ index.next > 0 =>
               Checkpointing!SegmentDamageDetected({index.next - 1})
=============================================================================
