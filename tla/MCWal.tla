------------------------------- MODULE MCWal -------------------------------
(***************************************************************************)
(* Instances of Wal for TLC, as scenes chosen in the initial state:        *)
(* "configured", the mode the constants name, and "always", group commit   *)
(* with every write awaited, files that fill at once and no truncation.    *)
(* Timestamps come from sixteen independent shard clocks, so they follow   *)
(* the order of the writes neither strictly nor at all: the second write   *)
(* carries the smallest and two writes tie.                                *)
(***************************************************************************)
EXTENDS Wal

CONSTANTS e1, e2, e3, Scenes

VARIABLE scene

MCTimestamp == [e \in Entry |-> IF e = e2 THEN 1 ELSE 2]

Always == INSTANCE Wal WITH
    Awaited <- Entry, Policy <- "Always", MaxFileSize <- 2, Faults <- {"append", "fsync"},
    TruncateTimes <- {}

sceneVars == <<scene, vars>>

SceneInit == scene \in Scenes /\ Init

SceneNext ==
    /\ UNCHANGED scene
    /\ \/ scene = "configured" /\ Next
       \/ scene = "always" /\ Always!Next

\* tokio polls the actor's task again whenever it can make progress, and the
\* group-commit timer fires.
SceneActorStep ==
    /\ UNCHANGED scene
    /\ \/ scene = "configured" /\ ActorStep
       \/ scene = "always" /\ Always!ActorStep

SceneSpec == SceneInit /\ [][SceneNext]_sceneVars /\ WF_sceneVars(SceneActorStep)
=============================================================================
