--------------------------- MODULE MCReplication ---------------------------
(***************************************************************************)
(* Instances of the replication for TLC, as three scenes of one run,       *)
(* chosen in the initial state: "typed", two replicas of one shard whose   *)
(* keys keep to one type and whose messages may be repeated; "wild", every  *)
(* command on every key, with expiries, losses and restarts; "lattice",    *)
(* the CRDTs of lattice.rs under the harness of LatticeSync. A scene       *)
(* leaves the variables of the others as they are.                         *)
(*                                                                         *)
(* Values are interchangeable; replica ids are not, because they break     *)
(* ties.                                                                   *)
(***************************************************************************)
EXTENDS Replication, TLC

CONSTANTS v1, v2, f1,
          Replicas, Kinds, Amounts, Elements, Rounds, MaxOps, MaxRemovals, MaxSyncs

VARIABLES scene, kind, reps, at, clean, whole, synced, removals, history, seen

Two == 1 .. 2

\* Key "a" is only ever a string and key "h" a hash, whose DEL the code does
\* not record.
ByType == [k \in Key |-> IF k = "h" THEN {"hset", "hdel", "hincr"}
                                   ELSE {"set", "xx", "modify", "del"}]

Plain == {NoExpiry}

Symmetric == Permutations(Value)

\* Every command on either key; a queue of one, a loss and a restart.
Wild == INSTANCE Replication WITH
    Commands <- [k \in Key |-> CommandNames], Expiries <- {500},
    MaxDelKeys <- 2, MaxOutbound <- 1, MaxCommands <- 2, MaxLosses <- 1, MaxDuplicates <- 0,
    WalFails <- FALSE, MaxRestarts <- 1

Lattice == INSTANCE LatticeSync

latticeVars == <<kind, reps, at, clean, whole, synced, removals, history, seen>>
sceneVars == <<scene, vars, latticeVars>>

SceneInit ==
    /\ scene \in {"typed", "wild", "lattice"}
    /\ Init
    /\ Lattice!Init
    /\ scene # "lattice" => kind = "gcounter"

SceneNext ==
    /\ UNCHANGED scene
    /\ \/ scene = "typed" /\ Next /\ UNCHANGED latticeVars
       \/ scene = "wild" /\ Wild!Next /\ UNCHANGED latticeVars
       \/ scene = "lattice" /\ Lattice!Next /\ UNCHANGED vars

SceneSpec == SceneInit /\ [][SceneNext]_sceneVars

\* Replicas whose keys keep to one type agree once no delta is under way, and the
\* executor's data, which clients read, is what the CRDT state holds.
TypedConverged == TypeOK /\ (scene = "typed" => Converged /\ ExecutorMatches)

\* The CRDTs answer what their operations and merges should give, vector clocks
\* order what each has seen of the other, and one round of merges without a loss
\* brings all the harness's replicas together.
LatticesRight ==
    /\ Lattice!TypeOK /\ Lattice!AnswersFollowHistory
    /\ Lattice!ClocksTellCausality
    /\ Lattice!CleanRoundConverges

\* A remove never takes an add its replica had not seen.
UnobservedAddsKept == Lattice!UnobservedAddsKept
=============================================================================
