----------------------------- MODULE LatticeSync -----------------------------
(***************************************************************************)
(* The harness of src/replication/crdt_dst.rs, which drives replicas of    *)
(* one of the types of Lattices: operations at single replicas, then       *)
(* sync_all, rounds of pairwise merges in which a message may be dropped.  *)
(* A run may go on after a sync. The tags an ORSet's remove returns can    *)
(* also be delivered to other replicas (apply_remove), at any time and any *)
(* number of times.                                                        *)
(*                                                                         *)
(* `history' records the operations carried out and `seen' the ones each   *)
(* replica's state has taken in, its own or by a merge. They are what the  *)
(* properties compare the states with; no operation reads them.            *)
(***************************************************************************)
EXTENDS Lattices, Sequences

CONSTANTS Replicas,     \* how many replicas the harness has
          Kinds,        \* the types a harness is made for
          Amounts,      \* what a counter is incremented or decremented by
          Elements,     \* the elements of the sets
          Rounds,       \* max_rounds of sync_all: 5 in the code
          MaxOps, MaxRemovals, MaxSyncs  \* bounds of the operations

VARIABLES kind,     \* the type this harness is made for
          reps,     \* the state of each replica
          at,       \* round and pair the sync under way is at, or Idle
          clean,    \* the last sync had a round without a drop, and nothing
                    \* was carried out since
          whole,    \* no message of the round under way was dropped
          synced,   \* the number of syncs carried out
          removals, \* the tag sets that remove returned, to be replicated
          history,  \* every operation, in the order of the run
          seen      \* the indices of history each replica has taken in

vars == <<kind, reps, at, clean, whole, synced, removals, history, seen>>

Member == 0 .. (Replicas - 1)

Idle == <<0, 0, 0>>

-----------------------------------------------------------------------------
(* The harness. *)

NewState(k) == CASE k \in {"gcounter", "clock"} -> NoCounts
                 [] k = "pncounter" -> NewPN
                 [] k = "gset" -> {}
                 [] k = "orset" -> NewORSet

\* try_merge of two values of one type; a GSet's merge is the union.
MergeStates(s, t) == CASE kind \in {"gcounter", "clock"} -> MergeCounts(s, t)
                       [] kind = "pncounter" -> MergePN(s, t)
                       [] kind = "gset" -> s \cup t
                       [] kind = "orset" -> MergeORSet(s, t)

Init ==
    /\ kind \in Kinds
    /\ reps = [r \in Member |-> NewState(kind)]
    /\ at = Idle /\ clean = FALSE /\ whole = TRUE /\ synced = 0
    /\ removals = {}
    /\ history = <<>>
    /\ seen = [r \in Member |-> {}]

\* One iteration of run: replica r's state becomes `state'.
Operate(r, state, op) ==
    /\ at = Idle
    /\ Len(history) < MaxOps
    /\ reps' = [reps EXCEPT ![r] = state]
    /\ history' = Append(history, op)
    /\ seen' = [seen EXCEPT ![r] = @ \cup {Len(history) + 1}]
    /\ clean' = FALSE
    /\ UNCHANGED <<kind, at, whole, synced>>

Increment(r, n) ==
    /\ \/ kind \in {"gcounter", "clock"} /\ Operate(r, IncrementBy(reps[r], r, n),
                                                    [by |-> r, name |-> "inc", n |-> n])
       \/ kind = "pncounter" /\ Operate(r, [reps[r] EXCEPT !.positive = IncrementBy(@, r, n)],
                                        [by |-> r, name |-> "inc", n |-> n])
    /\ kind = "clock" => n = 1
    /\ UNCHANGED removals

Decrement(r, n) ==
    /\ kind = "pncounter"
    /\ Operate(r, [reps[r] EXCEPT !.negative = IncrementBy(@, r, n)],
               [by |-> r, name |-> "dec", n |-> n])
    /\ UNCHANGED removals

Add(r, e) ==
    /\ \/ kind = "gset" /\ Operate(r, reps[r] \cup {e}, [by |-> r, name |-> "add", elem |-> e])
       \/ kind = "orset" /\ Operate(r, AddTag(reps[r], e, r),
                                    [by |-> r, name |-> "add", elem |-> e])
    /\ UNCHANGED removals

\* The tags removed are what remove returns, for the caller to replicate.
Remove(r, e) ==
    /\ kind = "orset"
    /\ Cardinality(removals) < MaxRemovals
    /\ Operate(r, Without(reps[r], e), [by |-> r, name |-> "rem", elem |-> e])
    /\ removals' = removals \cup {[elem |-> e, tags |-> GetTags(reps[r], e), saw |-> seen[r]]}

\* A remove carried out elsewhere reaches replica r, any number of times.
DeliverRemove(r, removal) ==
    /\ at = Idle
    /\ reps' = [reps EXCEPT ![r] = ApplyRemove(@, removal.elem, removal.tags)]
    /\ clean' = FALSE
    /\ UNCHANGED <<kind, at, whole, synced, removals, history, seen>>

StartSync ==
    /\ at = Idle
    /\ synced < MaxSyncs
    /\ at' = <<1, 0, 1>>
    /\ clean' = FALSE /\ whole' = TRUE
    /\ UNCHANGED <<kind, reps, synced, removals, history, seen>>

\* The two nested loops over i < j, repeated Rounds times.
Following(p) ==
    IF p[3] + 1 < Replicas THEN <<p[1], p[2], p[3] + 1>>
    ELSE IF p[2] + 2 < Replicas THEN <<p[1], p[2] + 1, p[2] + 2>>
    ELSE IF p[1] < Rounds THEN <<p[1] + 1, 0, 1>>
    ELSE Idle

\* What the end of an inner step does to the position; `arrived' tells whether
\* the step's message did.
Advance(arrived) ==
    LET endsRound == Following(at)[1] # at[1]
    IN  /\ at' = Following(at)
        /\ whole' = (endsRound \/ (whole /\ arrived))
        /\ clean' = (clean \/ (endsRound /\ whole /\ arrived))
        /\ synced' = IF Following(at) = Idle THEN synced + 1 ELSE synced

MergePair ==
    /\ at # Idle
    /\ LET merged == MergeStates(reps[at[2]], reps[at[3]])
           both   == seen[at[2]] \cup seen[at[3]]
       IN  /\ reps' = [reps EXCEPT ![at[2]] = merged, ![at[3]] = merged]
           /\ seen' = [seen EXCEPT ![at[2]] = both, ![at[3]] = both]
    /\ Advance(TRUE)
    /\ UNCHANGED <<kind, removals, history>>

DropMessage ==
    /\ at # Idle
    /\ Advance(FALSE)
    /\ UNCHANGED <<kind, reps, removals, history, seen>>

Next ==
    \/ \E r \in Member, n \in Amounts : Increment(r, n) \/ Decrement(r, n)
    \/ \E r \in Member, e \in Elements : Add(r, e) \/ Remove(r, e)
    \/ \E r \in Member, removal \in removals : DeliverRemove(r, removal)
    \/ StartSync
    \/ MergePair
    \/ DropMessage

Spec == Init /\ [][Next]_vars

-----------------------------------------------------------------------------
(* Properties. *)

IsCounts(c) == DOMAIN c \subseteq Member /\ \A r \in DOMAIN c : c[r] \in Nat \ {0}
Tag == [replica : Member, sequence : Nat]

\* Type correctness; a map of counts never stores a zero.
TypeOK ==
    /\ kind \in Kinds
    /\ \A r \in Member :
        CASE kind \in {"gcounter", "clock"} -> IsCounts(reps[r])
          [] kind = "pncounter" -> IsCounts(reps[r].positive) /\ IsCounts(reps[r].negative)
          [] kind = "gset" -> reps[r] \subseteq Elements
          [] kind = "orset" -> /\ DOMAIN reps[r].elements \subseteq Elements
                               /\ \A e \in DOMAIN reps[r].elements : GetTags(reps[r], e) \subseteq Tag
                               /\ IsCounts(reps[r].next)
    /\ at \in (0 .. Rounds) \X Member \X Member
    /\ clean \in BOOLEAN /\ whole \in BOOLEAN /\ synced \in 0 .. MaxSyncs
    /\ seen \in [Member -> SUBSET DOMAIN history]

\* The operations of a kind among those replica r has seen.
SeenOps(r, name) == {i \in seen[r] : history[i].name = name}

Sum(S) == FoldFunction(+, 0, [i \in S |-> history[i].n])

\* The answer of a replica is the one its history calls for, however its
\* operations reached it: a counter's value is the sum of the increments less
\* that of the decrements it has seen, a grow-only set has the elements added.
AnswersFollowHistory ==
    \A r \in Member :
        /\ kind = "gcounter" => CounterValue(reps[r]) = Sum(SeenOps(r, "inc"))
        /\ kind = "pncounter" => PNValue(reps[r]) = Sum(SeenOps(r, "inc")) - Sum(SeenOps(r, "dec"))
        /\ kind = "gset" => reps[r] = {history[i].elem : i \in SeenOps(r, "add")}

\* happens_before, concurrent_with and equality of vector clocks decide exactly
\* whether the one replica has seen less than, other than or the same as the
\* other: causality, as the comparison of maps is meant to capture it.
ClocksTellCausality ==
    kind = "clock" =>
        \A r, s \in Member :
            /\ HappensBefore(reps[r], reps[s]) <=> (seen[r] \subseteq seen[s] /\ seen[r] # seen[s])
            /\ EqualCounts(reps[r], reps[s]) <=> seen[r] = seen[s]
            /\ ConcurrentWith(reps[r], reps[s])
                <=> ~(seen[r] \subseteq seen[s]) /\ ~(seen[s] \subseteq seen[r])

\* The tag an addition created: the additions of its replica before it give its
\* sequence number.
TagOf(i) ==
    [replica  |-> history[i].by,
     sequence |-> Cardinality({j \in 1 .. (i - 1) : history[j].name = "add"
                                                     /\ history[j].by = history[i].by})]

Observed(i) == \E removal \in removals : TagOf(i) \in removal.tags

\* Add wins: an addition a replica has seen and whose tag no remove observed
\* keeps its element in that replica's set, through every merge and every
\* remove delivered to it; and a tag belongs to one addition only.
UnobservedAddsKept ==
    kind = "orset" =>
        \A r \in Member :
            /\ \A i \in SeenOps(r, "add") :
                ~Observed(i) => TagOf(i) \in GetTags(reps[r], history[i].elem)
            /\ \A e \in Members(reps[r]) : \A t \in GetTags(reps[r], e) :
                \E i \in SeenOps(r, "add") : TagOf(i) = t /\ history[i].elem = e

\* After a sync in which one round lost no message every replica has taken in
\* every operation and all give the same answer: check_convergence finds no
\* violation. The order of the pairs in a round is what makes one round enough.
CleanRoundConverges ==
    clean =>
        \A r, s \in Member :
            /\ seen[r] = DOMAIN history
            /\ CASE kind \in {"gcounter", "clock"} -> EqualCounts(reps[r], reps[s])
                 [] kind = "pncounter" -> PNValue(reps[r]) = PNValue(reps[s])
                 [] kind = "gset" -> reps[r] = reps[s]
                 [] kind = "orset" -> Members(reps[r]) = Members(reps[s])
=============================================================================
