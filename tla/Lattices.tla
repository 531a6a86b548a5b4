------------------------------ MODULE Lattices ------------------------------
(***************************************************************************)
(* The counters, the sets and the vector clock of                          *)
(* src/replication/lattice.rs, as operators. A map from replica ids to     *)
(* numbers is a function on the ids it has an entry for; an id without an  *)
(* entry counts as zero.                                                   *)
(***************************************************************************)
EXTENDS Integers, FiniteSets, Functions

-----------------------------------------------------------------------------
(* GCounter, PNCounter, VectorClock: a count for each replica. *)

NoCounts == [r \in {} |-> 0]

Count(c, r) == IF r \in DOMAIN c THEN c[r] ELSE 0

IncrementBy(c, r, n) == [x \in DOMAIN c \cup {r} |-> Count(c, x) + IF x = r THEN n ELSE 0]

\* Mutation: the counts are added up, so that a repeated merge counts twice.
MergeCountsAdding(c, d) == [r \in DOMAIN c \cup DOMAIN d |-> Count(c, r) + Count(d, r)]

MergeCounts(c, d) ==
    [r \in DOMAIN c \cup DOMAIN d |->
        IF Count(d, r) > Count(c, r) THEN Count(d, r) ELSE Count(c, r)]

EqualCounts(c, d) == \A r \in DOMAIN c \cup DOMAIN d : Count(c, r) = Count(d, r)

CounterValue(c) == FoldFunction(+, 0, c)

NewPN == [positive |-> NoCounts, negative |-> NoCounts]

PNValue(p) == CounterValue(p.positive) - CounterValue(p.negative)

MergePN(p, q) ==
    [positive |-> MergeCounts(p.positive, q.positive),
     negative |-> MergeCounts(p.negative, q.negative)]

HappensBefore(c, d) ==
    /\ \A r \in DOMAIN c : c[r] <= Count(d, r)
    /\ \/ \E r \in DOMAIN c : c[r] < Count(d, r)
       \/ \E r \in DOMAIN d \ DOMAIN c : d[r] > 0

ConcurrentWith(c, d) == ~HappensBefore(c, d) /\ ~HappensBefore(d, c) /\ ~EqualCounts(c, d)

-----------------------------------------------------------------------------
(* ORSet: the tags of each element, and the next sequence number a replica *)
(* id will tag with.                                                       *)

NewORSet == [elements |-> [e \in {} |-> {}], next |-> NoCounts]

GetTags(s, e) == IF e \in DOMAIN s.elements THEN s.elements[e] ELSE {}

Members(s) == {e \in DOMAIN s.elements : s.elements[e] # {}}

WithTags(s, e, tags) ==
    [s EXCEPT !.elements = [x \in DOMAIN @ \cup {e} |-> IF x = e THEN tags ELSE @[x]]]

Without(s, e) == [s EXCEPT !.elements = Restrict(@, DOMAIN @ \ {e})]

AddTag(s, e, r) ==
    WithTags([s EXCEPT !.next = IncrementBy(@, r, 1)],
             e, GetTags(s, e) \cup {[replica |-> r, sequence |-> Count(s.next, r)]})

MergeORSet(s, t) ==
    LET all == {e \in DOMAIN s.elements \cup DOMAIN t.elements :
                   GetTags(s, e) \cup GetTags(t, e) # {}}
    IN  [elements |-> [e \in all |-> GetTags(s, e) \cup GetTags(t, e)],
         next     |-> MergeCounts(s.next, t.next)]

\* Mutation: a replicated remove takes the element with whatever tags it has.
ApplyRemoveAll(s, e, tags) == Without(s, e)

ApplyRemove(s, e, tags) ==
    IF e \notin DOMAIN s.elements THEN s
    ELSE IF s.elements[e] \subseteq tags THEN Without(s, e)
    ELSE WithTags(s, e, s.elements[e] \ tags)

=============================================================================
