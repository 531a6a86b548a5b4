----------------------------- MODULE SortedSet -----------------------------
(***************************************************************************)
(* RedisSortedSet: a map from members to scores kept beside a skip list of *)
(* (score, member) entries.  Here the skip list is what it stands for, the *)
(* sequence of its entries in list order; module SkipList holds the linked *)
(* structure and is shown to implement these operators.                    *)
(*                                                                         *)
(* Scores are integers; Inf stands for f64::INFINITY and -Inf for its      *)
(* negation.  The code compares scores with |a - b| < EPSILON, which is    *)
(* false when both are the same infinity (the difference is NaN).          *)
(***************************************************************************)
EXTENDS Bytes, FiniteSets, TLC

CONSTANT Inf

SameScore(a, b) == a = b /\ a \notin {Inf, -Inf}

(* Skip lists as sequences of entries. *)
Entry(m, sc) == [member |-> m, score |-> sc]

Less(e, f) ==
  \/ e.score < f.score
  \/ e.score = f.score /\ LexLess(e.member, f.member)

(* The number of entries the search for e passes over. *)
Passed(order, e) ==
  CHOOSE n \in 0..Len(order) :
    /\ \A i \in 1..n : Less(order[i], e)
    /\ n < Len(order) => ~Less(order[n + 1], e)

NextIs(order, n, m) == n < Len(order) /\ order[n + 1].member = m

(* The entry behind the first n is the one of m with score sc. *)
FoundAt(order, n, m, sc) == NextIs(order, n, m) /\ SameScore(order[n + 1].score, sc)

(* SkipList::insert repositions an entry of the same member only when the  *)
(* search stops right in front of it.                                      *)
InsertBehind(order, n, e) ==
  IF NextIs(order, n, e.member)
  THEN IF order[n + 1].score = e.score THEN order ELSE ReplaceAt(order, n + 1, e)
  ELSE InsertAt(order, n + 1, e)

OrderInsert(order, m, sc) ==
  InsertBehind(order, Passed(order, Entry(m, sc)), Entry(m, sc))

RemoveBehind(order, n, m, sc) ==
  IF FoundAt(order, n, m, sc) THEN RemoveAt(order, n + 1) ELSE order

OrderRemove(order, m, sc) == RemoveBehind(order, Passed(order, Entry(m, sc)), m, sc)

(* Zero-based rank, -1 when the search does not find the entry. *)
RankBehind(order, n, m, sc) == IF FoundAt(order, n, m, sc) THEN n ELSE -1

OrderRank(order, m, sc) == RankBehind(order, Passed(order, Entry(m, sc)), m, sc)

(* The sorted set proper. *)
EmptyZset == [members |-> <<>>, order |-> <<>>]

Score(zs, m) == zs.members[m]

ZsetHas(zs, m) == m \in DOMAIN zs.members

ZsetAdd(zs, m, sc) ==
  IF ~ZsetHas(zs, m)
  THEN [members |-> m :> sc @@ zs.members, order |-> OrderInsert(zs.order, m, sc)]
  ELSE IF SameScore(Score(zs, m), sc) THEN zs
  ELSE [members |-> m :> sc @@ zs.members,
        order   |-> OrderInsert(OrderRemove(zs.order, m, Score(zs, m)), m, sc)]

ZsetRemove(zs, m) ==
  IF ~ZsetHas(zs, m) THEN zs
  ELSE [members |-> [n \in DOMAIN zs.members \ {m} |-> zs.members[n]],
        order   |-> OrderRemove(zs.order, m, Score(zs, m))]

ZsetRank(zs, m) == IF ZsetHas(zs, m) THEN OrderRank(zs.order, m, Score(zs, m)) ELSE -1

ZsetLen(zs) == Cardinality(DOMAIN zs.members)

ZsetRange(zs, start, stop) == RangeOf(zs.order, start, stop)

(* Normalised against the forward list, then read from its end. *)
ZsetRevRange(zs, start, stop) == RangeOf(Reverse(zs.order), start, stop)

(* A score bound is [score |-> s, open |-> BOOLEAN]; a bound that does not *)
(* parse is the error "min or max is not a float" at the command.          *)
InBounds(sc, lo, hi) ==
  /\ IF lo.open THEN sc > lo.score ELSE sc >= lo.score
  /\ IF hi.open THEN sc < hi.score ELSE sc <= hi.score

ZsetByScore(zs, lo, hi) ==
  SelectSeq(zs.order, LAMBDA e : InBounds(e.score, lo, hi))

(* RedisSortedSet::verify_invariants: both halves have the same length and *)
(* every member is found in the list under its score.                      *)
ZsetConsistent(zs) ==
  /\ ZsetLen(zs) = Len(zs.order)
  /\ \A m \in DOMAIN zs.members : ZsetRank(zs, m) >= 0

(* RedisSortedSet::is_sorted. *)
ZsetSorted(zs) ==
  \A i \in 1..(Len(zs.order) - 1) : ~Less(zs.order[i + 1], zs.order[i])
=============================================================================
