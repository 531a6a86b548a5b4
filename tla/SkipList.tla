------------------------------ MODULE SkipList ------------------------------
(***************************************************************************)
(* The skip list under RedisSortedSet: nodes in numbered slots with a      *)
(* forward index and a span at each level, backward indices, a tail, a     *)
(* free list of slots, and searches that descend the levels.  Slot 0 is    *)
(* the header.  The level of a new node, which the code draws from an      *)
(* xorshift generator, is any level up to MaxLevel.                        *)
(*                                                                         *)
(* The specification drives the list the way RedisSortedSet::add and       *)
(* remove do, beside the member map, and is shown to implement module      *)
(* SortedSetSpec, in which the list is a sequence.                         *)
(***************************************************************************)
EXTENDS SortedSet

CONSTANTS Members, Scores,
          MaxLevel,     \* SKIPLIST_MAXLEVEL, 32 in the code
          MaxEntries    \* bound: the entries a list may reach

VARIABLES sl,       \* the SkipList
          members   \* RedisSortedSet::members

vars == <<sl, members>>

None == -1

Link(fwd, span) == [forward |-> fwd, span |-> span]

Node(m, sc, levels, back) ==
  [member |-> m, score |-> sc, levels |-> levels, backward |-> back]

(* A slot whose node was freed. *)
Freed == Node(<<>>, 0, <<>>, None)

EmptyList ==
  [nodes  |-> 0 :> Node(<<>>, 0, [i \in 1..MaxLevel |-> Link(None, 0)], None),
   free   |-> <<>>,
   tail   |-> None,
   level  |-> 1,
   length |-> 0]

Forward(l, x, i) == l.nodes[x].levels[i].forward
Span(l, x, i)    == l.nodes[x].levels[i].span

(* The search shared by insert, remove_with_score, rank and range: at each *)
(* level from the top, move forward while the next node is to be passed,   *)
(* adding up the spans.  Element i of the result is the node and the rank  *)
(* where level i stops.  Pass(y, r) says whether to move to node y,        *)
(* reached at rank r.                                                      *)
Advance(l, i, from, Pass(_, _)) ==
  LET go[p \in [node : DOMAIN l.nodes, rank : Nat]] ==
        LET f == Forward(l, p.node, i)
            r == p.rank + Span(l, p.node, i)
        IN  IF f # None /\ Pass(f, r) THEN go[[node |-> f, rank |-> r]] ELSE p
  IN  go[from]

Descend(l, Pass(_, _)) ==
  LET at[i \in 1..(l.level + 1)] ==
        IF i > l.level THEN <<>>
        ELSE LET above == at[i + 1]
                 from  == IF above = <<>> THEN [node |-> 0, rank |-> 0] ELSE Head(above)
             IN  <<Advance(l, i, from, Pass)>> \o above
  IN  at[1]

(* Mutation: the rank reached on the level above is forgotten. *)
SearchRankFromZero(l, m, sc) ==
  LET at == Descend(l, LAMBDA y, r : Less(Entry(l.nodes[y].member, l.nodes[y].score), Entry(m, sc)))
  IN  [i \in DOMAIN at |-> [at[i] EXCEPT !.rank = IF i < Len(at) THEN @ - at[i + 1].rank ELSE @]]

(* Mutation: equal scores are not ordered by member. *)
SearchByScore(l, m, sc) == Descend(l, LAMBDA y, r : l.nodes[y].score < sc)

Search(l, m, sc) ==
  Descend(l, LAMBDA y, r : Less(Entry(l.nodes[y].member, l.nodes[y].score), Entry(m, sc)))

(* alloc_node: the most recently freed slot, else a new one. *)
Slot(l) == IF l.free # <<>> THEN Last(l.free) ELSE Cardinality(DOMAIN l.nodes)

InsertInternal(l, m, sc, lv, at) ==
  LET new     == Slot(l)
      top     == MaxOf(l.level, lv)
      Pre(i)  == IF i <= l.level THEN at[i].node ELSE 0
      Rank(i) == IF i <= l.level THEN at[i].rank ELSE 0
      Old(i)  == IF i <= l.level THEN Span(l, Pre(i), i) ELSE l.length
      before(i) == at[1].rank - Rank(i)
      next    == Forward(l, at[1].node, 1)
      node    == Node(m, sc,
                      [i \in 1..lv |-> Link(Forward(l, Pre(i), i), Old(i) - before(i))],
                      IF at[1].node = 0 THEN None ELSE at[1].node)
      Relink(x, i) ==
        IF i > top \/ Pre(i) # x THEN l.nodes[x].levels[i]
        ELSE IF i <= lv THEN Link(new, before(i) + 1)
        ELSE Link(Forward(l, x, i), Span(l, x, i) + 1)
      linked  == [x \in DOMAIN l.nodes |->
                    [l.nodes[x] EXCEPT
                       !.levels   = [i \in DOMAIN @ |-> Relink(x, i)],
                       !.backward = IF x = next THEN new ELSE @]]
  IN  [nodes  |-> new :> node @@ linked,
       free   |-> IF l.free # <<>> THEN Front(l.free) ELSE l.free,
       tail   |-> IF next = None THEN new ELSE l.tail,
       level  |-> top,
       length |-> l.length + 1]

DeleteNode(l, idx, at) ==
  LET gone == l.nodes[idx]
      next == Forward(l, idx, 1)
      Relink(x, i) ==
        IF i > l.level \/ at[i].node # x THEN l.nodes[x].levels[i]
        ELSE IF Forward(l, x, i) = idx
             THEN Link(gone.levels[i].forward, Span(l, x, i) + gone.levels[i].span - 1)
             ELSE Link(Forward(l, x, i), Span(l, x, i) - 1)
      linked == idx :> Freed @@
                [x \in DOMAIN l.nodes |->
                   [l.nodes[x] EXCEPT
                      !.levels   = [i \in DOMAIN @ |-> Relink(x, i)],
                      !.backward = IF x = next THEN gone.backward ELSE @]]
      used   == {i \in 2..l.level : linked[0].levels[i].forward # None}
  IN  [nodes  |-> linked,
       free   |-> Append(l.free, idx),
       tail   |-> IF next = None THEN gone.backward ELSE l.tail,
       level  |-> IF used = {} THEN 1 ELSE CHOOSE i \in used : \A j \in used : j <= i,
       length |-> l.length - 1]

(* SkipList::insert, with lv the level the generator yields if it is asked *)
Insert(l, m, sc, lv) ==
  LET at  == Search(l, m, sc)
      fwd == Forward(l, at[1].node, 1)
  IN  IF fwd # None /\ l.nodes[fwd].member = m
      THEN IF l.nodes[fwd].score = sc THEN l
           ELSE InsertInternal(DeleteNode(l, fwd, at), m, sc, lv, at)
      ELSE InsertInternal(l, m, sc, lv, at)

Found(l, x, m, sc) ==
  /\ Forward(l, x, 1) # None
  /\ l.nodes[Forward(l, x, 1)].member = m
  /\ SameScore(l.nodes[Forward(l, x, 1)].score, sc)

RemoveWithScore(l, m, sc) ==
  LET at == Search(l, m, sc)
  IN  IF Found(l, at[1].node, m, sc) THEN DeleteNode(l, Forward(l, at[1].node, 1), at) ELSE l

ListRank(l, m, sc) ==
  LET at == Search(l, m, sc)
  IN  IF Found(l, at[1].node, m, sc) THEN at[1].rank ELSE -1

(* The entries from node x on along level 1 (SkipListIter). *)
From(l, x) ==
  LET walk[y \in DOMAIN l.nodes \cup {None}] ==
        IF y = None THEN <<>>
        ELSE <<Entry(l.nodes[y].member, l.nodes[y].score)>> \o walk[Forward(l, y, 1)]
  IN  walk[x]

Walk(l) == From(l, Forward(l, 0, 1))

(* SkipList::range on zero-based ranks. *)
ListRange(l, start, end) ==
  IF start > end \/ start >= l.length THEN <<>>
  ELSE LET at    == Descend(l, LAMBDA y, r : r <= start)
           rest  == From(l, Forward(l, at[1].node, 1))
           count == MinOf(end, l.length - 1) - start + 1
       IN  SubSeq(rest, 1, MinOf(count, Len(rest)))

----------------------------------------------------------------------------

Init == sl = EmptyList /\ members = <<>>

(* RedisSortedSet::add *)
ListAdd(m, sc, lv) ==
  /\ ~(m \in DOMAIN members /\ SameScore(members[m], sc))
  /\ members' = m :> sc @@ members
  /\ sl' = Insert(IF m \in DOMAIN members THEN RemoveWithScore(sl, m, members[m]) ELSE sl,
                  m, sc, lv)
  /\ sl'.length <= MaxEntries

(* RedisSortedSet::remove *)
ListRemove(m) ==
  /\ m \in DOMAIN members
  /\ members' = [n \in DOMAIN members \ {m} |-> members[n]]
  /\ sl' = RemoveWithScore(sl, m, members[m])

Next == \/ \E m \in Members, sc \in Scores, lv \in 1..MaxLevel : ListAdd(m, sc, lv)
        \/ \E m \in Members : ListRemove(m)

Spec == Init /\ [][Next]_vars

----------------------------------------------------------------------------

TypeOK ==
  /\ members \in UNION {[M -> Scores] : M \in SUBSET Members}
  /\ sl.level \in 1..MaxLevel
  /\ sl.length = Len(Walk(sl))
  /\ \A x \in DOMAIN sl.nodes : \A i \in DOMAIN sl.nodes[x].levels :
       /\ Forward(sl, x, i) \in DOMAIN sl.nodes \cup {None}
       /\ Span(sl, x, i) \in Nat

(* The nodes from x on along level i. *)
Chain(l, x, i) ==
  LET walk[y \in DOMAIN l.nodes \cup {None}] ==
        IF y = None THEN <<>> ELSE <<y>> \o walk[Forward(l, y, i)]
  IN  walk[x]

(* Every level is a subsequence of the level below it, and a link's span is *)
(* the distance its two ends have on the bottom level, to the end of the    *)
(* list for the last link.  insert and delete_node keep this by arithmetic  *)
(* on the ranks the search collected; rank and range answer from it.        *)
SpansExact ==
  LET bottom  == <<0>> \o Chain(sl, Forward(sl, 0, 1), 1)
      Pos(x)  == CHOOSE p \in DOMAIN bottom : bottom[p] = x
      Upto(x) == IF x = None THEN Len(bottom) ELSE Pos(x)
  IN  \A p \in DOMAIN bottom :
        LET x == bottom[p]
        IN  \A i \in 1..MinOf(Len(sl.nodes[x].levels), sl.level) :
              /\ Forward(sl, x, i) \in ToSet(bottom) \cup {None}
              /\ Span(sl, x, i) = Upto(Forward(sl, x, i)) - p

(* The backward links and the tail are the forward links of the bottom     *)
(* level read from the other end, and the slots on no chain are exactly    *)
(* the free list.                                                          *)
BackwardExact ==
  LET bottom == Chain(sl, Forward(sl, 0, 1), 1)
  IN  /\ sl.tail = IF bottom = <<>> THEN None ELSE Last(bottom)
      /\ \A p \in DOMAIN bottom :
           sl.nodes[bottom[p]].backward = IF p = 1 THEN None ELSE bottom[p - 1]
      /\ ToSet(sl.free) = DOMAIN sl.nodes \ ({0} \cup ToSet(bottom))
      /\ Len(sl.free) = Cardinality(ToSet(sl.free))

(* ZRANK and ZRANGE as the linked structure answers them are what the      *)
(* sequence of entries answers, for every member, score and pair of ranks. *)
AnswersExact ==
  LET order == Walk(sl)
  IN  /\ \A m \in Members, sc \in Scores :
           ListRank(sl, m, sc) = OrderRank(order, m, sc)
      /\ \A a, z \in 0..Len(order) :
           ListRange(sl, a, z) = SubSeq(order, a + 1, MinOf(z + 1, Len(order)))

(* verify_invariants and is_sorted hold of every set whose list holds no   *)
(* infinite score; an infinite entry is never found again by rank or by    *)
(* remove_with_score.                                                      *)
Zset == [members |-> members, order |-> Walk(sl)]

FiniteConsistent ==
  /\ ZsetSorted(Zset)
  /\ (\A i \in DOMAIN Zset.order : Zset.order[i].score \notin {Inf, -Inf})
       => ZsetConsistent(Zset)

(* The linked list implements the sequence: module SortedSetSpec under the *)
(* mapping that walks the bottom level.                                    *)
Abstract == INSTANCE SortedSetSpec WITH zs <- Zset

RefinesSequence == Abstract!Spec
=============================================================================
