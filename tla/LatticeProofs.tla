--------------------------- MODULE LatticeProofs ---------------------------
(***************************************************************************)
(* Proofs about the replicated types of Lattices under the harness of      *)
(* LatticeSync, for any number of replicas from two on, any number of      *)
(* operations, elements and syncs, and any loss of messages:               *)
(*                                                                         *)
(*   - an add wins over every remove that has not seen it (AddWins,        *)
(*     OnlySeenAddsGo);                                                    *)
(*   - merge is a join for every type (MergeIsJoin), and a round of        *)
(*     pairwise merges without a loss brings all the replicas to one       *)
(*     answer (RoundConverges);                                            *)
(*   - a vector clock decides what a replica has seen (ClocksDecide).      *)
(*                                                                         *)
(* Each has an invariant of its own next to Typed: Tagged, Sweep, Ticked.  *)
(***************************************************************************)
EXTENDS LatticeSync, FiniteSetTheorems, TLAPS

-----------------------------------------------------------------------------
(* The operators: what they do to the count of a replica and to the tags   *)
(* of an element, the two views in which a merge is pointwise.             *)

IsFunction(f) == f = [x \in DOMAIN f |-> f[x]]

Counts(c) == IsFunction(c) /\ DOMAIN c \subseteq Member /\ \A r \in DOMAIN c : c[r] \in Nat \ {0}

IsORSet(s) == s = [elements |-> s.elements, next |-> s.next] /\ Counts(s.next)

\* The counts of an empty map.
LEMMA NoCountsCount ==
    Counts(NoCounts) /\ \A r : Count(NoCounts, r) = 0
BY DEF Counts, IsFunction, NoCounts, Count

\* A count is a number, zero where there is no entry.
LEMMA CountType ==
    ASSUME NEW c, Counts(c), NEW r
    PROVE  Count(c, r) \in Nat /\ (r \in DOMAIN c <=> Count(c, r) # 0)
BY DEF Counts, Count

\* increment_by adds to the count of one replica.
LEMMA IncrementCount ==
    ASSUME NEW c, Counts(c), NEW r \in Member, NEW n \in Nat \ {0}
    PROVE  /\ Counts(IncrementBy(c, r, n))
           /\ \A x : Count(IncrementBy(c, r, n), x) = Count(c, x) + (IF x = r THEN n ELSE 0)
<1> DEFINE d == IncrementBy(c, r, n)
<1>1. DOMAIN d = DOMAIN c \cup {r} /\ IsFunction(d)
  BY Zenon DEF IncrementBy, IsFunction
<1>2. \A x \in DOMAIN c \cup {r} : d[x] = Count(c, x) + IF x = r THEN n ELSE 0
  BY DEF IncrementBy
<1>3. \A x : Count(c, x) \in Nat /\ (x \in DOMAIN c <=> Count(c, x) # 0)
  BY Zenon, CountType
<1> HIDE DEF d
<1>4. Counts(d)
  BY <1>1, <1>2, <1>3 DEF Counts
<1>5. \A x : Count(d, x) = Count(c, x) + (IF x = r THEN n ELSE 0)
  <2> SUFFICES ASSUME NEW x PROVE Count(d, x) = Count(c, x) + (IF x = r THEN n ELSE 0)
    BY Zenon
  <2>1. CASE x \in DOMAIN c \cup {r}
    BY <1>1, <1>2, <2>1 DEF Count
  <2>2. CASE x \notin DOMAIN c \cup {r}
    BY <1>1, <1>3, <2>2 DEF Count
  <2> QED BY Zenon, <2>1, <2>2
<1> QED BY Zenon, <1>4, <1>5 DEF d

\* merge takes the larger count of each replica.
LEMMA MergeCount ==
    ASSUME NEW c, NEW d, Counts(c), Counts(d)
    PROVE  /\ Counts(MergeCounts(c, d))
           /\ \A x : Count(MergeCounts(c, d), x)
                        = IF Count(d, x) > Count(c, x) THEN Count(d, x) ELSE Count(c, x)
<1> DEFINE m == MergeCounts(c, d)
<1>1. DOMAIN m = DOMAIN c \cup DOMAIN d /\ IsFunction(m)
  BY Zenon DEF MergeCounts, IsFunction
<1>2. \A x \in DOMAIN c \cup DOMAIN d :
          m[x] = IF Count(d, x) > Count(c, x) THEN Count(d, x) ELSE Count(c, x)
  BY DEF MergeCounts
<1>3. /\ \A x : Count(c, x) \in Nat /\ (x \in DOMAIN c <=> Count(c, x) # 0)
      /\ \A x : Count(d, x) \in Nat /\ (x \in DOMAIN d <=> Count(d, x) # 0)
  BY Zenon, CountType
<1> HIDE DEF m
<1>4. Counts(m)
  BY <1>1, <1>2, <1>3 DEF Counts
<1>5. \A x : Count(m, x) = IF Count(d, x) > Count(c, x) THEN Count(d, x) ELSE Count(c, x)
  <2> SUFFICES ASSUME NEW x
               PROVE  Count(m, x) = IF Count(d, x) > Count(c, x) THEN Count(d, x) ELSE Count(c, x)
    BY Zenon
  <2>1. CASE x \in DOMAIN m
    BY <1>1, <1>2, <2>1 DEF Count
  <2>2. CASE x \notin DOMAIN m
    BY <1>1, <1>3, <2>2 DEF Count
  <2> QED BY Zenon, <2>1, <2>2
<1> QED BY Zenon, <1>4, <1>5 DEF m

\* add puts a tag on one element and uses up its number.
LEMMA AddTags ==
    ASSUME NEW s, IsORSet(s), NEW e, NEW r \in Member
    PROVE  /\ IsORSet(AddTag(s, e, r))
           /\ AddTag(s, e, r).next = IncrementBy(s.next, r, 1)
           /\ GetTags(AddTag(s, e, r), e)
                = GetTags(s, e) \cup {[replica |-> r, sequence |-> Count(s.next, r)]}
           /\ \A x : x # e => GetTags(AddTag(s, e, r), x) = GetTags(s, x)
<1> DEFINE tags == GetTags(s, e) \cup {[replica |-> r, sequence |-> Count(s.next, r)]}
           els == [x \in DOMAIN s.elements \cup {e} |-> IF x = e THEN tags ELSE s.elements[x]]
           inc == IncrementBy(s.next, r, 1)
<1>1. s = [elements |-> s.elements, next |-> s.next] /\ Counts(s.next)
  BY Zenon DEF IsORSet
<1>2. AddTag(s, e, r) = [elements |-> els, next |-> inc]
  <2> DEFINE u == [s EXCEPT !.next = IncrementBy(@, r, 1)]
  <2>1. u = [elements |-> s.elements, next |-> inc]
    BY <1>1
  <2>2. u.elements = s.elements
    BY <2>1
  <2>3. AddTag(s, e, r) = WithTags(u, e, tags)
    BY Zenon DEF AddTag
  <2> HIDE DEF u, tags, inc
  <2> QED BY <2>1, <2>2, <2>3 DEF WithTags
<1>3. Counts(inc)
  BY <1>1, IncrementCount
<1>4. DOMAIN els = DOMAIN s.elements \cup {e} /\ els[e] = tags
      /\ \A x \in DOMAIN s.elements : x # e => els[x] = s.elements[x]
  BY Zenon
<1> HIDE DEF els, tags, inc
<1> DEFINE t == [elements |-> els, next |-> inc]
<1>5. t.elements = els /\ t.next = inc
  OBVIOUS
<1> HIDE DEF t
<1>6. GetTags(t, e) = tags /\ \A x : x # e => GetTags(t, x) = GetTags(s, x)
  BY Zenon, <1>4, <1>5 DEF GetTags
<1>7. IsORSet(t)
  BY Zenon, <1>3, <1>5 DEF IsORSet, t
<1> QED BY Zenon, <1>2, <1>5, <1>6, <1>7 DEF t, tags, inc

\* remove takes all the tags of one element.
LEMMA WithoutTags ==
    ASSUME NEW s, IsORSet(s), NEW e
    PROVE  /\ IsORSet(Without(s, e)) /\ Without(s, e).next = s.next
           /\ GetTags(Without(s, e), e) = {}
           /\ \A x : x # e => GetTags(Without(s, e), x) = GetTags(s, x)
<1> DEFINE els == [x \in DOMAIN s.elements \ {e} |-> s.elements[x]]
           t == [elements |-> els, next |-> s.next]
<1>1. s = [elements |-> s.elements, next |-> s.next] /\ Counts(s.next)
  BY Zenon DEF IsORSet
<1>2. Without(s, e) = t
  BY <1>1 DEF Without, Restrict
<1>3. /\ DOMAIN els = DOMAIN s.elements \ {e}
      /\ \A x \in DOMAIN s.elements \ {e} : els[x] = s.elements[x]
  BY Zenon
<1>4. t.elements = els /\ t.next = s.next
  OBVIOUS
<1>5. t = [elements |-> t.elements, next |-> t.next]
  BY Zenon, <1>4
<1> HIDE DEF els, t
<1> QED BY Zenon, <1>1, <1>2, <1>3, <1>4, <1>5 DEF GetTags, IsORSet

\* A remove that arrives takes the tags it observed.
LEMMA ApplyRemoveTags ==
    ASSUME NEW s, IsORSet(s), NEW e, NEW tags
    PROVE  /\ IsORSet(ApplyRemove(s, e, tags)) /\ ApplyRemove(s, e, tags).next = s.next
           /\ GetTags(ApplyRemove(s, e, tags), e) = GetTags(s, e) \ tags
           /\ \A x : x # e => GetTags(ApplyRemove(s, e, tags), x) = GetTags(s, x)
<1>1. CASE e \notin DOMAIN s.elements
  BY Zenon, <1>1 DEF ApplyRemove, GetTags
<1>2. CASE e \in DOMAIN s.elements /\ s.elements[e] \subseteq tags
  <2>1. ApplyRemove(s, e, tags) = Without(s, e)
    BY Zenon, <1>2 DEF ApplyRemove
  <2>2. GetTags(s, e) \ tags = {}
    BY Zenon, <1>2 DEF GetTags
  <2>3. /\ IsORSet(Without(s, e)) /\ Without(s, e).next = s.next
        /\ GetTags(Without(s, e), e) = {}
        /\ \A x : x # e => GetTags(Without(s, e), x) = GetTags(s, x)
    BY WithoutTags
  <2> QED BY Zenon, <2>1, <2>2, <2>3
<1>3. CASE e \in DOMAIN s.elements /\ ~(s.elements[e] \subseteq tags)
  <2> DEFINE els == [x \in DOMAIN s.elements \cup {e} |->
                        IF x = e THEN s.elements[e] \ tags ELSE s.elements[x]]
             t == [elements |-> els, next |-> s.next]
  <2>1. s = [elements |-> s.elements, next |-> s.next] /\ Counts(s.next)
    BY Zenon DEF IsORSet
  <2>2. ApplyRemove(s, e, tags) = t
    BY <1>3, <2>1 DEF ApplyRemove, WithTags
  <2>3. /\ DOMAIN els = DOMAIN s.elements /\ els[e] = s.elements[e] \ tags
        /\ \A x \in DOMAIN s.elements : x # e => els[x] = s.elements[x]
    BY Zenon, <1>3
  <2>4. t.elements = els /\ t.next = s.next
    OBVIOUS
  <2>5. t = [elements |-> t.elements, next |-> t.next]
    BY Zenon, <2>4
  <2> HIDE DEF els, t
  <2> QED BY Zenon, <1>3, <2>1, <2>2, <2>3, <2>4, <2>5 DEF GetTags, IsORSet
<1> QED BY Zenon, <1>1, <1>2, <1>3

\* merge unites the tags of every element.
LEMMA MergeTags ==
    ASSUME NEW s, NEW t, IsORSet(s), IsORSet(t)
    PROVE  /\ IsORSet(MergeORSet(s, t))
           /\ MergeORSet(s, t).next = MergeCounts(s.next, t.next)
           /\ \A x : GetTags(MergeORSet(s, t), x) = GetTags(s, x) \cup GetTags(t, x)
<1> DEFINE all == {e \in DOMAIN s.elements \cup DOMAIN t.elements :
                      GetTags(s, e) \cup GetTags(t, e) # {}}
           els == [e \in all |-> GetTags(s, e) \cup GetTags(t, e)]
           m == [elements |-> els, next |-> MergeCounts(s.next, t.next)]
<1>1. MergeORSet(s, t) = m
  BY Zenon DEF MergeORSet
<1>2. Counts(MergeCounts(s.next, t.next))
  BY Zenon, MergeCount DEF IsORSet
<1>3. DOMAIN els = all /\ \A x \in all : els[x] = GetTags(s, x) \cup GetTags(t, x)
  BY Zenon
<1>4. \A x : x \notin all => GetTags(s, x) \cup GetTags(t, x) = {}
  BY Zenon DEF GetTags
<1>5. m.elements = els /\ m.next = MergeCounts(s.next, t.next)
  OBVIOUS
<1>6. m = [elements |-> m.elements, next |-> m.next]
  BY Zenon, <1>5
<1> HIDE DEF all, els, m
<1>7. \A x : GetTags(m, x) = GetTags(s, x) \cup GetTags(t, x)
  BY Zenon, <1>3, <1>4, <1>5 DEF GetTags
<1> QED BY Zenon, <1>1, <1>2, <1>5, <1>6, <1>7 DEF IsORSet

-----------------------------------------------------------------------------
(* The state. *)

\* The harness has at least two replicas, and is one of the five that there are.
Harness ==
    /\ Replicas \in Nat \ {0, 1}
    /\ Kinds \subseteq {"gcounter", "clock", "pncounter", "gset", "orset"}
    /\ Amounts \subseteq Nat \ {0}

Op == [by : Member, name : {"inc", "dec"}, n : Amounts]
        \cup [by : Member, name : {"add", "rem"}, elem : Elements]

IsPN(s) == s = [positive |-> s.positive, negative |-> s.negative]
              /\ Counts(s.positive) /\ Counts(s.negative)

GoodState(s) ==
    /\ kind \in {"gcounter", "clock"} => Counts(s)
    /\ kind = "pncounter" => IsPN(s)
    /\ kind = "orset" => IsORSet(s)

Position == {p \in (Nat \ {0}) \X Member \X Member : p[2] < p[3]}

Typed ==
    /\ kind \in {"gcounter", "clock", "pncounter", "gset", "orset"}
    /\ DOMAIN reps = Member /\ \A r \in Member : GoodState(reps[r])
    /\ at \in Position \cup {Idle}
    /\ clean \in BOOLEAN /\ whole \in BOOLEAN
    /\ removals # {} => kind = "orset"
    /\ history \in Seq(Op)
    /\ DOMAIN seen = Member /\ \A r \in Member : seen[r] \subseteq DOMAIN history

\* The kinds are told apart.
LEMMA KindsDiffer ==
    /\ kind = "orset" => kind \notin {"gcounter", "clock"} /\ kind # "pncounter" /\ kind # "gset"
    /\ kind = "gset" => kind \notin {"gcounter", "clock"} /\ kind # "pncounter" /\ kind # "orset"
    /\ kind = "pncounter" => kind \notin {"gcounter", "clock"} /\ kind # "gset" /\ kind # "orset"
    /\ kind \in {"gcounter", "clock"} => kind # "pncounter" /\ kind # "gset" /\ kind # "orset"
OBVIOUS

\* A merge is the merge of the type.
LEMMA MergeOfKind ==
    ASSUME NEW s, NEW t
    PROVE  /\ kind \in {"gcounter", "clock"} => MergeStates(s, t) = MergeCounts(s, t)
           /\ kind = "pncounter" => MergeStates(s, t) = MergePN(s, t)
           /\ kind = "gset" => MergeStates(s, t) = s \cup t
           /\ kind = "orset" => MergeStates(s, t) = MergeORSet(s, t)
BY DEF MergeStates

\* Where the loops go after a pair: to the next pair of the round, to the first
\* of the next round, or to the end.
LEMMA FollowingPair ==
    ASSUME Harness, NEW p \in Position
    PROVE  /\ Following(p) \in Position \cup {Idle}
           /\ \/ /\ Following(p)[1] = p[1] /\ p[3] + 1 < Replicas
                 /\ Following(p)[2] = p[2] /\ Following(p)[3] = p[3] + 1
                 /\ Following(p) \in Position
              \/ /\ Following(p)[1] = p[1] /\ p[3] + 1 = Replicas /\ p[2] + 2 < Replicas
                 /\ Following(p)[2] = p[2] + 1 /\ Following(p)[3] = p[2] + 2
                 /\ Following(p) \in Position
              \/ /\ Following(p)[1] # p[1] /\ p[3] + 1 = Replicas /\ p[2] + 2 = Replicas
                 /\ \/ Following(p) = Idle
                    \/ Following(p)[2] = 0 /\ Following(p)[3] = 1 /\ Following(p) \in Position
<1>1. /\ Replicas \in Nat \ {0, 1} /\ Member = 0 .. (Replicas - 1)
      /\ p[1] \in Nat \ {0} /\ p[2] \in Member /\ p[3] \in Member /\ p[2] < p[3]
  BY DEF Harness, Member, Position
<1>2. CASE p[3] + 1 < Replicas
  <2>1. Following(p) = <<p[1], p[2], p[3] + 1>>
    BY Zenon, <1>2 DEF Following
  <2>2. <<p[1], p[2], p[3] + 1>> \in Position
    BY <1>1, <1>2 DEF Position
  <2> QED BY <1>2, <2>1, <2>2
<1>3. CASE ~(p[3] + 1 < Replicas) /\ p[2] + 2 < Replicas
  <2>1. Following(p) = <<p[1], p[2] + 1, p[2] + 2>>
    BY Zenon, <1>3 DEF Following
  <2>2. <<p[1], p[2] + 1, p[2] + 2>> \in Position
    BY <1>1, <1>3 DEF Position
  <2> QED BY <1>1, <1>3, <2>1, <2>2
<1>4. CASE ~(p[3] + 1 < Replicas) /\ ~(p[2] + 2 < Replicas)
  <2>1. Following(p) = <<p[1] + 1, 0, 1>> \/ Following(p) = Idle
    BY Zenon, <1>4 DEF Following
  <2>2. <<p[1] + 1, 0, 1>> \in Position /\ Idle[1] # p[1] /\ p[1] + 1 # p[1]
    BY <1>1 DEF Position, Idle
  <2>3. p[3] + 1 = Replicas /\ p[2] + 2 = Replicas
    BY <1>1, <1>4
  <2>4. CASE Following(p) = <<p[1] + 1, 0, 1>>
    BY <2>2, <2>3, <2>4
  <2>5. CASE Following(p) = Idle
    <3>1. Following(p)[1] # p[1]
      BY Zenon, <2>2, <2>5
    <3> QED BY Zenon, <2>3, <2>5, <3>1
  <2> QED BY Zenon, <2>1, <2>4, <2>5
<1> QED BY Zenon, <1>2, <1>3, <1>4

-----------------------------------------------------------------------------
(* Types. *)

\* An operation appends to the history and leaves the position at rest.
LEMMA OperateTyped ==
    ASSUME Typed, NEW r \in Member, NEW state, NEW op \in Op, GoodState(state),
           Operate(r, state, op), removals' # {} => kind = "orset"
    PROVE  Typed'
<1>1. /\ at = Idle /\ reps' = [reps EXCEPT ![r] = state] /\ history' = Append(history, op)
      /\ seen' = [seen EXCEPT ![r] = @ \cup {Len(history) + 1}] /\ clean' = FALSE
      /\ kind' = kind /\ at' = at /\ whole' = whole
  BY Zenon DEF Operate
<1>2. history \in Seq(Op) /\ DOMAIN seen = Member /\ DOMAIN reps = Member
  BY Zenon DEF Typed
<1>3. /\ history' \in Seq(Op) /\ DOMAIN history = 1 .. Len(history) /\ Len(history) \in Nat
      /\ DOMAIN history' = 1 .. Len(history) + 1
  BY <1>1, <1>2
<1>4. DOMAIN history' = DOMAIN history \cup {Len(history) + 1}
  BY <1>3
<1>5. /\ DOMAIN seen' = Member /\ seen'[r] = seen[r] \cup {Len(history) + 1}
      /\ \A q \in Member \ {r} : seen'[q] = seen[q]
  BY Zenon, <1>1, <1>2
<1>6. \A q \in Member : seen'[q] \subseteq DOMAIN history'
  BY Zenon, <1>4, <1>5 DEF Typed
<1>7. /\ DOMAIN reps' = Member /\ reps'[r] = state /\ \A q \in Member \ {r} : reps'[q] = reps[q]
  BY Zenon, <1>1, <1>2
<1>8. \A q \in Member : GoodState(reps'[q])
  BY Zenon, <1>7 DEF Typed
<1>9. \A q \in Member : GoodState(reps[q])'
  BY Zenon, <1>1, <1>8 DEF GoodState
<1> QED BY Zenon, <1>1, <1>3, <1>5, <1>6, <1>7, <1>9 DEF Typed

\* The four operations give a replica a state of its type.
LEMMA OperationsTyped ==
    ASSUME Typed, Harness,
           \/ \E r \in Member, n \in Amounts : Increment(r, n) \/ Decrement(r, n)
           \/ \E r \in Member, e \in Elements : Add(r, e) \/ Remove(r, e)
    PROVE  Typed' /\ at = Idle /\ at' = Idle /\ clean' = FALSE /\ kind' = kind
<1>1. ASSUME NEW r \in Member, NEW n \in Amounts, Increment(r, n) \/ Decrement(r, n)
      PROVE  Typed' /\ at = Idle /\ at' = Idle /\ clean' = FALSE /\ kind' = kind
  <2> DEFINE inc == [by |-> r, name |-> "inc", n |-> n]
             dec == [by |-> r, name |-> "dec", n |-> n]
  <2>1. inc \in Op /\ dec \in Op /\ n \in Nat \ {0}
    BY Zenon DEF Op, Harness
  <2> HIDE DEF inc, dec
  <2>2. GoodState(reps[r])
    BY Zenon DEF Typed
  <2>3. removals' # {} => kind = "orset"
    BY Zenon, <1>1 DEF Increment, Decrement, Typed
  <2>4. CASE kind \in {"gcounter", "clock"} /\ Operate(r, IncrementBy(reps[r], r, n), inc)
    <3>1. Counts(IncrementBy(reps[r], r, n))
      BY Zenon, <2>1, <2>2, <2>4, IncrementCount DEF GoodState
    <3>2. GoodState(IncrementBy(reps[r], r, n))
      BY Zenon, <2>4, <3>1, KindsDiffer DEF GoodState
    <3> QED BY Zenon, <2>1, <2>4, <2>3, <3>2, OperateTyped DEF Operate
  <2>5. CASE kind = "pncounter"
    <3> DEFINE up == [reps[r] EXCEPT !.positive = IncrementBy(@, r, n)]
               down == [reps[r] EXCEPT !.negative = IncrementBy(@, r, n)]
    <3>1. IsPN(reps[r])
      BY Zenon, <2>2, <2>5 DEF GoodState
    <3>2. /\ Counts(IncrementBy(reps[r].positive, r, n))
          /\ Counts(IncrementBy(reps[r].negative, r, n))
      BY Zenon, <2>1, <3>1, IncrementCount DEF IsPN
    <3>3. IsPN(up) /\ IsPN(down)
      BY <3>1, <3>2 DEF IsPN
    <3>4. Operate(r, up, inc) \/ Operate(r, down, dec)
      BY Zenon, <1>1, <2>5, KindsDiffer DEF Increment, Decrement, inc, dec
    <3> HIDE DEF up, down
    <3>5. GoodState(up) /\ GoodState(down)
      BY Zenon, <2>5, <3>3, KindsDiffer DEF GoodState
    <3> QED BY Zenon, <2>1, <2>3, <3>4, <3>5, OperateTyped DEF Operate
  <2> QED BY Zenon, <1>1, <2>4, <2>5 DEF Increment, Decrement, inc
<1>2. ASSUME NEW r \in Member, NEW e \in Elements, Add(r, e) \/ Remove(r, e)
      PROVE  Typed' /\ at = Idle /\ at' = Idle /\ clean' = FALSE /\ kind' = kind
  <2> DEFINE add == [by |-> r, name |-> "add", elem |-> e]
             rem == [by |-> r, name |-> "rem", elem |-> e]
  <2>1. add \in Op /\ rem \in Op
    BY DEF Op
  <2> HIDE DEF add, rem
  <2>2. removals' # {} => kind = "orset"
    BY Zenon, <1>2 DEF Add, Remove, Typed
  <2>3. CASE kind = "gset" /\ Operate(r, reps[r] \cup {e}, add)
    <3>1. GoodState(reps[r] \cup {e})
      BY Zenon, <2>3, KindsDiffer DEF GoodState
    <3> QED BY Zenon, <2>1, <2>3, <2>2, <3>1, OperateTyped DEF Operate
  <2>4. CASE kind = "orset"
    <3>1. IsORSet(reps[r])
      BY Zenon, <2>4 DEF Typed, GoodState
    <3>2. IsORSet(AddTag(reps[r], e, r)) /\ IsORSet(Without(reps[r], e))
      BY <3>1, AddTags, WithoutTags
    <3>3. GoodState(AddTag(reps[r], e, r)) /\ GoodState(Without(reps[r], e))
      BY Zenon, <2>4, <3>2, KindsDiffer DEF GoodState
    <3>4. Operate(r, AddTag(reps[r], e, r), add) \/ Operate(r, Without(reps[r], e), rem)
      BY Zenon, <1>2, <2>4, KindsDiffer DEF Add, Remove, add, rem
    <3> QED BY Zenon, <2>1, <2>2, <3>3, <3>4, OperateTyped DEF Operate
  <2> QED BY Zenon, <1>2, <2>3, <2>4 DEF Add, Remove, add
<1> QED BY Zenon, <1>1, <1>2

\* The merge of two states of a type is of that type.
LEMMA MergeTyped ==
    ASSUME NEW s, NEW t, GoodState(s), GoodState(t)
    PROVE  GoodState(MergeStates(s, t))
<1>1. CASE kind \in {"gcounter", "clock"}
  <2>1. Counts(MergeCounts(s, t))
    BY Zenon, <1>1, MergeCount DEF GoodState
  <2> QED BY Zenon, <1>1, <2>1, MergeOfKind, KindsDiffer DEF GoodState
<1>2. CASE kind = "pncounter"
  <2>1. IsPN(s) /\ IsPN(t)
    BY Zenon, <1>2 DEF GoodState
  <2>2. /\ Counts(MergeCounts(s.positive, t.positive))
        /\ Counts(MergeCounts(s.negative, t.negative))
    BY Zenon, <2>1, MergeCount DEF IsPN
  <2>3. IsPN(MergePN(s, t))
    BY <2>2 DEF IsPN, MergePN
  <2> QED BY Zenon, <1>2, <2>3, MergeOfKind, KindsDiffer DEF GoodState
<1>3. CASE kind = "orset"
  <2>1. IsORSet(MergeORSet(s, t))
    BY <1>3, MergeTags DEF GoodState
  <2> QED BY Zenon, <1>3, <2>1, MergeOfKind, KindsDiffer DEF GoodState
<1> QED BY Zenon, <1>1, <1>2, <1>3 DEF GoodState

\* What a merge of the pair at hand does to the replicas.
Merged ==
    LET i == at[2]
        j == at[3]
        m == MergeStates(reps[i], reps[j])
        both == seen[i] \cup seen[j]
    IN  /\ i \in Member /\ j \in Member
        /\ DOMAIN reps' = Member /\ reps'[i] = m /\ reps'[j] = m
        /\ \A q \in Member \ {i, j} : reps'[q] = reps[q]
        /\ DOMAIN seen' = Member /\ seen'[i] = both /\ seen'[j] = both
        /\ \A q \in Member \ {i, j} : seen'[q] = seen[q]
        /\ UNCHANGED <<kind, removals, history>>

\* A merge is at a pair of replicas.
LEMMA MergePairMerges ==
    ASSUME Typed, MergePair
    PROVE  Merged /\ at \in Position
<1>1. at \in Position
  BY Zenon DEF Typed, MergePair
<1>2. at[2] \in Member /\ at[3] \in Member
  BY <1>1 DEF Position
<1> DEFINE i == at[2]
           j == at[3]
           m == MergeStates(reps[i], reps[j])
           both == seen[i] \cup seen[j]
<1>3. /\ reps' = [reps EXCEPT ![i] = m, ![j] = m] /\ seen' = [seen EXCEPT ![i] = both, ![j] = both]
      /\ DOMAIN reps = Member /\ DOMAIN seen = Member /\ UNCHANGED <<kind, removals, history>>
  BY Zenon DEF MergePair, Typed
<1> HIDE DEF m, both
<1>4. /\ DOMAIN reps' = Member /\ reps'[i] = m /\ reps'[j] = m
      /\ \A q \in Member \ {i, j} : reps'[q] = reps[q]
  BY <1>2, <1>3
<1>5. /\ DOMAIN seen' = Member /\ seen'[i] = both /\ seen'[j] = both
      /\ \A q \in Member \ {i, j} : seen'[q] = seen[q]
  BY <1>2, <1>3
<1> QED BY Zenon, <1>1, <1>2, <1>3, <1>4, <1>5 DEF Merged, m, both

\* Every other step leaves the replicas states of their type, and the position
\* where the loops put it.
LEMMA OthersTyped ==
    ASSUME Typed, Harness,
           \/ \E r \in Member, removal \in removals : DeliverRemove(r, removal)
           \/ StartSync \/ MergePair \/ DropMessage \/ UNCHANGED vars
    PROVE  Typed' /\ kind' = kind
<1>1. ASSUME NEW r \in Member, NEW removal \in removals, DeliverRemove(r, removal)
      PROVE  Typed' /\ kind' = kind
  <2> DEFINE s == ApplyRemove(reps[r], removal.elem, removal.tags)
  <2>1. kind = "orset" /\ DOMAIN reps = Member /\ IsORSet(reps[r])
    BY Zenon DEF Typed, GoodState
  <2>2. IsORSet(s)
    BY <2>1, ApplyRemoveTags
  <2>3. reps' = [reps EXCEPT ![r] = s] /\ clean' = FALSE
        /\ UNCHANGED <<kind, at, whole, removals, history, seen>>
    BY Zenon, <1>1 DEF DeliverRemove
  <2> HIDE DEF s
  <2>4. DOMAIN reps' = Member /\ reps'[r] = s /\ \A q \in Member \ {r} : reps'[q] = reps[q]
    BY Zenon, <2>1, <2>3
  <2>5. \A q \in Member : IsORSet(reps'[q])
    BY Zenon, <2>1, <2>2, <2>4 DEF Typed, GoodState
  <2>6. \A q \in Member : GoodState(reps[q])'
    BY Zenon, <2>1, <2>3, <2>5, KindsDiffer DEF GoodState
  <2> QED BY Zenon, <2>3, <2>4, <2>6 DEF Typed
<1>2. CASE StartSync
  <2>1. <<1, 0, 1>> \in Position
    BY DEF Position, Harness, Member
  <2>2. /\ at' = <<1, 0, 1>> /\ clean' = FALSE /\ whole' = TRUE
        /\ UNCHANGED <<kind, reps, removals, history, seen>>
    BY Zenon, <1>2 DEF StartSync
  <2> QED BY Zenon, <2>1, <2>2 DEF Typed, GoodState
<1>3. ASSUME at # Idle, NEW arrived \in BOOLEAN, Advance(arrived)
      PROVE  at' \in Position \cup {Idle} /\ clean' \in BOOLEAN /\ whole' \in BOOLEAN
  <2>1. at \in Position
    BY Zenon, <1>3 DEF Typed
  <2>2. Following(at) \in Position \cup {Idle}
    BY Zenon, <2>1, FollowingPair
  <2> QED BY Zenon, <1>3, <2>2 DEF Advance
<1>4. CASE DropMessage
  <2>1. at # Idle /\ Advance(FALSE) /\ UNCHANGED <<kind, reps, removals, history, seen>>
    BY Zenon, <1>4 DEF DropMessage
  <2>2. at' \in Position \cup {Idle} /\ clean' \in BOOLEAN /\ whole' \in BOOLEAN
    BY Zenon, <1>3, <2>1
  <2> QED BY Zenon, <2>1, <2>2 DEF Typed, GoodState
<1>5. CASE MergePair
  <2>1. Merged
    BY Zenon, <1>5, MergePairMerges
  <2>2. at' \in Position \cup {Idle} /\ clean' \in BOOLEAN /\ whole' \in BOOLEAN
    BY Zenon, <1>3, <1>5 DEF MergePair
  <2>3. \A q \in Member : GoodState(reps'[q])
    <3>1. GoodState(reps[at[2]]) /\ GoodState(reps[at[3]])
      BY Zenon, <2>1 DEF Merged, Typed
    <3>2. GoodState(MergeStates(reps[at[2]], reps[at[3]]))
      BY Zenon, <3>1, MergeTyped
    <3> QED BY Zenon, <2>1, <3>2 DEF Merged, Typed
  <2>4. \A q \in Member : GoodState(reps[q])'
    BY Zenon, <2>1, <2>3 DEF Merged, GoodState
  <2>5. \A q \in Member : seen'[q] \subseteq DOMAIN history
    BY Zenon, <2>1 DEF Merged, Typed
  <2> QED BY Zenon, <2>1, <2>2, <2>4, <2>5 DEF Merged, Typed
<1>6. CASE UNCHANGED vars
  BY Zenon, <1>6 DEF vars, Typed, GoodState
<1> QED BY Zenon, <1>1, <1>2, <1>4, <1>5, <1>6

\* Types hold initially, and after every step.
LEMMA TypedInit ==
    ASSUME Harness, Init
    PROVE  Typed
<1>1. /\ kind \in Kinds /\ reps = [r \in Member |-> NewState(kind)] /\ at = Idle
      /\ clean = FALSE /\ whole = TRUE /\ removals = {} /\ history = <<>>
      /\ seen = [r \in Member |-> {}]
  BY Zenon DEF Init
<1>2. kind \in {"gcounter", "clock", "pncounter", "gset", "orset"}
  BY Zenon, <1>1 DEF Harness
<1>3. GoodState(NewState(kind))
  <2>1. IsPN(NewPN)
    BY NoCountsCount DEF IsPN, NewPN
  <2>2. IsORSet(NewORSet)
    BY NoCountsCount DEF IsORSet, NewORSet
  <2>3. kind \in {"gcounter", "clock"} => NewState(kind) = NoCounts
    BY DEF NewState
  <2>4. kind = "pncounter" => NewState(kind) = NewPN
    BY DEF NewState
  <2>5. kind = "orset" => NewState(kind) = NewORSet
    BY DEF NewState
  <2> QED BY Zenon, <2>1, <2>2, <2>3, <2>4, <2>5, NoCountsCount DEF GoodState
<1>4. history \in Seq(Op)
  BY <1>1
<1> QED BY Zenon, <1>1, <1>2, <1>3, <1>4 DEF Typed

\* Every step keeps the types, and the kind of the harness.
LEMMA TypedStep ==
    ASSUME Typed, Harness, [Next]_vars
    PROVE  Typed' /\ kind' = kind
BY Zenon, OperationsTyped, OthersTyped DEF Next

-----------------------------------------------------------------------------
(* The tags of an ORSet. A replica numbers its own additions; merges never *)
(* carry its number past what it has itself, so no tag is given twice.     *)

Adds(r, n) == {j \in 1 .. n : history[j].name = "add" /\ history[j].by = r}

\* The next number of a replica counts its additions; the others know no more.
Issued ==
    \A r, q \in Member :
        /\ Count(reps[r].next, r) = Cardinality(Adds(r, Len(history)))
        /\ Count(reps[q].next, r) <= Cardinality(Adds(r, Len(history)))

IsAddition(i, e, t) == history[i].name = "add" /\ history[i].elem = e /\ TagOf(i) = t

\* An addition is kept unless it was observed.
Kept ==
    \A r \in Member : \A i \in seen[r] :
        history[i].name = "add" /\ ~Observed(i) => TagOf(i) \in GetTags(reps[r], history[i].elem)

\* A tag comes from an addition that was seen.
Made ==
    \A r \in Member : \A e : \A t \in GetTags(reps[r], e) : \E i \in seen[r] : IsAddition(i, e, t)

\* A remove observes the tags of additions it had seen.
Saw ==
    \A m \in removals :
        /\ m.saw \subseteq DOMAIN history
        /\ \A t \in m.tags : \E i \in m.saw : IsAddition(i, m.elem, t)

Tagged == kind = "orset" => Issued /\ Kept /\ Made /\ Saw

\* Additions are counted.
LEMMA AddsCounted ==
    ASSUME NEW r, NEW n \in Nat
    PROVE  IsFiniteSet(Adds(r, n)) /\ Cardinality(Adds(r, n)) \in Nat
<1>1. IsFiniteSet(1 .. n)
  BY FS_Interval
<1>2. Adds(r, n) \in SUBSET (1 .. n)
  BY Zenon DEF Adds
<1>3. IsFiniteSet(Adds(r, n))
  BY Zenon, <1>1, <1>2, FS_Subset
<1> QED BY Zenon, <1>3, FS_CardinalityType

\* The tag of an addition.
LEMMA TagIs ==
    ASSUME NEW i
    PROVE  TagOf(i) = [replica |-> history[i].by,
                       sequence |-> Cardinality(Adds(history[i].by, i - 1))]
BY Zenon DEF TagOf, Adds

\* Two additions have two tags.
LEMMA TagsUnique ==
    ASSUME Typed, NEW i \in DOMAIN history, NEW k \in DOMAIN history,
           history[i].name = "add", history[k].name = "add", TagOf(i) = TagOf(k)
    PROVE  i = k
<1>1. ASSUME NEW a \in DOMAIN history, NEW b \in DOMAIN history, a < b,
             history[a].name = "add", history[a].by = history[b].by
      PROVE  Cardinality(Adds(history[a].by, a - 1)) < Cardinality(Adds(history[b].by, b - 1))
  <2> DEFINE r == history[a].by
  <2>1. a \in Nat \ {0} /\ b \in Nat \ {0} /\ a - 1 \in Nat /\ b - 1 \in Nat
    BY DEF Typed
  <2>2. Adds(r, a - 1) \cup {a} \subseteq Adds(r, b - 1) /\ a \notin Adds(r, a - 1)
    BY <1>1, <2>1 DEF Adds
  <2> HIDE DEF r
  <2>3. /\ IsFiniteSet(Adds(r, a - 1)) /\ Cardinality(Adds(r, a - 1)) \in Nat
        /\ IsFiniteSet(Adds(r, b - 1)) /\ Cardinality(Adds(r, b - 1)) \in Nat
    BY Zenon, <2>1, AddsCounted
  <2>4. Cardinality(Adds(r, a - 1) \cup {a}) = Cardinality(Adds(r, a - 1)) + 1
    BY Zenon, <2>2, <2>3, FS_AddElement
  <2>5. Adds(r, a - 1) \cup {a} \in SUBSET Adds(r, b - 1)
    BY Zenon, <2>2
  <2>6. Cardinality(Adds(r, a - 1) \cup {a}) <= Cardinality(Adds(r, b - 1))
    BY Zenon, <2>3, <2>5, FS_Subset
  <2>7. Cardinality(Adds(r, a - 1)) < Cardinality(Adds(r, b - 1))
    BY <2>3, <2>4, <2>6
  <2> QED BY Zenon, <1>1, <2>7 DEF r
<1>2. /\ history[i].by = history[k].by
      /\ Cardinality(Adds(history[i].by, i - 1)) = Cardinality(Adds(history[k].by, k - 1))
  BY TagIs
<1>3. i \in Nat /\ k \in Nat /\ i - 1 \in Nat
  BY DEF Typed
<1>4. Cardinality(Adds(history[i].by, i - 1)) \in Nat
  BY Zenon, <1>3, AddsCounted
<1>5. ~(i < k)
  BY <1>1, <1>2, <1>4
<1>6. ~(k < i)
  BY <1>1, <1>2, <1>4
<1> QED BY <1>3, <1>5, <1>6

\* The tags given so far do not change, and the next is that of the operation
\* if it is an addition.
LEMMA HistoryGrows ==
    ASSUME Typed, NEW op \in Op, history' = Append(history, op)
    PROVE  /\ Len(history) + 1 \in DOMAIN history' /\ history'[Len(history) + 1] = op
           /\ \A i \in DOMAIN history :
                i \in DOMAIN history' /\ history'[i] = history[i] /\ TagOf(i)' = TagOf(i)
           /\ \A i : i = Len(history) + 1 =>
                TagOf(i)' = [replica |-> op.by,
                             sequence |-> Cardinality(Adds(op.by, Len(history)))]
           /\ \A r \in Member :
                Cardinality(Adds(r, Len(history)))' = Cardinality(Adds(r, Len(history)))
                    + IF op.name = "add" /\ op.by = r THEN 1 ELSE 0
<1>1. /\ history \in Seq(Op) /\ Len(history) \in Nat /\ DOMAIN history = 1 .. Len(history)
      /\ Len(history') = Len(history) + 1 /\ DOMAIN history' = 1 .. Len(history) + 1
      /\ \A i \in 1 .. Len(history) : history'[i] = history[i]
      /\ history'[Len(history) + 1] = op
  BY DEF Typed
<1> DEFINE After(r, n) == {j \in 1 .. n : history'[j].name = "add" /\ history'[j].by = r}
<1>2. ASSUME NEW r, NEW n \in 0 .. Len(history)
      PROVE  After(r, n) = Adds(r, n)
  BY <1>1 DEF Adds
<1>3. \A i : TagOf(i)' = [replica |-> history'[i].by,
                          sequence |-> Cardinality(After(history'[i].by, i - 1))]
  BY Zenon DEF TagOf
<1>4. ASSUME NEW i \in DOMAIN history
      PROVE  TagOf(i)' = TagOf(i)
  <2>1. i - 1 \in 0 .. Len(history) /\ history'[i] = history[i]
    BY <1>1
  <2>2. After(history[i].by, i - 1) = Adds(history[i].by, i - 1)
    BY Zenon, <1>2, <2>1
  <2> HIDE DEF After
  <2> QED BY Zenon, <1>3, <2>1, <2>2, TagIs
<1>5. ASSUME NEW i, i = Len(history) + 1
      PROVE  TagOf(i)' = [replica |-> op.by, sequence |-> Cardinality(Adds(op.by, Len(history)))]
  <2>1. i - 1 = Len(history) /\ Len(history) \in 0 .. Len(history) /\ history'[i] = op
    BY <1>1, <1>5
  <2>2. After(op.by, Len(history)) = Adds(op.by, Len(history))
    BY Zenon, <1>2, <2>1
  <2> HIDE DEF After
  <2> QED BY Zenon, <1>3, <2>1, <2>2
<1>6. ASSUME NEW r \in Member
      PROVE  Cardinality(Adds(r, Len(history)))' = Cardinality(Adds(r, Len(history)))
                + IF op.name = "add" /\ op.by = r THEN 1 ELSE 0
  <2>1. Adds(r, Len(history))' = After(r, Len(history) + 1)
    BY Zenon, <1>1 DEF Adds
  <2>2. /\ After(r, Len(history)) = Adds(r, Len(history))
        /\ Len(history) + 1 \notin Adds(r, Len(history))
    BY <1>1, <1>2 DEF Adds
  <2>3. IsFiniteSet(Adds(r, Len(history))) /\ Cardinality(Adds(r, Len(history))) \in Nat
    BY Zenon, <1>1, AddsCounted
  <2>4. CASE op.name = "add" /\ op.by = r
    <3>1. After(r, Len(history) + 1) = After(r, Len(history)) \cup {Len(history) + 1}
      BY <1>1, <2>4
    <3>2. Cardinality(Adds(r, Len(history)) \cup {Len(history) + 1})
              = Cardinality(Adds(r, Len(history))) + 1
      BY Zenon, <2>2, <2>3, FS_AddElement
    <3> HIDE DEF After
    <3> QED BY Zenon, <2>1, <2>2, <2>4, <3>1, <3>2
  <2>5. CASE ~(op.name = "add" /\ op.by = r)
    <3>1. After(r, Len(history) + 1) = After(r, Len(history))
      BY <1>1, <2>5
    <3> HIDE DEF After
    <3> QED BY <2>1, <2>2, <2>3, <2>5, <3>1
  <2> QED BY Zenon, <2>4, <2>5
<1>7. \A i \in DOMAIN history : i \in DOMAIN history' /\ Len(history) + 1 \in DOMAIN history'
  BY <1>1
<1>8. Len(history) + 1 \in DOMAIN history'
  BY <1>1
<1> HIDE DEF After
<1> QED BY Zenon, <1>1, <1>4, <1>5, <1>6, <1>7, <1>8

\* What an operation at replica r does: its history grows, and r has seen it.
Operated(r, op) ==
    /\ op \in Op /\ op.by = r /\ history' = Append(history, op)
    /\ seen' = [seen EXCEPT ![r] = @ \cup {Len(history) + 1}]
    /\ UNCHANGED kind

\* An addition and a remove, as operations on tags.
LEMMA SetOperations ==
    ASSUME NEW r \in Member, NEW e \in Elements, kind = "orset"
    PROVE  /\ Add(r, e) => \E op \in Op :
                /\ Operated(r, op) /\ op.name = "add" /\ op.elem = e /\ removals' = removals
                /\ reps' = [reps EXCEPT ![r] = AddTag(reps[r], e, r)]
           /\ Remove(r, e) => \E op \in Op :
                /\ Operated(r, op) /\ op.name = "rem" /\ op.elem = e
                /\ reps' = [reps EXCEPT ![r] = Without(reps[r], e)]
                /\ removals' = removals \cup
                      {[elem |-> e, tags |-> GetTags(reps[r], e), saw |-> seen[r]]}
<1> DEFINE add == [by |-> r, name |-> "add", elem |-> e]
           rem == [by |-> r, name |-> "rem", elem |-> e]
<1>1. /\ add \in Op /\ add.by = r /\ add.name = "add" /\ add.elem = e
      /\ rem \in Op /\ rem.by = r /\ rem.name = "rem" /\ rem.elem = e
  BY DEF Op
<1>2. ASSUME Add(r, e)
      PROVE  Operate(r, AddTag(reps[r], e, r), add) /\ removals' = removals
  BY Zenon, <1>2, KindsDiffer DEF Add
<1>3. ASSUME Remove(r, e)
      PROVE  /\ Operate(r, Without(reps[r], e), rem)
             /\ removals' = removals \cup
                   {[elem |-> e, tags |-> GetTags(reps[r], e), saw |-> seen[r]]}
  BY Zenon, <1>3 DEF Remove
<1> HIDE DEF add, rem
<1> QED BY Zenon, <1>1, <1>2, <1>3 DEF Operate, Operated

\* What an operation leaves in place.
LEMMA OperatedSeen ==
    ASSUME Typed, NEW r \in Member, NEW op, Operated(r, op)
    PROVE  /\ seen'[r] = seen[r] \cup {Len(history) + 1}
           /\ \A q \in Member \ {r} : seen'[q] = seen[q]
           /\ \A q \in Member : seen[q] \subseteq DOMAIN history
           /\ \A q \in Member : \A i \in seen'[q] :
                i \in seen[q] \/ (q = r /\ i = Len(history) + 1)
BY Zenon DEF Typed, Operated

\* An addition gives a new tag.
LEMMA AddTagged ==
    ASSUME Typed, Tagged, kind = "orset", NEW r \in Member, NEW e \in Elements, Add(r, e)
    PROVE  Tagged'
<1>1. PICK op \in Op :
          /\ Operated(r, op) /\ op.name = "add" /\ op.elem = e /\ removals' = removals
          /\ reps' = [reps EXCEPT ![r] = AddTag(reps[r], e, r)]
  BY Zenon, SetOperations
<1>2. Issued /\ Kept /\ Made /\ Saw /\ DOMAIN reps = Member /\ \A q \in Member : IsORSet(reps[q])
  BY Zenon DEF Tagged, Typed, GoodState
<1> DEFINE s == AddTag(reps[r], e, r)
           new == [replica |-> r, sequence |-> Count(reps[r].next, r)]
           n == Len(history) + 1
<1>3. /\ s.next = IncrementBy(reps[r].next, r, 1) /\ GetTags(s, e) = GetTags(reps[r], e) \cup {new}
      /\ \A x : x # e => GetTags(s, x) = GetTags(reps[r], x)
  BY <1>2, AddTags
<1>4. /\ history' = Append(history, op) /\ op.by = r /\ op \in Op
  BY Zenon, <1>1 DEF Operated
<1>5. /\ n \in DOMAIN history' /\ history'[n] = op
      /\ \A i \in DOMAIN history :
            i \in DOMAIN history' /\ history'[i] = history[i] /\ TagOf(i)' = TagOf(i)
      /\ \A i : i = n => TagOf(i)' = [replica  |-> r,
                                      sequence |-> Cardinality(Adds(r, Len(history)))]
      /\ \A q \in Member :
            Cardinality(Adds(q, Len(history)))' = Cardinality(Adds(q, Len(history)))
                + IF op.name = "add" /\ op.by = q THEN 1 ELSE 0
  BY <1>4, HistoryGrows
<1>6. /\ seen'[r] = seen[r] \cup {n} /\ \A q \in Member \ {r} : seen'[q] = seen[q]
      /\ \A q \in Member : seen[q] \subseteq DOMAIN history
      /\ \A q \in Member : \A i \in seen'[q] : i \in seen[q] \/ (q = r /\ i = n)
  BY Zenon, <1>1, OperatedSeen
<1>7. reps'[r] = s /\ \A q \in Member \ {r} : reps'[q] = reps[q]
  BY Zenon, <1>1, <1>2
<1>8. \A i : i = n => TagOf(i)' = new
  BY Zenon, <1>2, <1>5 DEF Issued
<1> HIDE DEF s, new, n
<1>9. Issued'
  <2>1. \A x : Count(s.next, x) = Count(reps[r].next, x) + (IF x = r THEN 1 ELSE 0)
    BY <1>2, <1>3, IncrementCount DEF IsORSet
  <2>2. \A q, x \in Member : Count(reps[q].next, x) \in Nat
    BY Zenon, <1>2, CountType DEF IsORSet
  <2>3. \A q \in Member : Cardinality(Adds(q, Len(history))) \in Nat
    BY AddsCounted DEF Typed
  <2> DEFINE Now(q) == Cardinality(Adds(q, Len(history)))
             Then(q) == Cardinality(Adds(q, Len(history)))'
  <2>4. \A q \in Member : Then(q) = Now(q) + IF q = r THEN 1 ELSE 0
    BY <1>1, <1>4, <1>5
  <2>5. \A q, x \in Member : Count(reps[x].next, x) = Now(x) /\ Count(reps[q].next, x) <= Now(x)
    BY Zenon, <1>2 DEF Issued
  <2>6. \A q, x \in Member :
            Count(reps'[q].next, x) = Count(reps[q].next, x) + IF q = r /\ x = r THEN 1 ELSE 0
    BY <1>7, <2>1, <2>2
  <2>7. \A q \in Member : Now(q) \in Nat
    BY Zenon, <2>3
  <2> HIDE DEF Now, Then
  <2>8. \A q, x \in Member : Count(reps'[x].next, x) = Then(x) /\ Count(reps'[q].next, x) <= Then(x)
    BY <2>2, <2>4, <2>5, <2>6, <2>7
  <2> QED BY Zenon, <2>8 DEF Issued, Then
<1>10. \A i \in DOMAIN history : Observed(i)' = Observed(i)
  BY Zenon, <1>1, <1>5 DEF Observed
<1>11. \A q \in Member : \A x : GetTags(reps[q], x) \subseteq GetTags(reps'[q], x)
  BY Zenon, <1>3, <1>7
<1>12. Kept'
  <2> SUFFICES ASSUME NEW q \in Member, NEW i \in seen'[q], history'[i].name = "add", ~Observed(i)'
               PROVE  TagOf(i)' \in GetTags(reps'[q], history'[i].elem)
    BY Zenon DEF Kept
  <2>1. CASE i \in seen[q]
    <3>1. i \in DOMAIN history /\ history'[i] = history[i] /\ TagOf(i)' = TagOf(i)
      BY Zenon, <1>5, <1>6, <2>1
    <3>2. ~Observed(i) /\ history[i].name = "add"
      BY Zenon, <1>10, <3>1
    <3>3. TagOf(i) \in GetTags(reps[q], history[i].elem)
      BY Zenon, <1>2, <2>1, <3>2 DEF Kept
    <3> QED BY Zenon, <1>11, <3>1, <3>3
  <2>2. CASE q = r /\ i = n
    BY Zenon, <1>1, <1>3, <1>5, <1>7, <1>8, <2>2
  <2> QED BY Zenon, <1>6, <2>1, <2>2
<1>13. \A i \in DOMAIN history : \A x, t : IsAddition(i, x, t) => IsAddition(i, x, t)'
  BY Zenon, <1>5 DEF IsAddition
<1>14. Made'
  <2> SUFFICES ASSUME NEW q \in Member, NEW x, NEW t \in GetTags(reps'[q], x)
               PROVE  \E i \in seen'[q] : IsAddition(i, x, t)'
    BY Zenon DEF Made
  <2>1. CASE t \in GetTags(reps[q], x)
    BY Zenon, <1>2, <1>6, <1>13, <2>1 DEF Made
  <2>2. CASE q = r /\ x = e /\ t = new
    <3>1. \A i, u : i = n /\ u = new => IsAddition(i, e, u)'
      BY Zenon, <1>1, <1>5, <1>8 DEF IsAddition
    <3> QED BY Zenon, <1>6, <2>2, <3>1
  <2> QED BY Zenon, <1>3, <1>7, <2>1, <2>2
<1>15. Saw'
  BY Zenon, <1>1, <1>2, <1>5, <1>13 DEF Saw
<1> QED BY Zenon, <1>9, <1>12, <1>14, <1>15 DEF Tagged

\* A remove takes tags, and tells which.
LEMMA RemoveTagged ==
    ASSUME Typed, Tagged, kind = "orset", NEW r \in Member, NEW e \in Elements, Remove(r, e)
    PROVE  Tagged'
<1> DEFINE s == Without(reps[r], e)
           n == Len(history) + 1
           gone == [elem |-> e, tags |-> GetTags(reps[r], e), saw |-> seen[r]]
<1>1. PICK op \in Op :
          /\ Operated(r, op) /\ op.name = "rem" /\ op.elem = e
          /\ reps' = [reps EXCEPT ![r] = s] /\ removals' = removals \cup {gone}
  BY Zenon, SetOperations
<1>2. Issued /\ Kept /\ Made /\ Saw /\ DOMAIN reps = Member /\ \A q \in Member : IsORSet(reps[q])
  BY Zenon DEF Tagged, Typed, GoodState
<1>3. /\ s.next = reps[r].next /\ GetTags(s, e) = {}
      /\ \A x : x # e => GetTags(s, x) = GetTags(reps[r], x)
  BY <1>2, WithoutTags
<1>4. /\ history' = Append(history, op) /\ op \in Op /\ "rem" # "add"
  BY Zenon, <1>1 DEF Operated
<1>5. /\ n \in DOMAIN history' /\ history'[n] = op
      /\ \A i \in DOMAIN history :
            i \in DOMAIN history' /\ history'[i] = history[i] /\ TagOf(i)' = TagOf(i)
      /\ \A q \in Member :
            Cardinality(Adds(q, Len(history)))' = Cardinality(Adds(q, Len(history)))
                + IF op.name = "add" /\ op.by = q THEN 1 ELSE 0
  BY <1>4, HistoryGrows
<1>6. /\ seen'[r] = seen[r] \cup {n} /\ \A q \in Member \ {r} : seen'[q] = seen[q]
      /\ \A q \in Member : seen[q] \subseteq DOMAIN history
      /\ \A q \in Member : \A i \in seen'[q] : i \in seen[q] \/ (q = r /\ i = n)
  BY Zenon, <1>1, OperatedSeen
<1>7. reps'[r] = s /\ \A q \in Member \ {r} : reps'[q] = reps[q]
  BY Zenon, <1>1, <1>2
<1>8. gone.elem = e /\ gone.tags = GetTags(reps[r], e) /\ gone.saw = seen[r]
  OBVIOUS
<1> HIDE DEF s, n, gone
<1>9. Issued'
  <2>1. \A q \in Member : reps'[q].next = reps[q].next
    BY Zenon, <1>3, <1>7
  <2>2. \A q \in Member : Cardinality(Adds(q, Len(history)))' = Cardinality(Adds(q, Len(history)))
    <3>1. \A q \in Member : Cardinality(Adds(q, Len(history))) \in Nat
      BY AddsCounted DEF Typed
    <3> QED BY <1>1, <1>4, <1>5, <3>1
  <2> QED BY Zenon, <1>2, <2>1, <2>2 DEF Issued
<1>10. \A i \in DOMAIN history : Observed(i)' <=> Observed(i) \/ TagOf(i) \in gone.tags
  BY Zenon, <1>1, <1>5 DEF Observed
<1>11. Kept'
  <2> SUFFICES ASSUME NEW q \in Member, NEW i \in seen'[q], history'[i].name = "add", ~Observed(i)'
               PROVE  TagOf(i)' \in GetTags(reps'[q], history'[i].elem)
    BY Zenon DEF Kept
  <2>1. i \in seen[q]
    BY Zenon, <1>1, <1>4, <1>5, <1>6
  <2>2. i \in DOMAIN history /\ history'[i] = history[i] /\ TagOf(i)' = TagOf(i)
    BY Zenon, <1>5, <1>6, <2>1
  <2>3. ~Observed(i) /\ TagOf(i) \notin gone.tags /\ history[i].name = "add"
    BY Zenon, <1>10, <2>2
  <2>4. TagOf(i) \in GetTags(reps[q], history[i].elem)
    BY Zenon, <1>2, <2>1, <2>3 DEF Kept
  <2>5. ~(q = r /\ history[i].elem = e)
    BY Zenon, <1>8, <2>3, <2>4
  <2> QED BY Zenon, <1>3, <1>7, <2>2, <2>4, <2>5
<1>12. \A i \in DOMAIN history : \A x, t : IsAddition(i, x, t) => IsAddition(i, x, t)'
  BY Zenon, <1>5 DEF IsAddition
<1>13. Made'
  <2> SUFFICES ASSUME NEW q \in Member, NEW x, NEW t \in GetTags(reps'[q], x)
               PROVE  \E i \in seen'[q] : IsAddition(i, x, t)'
    BY Zenon DEF Made
  <2>1. t \in GetTags(reps[q], x)
    BY Zenon, <1>3, <1>7
  <2>2. PICK i \in seen[q] : IsAddition(i, x, t)
    BY Zenon, <1>2, <2>1 DEF Made
  <2> QED BY Zenon, <1>6, <1>12, <2>2
<1>14. Saw'
  <2> SUFFICES ASSUME NEW m \in removals'
               PROVE  /\ m.saw \subseteq DOMAIN history'
                      /\ \A t \in m.tags : \E i \in m.saw : IsAddition(i, m.elem, t)'
    BY Zenon DEF Saw
  <2>1. /\ m.saw \subseteq DOMAIN history
        /\ \A t \in m.tags : \E i \in m.saw : IsAddition(i, m.elem, t)
    <3>1. CASE m \in removals
      BY Zenon, <1>2, <3>1 DEF Saw
    <3>2. CASE m = gone
      BY Zenon, <1>2, <1>6, <1>8, <3>2 DEF Made
    <3> QED BY Zenon, <1>1, <3>1, <3>2
  <2> QED BY Zenon, <1>5, <1>12, <2>1
<1> QED BY Zenon, <1>9, <1>11, <1>13, <1>14 DEF Tagged

\* A remove that arrives takes only observed tags.
LEMMA DeliverTagged ==
    ASSUME Typed, Tagged, kind = "orset", NEW r \in Member, NEW m \in removals, DeliverRemove(r, m)
    PROVE  Tagged'
<1> DEFINE s == ApplyRemove(reps[r], m.elem, m.tags)
<1>1. reps' = [reps EXCEPT ![r] = s] /\ UNCHANGED <<kind, removals, history, seen>>
  BY Zenon DEF DeliverRemove
<1>2. Issued /\ Kept /\ Made /\ Saw /\ DOMAIN reps = Member /\ \A q \in Member : IsORSet(reps[q])
  BY Zenon DEF Tagged, Typed, GoodState
<1>3. /\ s.next = reps[r].next /\ GetTags(s, m.elem) = GetTags(reps[r], m.elem) \ m.tags
      /\ \A x : x # m.elem => GetTags(s, x) = GetTags(reps[r], x)
  BY <1>2, ApplyRemoveTags
<1> HIDE DEF s
<1>4. reps'[r] = s /\ \A q \in Member \ {r} : reps'[q] = reps[q]
  BY Zenon, <1>1, <1>2
<1>5. Issued'
  <2>1. \A q \in Member : reps'[q].next = reps[q].next
    BY Zenon, <1>3, <1>4
  <2>2. history' = history
    BY Zenon, <1>1
  <2> QED BY Zenon, <1>2, <2>1, <2>2 DEF Issued, Adds
<1>6. /\ \A i : TagOf(i)' = TagOf(i) /\ Observed(i)' = Observed(i)
      /\ \A i, x, t : IsAddition(i, x, t)' = IsAddition(i, x, t)
  BY Zenon, <1>1 DEF TagOf, Observed, IsAddition
<1>7. \A q \in Member : \A x : GetTags(reps'[q], x) \subseteq GetTags(reps[q], x)
  BY Zenon, <1>3, <1>4
<1>8. Kept'
  <2> SUFFICES ASSUME NEW q \in Member, NEW i \in seen[q], history[i].name = "add", ~Observed(i)
               PROVE  TagOf(i) \in GetTags(reps'[q], history[i].elem)
    BY Zenon, <1>1, <1>6 DEF Kept
  <2>1. TagOf(i) \in GetTags(reps[q], history[i].elem)
    BY Zenon, <1>2 DEF Kept
  <2>2. TagOf(i) \notin m.tags
    BY Zenon DEF Observed
  <2> QED BY Zenon, <1>3, <1>4, <2>1, <2>2
<1>9. Made'
  BY Zenon, <1>1, <1>2, <1>6, <1>7 DEF Made
<1>10. Saw'
  BY Zenon, <1>1, <1>2, <1>6 DEF Saw
<1> QED BY Zenon, <1>5, <1>8, <1>9, <1>10 DEF Tagged

\* A merge unites tags, and what was seen.
LEMMA MergeTagged ==
    ASSUME Typed, Tagged, kind = "orset", MergePair
    PROVE  Tagged'
<1> DEFINE i == at[2]
           j == at[3]
           s == MergeORSet(reps[i], reps[j])
<1>1. Merged /\ MergeStates(reps[i], reps[j]) = s
  BY Zenon, MergePairMerges, MergeOfKind
<1>2. /\ i \in Member /\ j \in Member /\ reps'[i] = s /\ reps'[j] = s
      /\ \A q \in Member \ {i, j} : reps'[q] = reps[q]
      /\ seen'[i] = seen[i] \cup seen[j] /\ seen'[j] = seen[i] \cup seen[j]
      /\ \A q \in Member \ {i, j} : seen'[q] = seen[q]
      /\ UNCHANGED <<kind, removals, history>>
  BY Zenon, <1>1 DEF Merged
<1>3. Issued /\ Kept /\ Made /\ Saw /\ \A q \in Member : IsORSet(reps[q])
  BY Zenon DEF Tagged, Typed, GoodState
<1>4. /\ s.next = MergeCounts(reps[i].next, reps[j].next)
      /\ \A x : GetTags(s, x) = GetTags(reps[i], x) \cup GetTags(reps[j], x)
  BY <1>2, <1>3, MergeTags
<1>5. /\ \A k : TagOf(k)' = TagOf(k) /\ Observed(k)' = Observed(k)
      /\ \A k, x, t : IsAddition(k, x, t)' = IsAddition(k, x, t)
  BY Zenon, <1>2 DEF TagOf, Observed, IsAddition
<1>6. Issued'
  <2>1. \A x : Count(s.next, x) = IF Count(reps[j].next, x) > Count(reps[i].next, x)
                                  THEN Count(reps[j].next, x) ELSE Count(reps[i].next, x)
    <3>1. Counts(reps[i].next) /\ Counts(reps[j].next)
      BY Zenon, <1>2, <1>3 DEF IsORSet
    <3> QED BY <1>4, <3>1, MergeCount
  <2>2. \A q, x \in Member : Count(reps[q].next, x) \in Nat
    BY Zenon, <1>3, CountType DEF IsORSet
  <2> DEFINE Now(q) == Cardinality(Adds(q, Len(history)))
  <2>3. \A q, x \in Member : Count(reps[x].next, x) = Now(x) /\ Count(reps[q].next, x) <= Now(x)
    BY Zenon, <1>3 DEF Issued
  <2> HIDE DEF Now, s, i, j
  <2>4. \A x \in Member : Count(s.next, x) <= Now(x) /\ (x \in {i, j} => Count(s.next, x) = Now(x))
    BY <1>2, <2>1, <2>2, <2>3
  <2>5. \A q, x \in Member : Count(reps'[x].next, x) = Now(x) /\ Count(reps'[q].next, x) <= Now(x)
    BY Zenon, <1>2, <2>3, <2>4
  <2>6. history' = history
    BY Zenon, <1>2
  <2> QED BY Zenon, <2>5, <2>6 DEF Issued, Now, Adds
<1> HIDE DEF s, i, j
<1>7. \A q \in Member \ {i, j} : seen'[q] = seen[q] /\ reps'[q] = reps[q]
  BY Zenon, <1>2
<1>8. Kept'
  <2> SUFFICES ASSUME NEW q \in Member, NEW k \in seen'[q], history[k].name = "add", ~Observed(k)
               PROVE  TagOf(k) \in GetTags(reps'[q], history[k].elem)
    BY Zenon, <1>2, <1>5 DEF Kept
  <2>1. CASE q \in {i, j}
    <3>1. TagOf(k) \in GetTags(reps[i], history[k].elem) \cup GetTags(reps[j], history[k].elem)
      BY Zenon, <1>2, <1>3, <2>1 DEF Kept
    <3> QED BY Zenon, <1>2, <1>4, <2>1, <3>1
  <2>2. CASE q \notin {i, j}
    BY Zenon, <1>3, <1>7, <2>2 DEF Kept
  <2> QED BY Zenon, <2>1, <2>2
<1>9. Made'
  <2> SUFFICES ASSUME NEW q \in Member, NEW x, NEW t \in GetTags(reps'[q], x)
               PROVE  \E k \in seen'[q] : IsAddition(k, x, t)
    BY Zenon, <1>5 DEF Made
  <2>1. CASE q \in {i, j}
    <3>1. t \in GetTags(reps[i], x) \/ t \in GetTags(reps[j], x)
      BY Zenon, <1>2, <1>4, <2>1
    <3>2. \E k \in seen[i] \cup seen[j] : IsAddition(k, x, t)
      BY Zenon, <1>2, <1>3, <3>1 DEF Made
    <3> QED BY Zenon, <1>2, <2>1, <3>2
  <2>2. CASE q \notin {i, j}
    BY Zenon, <1>3, <1>7, <2>2 DEF Made
  <2> QED BY Zenon, <2>1, <2>2
<1>10. Saw'
  BY Zenon, <1>2, <1>3, <1>5 DEF Saw
<1> QED BY Zenon, <1>6, <1>8, <1>9, <1>10 DEF Tagged

\* Tagged is kept: the counters and the registers have no tags, and a lost
\* message changes none.
LEMMA TaggedStep ==
    ASSUME Harness, Typed, Tagged, [Next]_vars
    PROVE  Tagged'
<1>1. kind' = kind
  BY Zenon, TypedStep
<1> SUFFICES ASSUME kind = "orset"
             PROVE  Tagged'
  BY Zenon, <1>1 DEF Tagged
<1>2. ~(kind \in {"gcounter", "clock"}) /\ kind # "pncounter"
  BY Zenon, KindsDiffer
<1>3. ASSUME NEW r \in Member, NEW n \in Amounts, Increment(r, n) \/ Decrement(r, n)
      PROVE  FALSE
  BY Zenon, <1>2, <1>3 DEF Increment, Decrement
<1>4. ASSUME UNCHANGED <<kind, reps, removals, history, seen>>
      PROVE  Tagged'
  <2>1. UNCHANGED Issued /\ UNCHANGED Kept
    BY Zenon, <1>4 DEF Issued, Kept, Adds, TagOf, Observed
  <2>2. UNCHANGED Made /\ UNCHANGED Saw
    <3>1. \A i, x, t : IsAddition(i, x, t)' = IsAddition(i, x, t)
      BY Zenon, <1>4 DEF IsAddition, TagOf
    <3>2. Made' = Made
      BY Zenon, <1>4, <3>1 DEF Made
    <3>3. Saw' = Saw
      BY Zenon, <1>4, <3>1 DEF Saw
    <3> QED BY Zenon, <3>2, <3>3
  <2> QED BY Zenon, <1>4, <2>1, <2>2 DEF Tagged
<1>5. CASE StartSync \/ DropMessage \/ UNCHANGED vars
  BY Zenon, <1>4, <1>5 DEF StartSync, DropMessage, vars
<1> QED BY Zenon, <1>3, <1>5, AddTagged, RemoveTagged, DeliverTagged, MergeTagged DEF Next

\* At the start there is no tag.
LEMMA TaggedInit ==
    ASSUME Harness, Init
    PROVE  Tagged
<1> SUFFICES ASSUME kind = "orset"
             PROVE  Issued /\ Kept /\ Made /\ Saw
  BY Zenon DEF Tagged
<1>1. /\ removals = {} /\ history = <<>> /\ \A r \in Member : seen[r] = {}
      /\ \A r \in Member : reps[r] = NewORSet
  BY DEF Init, NewState
<1>2. \A x : Count(NewORSet.next, x) = 0 /\ GetTags(NewORSet, x) = {}
  BY NoCountsCount DEF NewORSet, GetTags
<1>3. Issued
  <2>1. Len(history) = 0 /\ \A r : Adds(r, 0) = {}
    BY <1>1 DEF Adds
  <2>2. \A r : Cardinality(Adds(r, Len(history))) = 0
    BY Zenon, <2>1, FS_EmptySet
  <2> QED BY <1>1, <1>2, <2>2 DEF Issued
<1>4. Kept /\ Made /\ Saw
  BY Zenon, <1>1, <1>2 DEF Kept, Made, Saw
<1> QED BY Zenon, <1>3, <1>4

\* The invariant of every harness.
THEOREM TagsInvariant ==
    ASSUME Harness
    PROVE  Spec => [](Typed /\ Tagged)
<1>1. Init => Typed /\ Tagged
  BY Zenon, TypedInit, TaggedInit
<1>2. Typed /\ Tagged /\ [Next]_vars => Typed' /\ Tagged'
  BY Zenon, TypedStep, TaggedStep
<1> QED BY <1>1, <1>2, PTL DEF Spec

\* Add wins, over any number of replicas and of removes delivered any number
\* of times: an addition whose tag no remove took stays in every set that has
\* seen it, and every tag in a set is that of an addition it has seen.
THEOREM AddWins ==
    ASSUME Harness
    PROVE  Spec => []UnobservedAddsKept
<1>1. ASSUME Tagged
      PROVE  UnobservedAddsKept
  <2> SUFFICES ASSUME kind = "orset", NEW r \in Member
               PROVE  /\ \A i \in SeenOps(r, "add") :
                            ~Observed(i) => TagOf(i) \in GetTags(reps[r], history[i].elem)
                      /\ \A e \in Members(reps[r]) : \A t \in GetTags(reps[r], e) :
                            \E i \in SeenOps(r, "add") : TagOf(i) = t /\ history[i].elem = e
    BY Zenon DEF UnobservedAddsKept
  <2>1. Kept /\ Made
    BY Zenon, <1>1 DEF Tagged
  <2>2. \A i \in SeenOps(r, "add") :
            ~Observed(i) => TagOf(i) \in GetTags(reps[r], history[i].elem)
    BY Zenon, <2>1 DEF Kept, SeenOps
  <2>3. ASSUME NEW e, NEW t \in GetTags(reps[r], e)
        PROVE  \E i \in SeenOps(r, "add") : TagOf(i) = t /\ history[i].elem = e
    <3>1. PICK i \in seen[r] : IsAddition(i, e, t)
      BY Zenon, <2>1 DEF Made
    <3> QED BY Zenon, <3>1 DEF SeenOps, IsAddition
  <2> QED BY Zenon, <2>2, <2>3
<1> QED BY <1>1, TagsInvariant, PTL

\* The other half of the promise: a remove that observes an addition had it in
\* its own past, so an add that is concurrent with every remove, or after it,
\* is never taken. It rests on the tags being unique.
RemovesHadSeen ==
    kind = "orset" =>
        \A i \in DOMAIN history :
            history[i].name = "add" /\ Observed(i)
                => \E m \in removals : i \in m.saw /\ m.elem = history[i].elem

\* What apply_remove takes anywhere, the replica that removed it had seen.
THEOREM OnlySeenAddsGo ==
    ASSUME Harness
    PROVE  Spec => []RemovesHadSeen
<1>1. ASSUME Typed, Tagged
      PROVE  RemovesHadSeen
  <2> SUFFICES ASSUME kind = "orset", NEW i \in DOMAIN history, history[i].name = "add",
                      NEW m \in removals, TagOf(i) \in m.tags
               PROVE  i \in m.saw /\ m.elem = history[i].elem
    BY Zenon DEF RemovesHadSeen, Observed
  <2>1. PICK k \in m.saw : IsAddition(k, m.elem, TagOf(i))
    BY Zenon, <1>1 DEF Tagged, Saw
  <2>2. k \in DOMAIN history
    BY Zenon, <1>1 DEF Tagged, Saw
  <2>3. i = k
    BY Zenon, <1>1, <2>1, <2>2, TagsUnique DEF IsAddition
  <2> QED BY Zenon, <2>1, <2>3 DEF IsAddition
<1> QED BY <1>1, TagsInvariant, PTL

-----------------------------------------------------------------------------
(* The order of the states: what one has, the other has too. A merge is    *)
(* the least state above both, which is all the convergence rests on.      *)

AtMost(c, d) == \A x \in Member : Count(c, x) <= Count(d, x)

Below(s, t) ==
    /\ kind \in {"gcounter", "clock"} => AtMost(s, t)
    /\ kind = "pncounter" => AtMost(s.positive, t.positive) /\ AtMost(s.negative, t.negative)
    /\ kind = "gset" => s \subseteq t
    /\ kind = "orset" => /\ AtMost(s.next, t.next)
                         /\ \A e \in DOMAIN s.elements : GetTags(s, e) \subseteq GetTags(t, e)

\* An element without an entry has no tags.
LEMMA TagsBelow ==
    ASSUME NEW s, NEW t
    PROVE  (\A e \in DOMAIN s.elements : GetTags(s, e) \subseteq GetTags(t, e))
            <=> (\A e : GetTags(s, e) \subseteq GetTags(t, e))
BY Zenon DEF GetTags

\* Maps of counts are ordered, and their merge is a join.
LEMMA CountsJoin ==
    ASSUME NEW b, NEW c, NEW d, Counts(b), Counts(c), Counts(d)
    PROVE  /\ AtMost(c, c) /\ (AtMost(b, c) /\ AtMost(c, d) => AtMost(b, d))
           /\ AtMost(c, MergeCounts(c, d)) /\ AtMost(d, MergeCounts(c, d))
           /\ AtMost(c, b) /\ AtMost(d, b) => AtMost(MergeCounts(c, d), b)
<1>1. \A x : Count(b, x) \in Nat /\ Count(c, x) \in Nat /\ Count(d, x) \in Nat
  BY Zenon, CountType
<1>2. \A x : Count(MergeCounts(c, d), x)
                = IF Count(d, x) > Count(c, x) THEN Count(d, x) ELSE Count(c, x)
  BY Zenon, MergeCount
<1>3. AtMost(c, c) /\ (AtMost(b, c) /\ AtMost(c, d) => AtMost(b, d))
  BY <1>1 DEF AtMost
<1>4. AtMost(c, MergeCounts(c, d)) /\ AtMost(d, MergeCounts(c, d))
  BY <1>1, <1>2 DEF AtMost
<1>5. AtMost(c, b) /\ AtMost(d, b) => AtMost(MergeCounts(c, d), b)
  BY <1>1, <1>2 DEF AtMost
<1> QED BY Zenon, <1>3, <1>4, <1>5

\* merge of every type of lattice.rs is a join: the least state that has all
\* the two have. Any order and any repetition of merges gives the same.
THEOREM MergeIsJoin ==
    ASSUME NEW s, NEW t, NEW u, GoodState(s), GoodState(t), GoodState(u)
    PROVE  /\ Below(s, s) /\ (Below(s, t) /\ Below(t, u) => Below(s, u))
           /\ Below(s, MergeStates(s, t)) /\ Below(t, MergeStates(s, t))
           /\ Below(s, u) /\ Below(t, u) => Below(MergeStates(s, t), u)
<1> SUFFICES ASSUME NEW m, m = MergeStates(s, t)
             PROVE  /\ Below(s, s) /\ (Below(s, t) /\ Below(t, u) => Below(s, u))
                    /\ Below(s, m) /\ Below(t, m)
                    /\ Below(s, u) /\ Below(t, u) => Below(m, u)
  BY Zenon
<1>1. CASE kind \in {"gcounter", "clock"}
  <2>1. Counts(s) /\ Counts(t) /\ Counts(u) /\ m = MergeCounts(s, t)
    BY Zenon, <1>1, MergeOfKind DEF GoodState
  <2>2. \A x, y : Below(x, y) <=> AtMost(x, y)
    BY Zenon, <1>1, KindsDiffer DEF Below
  <2> QED BY <2>1, <2>2, CountsJoin
<1>2. CASE kind = "pncounter"
  <2>1. /\ Counts(s.positive) /\ Counts(t.positive) /\ Counts(u.positive)
        /\ Counts(s.negative) /\ Counts(t.negative) /\ Counts(u.negative)
    BY Zenon, <1>2 DEF GoodState, IsPN
  <2>2. m = MergePN(s, t)
    BY Zenon, <1>2, MergeOfKind
  <2>3. /\ m.positive = MergeCounts(s.positive, t.positive)
        /\ m.negative = MergeCounts(s.negative, t.negative)
    BY <2>2 DEF MergePN
  <2>4. \A x, y : Below(x, y)
            <=> AtMost(x.positive, y.positive) /\ AtMost(x.negative, y.negative)
    BY Zenon, <1>2, KindsDiffer DEF Below
  <2>5. /\ AtMost(s.positive, s.positive)
        /\ AtMost(s.positive, t.positive) /\ AtMost(t.positive, u.positive)
            => AtMost(s.positive, u.positive)
        /\ AtMost(s.positive, m.positive) /\ AtMost(t.positive, m.positive)
        /\ AtMost(s.positive, u.positive) /\ AtMost(t.positive, u.positive)
            => AtMost(m.positive, u.positive)
    BY <2>1, <2>3, CountsJoin
  <2>6. /\ AtMost(s.negative, s.negative)
        /\ AtMost(s.negative, t.negative) /\ AtMost(t.negative, u.negative)
            => AtMost(s.negative, u.negative)
        /\ AtMost(s.negative, m.negative) /\ AtMost(t.negative, m.negative)
        /\ AtMost(s.negative, u.negative) /\ AtMost(t.negative, u.negative)
            => AtMost(m.negative, u.negative)
    BY <2>1, <2>3, CountsJoin
  <2> QED BY Zenon, <2>4, <2>5, <2>6
<1>3. CASE kind = "gset"
  <2>1. m = s \cup t
    BY Zenon, <1>3, MergeOfKind
  <2>2. \A x, y : Below(x, y) <=> x \subseteq y
    BY Zenon, <1>3, KindsDiffer DEF Below
  <2> QED BY Zenon, <2>1, <2>2
<1>4. CASE kind = "orset"
  <2>1. IsORSet(s) /\ IsORSet(t) /\ IsORSet(u) /\ m = MergeORSet(s, t)
    BY Zenon, <1>4, MergeOfKind DEF GoodState
  <2>2. Counts(s.next) /\ Counts(t.next) /\ Counts(u.next)
    BY Zenon, <2>1 DEF IsORSet
  <2>3. /\ m.next = MergeCounts(s.next, t.next)
        /\ \A x : GetTags(m, x) = GetTags(s, x) \cup GetTags(t, x)
    BY <2>1, MergeTags
  <2>4. \A x, y : Below(x, y)
            <=> AtMost(x.next, y.next) /\ \A e : GetTags(x, e) \subseteq GetTags(y, e)
    BY Zenon, <1>4, KindsDiffer, TagsBelow DEF Below
  <2>5. /\ AtMost(s.next, s.next)
        /\ AtMost(s.next, t.next) /\ AtMost(t.next, u.next) => AtMost(s.next, u.next)
        /\ AtMost(s.next, m.next) /\ AtMost(t.next, m.next)
        /\ AtMost(s.next, u.next) /\ AtMost(t.next, u.next) => AtMost(m.next, u.next)
    BY <2>2, <2>3, CountsJoin
  <2>6. /\ Below(s, s) /\ (Below(s, t) /\ Below(t, u) => Below(s, u))
    BY Zenon, <2>4, <2>5
  <2>7. Below(s, m) /\ Below(t, m)
    BY Zenon, <2>3, <2>4, <2>5
  <2>8. Below(s, u) /\ Below(t, u) => Below(m, u)
    BY Zenon, <2>3, <2>4, <2>5
  <2> QED BY Zenon, <2>6, <2>7, <2>8
<1>5. CASE kind \notin {"gcounter", "clock", "pncounter", "gset", "orset"}
  BY Zenon, <1>5 DEF Below
<1> QED BY Zenon, <1>1, <1>2, <1>3, <1>4, <1>5

-----------------------------------------------------------------------------
(* A round. Replica 0 merges with 1, 2, ... and ends with everything; so   *)
(* does the last replica, its last partner. Each following replica merges  *)
(* with the last one at the end of its row.                                *)

\* Replica r has all that replica q has.
Has(r, q) == seen[q] \subseteq seen[r] /\ Below(reps[q], reps[r])

Full(r) == \A q \in Member : Has(r, q)

\* How far a round without a loss has come when it is at the pair i, j.
Progress(i, j) ==
    /\ \A r \in Member : r < i => Full(r)
    /\ i > 0 => Full(Replicas - 1)
    /\ i = 0 => \A r \in Member : r < j => Has(0, r)

Sweep ==
    /\ at # Idle /\ whole => Progress(at[2], at[3])
    /\ clean => \A r \in Member : Full(r)
    /\ \A k \in DOMAIN history : \E r \in Member : k \in seen[r]

\* Has is an order.
LEMMA HasOrder ==
    ASSUME Typed, NEW p \in Member, NEW q \in Member, NEW r \in Member
    PROVE  Has(p, p) /\ (Has(r, q) /\ Has(q, p) => Has(r, p))
<1>1. GoodState(reps[p]) /\ GoodState(reps[q]) /\ GoodState(reps[r])
  BY Zenon DEF Typed
<1>2. Below(reps[p], reps[p])
      /\ (Below(reps[p], reps[q]) /\ Below(reps[q], reps[r]) => Below(reps[p], reps[r]))
  BY <1>1, MergeIsJoin
<1> QED BY Zenon, <1>2 DEF Has

\* What a merge leaves: a full replica stays full, and both partners have what
\* either had.
LEMMA MergeHas ==
    ASSUME Typed, Merged
    PROVE  /\ \A r \in Member : Full(r) => Full(r)'
           /\ \A r \in {at[2], at[3]}, q \in Member :
                q \in {at[2], at[3]} \/ Has(at[2], q) \/ Has(at[3], q) => Has(r, q)'
<1> SUFFICES ASSUME NEW i, NEW j, i = at[2], j = at[3], NEW m, m = MergeStates(reps[i], reps[j])
             PROVE  /\ \A r \in Member : Full(r) => Full(r)'
                    /\ \A r \in {i, j}, q \in Member :
                        q \in {i, j} \/ Has(i, q) \/ Has(j, q) => Has(r, q)'
  BY Zenon
<1>1. /\ i \in Member /\ j \in Member /\ kind' = kind /\ reps'[i] = m /\ reps'[j] = m
      /\ seen'[i] = seen[i] \cup seen[j] /\ seen'[j] = seen[i] \cup seen[j]
      /\ \A x \in Member \ {i, j} : reps'[x] = reps[x] /\ seen'[x] = seen[x]
  BY Zenon DEF Merged
<1>2. \A x \in Member : GoodState(reps[x])
  BY Zenon DEF Typed
<1>3. GoodState(m)
  BY <1>1, <1>2, MergeTyped
<1>4. \A x \in Member : GoodState(reps'[x])
  BY Zenon, <1>1, <1>2, <1>3
<1>5. \A q, r : Has(r, q)' <=> seen'[q] \subseteq seen'[r] /\ Below(reps'[q], reps'[r])
  BY Zenon, <1>1 DEF Has, Below
<1>6. /\ Below(reps[i], m) /\ Below(reps[j], m)
      /\ \A u : GoodState(u) /\ Below(reps[i], u) /\ Below(reps[j], u) => Below(m, u)
  BY <1>1, <1>2, MergeIsJoin
<1>7. \A x, y, z : GoodState(x) /\ GoodState(y) /\ GoodState(z) /\ Below(x, y) /\ Below(y, z)
                     => Below(x, z)
  BY MergeIsJoin
<1>8. \A x : GoodState(x) => Below(x, x)
  BY MergeIsJoin
<1>9. \A x \in Member : seen[x] \subseteq seen'[x] /\ Below(reps[x], reps'[x])
  <2> SUFFICES ASSUME NEW x \in Member
               PROVE  seen[x] \subseteq seen'[x] /\ Below(reps[x], reps'[x])
    BY Zenon
  <2>1. CASE x \in {i, j}
    BY Zenon, <1>1, <1>6, <2>1
  <2>2. CASE x \notin {i, j}
    BY Zenon, <1>1, <1>2, <1>8, <2>2
  <2> QED BY Zenon, <2>1, <2>2
<1>10. ASSUME NEW r \in Member, Full(r), NEW q \in Member
       PROVE  Has(r, q)'
  <2>1. seen'[q] \subseteq seen[r] /\ Below(reps'[q], reps[r])
    <3>1. /\ seen[i] \subseteq seen[r] /\ seen[j] \subseteq seen[r] /\ seen[q] \subseteq seen[r]
          /\ Below(reps[i], reps[r]) /\ Below(reps[j], reps[r]) /\ Below(reps[q], reps[r])
      BY Zenon, <1>1, <1>10 DEF Full, Has
    <3>2. CASE q \in {i, j}
      BY Zenon, <1>1, <1>2, <1>6, <3>1, <3>2
    <3>3. CASE q \notin {i, j}
      BY Zenon, <1>1, <3>1, <3>3
    <3> QED BY Zenon, <3>2, <3>3
  <2>2. Below(reps'[q], reps'[r])
    BY Zenon, <1>2, <1>4, <1>7, <1>9, <2>1
  <2>3. seen'[q] \subseteq seen'[r]
    BY Zenon, <1>9, <2>1
  <2> QED BY Zenon, <1>5, <2>2, <2>3
<1>11. ASSUME NEW r \in {i, j}, NEW q \in Member, q \in {i, j} \/ Has(i, q) \/ Has(j, q)
       PROVE  Has(r, q)'
  <2>1. reps'[r] = m /\ seen'[r] = seen[i] \cup seen[j] /\ r \in Member
    BY Zenon, <1>1
  <2>2. CASE q \in {i, j}
    <3>1. reps'[q] = m /\ seen'[q] = seen'[r]
      BY Zenon, <1>1, <2>1, <2>2
    <3> QED BY Zenon, <1>3, <1>5, <1>8, <2>1, <3>1
  <2>3. CASE q \notin {i, j}
    <3>1. reps'[q] = reps[q] /\ seen'[q] = seen[q]
      BY Zenon, <1>1, <2>3
    <3>2. seen[q] \subseteq seen[i] \/ seen[q] \subseteq seen[j]
      BY Zenon, <1>11, <2>3 DEF Has
    <3>3. Below(reps[q], m)
      BY Zenon, <1>1, <1>2, <1>3, <1>6, <1>7, <1>11, <2>3 DEF Has
    <3> QED BY Zenon, <1>5, <2>1, <3>1, <3>2, <3>3
  <2> QED BY Zenon, <2>2, <2>3
<1> QED BY Zenon, <1>10, <1>11 DEF Full

\* A merge brings the round further: to the next pair, or to its end, where
\* every replica has everything.
LEMMA RoundAdvances ==
    ASSUME Harness, Typed, Merged, at \in Position, Progress(at[2], at[3]),
           NEW next, next = Following(at)
    PROVE  /\ next[1] = at[1] => Progress(next[2], next[3])'
           /\ next[1] # at[1] => \A r \in Member : Full(r)'
<1> SUFFICES ASSUME NEW i, NEW j, i = at[2], j = at[3]
             PROVE  /\ next[1] = at[1] => Progress(next[2], next[3])'
                    /\ next[1] # at[1] => \A r \in Member : Full(r)'
  BY Zenon
<1> DEFINE last == Replicas - 1
<1>1. /\ i \in Member /\ j \in Member /\ i < j /\ Replicas \in Nat /\ Replicas > 1
      /\ 0 \in Member /\ last \in Member /\ \A r \in Member : r \in Nat /\ r <= last
  BY DEF Position, Harness, Member
<1>2. /\ \/ /\ next[1] = at[1] /\ j + 1 < Replicas /\ next[2] = i /\ next[3] = j + 1
         \/ /\ next[1] = at[1] /\ j = last /\ i + 2 < Replicas /\ next[2] = i + 1
         \/ /\ next[1] # at[1] /\ j = last /\ i + 2 = Replicas
  <2>1. \/ /\ next[1] = at[1] /\ j + 1 < Replicas /\ next[2] = i /\ next[3] = j + 1
        \/ /\ next[1] = at[1] /\ j + 1 = Replicas /\ i + 2 < Replicas /\ next[2] = i + 1
        \/ /\ next[1] # at[1] /\ j + 1 = Replicas /\ i + 2 = Replicas
    BY Zenon, FollowingPair
  <2> QED BY <1>1, <2>1
<1>3. /\ \A r \in Member : Full(r) => Full(r)'
      /\ \A r \in {i, j}, q \in Member : q \in {i, j} \/ Has(i, q) \/ Has(j, q) => Has(r, q)'
  BY Zenon, MergeHas
<1>4. /\ \A r \in Member : r < i => Full(r)
      /\ i > 0 => Full(last)
      /\ i = 0 => \A r \in Member : r < j => Has(0, r)
  BY Zenon DEF Progress
<1>5. \A r \in Member : r < i => Full(r)'
  BY Zenon, <1>3, <1>4
<1>6. ASSUME j + 1 < Replicas
      PROVE  Progress(i, j + 1)'
  <2>1. i > 0 => Full(last)'
    BY Zenon, <1>1, <1>3, <1>4
  <2>2. ASSUME i = 0, NEW r \in Member, r < j + 1
        PROVE  Has(0, r)'
    <3>1. r < j \/ r = j
      BY <1>1, <2>2
    <3> QED BY Zenon, <1>1, <1>3, <1>4, <2>2, <3>1
  <2> QED BY Zenon, <1>5, <2>1, <2>2 DEF Progress
<1>7. ASSUME j = last
      PROVE  Full(i)' /\ Full(last)'
  <2>1. ASSUME NEW q \in Member
        PROVE  q \in {i, j} \/ Has(i, q) \/ Has(j, q)
    <3>1. CASE i = 0
      <4>1. q < j \/ q = j
        BY <1>1, <1>7
      <4> QED BY Zenon, <1>4, <3>1, <4>1
    <3>2. CASE i # 0
      <4>1. i > 0
        BY <1>1, <3>2
      <4> QED BY Zenon, <1>4, <1>7, <4>1 DEF Full
    <3> QED BY Zenon, <3>1, <3>2
  <2> QED BY Zenon, <1>3, <1>7, <2>1 DEF Full
<1>8. ASSUME j = last
      PROVE  Progress(i + 1, next[3])'
  <2>1. \A r \in Member : r < i + 1 => r < i \/ r = i
    BY <1>1
  <2>2. i + 1 # 0
    BY <1>1
  <2> QED BY Zenon, <1>5, <1>7, <1>8, <2>1, <2>2 DEF Progress
<1>9. ASSUME j = last, i + 2 = Replicas
      PROVE  \A r \in Member : Full(r)'
  <2>1. \A r \in Member : r < i \/ r = i \/ r = last
    BY <1>1, <1>9
  <2> QED BY Zenon, <1>5, <1>7, <1>9, <2>1
<1> QED BY Zenon, <1>2, <1>6, <1>8, <1>9

\* A round starts with nothing to show.
LEMMA RoundStarts ==
    Harness /\ Typed => Progress(0, 1)
<1> SUFFICES ASSUME Harness, Typed
             PROVE  Progress(0, 1)
  BY Zenon
<1>1. 0 \in Member /\ ~(0 > 0) /\ \A r \in Member : ~(r < 0) /\ (r < 1 => r = 0)
  BY DEF Harness, Member
<1>2. Has(0, 0)
  BY Zenon, <1>1, HasOrder
<1> QED BY Zenon, <1>1, <1>2 DEF Progress

\* Every operation is seen by the replica that carries it out.
LEMMA OperationSeen ==
    ASSUME Typed, Sweep,
           \/ \E r \in Member, n \in Amounts : Increment(r, n) \/ Decrement(r, n)
           \/ \E r \in Member, e \in Elements : Add(r, e) \/ Remove(r, e)
    PROVE  \A k \in DOMAIN history' : \E r \in Member : k \in seen'[r]
<1>1. PICK r \in Member : \E state, op : Operate(r, state, op)
  BY Zenon DEF Increment, Decrement, Add, Remove
<1>2. PICK state, op : Operate(r, state, op)
  BY Zenon, <1>1
<1>3. /\ history' = Append(history, op)
      /\ seen' = [seen EXCEPT ![r] = @ \cup {Len(history) + 1}]
  BY Zenon, <1>2 DEF Operate
<1>4. \A k \in DOMAIN history' : k \in DOMAIN history \/ k = Len(history) + 1
  BY <1>3 DEF Typed
<1>5. /\ seen'[r] = seen[r] \cup {Len(history) + 1}
      /\ \A q \in Member \ {r} : seen'[q] = seen[q]
  BY Zenon, <1>3 DEF Typed
<1> QED BY Zenon, <1>4, <1>5 DEF Sweep

\* Sweep is kept.
LEMMA SweepStep ==
    ASSUME Harness, Typed, Typed', Sweep, [Next]_vars
    PROVE  Sweep'
<1>1. Progress(0, 1)'
  BY RoundStarts, PTL
<1>2. CASE \/ \E r \in Member, n \in Amounts : Increment(r, n) \/ Decrement(r, n)
           \/ \E r \in Member, e \in Elements : Add(r, e) \/ Remove(r, e)
  <2>1. at' = Idle /\ clean' = FALSE
    BY Zenon, <1>2, OperationsTyped
  <2> QED BY Zenon, <1>2, <2>1, OperationSeen DEF Sweep, Idle
<1>3. CASE \E r \in Member, removal \in removals : DeliverRemove(r, removal)
  BY Zenon, <1>3 DEF DeliverRemove, Sweep, Idle
<1>4. CASE StartSync
  <2>1. /\ at' = <<1, 0, 1>> /\ clean' = FALSE /\ UNCHANGED <<history, seen>>
    BY Zenon, <1>4 DEF StartSync
  <2>2. at'[2] = 0 /\ at'[3] = 1
    BY <2>1
  <2>3. Progress(at[2], at[3])'
    BY Zenon, <1>1, <2>2
  <2> QED BY Zenon, <2>1, <2>3 DEF Sweep
<1>5. CASE UNCHANGED vars
  BY Zenon, <1>5 DEF Sweep, vars, Progress, Full, Has, Below
<1>6. ASSUME at \in Position, Following(at)[1] # at[1], Following(at) # Idle
      PROVE  Following(at)[2] = 0 /\ Following(at)[3] = 1
  BY Zenon, <1>6, FollowingPair
<1>7. CASE MergePair
  <2>1. Merged /\ at \in Position
    BY Zenon, <1>7, MergePairMerges
  <2>2. /\ at # Idle /\ at' = Following(at)
        /\ whole' = (Following(at)[1] # at[1] \/ whole)
        /\ clean' = (clean \/ (Following(at)[1] # at[1] /\ whole))
    BY Zenon, <1>7 DEF MergePair, Advance
  <2>3. whole => Progress(at[2], at[3])
    BY Zenon, <2>2 DEF Sweep
  <2>4. ASSUME at' # Idle, whole'
        PROVE  Progress(at[2], at[3])'
    <3>1. CASE at'[1] = at[1]
      BY Zenon, <2>1, <2>2, <2>3, <2>4, <3>1, RoundAdvances
    <3>2. CASE at'[1] # at[1]
      BY Zenon, <1>1, <1>6, <2>1, <2>2, <2>4, <3>2
    <3> QED BY Zenon, <3>1, <3>2
  <2>5. ASSUME clean'
        PROVE  \A r \in Member : Full(r)'
    <3>1. CASE clean
      BY Zenon, <2>1, <3>1, MergeHas DEF Sweep
    <3>2. CASE Following(at)[1] # at[1] /\ whole
      BY Zenon, <2>1, <2>3, <3>2, RoundAdvances
    <3> QED BY Zenon, <2>2, <2>5, <3>1, <3>2
  <2>6. \A k \in DOMAIN history' : \E r \in Member : k \in seen'[r]
    BY Zenon, <2>1 DEF Merged, Sweep
  <2> QED BY Zenon, <2>4, <2>5, <2>6 DEF Sweep
<1>8. CASE DropMessage
  <2>1. /\ at \in Position /\ at' = Following(at)
        /\ whole' => Following(at)[1] # at[1]
        /\ clean' => clean
        /\ UNCHANGED <<kind, reps, history, seen>>
    BY Zenon, <1>8 DEF DropMessage, Advance, Typed
  <2>2. at' # Idle /\ whole' => Progress(at[2], at[3])'
    BY Zenon, <1>1, <1>6, <2>1
  <2>3. clean' => \A r \in Member : Full(r)'
    BY Zenon, <2>1 DEF Sweep, Full, Has, Below
  <2> QED BY Zenon, <2>1, <2>2, <2>3 DEF Sweep
<1> QED BY Zenon, <1>2, <1>3, <1>4, <1>5, <1>7, <1>8 DEF Next

\* Two maps of counts below each other are one map.
LEMMA CountsEqual ==
    ASSUME NEW c, NEW d, Counts(c), Counts(d), AtMost(c, d), AtMost(d, c)
    PROVE  c = d
<1>1. \A x : Count(c, x) \in Nat /\ (x \in DOMAIN c <=> Count(c, x) # 0)
  BY Zenon, CountType
<1>2. \A x : Count(d, x) \in Nat /\ (x \in DOMAIN d <=> Count(d, x) # 0)
  BY Zenon, CountType
<1>3. \A x \in Member : Count(c, x) = Count(d, x)
  BY <1>1, <1>2 DEF AtMost
<1>4. DOMAIN c = DOMAIN d
  BY Zenon, <1>1, <1>2, <1>3 DEF Counts
<1>5. \A x \in DOMAIN c : c[x] = d[x]
  BY Zenon, <1>3, <1>4 DEF Counts, Count
<1> QED BY Zenon, <1>4, <1>5 DEF Counts, IsFunction

\* Two states below each other are one state, up to elements without tags.
LEMMA MutuallyBelow ==
    ASSUME NEW s, NEW t, GoodState(s), GoodState(t), Below(s, t), Below(t, s),
           kind \in {"gcounter", "clock", "pncounter", "gset", "orset"}
    PROVE  CASE kind \in {"gcounter", "clock"} -> EqualCounts(s, t)
             [] kind = "pncounter" -> PNValue(s) = PNValue(t)
             [] kind = "gset" -> s = t
             [] kind = "orset" -> Members(s) = Members(t)
<1>1. kind \in {"gcounter", "clock"} => EqualCounts(s, t)
  <2> SUFFICES ASSUME kind \in {"gcounter", "clock"}
               PROVE  EqualCounts(s, t)
    BY Zenon
  <2>1. s = t
    BY Zenon, CountsEqual DEF GoodState, Below
  <2> QED BY Zenon, <2>1 DEF EqualCounts
<1>2. kind = "pncounter" => PNValue(s) = PNValue(t)
  <2> SUFFICES ASSUME kind = "pncounter"
               PROVE  PNValue(s) = PNValue(t)
    BY Zenon
  <2>1. s.positive = t.positive /\ s.negative = t.negative
    BY Zenon, CountsEqual DEF GoodState, IsPN, Below
  <2> QED BY Zenon, <2>1 DEF PNValue
<1>3. kind = "gset" => s = t
  <2> SUFFICES ASSUME kind = "gset"
               PROVE  s = t
    BY Zenon
  <2>1. s \subseteq t /\ t \subseteq s
    BY Zenon DEF Below
  <2> QED BY <2>1
<1>4. kind = "orset" => Members(s) = Members(t)
  <2> SUFFICES ASSUME kind = "orset"
               PROVE  Members(s) = Members(t)
    BY Zenon
  <2>1. \A e : GetTags(s, e) = GetTags(t, e)
    <3>1. \A e : GetTags(s, e) \subseteq GetTags(t, e)
      BY Zenon, TagsBelow DEF Below
    <3>2. \A e : GetTags(t, e) \subseteq GetTags(s, e)
      BY Zenon, TagsBelow DEF Below
    <3> QED BY <3>1, <3>2
  <2>2. \A x, e : e \in Members(x) <=> GetTags(x, e) # {}
    BY Zenon DEF Members, GetTags
  <2> QED BY Zenon, <2>1, <2>2
<1> QED BY Zenon, <1>1, <1>2, <1>3, <1>4

\* The harness starts with nothing carried out.
LEMMA SweepInit ==
    Init => Sweep
<1> SUFFICES ASSUME Init
             PROVE  Sweep
  BY Zenon
<1>1. at = Idle /\ clean = FALSE /\ history = <<>>
  BY Zenon DEF Init
<1>2. DOMAIN history = {}
  BY <1>1
<1> QED BY Zenon, <1>1, <1>2 DEF Sweep

\* One round of pairwise merges without a loss is enough, for any number of
\* replicas: every replica then has every operation ever carried out and all
\* give the same answer, whatever was lost in the rounds before.
THEOREM RoundConverges ==
    ASSUME Harness
    PROVE  Spec => []CleanRoundConverges
<1>1. Init => Typed /\ Sweep
  BY Zenon, TypedInit, SweepInit
<1>2. Typed /\ Sweep /\ [Next]_vars => Typed' /\ Sweep'
  BY Zenon, TypedStep, SweepStep
<1>3. ASSUME Typed, Sweep
      PROVE  CleanRoundConverges
  <2> SUFFICES ASSUME clean, NEW r \in Member, NEW s \in Member
               PROVE  /\ seen[r] = DOMAIN history
                      /\ CASE kind \in {"gcounter", "clock"} -> EqualCounts(reps[r], reps[s])
                           [] kind = "pncounter" -> PNValue(reps[r]) = PNValue(reps[s])
                           [] kind = "gset" -> reps[r] = reps[s]
                           [] kind = "orset" -> Members(reps[r]) = Members(reps[s])
    BY Zenon DEF CleanRoundConverges
  <2>1. Full(r) /\ Full(s)
    BY Zenon, <1>3 DEF Sweep
  <2>2. seen[r] = DOMAIN history
    <3>1. seen[r] \subseteq DOMAIN history
      BY Zenon, <1>3 DEF Typed
    <3>2. DOMAIN history \subseteq seen[r]
      BY Zenon, <1>3, <2>1 DEF Sweep, Full, Has
    <3> QED BY Zenon, <3>1, <3>2
  <2>3. Below(reps[s], reps[r]) /\ Below(reps[r], reps[s])
    BY Zenon, <2>1 DEF Full, Has
  <2>4. /\ GoodState(reps[r]) /\ GoodState(reps[s])
        /\ kind \in {"gcounter", "clock", "pncounter", "gset", "orset"}
    BY Zenon, <1>3 DEF Typed
  <2> QED BY Zenon, <2>2, <2>3, <2>4, MutuallyBelow
<1> QED BY <1>1, <1>2, <1>3, PTL DEF Spec

-----------------------------------------------------------------------------
(* The vector clock. The operations of a replica are ranked in their       *)
(* order, and a clock's entry says up to which rank they were seen.        *)

Ticks(q, n) == {j \in 1 .. n : history[j].by = q}

Total(q) == Cardinality(Ticks(q, Len(history)))

Rank(i) == Cardinality(Ticks(history[i].by, i))

\* A replica's own entry is the number of its operations; nobody knows more.
Entries ==
    \A q, r \in Member : Count(reps[q], q) = Total(q) /\ Count(reps[r], q) <= Total(q)

\* Every rank up to the last is taken.
RanksTaken ==
    \A q \in Member : \A n \in 1 .. Total(q) :
        \E i \in DOMAIN history : history[i].by = q /\ Rank(i) = n

\* A clock stands for what was seen.
EntriesTell ==
    \A r \in Member : \A i \in DOMAIN history :
        i \in seen[r] <=> Rank(i) <= Count(reps[r], history[i].by)

Ticked == kind = "clock" => Entries /\ RanksTaken /\ EntriesTell

\* Operations are counted.
LEMMA TicksCounted ==
    ASSUME NEW r, NEW n \in Nat
    PROVE  IsFiniteSet(Ticks(r, n)) /\ Cardinality(Ticks(r, n)) \in Nat
<1>1. IsFiniteSet(1 .. n)
  BY FS_Interval
<1>2. Ticks(r, n) \in SUBSET (1 .. n)
  BY Zenon DEF Ticks
<1>3. IsFiniteSet(Ticks(r, n))
  BY Zenon, <1>1, <1>2, FS_Subset
<1> QED BY Zenon, <1>3, FS_CardinalityType

\* The rank of an operation is at most the number of its replica's.
LEMMA RankBounded ==
    ASSUME Typed
    PROVE  /\ \A q : Total(q) \in Nat
           /\ \A i \in DOMAIN history : /\ history[i].by \in Member
                                        /\ Rank(i) \in Nat /\ Rank(i) <= Total(history[i].by)
<1>1. Len(history) \in Nat
  BY DEF Typed
<1>2. \A q : Total(q) \in Nat
  BY Zenon, <1>1, TicksCounted DEF Total
<1>3. ASSUME NEW i \in DOMAIN history
      PROVE  Rank(i) \in Nat /\ Rank(i) <= Total(history[i].by)
  <2>1. i \in Nat
    BY DEF Typed
  <2>2. Ticks(history[i].by, i) \in SUBSET Ticks(history[i].by, Len(history))
    BY DEF Typed, Ticks
  <2> QED BY Zenon, <1>1, <2>1, <2>2, TicksCounted, FS_Subset DEF Rank, Total
<1>4. \A i \in DOMAIN history : history[i].by \in Member
  BY DEF Typed, Op
<1> QED BY Zenon, <1>2, <1>3, <1>4

\* Ranks do not change, and an operation takes the next one of its replica.
LEMMA RanksGrow ==
    ASSUME Typed, NEW op \in Op, history' = Append(history, op)
    PROVE  /\ \A i \in DOMAIN history' : i \in DOMAIN history \/ i = Len(history) + 1
           /\ Len(history) + 1 \in DOMAIN history' /\ history'[Len(history) + 1] = op
           /\ \A i \in DOMAIN history :
                i \in DOMAIN history' /\ history'[i] = history[i] /\ Rank(i)' = Rank(i)
           /\ \A i : i = Len(history) + 1 => Rank(i)' = Total(op.by) + 1
           /\ \A q : Total(q)' = Total(q) + IF op.by = q THEN 1 ELSE 0
<1>1. /\ Len(history) \in Nat /\ DOMAIN history = 1 .. Len(history)
      /\ Len(history') = Len(history) + 1 /\ DOMAIN history' = 1 .. Len(history) + 1
      /\ \A i \in 1 .. Len(history) : history'[i] = history[i]
      /\ history'[Len(history) + 1] = op
  BY DEF Typed
<1> DEFINE After(r, n) == {j \in 1 .. n : history'[j].by = r}
           n1 == Len(history) + 1
<1>2. ASSUME NEW r, NEW n \in 0 .. Len(history)
      PROVE  After(r, n) = Ticks(r, n)
  BY <1>1 DEF Ticks
<1>3. /\ \A i : Rank(i)' = Cardinality(After(history'[i].by, i))
      /\ \A q : Total(q)' = Cardinality(After(q, n1))
  BY Zenon, <1>1 DEF Rank, Total, Ticks
<1>4. ASSUME NEW i \in DOMAIN history
      PROVE  Rank(i)' = Rank(i)
  <2>1. i \in 0 .. Len(history) /\ history'[i] = history[i]
    BY <1>1
  <2>2. After(history[i].by, i) = Ticks(history[i].by, i)
    BY Zenon, <1>2, <2>1
  <2> HIDE DEF After
  <2> QED BY Zenon, <1>3, <2>1, <2>2 DEF Rank
<1>5. ASSUME NEW q
      PROVE  Cardinality(After(q, n1)) = Total(q) + IF op.by = q THEN 1 ELSE 0
  <2>1. After(q, Len(history)) = Ticks(q, Len(history)) /\ n1 \notin Ticks(q, Len(history))
    BY <1>1, <1>2 DEF Ticks
  <2>2. IsFiniteSet(Ticks(q, Len(history))) /\ Total(q) \in Nat
    BY Zenon, <1>1, TicksCounted DEF Total
  <2>3. CASE op.by = q
    <3>1. After(q, n1) = Ticks(q, Len(history)) \cup {n1}
      BY <1>1, <2>1, <2>3
    <3>2. Cardinality(Ticks(q, Len(history)) \cup {n1}) = Total(q) + 1
      BY Zenon, <2>1, <2>2, FS_AddElement DEF Total
    <3> HIDE DEF After
    <3> QED BY <2>2, <2>3, <3>1, <3>2
  <2>4. CASE op.by # q
    <3>1. After(q, n1) = Ticks(q, Len(history))
      BY <1>1, <2>1, <2>4
    <3> HIDE DEF After
    <3> QED BY <2>2, <2>4, <3>1 DEF Total
  <2> QED BY Zenon, <2>3, <2>4
<1>6. /\ \A i \in DOMAIN history' : i \in DOMAIN history \/ i = n1
      /\ \A i \in DOMAIN history : i \in DOMAIN history'
      /\ n1 \in DOMAIN history'
  BY <1>1
<1> HIDE DEF After
<1>7. ASSUME NEW i, i = n1
      PROVE  Rank(i)' = Total(op.by) + 1
  BY <1>1, <1>3, <1>5, <1>7
<1> QED BY Zenon, <1>1, <1>3, <1>4, <1>5, <1>6, <1>7

\* A clock's increment is one tick of its replica.
LEMMA IncrementTicked ==
    ASSUME Typed, Ticked, kind = "clock", NEW r \in Member, NEW n \in Amounts, Increment(r, n)
    PROVE  Ticked'
<1> DEFINE op == [by |-> r, name |-> "inc", n |-> n]
           new == Len(history) + 1
<1>1. Operate(r, IncrementBy(reps[r], r, 1), op)
  <2>1. n = 1 /\ kind \in {"gcounter", "clock"} /\ kind # "pncounter"
    BY Zenon, KindsDiffer DEF Increment
  <2> QED BY Zenon, <2>1 DEF Increment
<1>2. op \in Op /\ op.by = r
  BY DEF Op
<1> HIDE DEF op
<1>3. /\ history' = Append(history, op) /\ kind' = kind
      /\ reps' = [reps EXCEPT ![r] = IncrementBy(reps[r], r, 1)]
      /\ seen' = [seen EXCEPT ![r] = @ \cup {new}]
  BY Zenon, <1>1 DEF Operate
<1>4. /\ Entries /\ RanksTaken /\ EntriesTell /\ DOMAIN reps = Member /\ DOMAIN seen = Member
      /\ \A q \in Member : Counts(reps[q]) /\ seen[q] \subseteq DOMAIN history
  BY Zenon DEF Ticked, Typed, GoodState
<1>5. 1 \in Nat \ {0}
  OBVIOUS
<1>6. \A x : Count(IncrementBy(reps[r], r, 1), x) = Count(reps[r], x) + (IF x = r THEN 1 ELSE 0)
  BY Zenon, <1>4, <1>5, IncrementCount
<1>7. /\ \A x : Count(reps'[r], x) = Count(reps[r], x) + (IF x = r THEN 1 ELSE 0)
      /\ seen'[r] = seen[r] \cup {new}
      /\ \A q \in Member : q # r => reps'[q] = reps[q] /\ seen'[q] = seen[q]
  BY Zenon, <1>3, <1>4, <1>6
<1>8. \A q, x \in Member : Count(reps[q], x) \in Nat
  BY Zenon, <1>4, CountType
<1>9. /\ \A q : Total(q) \in Nat
      /\ \A i \in DOMAIN history : /\ history[i].by \in Member
                                   /\ Rank(i) \in Nat /\ Rank(i) <= Total(history[i].by)
  BY Zenon, RankBounded
<1>10. /\ \A i \in DOMAIN history' : i \in DOMAIN history \/ i = new
       /\ new \in DOMAIN history' /\ history'[new] = op /\ new \notin DOMAIN history
       /\ \A i \in DOMAIN history :
             i \in DOMAIN history' /\ history'[i] = history[i] /\ Rank(i)' = Rank(i)
       /\ \A i : i = new => Rank(i)' = Total(r) + 1
       /\ \A q : Total(q)' = Total(q) + IF q = r THEN 1 ELSE 0
  <2>1. new \notin DOMAIN history
    BY DEF Typed
  <2> QED BY <1>2, <1>3, <2>1, RanksGrow
<1> HIDE DEF new
<1>11. \A q, x \in Member : /\ Count(reps[x], x) = Total(x)
                            /\ Count(reps[q], x) <= Total(x)
  BY Zenon, <1>4 DEF Entries
<1>12. Entries'
  <2> SUFFICES ASSUME NEW q \in Member, NEW x \in Member
               PROVE  Count(reps'[x], x) = Total(x)' /\ Count(reps'[q], x) <= Total(x)'
    BY Zenon DEF Entries
  <2>1. Count(reps'[x], x) = Total(x)'
    BY <1>7, <1>9, <1>10, <1>11
  <2>2. Count(reps'[q], x) <= Total(x)'
    BY <1>7, <1>8, <1>9, <1>10, <1>11
  <2> QED BY Zenon, <2>1, <2>2
<1>13. RanksTaken'
  <2> SUFFICES ASSUME NEW q \in Member, NEW k \in 1 .. Total(q)'
               PROVE  \E i \in DOMAIN history' : history'[i].by = q /\ Rank(i)' = k
    BY Zenon DEF RanksTaken
  <2>1. k \in 1 .. Total(q) \/ (q = r /\ k = Total(r) + 1)
    BY <1>9, <1>10
  <2>2. CASE k \in 1 .. Total(q)
    <3>1. PICK i \in DOMAIN history : history[i].by = q /\ Rank(i) = k
      BY Zenon, <1>4, <2>2 DEF RanksTaken
    <3> QED BY Zenon, <1>10, <3>1
  <2>3. CASE q = r /\ k = Total(r) + 1
    BY Zenon, <1>2, <1>10, <2>3
  <2> QED BY Zenon, <2>1, <2>2, <2>3
<1>14. EntriesTell'
  <2> SUFFICES ASSUME NEW q \in Member, NEW i \in DOMAIN history'
               PROVE  i \in seen'[q] <=> Rank(i)' <= Count(reps'[q], history'[i].by)
    BY Zenon DEF EntriesTell
  <2>1. CASE i \in DOMAIN history
    <3>1. /\ i # new /\ Rank(i)' = Rank(i) /\ history'[i].by = history[i].by
          /\ i \in seen[q] <=> Rank(i) <= Count(reps[q], history[i].by)
      BY Zenon, <1>4, <1>10, <2>1 DEF EntriesTell
    <3>2. i \in seen'[q] <=> i \in seen[q]
      BY Zenon, <1>7, <3>1
    <3>3. Rank(i) <= Count(reps'[q], history[i].by) <=> Rank(i) <= Count(reps[q], history[i].by)
      <4>1. CASE q = r /\ history[i].by = r
        BY <1>7, <1>8, <1>9, <1>11, <2>1, <4>1
      <4>2. CASE q = r /\ history[i].by # r
        BY <1>7, <1>8, <1>9, <2>1, <4>2
      <4>3. CASE q # r
        BY Zenon, <1>7, <4>3
      <4> QED BY Zenon, <4>1, <4>2, <4>3
    <3> QED BY Zenon, <3>1, <3>2, <3>3
  <2>2. CASE i = new
    <3>1. Rank(i)' = Total(r) + 1 /\ history'[i].by = r
      BY Zenon, <1>2, <1>10, <2>2
    <3>2. CASE q = r
      <4>1. Total(r) + 1 <= Count(reps'[r], r)
        BY <1>7, <1>9, <1>11
      <4> QED BY Zenon, <1>7, <2>2, <3>1, <3>2, <4>1
    <3>3. CASE q # r
      <4>1. ~(Total(r) + 1 <= Count(reps[q], r))
        BY <1>8, <1>9, <1>11
      <4>2. i \notin seen[q]
        BY Zenon, <1>4, <1>10, <2>2
      <4> QED BY Zenon, <1>7, <3>1, <3>3, <4>1, <4>2
    <3> QED BY Zenon, <3>2, <3>3
  <2> QED BY Zenon, <1>10, <2>1, <2>2
<1> QED BY Zenon, <1>12, <1>13, <1>14 DEF Ticked

\* A merge takes the larger entry, and unites what was seen.
LEMMA MergeTicked ==
    ASSUME Typed, Ticked, kind = "clock", MergePair
    PROVE  Ticked'
<1> SUFFICES ASSUME NEW i, NEW j, i = at[2], j = at[3]
             PROVE  Ticked'
  BY Zenon
<1>1. Merged /\ MergeStates(reps[i], reps[j]) = MergeCounts(reps[i], reps[j])
  BY Zenon, MergePairMerges, MergeOfKind
<1>2. /\ i \in Member /\ j \in Member
      /\ reps'[i] = MergeCounts(reps[i], reps[j]) /\ reps'[j] = MergeCounts(reps[i], reps[j])
      /\ seen'[i] = seen[i] \cup seen[j] /\ seen'[j] = seen[i] \cup seen[j]
      /\ \A q \in Member \ {i, j} : reps'[q] = reps[q] /\ seen'[q] = seen[q]
      /\ kind' = kind /\ history' = history
  BY Zenon, <1>1 DEF Merged
<1>3. Entries /\ RanksTaken /\ EntriesTell /\ \A q \in Member : Counts(reps[q])
  BY Zenon DEF Ticked, Typed, GoodState
<1>4. \A x : Count(MergeCounts(reps[i], reps[j]), x)
                = IF Count(reps[j], x) > Count(reps[i], x)
                  THEN Count(reps[j], x) ELSE Count(reps[i], x)
  BY <1>2, <1>3, MergeCount
<1>5. \A q, x \in Member : Count(reps[q], x) \in Nat
  BY Zenon, <1>3, CountType
<1>6. /\ \A q : Total(q) \in Nat
      /\ \A k \in DOMAIN history : history[k].by \in Member /\ Rank(k) \in Nat
  BY Zenon, RankBounded
<1>7. (\A q : Total(q)' = Total(q)) /\ (\A k : Rank(k)' = Rank(k))
  BY Zenon, <1>2 DEF Total, Rank, Ticks
<1>8. \A q, x \in Member : Count(reps[x], x) = Total(x) /\ Count(reps[q], x) <= Total(x)
  BY Zenon, <1>3 DEF Entries
<1>9. Entries'
  <2>1. \A x \in Member : /\ Count(MergeCounts(reps[i], reps[j]), x) <= Total(x)
                          /\ x \in {i, j} => Count(MergeCounts(reps[i], reps[j]), x) = Total(x)
    BY <1>2, <1>4, <1>5, <1>6, <1>8
  <2>2. \A q, x \in Member : Count(reps'[x], x) = Total(x) /\ Count(reps'[q], x) <= Total(x)
    BY Zenon, <1>2, <1>8, <2>1
  <2> QED BY Zenon, <1>7, <2>2 DEF Entries
<1>10. RanksTaken'
  BY Zenon, <1>2, <1>3, <1>7 DEF RanksTaken
<1>11. EntriesTell'
  <2> SUFFICES ASSUME NEW q \in Member, NEW k \in DOMAIN history
               PROVE  k \in seen'[q] <=> Rank(k) <= Count(reps'[q], history[k].by)
    BY Zenon, <1>2, <1>7 DEF EntriesTell
  <2>1. \A x \in Member : k \in seen[x] <=> Rank(k) <= Count(reps[x], history[k].by)
    BY Zenon, <1>3 DEF EntriesTell
  <2>2. CASE q \in {i, j}
    <3>1. k \in seen'[q] <=> k \in seen[i] \/ k \in seen[j]
      BY Zenon, <1>2, <2>2
    <3>2. Rank(k) <= Count(MergeCounts(reps[i], reps[j]), history[k].by)
            <=> \/ Rank(k) <= Count(reps[i], history[k].by)
                \/ Rank(k) <= Count(reps[j], history[k].by)
      BY <1>2, <1>4, <1>5, <1>6
    <3> QED BY Zenon, <1>2, <2>1, <2>2, <3>1, <3>2
  <2>3. CASE q \notin {i, j}
    BY Zenon, <1>2, <2>1, <2>3
  <2> QED BY Zenon, <2>2, <2>3
<1> QED BY Zenon, <1>9, <1>10, <1>11 DEF Ticked

\* Ticked is kept.
LEMMA TickedStep ==
    ASSUME Harness, Typed, Ticked, [Next]_vars
    PROVE  Ticked'
<1>1. kind' = kind
  BY Zenon, TypedStep
<1> SUFFICES ASSUME kind = "clock"
             PROVE  Ticked'
  BY Zenon, <1>1 DEF Ticked
<1>2. kind # "pncounter" /\ kind # "gset" /\ kind # "orset"
  BY Zenon, KindsDiffer
<1>3. removals = {}
  BY Zenon, <1>2 DEF Typed
<1>4. CASE StartSync \/ DropMessage \/ UNCHANGED vars
  <2>1. UNCHANGED <<kind, reps, history, seen>>
    BY Zenon, <1>4 DEF StartSync, DropMessage, vars
  <2>2. (\A q : Total(q)' = Total(q)) /\ (\A k : Rank(k)' = Rank(k))
    BY Zenon, <2>1 DEF Total, Rank, Ticks
  <2> QED BY Zenon, <2>1, <2>2 DEF Ticked, Entries, RanksTaken, EntriesTell
<1>5. CASE \E r \in Member, n \in Amounts : Increment(r, n) \/ Decrement(r, n)
  BY Zenon, <1>2, <1>5, IncrementTicked DEF Decrement
<1>6. CASE \E r \in Member, e \in Elements : Add(r, e) \/ Remove(r, e)
  BY Zenon, <1>2, <1>6 DEF Add, Remove
<1>7. CASE \E r \in Member, removal \in removals : DeliverRemove(r, removal)
  BY Zenon, <1>3, <1>7
<1> QED BY Zenon, <1>4, <1>5, <1>6, <1>7, MergeTicked DEF Next

\* At the start nothing is ranked.
LEMMA TickedInit ==
    ASSUME Harness, Init
    PROVE  Ticked
<1> SUFFICES ASSUME kind = "clock"
             PROVE  Entries /\ RanksTaken /\ EntriesTell
  BY Zenon DEF Ticked
<1>1. history = <<>> /\ \A r \in Member : reps[r] = NoCounts
  BY DEF Init, NewState
<1>2. Len(history) = 0 /\ DOMAIN history = {} /\ \A q : Ticks(q, 0) = {}
  BY <1>1 DEF Ticks
<1>3. \A q : Total(q) = 0
  BY Zenon, <1>2, FS_EmptySet DEF Total
<1>4. Entries
  BY <1>1, <1>3, NoCountsCount DEF Entries
<1>5. RanksTaken
  BY <1>3 DEF RanksTaken
<1>6. EntriesTell
  BY Zenon, <1>2 DEF EntriesTell
<1> QED BY Zenon, <1>4, <1>5, <1>6

\* happens_before and the equality of clocks, as comparisons of all entries.
LEMMA ClockComparisons ==
    ASSUME NEW c, NEW d, Counts(c), Counts(d)
    PROVE  /\ HappensBefore(c, d) <=> AtMost(c, d) /\ ~AtMost(d, c)
           /\ EqualCounts(c, d) <=> AtMost(c, d) /\ AtMost(d, c)
<1>1. \A x : Count(c, x) \in Nat /\ (x \in DOMAIN c <=> Count(c, x) # 0)
  BY Zenon, CountType
<1>2. \A x : Count(d, x) \in Nat /\ (x \in DOMAIN d <=> Count(d, x) # 0)
  BY Zenon, CountType
<1>3. DOMAIN c \subseteq Member /\ DOMAIN d \subseteq Member
  BY Zenon DEF Counts
<1>4. (\A x \in DOMAIN c : c[x] = Count(c, x)) /\ (\A x \in DOMAIN d : d[x] = Count(d, x))
  BY Zenon DEF Count
<1>5. (\A x \in DOMAIN c : c[x] <= Count(d, x)) <=> AtMost(c, d)
  BY <1>1, <1>2, <1>3, <1>4 DEF AtMost
<1>6. (\/ \E x \in DOMAIN c : c[x] < Count(d, x)
       \/ \E x \in DOMAIN d \ DOMAIN c : d[x] > 0)
        <=> \E x \in Member : Count(c, x) < Count(d, x)
  <2>1. ASSUME NEW x \in Member, Count(c, x) < Count(d, x)
        PROVE  \/ \E y \in DOMAIN c : c[y] < Count(d, y)
               \/ \E y \in DOMAIN d \ DOMAIN c : d[y] > 0
    <3>1. CASE x \in DOMAIN c
      BY Zenon, <1>4, <2>1, <3>1
    <3>2. CASE x \notin DOMAIN c
      <4>1. x \in DOMAIN d /\ Count(d, x) > 0
        BY <1>1, <1>2, <2>1, <3>2
      <4> QED BY Zenon, <1>4, <3>2, <4>1
    <3> QED BY Zenon, <3>1, <3>2
  <2>2. ASSUME NEW x \in DOMAIN c, c[x] < Count(d, x)
        PROVE  \E y \in Member : Count(c, y) < Count(d, y)
    BY Zenon, <1>3, <1>4, <2>2
  <2>3. ASSUME NEW x \in DOMAIN d \ DOMAIN c, d[x] > 0
        PROVE  \E y \in Member : Count(c, y) < Count(d, y)
    <3>1. Count(c, x) < Count(d, x)
      BY <1>1, <1>4, <2>3
    <3> QED BY Zenon, <1>3, <3>1
  <2> QED BY Zenon, <2>1, <2>2, <2>3
<1>7. (\E x \in Member : Count(c, x) < Count(d, x)) <=> ~AtMost(d, c)
  BY <1>1, <1>2 DEF AtMost
<1>8. EqualCounts(c, d) <=> AtMost(c, d) /\ AtMost(d, c)
  BY <1>1, <1>2, <1>3 DEF AtMost, EqualCounts
<1> QED BY Zenon, <1>5, <1>6, <1>7, <1>8 DEF HappensBefore

\* A vector clock decides causality: for any number of replicas and of merges,
\* happens_before, concurrent_with and equality say exactly whether what one
\* replica has seen is less than, other than or the same as what another has.
THEOREM ClocksDecide ==
    ASSUME Harness
    PROVE  Spec => []ClocksTellCausality
<1>1. Init => Typed /\ Ticked
  BY Zenon, TypedInit, TickedInit
<1>2. Typed /\ Ticked /\ [Next]_vars => Typed' /\ Ticked'
  BY Zenon, TypedStep, TickedStep
<1>3. ASSUME Typed, Ticked
      PROVE  ClocksTellCausality
  <2> SUFFICES ASSUME kind = "clock"
               PROVE  \A r, s \in Member :
                        /\ HappensBefore(reps[r], reps[s])
                            <=> (seen[r] \subseteq seen[s] /\ seen[r] # seen[s])
                        /\ EqualCounts(reps[r], reps[s]) <=> seen[r] = seen[s]
                        /\ ConcurrentWith(reps[r], reps[s])
                            <=> ~(seen[r] \subseteq seen[s]) /\ ~(seen[s] \subseteq seen[r])
    BY Zenon DEF ClocksTellCausality
  <2>1. /\ Entries /\ RanksTaken /\ EntriesTell
        /\ \A q \in Member : Counts(reps[q]) /\ seen[q] \subseteq DOMAIN history
    BY Zenon, <1>3 DEF Ticked, Typed, GoodState
  <2>2. ASSUME NEW r \in Member, NEW s \in Member
        PROVE  seen[r] \subseteq seen[s] <=> AtMost(reps[r], reps[s])
    <3>1. \A q \in Member : Count(reps[r], q) \in Nat /\ Count(reps[s], q) \in Nat
      BY Zenon, <2>1, CountType
    <3>2. \A k \in DOMAIN history : history[k].by \in Member /\ Rank(k) \in Nat
      BY Zenon, <1>3, RankBounded
    <3>3. ASSUME AtMost(reps[r], reps[s]), NEW k \in seen[r]
          PROVE  k \in seen[s]
      <4>1. k \in DOMAIN history /\ Rank(k) <= Count(reps[r], history[k].by)
        BY Zenon, <2>1 DEF EntriesTell
      <4>2. Rank(k) <= Count(reps[s], history[k].by)
        BY <3>1, <3>2, <3>3, <4>1 DEF AtMost
      <4> QED BY Zenon, <2>1, <4>1, <4>2 DEF EntriesTell
    <3>4. ASSUME seen[r] \subseteq seen[s], NEW q \in Member
          PROVE  Count(reps[r], q) <= Count(reps[s], q)
      <4>1. CASE Count(reps[r], q) = 0
        BY <3>1, <4>1
      <4>2. CASE Count(reps[r], q) # 0
        <5>1. Count(reps[r], q) \in 1 .. Total(q)
          BY <1>3, <2>1, <3>1, <4>2, RankBounded DEF Entries
        <5>2. PICK k \in DOMAIN history : history[k].by = q /\ Rank(k) = Count(reps[r], q)
          BY Zenon, <2>1, <5>1 DEF RanksTaken
        <5>3. Rank(k) <= Count(reps[r], history[k].by)
          BY <3>1, <5>2
        <5>4. k \in seen[s]
          BY Zenon, <2>1, <3>4, <5>3 DEF EntriesTell
        <5> QED BY Zenon, <2>1, <5>2, <5>4 DEF EntriesTell
      <4> QED BY Zenon, <4>1, <4>2
    <3> QED BY Zenon, <3>3, <3>4 DEF AtMost
  <2> SUFFICES ASSUME NEW r \in Member, NEW s \in Member
               PROVE  /\ HappensBefore(reps[r], reps[s])
                          <=> (seen[r] \subseteq seen[s] /\ seen[r] # seen[s])
                      /\ EqualCounts(reps[r], reps[s]) <=> seen[r] = seen[s]
                      /\ ConcurrentWith(reps[r], reps[s])
                          <=> ~(seen[r] \subseteq seen[s]) /\ ~(seen[s] \subseteq seen[r])
    BY Zenon
  <2>3. /\ seen[r] \subseteq seen[s] <=> AtMost(reps[r], reps[s])
        /\ seen[s] \subseteq seen[r] <=> AtMost(reps[s], reps[r])
    BY Zenon, <2>2
  <2>4. seen[r] = seen[s] <=> seen[r] \subseteq seen[s] /\ seen[s] \subseteq seen[r]
    OBVIOUS
  <2>5. /\ HappensBefore(reps[r], reps[s])
            <=> AtMost(reps[r], reps[s]) /\ ~AtMost(reps[s], reps[r])
        /\ HappensBefore(reps[s], reps[r])
            <=> AtMost(reps[s], reps[r]) /\ ~AtMost(reps[r], reps[s])
        /\ EqualCounts(reps[r], reps[s])
            <=> AtMost(reps[r], reps[s]) /\ AtMost(reps[s], reps[r])
    BY Zenon, <2>1, ClockComparisons
  <2> QED BY Zenon, <2>3, <2>4, <2>5 DEF ConcurrentWith
<1> QED BY <1>1, <1>2, <1>3, PTL DEF Spec
=============================================================================
