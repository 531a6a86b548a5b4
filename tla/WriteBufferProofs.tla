------------------------- MODULE WriteBufferProofs -------------------------
(***************************************************************************)
(* Proofs about WriteBuffer, for any number of deltas, of any weights, any *)
(* limits, any number of flushes and failed puts: three tasks flush one    *)
(* buffer, none overwrites or reorders what another has taken              *)
(* (FlushesInOrder), the counters agree with what was accepted             *)
(* (CountersAgree), and the persistence worker's last iteration leaves     *)
(* nothing behind (ShutdownLeavesNothing).                                 *)
(*                                                                         *)
(* Deltas are numbered as they are sent, so a smaller number is an earlier *)
(* delta. The inductive invariant follows them: Underway orders what has   *)
(* not been pushed, Segmented what has, and Ending says what each stage of *)
(* the persistence worker's end has achieved.                              *)
(***************************************************************************)
EXTENDS WriteBuffer, TLAPS

Places == {"loop", "push", "flush", "put", "done"}

Typed ==
    /\ sent \in Nat /\ due \in Nat /\ counter \in Nat
    /\ channel \in Seq(Nat) /\ batch \in Seq(Nat) /\ deltas \in Seq(Nat) /\ accepted \in Seq(Nat)
    /\ totals \in [deltas : Nat, segments : Nat]
    /\ pc \in [Tasks -> Places]
    /\ taken \in [Tasks -> [id : Nat, deltas : Seq(Nat)]]
    /\ stop \in [Workers -> BOOLEAN] /\ last \in [Workers -> BOOLEAN]
    /\ DOMAIN store \subseteq Nat /\ \A i \in DOMAIN store : store[i] \in Seq(Nat)
    /\ refused \subseteq Nat /\ lost \subseteq Nat

Increasing(s) == \A i, j \in DOMAIN s : i < j => s[i] < s[j]

Before(S, T) == \A d \in S, e \in T : d < e

\* What was sent is in the channel, drained, accepted or refused, and was sent
\* in the order of these stages.
Underway ==
    /\ Increasing(channel) /\ Increasing(batch)
    /\ Before(ToSet(batch), ToSet(channel))
    /\ Before(ToSet(accepted), ToSet(batch) \cup ToSet(channel))
    /\ 1 .. sent = ToSet(accepted) \cup refused \cup ToSet(batch) \cup ToSet(channel)

Putting == {t \in Tasks : pc[t] = "put"}

\* The segments that are stored, and those about to be.
Segments == {[id |-> i, deltas |-> store[i]] : i \in DOMAIN store} \cup {taken[t] : t \in Putting}

\* No number is used twice, and a segment of a smaller number holds earlier
\* deltas.
Segmented ==
    /\ ToSet(accepted) = ToSet(deltas) \cup InFlight \cup Stored \cup lost
    /\ totals.deltas + Len(deltas) = Len(accepted)
    /\ \A t \in Tasks \ Putting : taken[t] = Nothing
    /\ \A t \in Putting : taken[t].id \notin DOMAIN store
    /\ \A t, u \in Putting : t # u => taken[t].id # taken[u].id
    /\ \A x \in Segments : x.id < counter /\ Before(ToSet(x.deltas), ToSet(deltas))
    /\ \A x, y \in Segments : x.id < y.id => Before(ToSet(x.deltas), ToSet(y.deltas))

\* The last iteration has drained what was due; once it has taken the buffer,
\* nothing is pushed any more.
Ending ==
    /\ due <= sent
    /\ last["persist"] => stop["persist"] /\ \A d \in ToSet(channel) : due < d
    /\ pc["persist"] # "push" => batch = <<>>
    /\ pc["persist"] \in {"put", "done"} => deltas = <<>>
    /\ pc["persist"] = "done" => last["persist"]

IInv == Underway /\ Segmented /\ Ending

-----------------------------------------------------------------------------
(* Sequences. *)

\* A delta pushed onto a sequence joins its elements.
LEMMA AppendElements ==
    ASSUME NEW s \in Seq(Nat), NEW e \in Nat
    PROVE  /\ Append(s, e) \in Seq(Nat) /\ Len(Append(s, e)) = Len(s) + 1
           /\ ToSet(Append(s, e)) = ToSet(s) \cup {e}
           /\ Increasing(s) /\ Before(ToSet(s), {e}) => Increasing(Append(s, e))
<1>1. /\ Append(s, e) \in Seq(Nat) /\ Len(Append(s, e)) = Len(s) + 1
      /\ DOMAIN Append(s, e) = 1 .. Len(s) + 1 /\ DOMAIN s = 1 .. Len(s) /\ Len(s) \in Nat
      /\ \A i \in 1 .. Len(s) : Append(s, e)[i] = s[i]
      /\ Append(s, e)[Len(s) + 1] = e
  OBVIOUS
<1>2. ToSet(Append(s, e)) = ToSet(s) \cup {e}
  <2>1. \A x \in ToSet(Append(s, e)) : x \in ToSet(s) \cup {e}
    BY <1>1 DEF ToSet
  <2>2. \A x \in ToSet(s) \cup {e} : x \in ToSet(Append(s, e))
    BY <1>1 DEF ToSet
  <2> QED BY Zenon, <2>1, <2>2
<1>3. ASSUME Increasing(s), Before(ToSet(s), {e})
      PROVE  Increasing(Append(s, e))
  <2>1. \A i \in 1 .. Len(s) : s[i] < e
    BY <1>1, <1>3 DEF Before, ToSet
  <2> QED BY <1>1, <1>3, <2>1 DEF Increasing
<1> QED BY Zenon, <1>1, <1>2, <1>3

\* The first of a sequence is taken off it.
LEMMA TailElements ==
    ASSUME NEW s \in Seq(Nat), s # <<>>, Increasing(s)
    PROVE  /\ Head(s) \in Nat /\ Tail(s) \in Seq(Nat)
           /\ ToSet(s) = {Head(s)} \cup ToSet(Tail(s))
           /\ Increasing(Tail(s)) /\ Before({Head(s)}, ToSet(Tail(s)))
<1>1. /\ Len(s) \in Nat \ {0} /\ DOMAIN s = 1 .. Len(s) /\ Head(s) = s[1] /\ s[1] \in Nat
      /\ Tail(s) \in Seq(Nat) /\ DOMAIN Tail(s) = 1 .. Len(s) - 1
      /\ \A i \in 1 .. Len(s) - 1 : Tail(s)[i] = s[i + 1]
  OBVIOUS
<1>2. \A x \in ToSet(s) : x \in {Head(s)} \cup ToSet(Tail(s))
  <2> SUFFICES ASSUME NEW i \in 1 .. Len(s) PROVE s[i] \in {Head(s)} \cup ToSet(Tail(s))
    BY <1>1 DEF ToSet
  <2>1. CASE i = 1
    BY <1>1, <2>1
  <2>2. CASE i # 1
    <3>1. i - 1 \in DOMAIN Tail(s) /\ Tail(s)[i - 1] = s[i]
      BY <1>1, <2>2
    <3> QED BY <3>1 DEF ToSet
  <2> QED BY Zenon, <2>1, <2>2
<1>3. \A x \in {Head(s)} \cup ToSet(Tail(s)) : x \in ToSet(s)
  BY <1>1 DEF ToSet
<1>4. Increasing(Tail(s))
  <2> SUFFICES ASSUME NEW i \in 1 .. Len(s) - 1, NEW j \in 1 .. Len(s) - 1, i < j
               PROVE  Tail(s)[i] < Tail(s)[j]
    BY <1>1 DEF Increasing
  <2>1. i + 1 \in DOMAIN s /\ j + 1 \in DOMAIN s /\ i + 1 < j + 1
    BY <1>1
  <2> QED BY <1>1, <2>1 DEF Increasing
<1>5. Before({Head(s)}, ToSet(Tail(s)))
  BY <1>1 DEF Increasing, Before, ToSet
<1> QED BY Zenon, <1>1, <1>2, <1>3, <1>4, <1>5

\* The empty sequence has no elements.
LEMMA EmptyElements ==
    <<>> \in Seq(Nat) /\ Len(<<>>) = 0 /\ ToSet(<<>>) = {} /\ Increasing(<<>>)
BY DEF ToSet, Increasing

-----------------------------------------------------------------------------
(* The channel and the pushes. *)

segmentVars == <<deltas, accepted, counter, totals, taken, store, lost>>

\* A step that leaves the buffer and the segments alone keeps them in order.
LEMMA SegmentedKept ==
    ASSUME Segmented, UNCHANGED segmentVars, Putting' = Putting
    PROVE  Segmented'
<1>1. /\ deltas' = deltas /\ accepted' = accepted /\ counter' = counter /\ totals' = totals
      /\ taken' = taken /\ store' = store /\ lost' = lost
  BY Zenon DEF segmentVars
<1>2. Segments' = Segments /\ InFlight' = InFlight /\ Stored' = Stored
  BY Zenon, <1>1 DEF Segments, InFlight, Stored
<1> QED BY Zenon, <1>1, <1>2 DEF Segmented

\* A step that moves one task from a place that is not a put to another.
LEMMA PuttingKept ==
    ASSUME Typed, NEW t \in Tasks, NEW p \in Places, pc' = [pc EXCEPT ![t] = p],
           pc[t] # "put", p # "put"
    PROVE  Putting' = Putting /\ pc' \in [Tasks -> Places]
BY Zenon DEF Typed, Putting

\* A delta is sent: its number is above all the others.
LEMMA SendKeeps ==
    ASSUME Typed, IInv, Send
    PROVE  Typed' /\ IInv'
<1>1. /\ sent' = sent + 1 /\ channel' = Append(channel, sent + 1)
      /\ UNCHANGED <<batch, accepted, refused, pc, last, stop, due>> /\ UNCHANGED segmentVars
  BY Zenon DEF Send, buffer, flushing, segmentVars
<1>2. /\ sent + 1 \in Nat /\ channel \in Seq(Nat) /\ sent < sent + 1
      /\ 1 .. sent + 1 = (1 .. sent) \cup {sent + 1} /\ \A d \in 1 .. sent : d < sent + 1
  BY DEF Typed
<1>3. Typed'
  <2>1. sent' \in Nat /\ channel' \in Seq(Nat)
    BY Zenon, <1>1, <1>2, AppendElements
  <2> QED BY Zenon, <1>1, <2>1 DEF Typed, segmentVars
<1>4. /\ ToSet(channel') = ToSet(channel) \cup {sent + 1}
      /\ Increasing(channel) /\ Before(ToSet(channel), {sent + 1}) => Increasing(channel')
  BY Zenon, <1>1, <1>2, AppendElements
<1>5. Underway'
  <2>1. ToSet(channel) \cup ToSet(batch) \cup ToSet(accepted) \subseteq 1 .. sent
    BY Zenon DEF IInv, Underway
  <2>2. /\ Before(ToSet(channel), {sent + 1}) /\ Before(ToSet(batch), {sent + 1})
        /\ Before(ToSet(accepted), {sent + 1})
    BY Zenon, <1>2, <2>1 DEF Before
  <2>3. Increasing(channel')
    BY Zenon, <1>4, <2>2 DEF IInv, Underway
  <2>4. /\ Before(ToSet(batch), ToSet(channel'))
        /\ Before(ToSet(accepted), ToSet(batch) \cup ToSet(channel'))
    BY Zenon, <1>4, <2>2 DEF IInv, Underway, Before
  <2>5. 1 .. sent' = ToSet(accepted) \cup refused \cup ToSet(batch) \cup ToSet(channel')
    <3>1. 1 .. sent' = (1 .. sent) \cup {sent + 1}
      BY Zenon, <1>1, <1>2
    <3> QED BY Zenon, <3>1, <1>4 DEF IInv, Underway
  <2> QED BY Zenon, <1>1, <2>3, <2>4, <2>5 DEF IInv, Underway
<1>6. Segmented'
  BY Zenon, <1>1, SegmentedKept DEF IInv, Putting
<1>7. Ending'
  <2>1. due <= sent' /\ due < sent + 1
    BY <1>1 DEF Typed, IInv, Ending
  <2>2. \A d \in ToSet(channel') : d \in ToSet(channel) \/ d = sent + 1
    BY Zenon, <1>4
  <2>3. last["persist"] => stop["persist"] /\ \A d \in ToSet(channel') : due < d
    BY Zenon, <2>1, <2>2 DEF IInv, Ending
  <2> QED BY Zenon, <1>1, <2>1, <2>3 DEF IInv, Ending, segmentVars
<1> QED BY Zenon, <1>3, <1>5, <1>6, <1>7 DEF IInv

\* The worker's flag is set before it drains: what is due is what was sent.
LEMMA DrainKeeps ==
    ASSUME Typed, IInv, Drain
    PROVE  Typed' /\ IInv'
<1>1. /\ pc["persist"] = "loop" /\ pc' = [pc EXCEPT !["persist"] = "push"]
      /\ last' = [last EXCEPT !["persist"] = stop["persist"]]
      /\ batch' = channel /\ channel' = <<>>
      /\ UNCHANGED <<accepted, refused, stop, sent, due>> /\ UNCHANGED segmentVars
  BY Zenon DEF Drain, buffer, flushing, segmentVars
<1>2. /\ "persist" \in Tasks /\ "persist" \in Workers
      /\ "push" \in Places /\ "loop" # "put" /\ "push" # "put"
  BY DEF Tasks, Workers, Places
<1>3. Putting' = Putting /\ pc' \in [Tasks -> Places] /\ pc'["persist"] = "push"
  BY Zenon, <1>1, <1>2, PuttingKept DEF Typed
<1>4. last' \in [Workers -> BOOLEAN] /\ last'["persist"] = stop["persist"]
  BY Zenon, <1>1, <1>2 DEF Typed
<1>5. Typed'
  BY Zenon, <1>1, <1>3, <1>4, EmptyElements DEF Typed, segmentVars
<1>6. batch = <<>>
  BY <1>1 DEF IInv, Ending
<1>7. Underway'
  <2>1. Before(ToSet(batch'), ToSet(channel'))
    BY Zenon, <1>1, EmptyElements DEF Before
  <2>2. ToSet(batch') \cup ToSet(channel') = ToSet(batch) \cup ToSet(channel)
    BY Zenon, <1>1, <1>6, EmptyElements
  <2>3. 1 .. sent = ToSet(accepted) \cup refused \cup ToSet(batch') \cup ToSet(channel')
    BY Zenon, <2>2 DEF IInv, Underway
  <2>4. Increasing(batch') /\ Increasing(channel')
    BY Zenon, <1>1, EmptyElements DEF IInv, Underway
  <2> QED BY Zenon, <1>1, <2>1, <2>2, <2>3, <2>4 DEF IInv, Underway
<1>8. Segmented'
  BY Zenon, <1>1, <1>3, SegmentedKept DEF IInv
<1>9. Ending'
  <2>1. "push" \notin {"put", "done"}
    OBVIOUS
  <2> QED BY Zenon, <1>1, <1>3, <1>4, <2>1, EmptyElements DEF IInv, Ending
<1> QED BY Zenon, <1>5, <1>7, <1>8, <1>9 DEF IInv

\* What a segment holds was accepted.
LEMMA SegmentsAccepted ==
    ASSUME Segmented
    PROVE  \A x \in Segments : ToSet(x.deltas) \subseteq ToSet(accepted)
<1>1. \A i \in DOMAIN store : ToSet(store[i]) \subseteq ToSet(accepted)
  BY Zenon DEF Segmented, Stored
<1>2. \A t \in Tasks : ToSet(taken[t].deltas) \subseteq ToSet(accepted)
  BY Zenon DEF Segmented, InFlight
<1>3. \A i \in DOMAIN store : [id |-> i, deltas |-> store[i]].deltas = store[i]
  OBVIOUS
<1> QED BY Zenon, <1>1, <1>2, <1>3 DEF Segments, Putting

\* The next of the batch is accepted, after all that was accepted before it, or
\* refused.
LEMMA PushKeeps ==
    ASSUME Typed, IInv, Push
    PROVE  Typed' /\ IInv'
<1> DEFINE d == Head(batch)
<1>1. /\ pc["persist"] = "push" /\ batch # <<>> /\ batch' = Tail(batch)
      /\ UNCHANGED <<channel, pc, last, stop, sent, due>>
      /\ UNCHANGED <<counter, totals, taken, store, lost>>
  BY Zenon DEF Push, flushing
<1>2. \/ /\ deltas' = Append(deltas, d) /\ accepted' = Append(accepted, d) /\ refused' = refused
      \/ /\ UNCHANGED <<deltas, accepted>> /\ refused' = refused \cup {d}
  BY DEF Push, Pushed
<1>3. batch \in Seq(Nat) /\ Increasing(batch)
  BY Zenon DEF Typed, IInv, Underway
<1>4. /\ d \in Nat /\ Tail(batch) \in Seq(Nat) /\ ToSet(batch) = {d} \cup ToSet(Tail(batch))
      /\ Increasing(Tail(batch)) /\ Before({d}, ToSet(Tail(batch)))
  BY Zenon, <1>1, <1>3, TailElements
<1>5. deltas \in Seq(Nat) /\ accepted \in Seq(Nat)
  BY Zenon DEF Typed
<1>6. /\ Append(deltas, d) \in Seq(Nat) /\ Len(Append(deltas, d)) = Len(deltas) + 1
      /\ ToSet(Append(deltas, d)) = ToSet(deltas) \cup {d}
  BY Zenon, <1>4, <1>5, AppendElements
<1>7. /\ Append(accepted, d) \in Seq(Nat) /\ Len(Append(accepted, d)) = Len(accepted) + 1
      /\ ToSet(Append(accepted, d)) = ToSet(accepted) \cup {d}
  BY Zenon, <1>4, <1>5, AppendElements
<1>8. Typed'
  <2>1. deltas' \in Seq(Nat) /\ accepted' \in Seq(Nat) /\ refused' \subseteq Nat
    BY Zenon, <1>2, <1>4, <1>6, <1>7 DEF Typed
  <2> QED BY Zenon, <1>1, <1>4, <2>1 DEF Typed
<1>9. Underway'
  <2>1. ToSet(accepted') \subseteq ToSet(accepted) \cup {d}
    BY Zenon, <1>2, <1>7
  <2>2. ToSet(accepted') \cup refused' = ToSet(accepted) \cup refused \cup {d}
    BY Zenon, <1>2, <1>7
  <2>3. /\ Before(ToSet(Tail(batch)), ToSet(channel)) /\ Before({d}, ToSet(channel))
        /\ Before(ToSet(accepted), ToSet(Tail(batch)) \cup ToSet(channel))
    BY Zenon, <1>4 DEF IInv, Underway, Before
  <2>4. Before(ToSet(accepted'), ToSet(Tail(batch)) \cup ToSet(channel))
    BY Zenon, <1>4, <2>1, <2>3 DEF Before
  <2>5. 1 .. sent = ToSet(accepted') \cup refused' \cup ToSet(Tail(batch)) \cup ToSet(channel)
    BY Zenon, <1>4, <2>2 DEF IInv, Underway
  <2> QED BY Zenon, <1>1, <1>4, <2>3, <2>4, <2>5 DEF IInv, Underway
<1>10. Segmented'
  <2>1. CASE UNCHANGED <<deltas, accepted>>
    BY Zenon, <1>1, <2>1, SegmentedKept DEF IInv, segmentVars, Putting
  <2>2. CASE deltas' = Append(deltas, d) /\ accepted' = Append(accepted, d)
    <3>1. Putting' = Putting /\ Segments' = Segments /\ InFlight' = InFlight /\ Stored' = Stored
      BY Zenon, <1>1 DEF Putting, Segments, InFlight, Stored
    <3>2. ToSet(accepted') = ToSet(deltas') \cup InFlight \cup Stored \cup lost
      BY Zenon, <1>6, <1>7, <2>2 DEF IInv, Segmented
    <3>3. totals.deltas + Len(deltas') = Len(accepted')
      BY <1>5, <1>6, <1>7, <2>2 DEF IInv, Segmented, Typed
    <3>4. \A x \in Segments : Before(ToSet(x.deltas), ToSet(deltas'))
      <4>1. Before(ToSet(accepted), {d})
        BY Zenon, <1>4 DEF IInv, Underway, Before
      <4>2. \A x \in Segments : ToSet(x.deltas) \subseteq ToSet(accepted)
        BY Zenon, SegmentsAccepted DEF IInv
      <4>3. \A x \in Segments : Before(ToSet(x.deltas), ToSet(deltas))
        BY Zenon DEF IInv, Segmented
      <4> QED BY Zenon, <1>6, <2>2, <4>1, <4>2, <4>3 DEF Before
    <3> QED BY Zenon, <1>1, <3>1, <3>2, <3>3, <3>4 DEF IInv, Segmented
  <2> QED BY Zenon, <1>2, <2>1, <2>2
<1>11. Ending'
  <2>1. "push" \notin {"put", "done"}
    OBVIOUS
  <2> QED BY Zenon, <1>1, <2>1 DEF IInv, Ending
<1> QED BY Zenon, <1>8, <1>9, <1>10, <1>11 DEF IInv

-----------------------------------------------------------------------------
(* Steps that only move a task, or set a flag. *)

queueVars == <<channel, batch, accepted, refused, sent, due, stop>>

\* The persistence worker goes from its pushes to its flush or back; the others
\* begin a flush; a flush finds nothing to take.
LEMMA MoveKeeps ==
    ASSUME Typed, IInv, NEW t \in Tasks, NEW p \in Places, pc' = [pc EXCEPT ![t] = p],
           pc[t] # "put", p # "put", UNCHANGED queueVars, UNCHANGED segmentVars,
           last' \in [Workers -> BOOLEAN], last'["persist"] = last["persist"],
           t = "persist" => /\ p # "push" /\ batch = <<>>
                            /\ p = "done" => deltas = <<>> /\ last["persist"]
    PROVE  Typed' /\ IInv'
<1>1. Putting' = Putting /\ pc' \in [Tasks -> Places]
  BY Zenon, PuttingKept
<1>2. /\ channel' = channel /\ batch' = batch /\ accepted' = accepted /\ refused' = refused
      /\ sent' = sent /\ due' = due /\ stop' = stop
  BY Zenon DEF queueVars
<1>3. Typed'
  BY Zenon, <1>1, <1>2 DEF Typed, segmentVars
<1>4. Underway'
  BY Zenon, <1>2 DEF IInv, Underway
<1>5. Segmented'
  BY Zenon, <1>1, SegmentedKept DEF IInv
<1>6. Ending'
  <2>1. deltas' = deltas /\ "persist" \in Tasks
    BY Zenon DEF segmentVars, Tasks, Workers
  <2>2. CASE t = "persist"
    <3>1. pc'["persist"] = p
      BY Zenon, <2>1, <2>2 DEF Typed
    <3> QED BY <1>2, <2>1, <2>2, <3>1 DEF IInv, Ending
  <2>3. CASE t # "persist"
    <3>1. pc'["persist"] = pc["persist"]
      BY Zenon, <2>1, <2>3 DEF Typed
    <3> QED BY Zenon, <1>2, <2>1, <3>1 DEF IInv, Ending
  <2> QED BY Zenon, <2>2, <2>3
<1> QED BY Zenon, <1>3, <1>4, <1>5, <1>6 DEF IInv

\* The steps that only move a task.
LEMMA MovesKeep ==
    ASSUME Typed, IInv, Pushes \/ CheckFlush \/ AskFlush \/ \E t \in Tasks : TakeNothing(t)
    PROVE  Typed' /\ IInv'
<1>1. /\ {"loop", "push", "flush", "done"} \subseteq Places
      /\ "put" \notin {"loop", "push", "flush", "done"}
      /\ Tasks = {"persist", "flush", "caller"} /\ Workers = {"persist", "flush"}
      /\ "flush" # "persist" /\ "caller" # "persist" /\ "push" \notin {"loop", "flush", "done"}
      /\ "done" \notin {"loop", "flush"} /\ last \in [Workers -> BOOLEAN]
  BY DEF Places, Tasks, Workers, Typed
<1>2. CASE Pushes
  <2>1. PICK p \in {"loop", "flush"} : pc' = [pc EXCEPT !["persist"] = p]
    BY Zenon, <1>2 DEF Pushes
  <2>2. /\ pc["persist"] = "push" /\ batch = <<>> /\ UNCHANGED last
        /\ UNCHANGED queueVars /\ UNCHANGED segmentVars
    BY Zenon, <1>2 DEF Pushes, buffer, flushing, queueVars, segmentVars
  <2>3. p \in Places /\ p # "put" /\ p # "push" /\ p # "done" /\ pc["persist"] # "put"
    BY Zenon, <1>1, <2>1, <2>2
  <2> QED BY Zenon, <1>1, <2>1, <2>2, <2>3, MoveKeeps
<1>3. CASE CheckFlush
  <2>1. /\ pc["flush"] = "loop" /\ pc' = [pc EXCEPT !["flush"] = "flush"]
        /\ last' = [last EXCEPT !["flush"] = stop["flush"]]
        /\ UNCHANGED queueVars /\ UNCHANGED segmentVars
    BY Zenon, <1>3 DEF CheckFlush, buffer, flushing, queueVars, segmentVars
  <2>2. last' \in [Workers -> BOOLEAN] /\ last'["persist"] = last["persist"]
    BY Zenon, <1>1, <2>1 DEF Typed
  <2>3. "flush" \in Places /\ "flush" \in Tasks /\ pc["flush"] # "put" /\ "flush" # "put"
    BY Zenon, <1>1, <2>1
  <2> QED BY Zenon, <1>1, <2>1, <2>2, <2>3, MoveKeeps
<1>4. CASE AskFlush
  <2>1. /\ pc["caller"] = "loop" /\ pc' = [pc EXCEPT !["caller"] = "flush"] /\ UNCHANGED last
        /\ UNCHANGED queueVars /\ UNCHANGED segmentVars
    BY Zenon, <1>4 DEF AskFlush, buffer, flushing, queueVars, segmentVars
  <2>2. "flush" \in Places /\ "caller" \in Tasks /\ pc["caller"] # "put" /\ "flush" # "put"
    BY Zenon, <1>1, <2>1
  <2> QED BY Zenon, <1>1, <2>1, <2>2, MoveKeeps
<1>5. ASSUME NEW t \in Tasks, TakeNothing(t)
      PROVE  Typed' /\ IInv'
  <2>1. /\ pc[t] = "flush" /\ deltas = <<>> /\ pc' = [pc EXCEPT ![t] = AfterFlush(t)]
        /\ UNCHANGED last /\ UNCHANGED queueVars /\ UNCHANGED segmentVars
    BY Zenon, <1>5 DEF TakeNothing, buffer, flushing, queueVars, segmentVars
  <2>2. AfterFlush(t) \in {"loop", "done"} /\ (AfterFlush(t) = "done" => t \in Workers /\ last[t])
    BY Zenon, <1>1 DEF AfterFlush
  <2>3. /\ AfterFlush(t) \in Places /\ pc[t] # "put" /\ AfterFlush(t) # "put"
        /\ AfterFlush(t) # "push"
    BY Zenon, <1>1, <2>1, <2>2
  <2>4. t = "persist" => batch = <<>>
    BY <2>1 DEF IInv, Ending
  <2> QED BY Zenon, <1>1, <2>1, <2>2, <2>3, <2>4, MoveKeeps
<1> QED BY Zenon, <1>2, <1>3, <1>4, <1>5

\* Time passes.
LEMMA IntervalKeeps ==
    ASSUME Typed, IInv, IntervalPasses
    PROVE  Typed' /\ IInv'
<1>1. UNCHANGED queueVars /\ UNCHANGED segmentVars /\ UNCHANGED <<pc, last>>
  BY Zenon DEF IntervalPasses, buffer, queueVars, segmentVars
<1>2. Typed'
  BY Zenon, <1>1 DEF Typed, queueVars, segmentVars
<1>3. Underway'
  BY Zenon, <1>1 DEF IInv, Underway, queueVars
<1>4. Segmented'
  BY Zenon, <1>1, SegmentedKept DEF IInv, Putting
<1>5. Ending'
  BY Zenon, <1>1 DEF IInv, Ending, queueVars, segmentVars
<1> QED BY Zenon, <1>2, <1>3, <1>4, <1>5 DEF IInv

\* A flag is set; the last iteration of the worker has not begun.
LEMMA ShutdownKeeps ==
    ASSUME Typed, IInv, NEW t \in Workers, Shutdown(t)
    PROVE  Typed' /\ IInv'
<1>1. /\ ~stop[t] /\ stop' = [stop EXCEPT ![t] = TRUE]
      /\ due' = IF t = "persist" THEN sent ELSE due
      /\ UNCHANGED <<channel, batch, accepted, refused, pc, last, sent>> /\ UNCHANGED segmentVars
  BY Zenon DEF Shutdown, buffer, flushing, segmentVars
<1>2. /\ stop' \in [Workers -> BOOLEAN] /\ due' \in Nat
      /\ stop["persist"] => stop'["persist"]
  BY Zenon, <1>1 DEF Typed, Workers
<1>3. Typed'
  BY Zenon, <1>1, <1>2 DEF Typed, segmentVars
<1>4. Underway'
  BY Zenon, <1>1 DEF IInv, Underway
<1>5. Segmented'
  BY Zenon, <1>1, SegmentedKept DEF IInv, Putting
<1>6. Ending'
  <2>1. due' <= sent
    BY <1>1 DEF IInv, Ending, Typed
  <2>2. last["persist"] => due' = due
    BY Zenon, <1>1 DEF IInv, Ending
  <2> QED BY Zenon, <1>1, <1>2, <2>1, <2>2 DEF IInv, Ending, segmentVars
<1> QED BY Zenon, <1>3, <1>4, <1>5, <1>6 DEF IInv

-----------------------------------------------------------------------------
(* A flush takes the buffer and lands. *)

\* A flush takes what is buffered, under the next number: all of it is later
\* than what the other segments hold.
LEMMA TakeKeeps ==
    ASSUME Typed, IInv, NEW t \in Tasks, Take(t)
    PROVE  Typed' /\ IInv'
<1> DEFINE new == [id |-> counter, deltas |-> deltas]
<1>1. /\ pc[t] = "flush" /\ pc' = [pc EXCEPT ![t] = "put"]
      /\ taken' = [taken EXCEPT ![t] = new] /\ deltas' = <<>> /\ counter' = counter + 1
      /\ totals' = [totals EXCEPT !.deltas = @ + Len(deltas)]
      /\ UNCHANGED <<store, lost, last>> /\ UNCHANGED queueVars
  BY Zenon DEF Take, queueVars
<1>2. /\ counter \in Nat /\ deltas \in Seq(Nat) /\ Len(deltas) \in Nat
      /\ totals \in [deltas : Nat, segments : Nat]
  BY DEF Typed
<1>3. new \in [id : Nat, deltas : Seq(Nat)] /\ new.id = counter /\ new.deltas = deltas
  BY <1>2
<1> HIDE DEF new
<1>4. /\ totals' \in [deltas : Nat, segments : Nat] /\ counter' \in Nat
      /\ totals'.deltas = totals.deltas + Len(deltas)
  BY <1>1, <1>2
<1>5. "put" \in Places /\ t \notin Putting
  BY <1>1 DEF Places, Putting
<1>6. /\ pc' \in [Tasks -> Places] /\ Putting' = Putting \cup {t}
      /\ taken' \in [Tasks -> [id : Nat, deltas : Seq(Nat)]]
      /\ taken'[t] = new /\ \A u \in Tasks \ {t} : taken'[u] = taken[u]
  <2>1. pc' \in [Tasks -> Places] /\ pc'[t] = "put" /\ \A u \in Tasks \ {t} : pc'[u] = pc[u]
    BY Zenon, <1>1, <1>5 DEF Typed
  <2>2. Putting' = Putting \cup {t}
    BY Zenon, <2>1 DEF Putting
  <2>3. /\ taken' \in [Tasks -> [id : Nat, deltas : Seq(Nat)]]
        /\ taken'[t] = new /\ \A u \in Tasks \ {t} : taken'[u] = taken[u]
    BY Zenon, <1>1, <1>3 DEF Typed
  <2> QED BY Zenon, <2>1, <2>2, <2>3
<1>7. Typed'
  BY Zenon, <1>1, <1>4, <1>6, EmptyElements DEF Typed, queueVars
<1>8. Underway'
  BY Zenon, <1>1 DEF IInv, Underway, queueVars
<1>9. taken[t] = Nothing /\ ToSet(taken[t].deltas) = {}
  <2>1. taken[t] = Nothing
    BY Zenon, <1>5 DEF IInv, Segmented
  <2> QED BY <2>1, EmptyElements DEF Nothing
<1>10. InFlight' = InFlight \cup ToSet(deltas) /\ Stored' = Stored
  <2>1. InFlight' = UNION {ToSet(taken'[u].deltas) : u \in Tasks} /\ Stored' = Stored
    BY Zenon, <1>1 DEF InFlight, Stored
  <2>2. \A x \in InFlight' : x \in InFlight \cup ToSet(deltas)
    BY Zenon, <1>3, <1>6, <2>1 DEF InFlight
  <2>3. \A x \in InFlight : x \in InFlight'
    BY Zenon, <1>6, <1>9, <2>1 DEF InFlight
  <2>4. \A x \in ToSet(deltas) : x \in InFlight'
    BY Zenon, <1>3, <1>6, <2>1
  <2> QED BY Zenon, <2>1, <2>2, <2>3, <2>4
<1>11. Segments' = Segments \cup {new}
  <2>1. \A u \in Putting : u \in Tasks \ {t} /\ taken'[u] = taken[u]
    BY Zenon, <1>5, <1>6 DEF Putting
  <2>2. {taken'[u] : u \in Putting'} = {taken[u] : u \in Putting} \cup {new}
    BY Zenon, <1>6, <2>1
  <2> QED BY Zenon, <1>1, <2>2 DEF Segments
<1>12. Segmented'
  <2>1. ToSet(accepted') = ToSet(deltas') \cup InFlight' \cup Stored' \cup lost'
    BY Zenon, <1>1, <1>10, EmptyElements DEF IInv, Segmented, queueVars
  <2>2. totals'.deltas + Len(deltas') = Len(accepted')
    <3>1. accepted' = accepted /\ totals.deltas + Len(deltas) = Len(accepted)
      BY Zenon, <1>1 DEF IInv, Segmented, queueVars
    <3> QED BY <1>1, <1>2, <1>4, <3>1
  <2>3. \A u \in Tasks \ Putting' : taken'[u] = Nothing
    BY Zenon, <1>6 DEF IInv, Segmented
  <2>4. /\ \A i \in DOMAIN store : i \in Nat /\ i < counter
        /\ \A u \in Putting : taken[u].id \in Nat /\ taken[u].id < counter
    <3>1. \A i \in DOMAIN store : [id |-> i, deltas |-> store[i]].id = i
      OBVIOUS
    <3>2. \A u \in Putting : taken[u].id \in Nat
      BY DEF Typed, Putting
    <3> QED BY Zenon, <3>1, <3>2 DEF IInv, Segmented, Segments, Typed
  <2>5. counter \notin DOMAIN store /\ \A u \in Putting : taken[u].id # counter
    BY <1>2, <2>4
  <2>6. \A u \in Putting' : taken'[u].id \notin DOMAIN store'
    BY Zenon, <1>1, <1>3, <1>6, <2>5 DEF IInv, Segmented, Putting
  <2>7. \A u, v \in Putting' : u # v => taken'[u].id # taken'[v].id
    <3>1. \A u \in Putting : taken'[u] = taken[u]
      BY Zenon, <1>5, <1>6 DEF Putting
    <3>2. \A u, v \in Putting : u # v => taken[u].id # taken[v].id
      BY Zenon DEF IInv, Segmented
    <3>3. \A u \in Putting : taken[u].id # taken'[t].id
      BY Zenon, <1>3, <1>6, <2>5
    <3> SUFFICES ASSUME NEW u \in Putting', NEW v \in Putting', u # v
                 PROVE  taken'[u].id # taken'[v].id
      BY Zenon
    <3>4. CASE u = t
      BY Zenon, <1>6, <3>1, <3>3, <3>4
    <3>5. CASE v = t
      BY Zenon, <1>6, <3>1, <3>3, <3>5
    <3>6. CASE u \in Putting /\ v \in Putting
      BY Zenon, <3>1, <3>2, <3>6
    <3> QED BY Zenon, <1>6, <3>4, <3>5, <3>6
  <2>8. \A x \in Segments : x.id \in Nat /\ x.id < counter
    <3>1. \A i \in DOMAIN store : [id |-> i, deltas |-> store[i]].id = i
      OBVIOUS
    <3> QED BY Zenon, <2>4, <3>1 DEF Segments
  <2>9. \A x \in Segments' : x.id < counter' /\ Before(ToSet(x.deltas), ToSet(deltas'))
    <3>1. \A x \in Segments' : x.id < counter'
      BY <1>1, <1>2, <1>3, <1>11, <2>8
    <3>2. ToSet(deltas') = {}
      BY Zenon, <1>1, EmptyElements
    <3> QED BY Zenon, <3>1, <3>2 DEF Before
  <2>10. \A x, y \in Segments' : x.id < y.id => Before(ToSet(x.deltas), ToSet(y.deltas))
    <3> SUFFICES ASSUME NEW x \in Segments', NEW y \in Segments', x.id < y.id
                 PROVE  Before(ToSet(x.deltas), ToSet(y.deltas))
      BY Zenon
    <3>1. x \in Segments
      BY <1>2, <1>3, <1>11, <2>8
    <3>2. CASE y \in Segments
      BY Zenon, <3>1, <3>2 DEF IInv, Segmented
    <3>3. CASE y = new
      BY Zenon, <1>3, <3>1, <3>3 DEF IInv, Segmented
    <3> QED BY Zenon, <1>11, <3>2, <3>3
  <2> QED BY Zenon, <2>1, <2>2, <2>3, <2>6, <2>7, <2>9, <2>10 DEF Segmented
<1>13. Ending'
  <2>1. pc'["persist"] # "push" => batch = <<>>
    BY <1>1 DEF IInv, Ending, Typed
  <2>2. pc'["persist"] = "done" => pc["persist"] = "done"
    BY <1>1 DEF Typed
  <2> QED BY Zenon, <1>1, <2>1, <2>2 DEF IInv, Ending, queueVars
<1> QED BY Zenon, <1>7, <1>8, <1>12, <1>13 DEF IInv

\* A flush ends, with the put done or failed.
LEMMA LandedKeeps ==
    ASSUME Typed, IInv, NEW t \in Tasks, pc[t] = "put",
           pc' = [pc EXCEPT ![t] = AfterFlush(t)], taken' = [taken EXCEPT ![t] = Nothing],
           UNCHANGED <<deltas, last>>, UNCHANGED queueVars
    PROVE  /\ pc' \in [Tasks -> Places] /\ Putting' = Putting \ {t}
           /\ taken' \in [Tasks -> [id : Nat, deltas : Seq(Nat)]]
           /\ taken'[t] = Nothing /\ \A u \in Tasks \ {t} : taken'[u] = taken[u]
           /\ InFlight = InFlight' \cup ToSet(taken[t].deltas)
           /\ Underway' /\ Ending'
<1>1. /\ AfterFlush(t) \in {"loop", "done"} /\ (AfterFlush(t) = "done" => t \in Workers /\ last[t])
      /\ {"loop", "done"} \subseteq Places /\ "put" \notin {"loop", "done"}
  BY DEF AfterFlush, Places
<1>2. /\ pc' \in [Tasks -> Places] /\ pc'[t] = AfterFlush(t)
      /\ \A u \in Tasks \ {t} : pc'[u] = pc[u]
  BY Zenon, <1>1 DEF Typed
<1>3. Putting' = Putting \ {t}
  BY Zenon, <1>1, <1>2 DEF Putting
<1>4. Nothing \in [id : Nat, deltas : Seq(Nat)] /\ ToSet(Nothing.deltas) = {}
  BY EmptyElements DEF Nothing
<1>5. /\ taken' \in [Tasks -> [id : Nat, deltas : Seq(Nat)]]
      /\ taken'[t] = Nothing /\ \A u \in Tasks \ {t} : taken'[u] = taken[u]
  BY Zenon, <1>4 DEF Typed
<1>6. InFlight = InFlight' \cup ToSet(taken[t].deltas)
  <2>1. InFlight' = UNION {ToSet(taken'[u].deltas) : u \in Tasks}
    BY Zenon DEF InFlight
  <2>2. \A x \in InFlight : x \in InFlight' \cup ToSet(taken[t].deltas)
    BY Zenon, <1>5, <2>1 DEF InFlight
  <2>3. \A x \in InFlight' : x \in InFlight
    <3>1. \A u \in Tasks : ToSet(taken'[u].deltas) \subseteq ToSet(taken[u].deltas)
      BY Zenon, <1>4, <1>5
    <3> QED BY Zenon, <2>1, <3>1 DEF InFlight
  <2>4. \A x \in ToSet(taken[t].deltas) : x \in InFlight
    BY Zenon DEF InFlight
  <2> QED BY Zenon, <2>2, <2>3, <2>4
<1>7. Underway'
  BY Zenon DEF IInv, Underway, queueVars
<1>8. Ending'
  <2>1. CASE t = "persist"
    <3>1. batch = <<>> /\ deltas = <<>>
      BY <2>1 DEF IInv, Ending
    <3> QED BY Zenon, <1>1, <1>2, <2>1, <3>1 DEF IInv, Ending, queueVars
  <2>2. CASE t # "persist"
    <3>1. pc'["persist"] = pc["persist"]
      BY Zenon, <1>2, <2>2 DEF Tasks, Workers
    <3> QED BY Zenon, <3>1 DEF IInv, Ending, queueVars
  <2> QED BY Zenon, <2>1, <2>2
<1> QED BY Zenon, <1>2, <1>3, <1>5, <1>6, <1>7, <1>8

\* The segment is stored under a number no other has.
LEMMA PutKeeps ==
    ASSUME Typed, IInv, NEW t \in Tasks, Put(t)
    PROVE  Typed' /\ IInv'
<1> DEFINE id == taken[t].id
           new == taken[t].deltas
<1>1. /\ pc[t] = "put" /\ pc' = [pc EXCEPT ![t] = AfterFlush(t)]
      /\ taken' = [taken EXCEPT ![t] = Nothing]
      /\ store' = [i \in DOMAIN store \cup {id} |-> IF i = id THEN new ELSE store[i]]
      /\ totals' = [totals EXCEPT !.segments = @ + 1]
      /\ UNCHANGED <<deltas, last, counter, lost>> /\ UNCHANGED queueVars
  BY Zenon DEF Put, buffer, queueVars
<1>2. /\ pc' \in [Tasks -> Places] /\ Putting' = Putting \ {t}
      /\ taken' \in [Tasks -> [id : Nat, deltas : Seq(Nat)]]
      /\ taken'[t] = Nothing /\ \A u \in Tasks \ {t} : taken'[u] = taken[u]
      /\ InFlight = InFlight' \cup ToSet(new)
      /\ Underway' /\ Ending'
  BY Zenon, <1>1, LandedKeeps
<1>3. t \in Putting /\ id \notin DOMAIN store
  BY Zenon, <1>1 DEF IInv, Segmented, Putting
<1>4. taken[t] \in [id : Nat, deltas : Seq(Nat)] /\ taken[t] = [id |-> id, deltas |-> new]
  <2>1. taken[t] \in [id : Nat, deltas : Seq(Nat)]
    BY Zenon DEF Typed
  <2> QED BY <2>1
<1>5. id \in Nat /\ new \in Seq(Nat)
  BY <1>4
<1>6. totals' \in [deltas : Nat, segments : Nat] /\ totals'.deltas = totals.deltas
  <2>1. totals \in [deltas : Nat, segments : Nat]
    BY Zenon DEF Typed
  <2> QED BY <1>1, <2>1
<1>7. taken[t] = [id |-> id, deltas |-> new]
  BY Zenon, <1>4
<1> HIDE DEF id, new
<1>8. /\ DOMAIN store' = DOMAIN store \cup {id} /\ store'[id] = new
      /\ \A i \in DOMAIN store : store'[i] = store[i]
  BY Zenon, <1>1, <1>3
<1>9. Typed'
  <2>1. DOMAIN store' \subseteq Nat /\ \A i \in DOMAIN store' : store'[i] \in Seq(Nat)
    BY Zenon, <1>5, <1>8 DEF Typed
  <2> QED BY Zenon, <1>1, <1>2, <1>6, <2>1 DEF Typed, queueVars
<1>10. Stored' = Stored \cup ToSet(new)
  <2>1. Stored' = UNION {ToSet(store'[i]) : i \in DOMAIN store'}
    BY Zenon DEF Stored
  <2>2. \A x \in Stored' : x \in Stored \cup ToSet(new)
    BY Zenon, <1>8, <2>1 DEF Stored
  <2>3. \A x \in Stored \cup ToSet(new) : x \in Stored'
    BY Zenon, <1>8, <2>1 DEF Stored
  <2> QED BY Zenon, <2>2, <2>3
<1>11. Segments' = Segments
  <2>1. Segments' = {[id |-> i, deltas |-> store'[i]] : i \in DOMAIN store'}
                        \cup {taken'[u] : u \in Putting'}
    BY Zenon DEF Segments
  <2>2. \A u \in Putting' : u \in Putting /\ taken'[u] = taken[u]
    BY Zenon, <1>2 DEF Putting
  <2>3. \A x \in Segments' : x \in Segments
    <3>1. \A u \in Putting' : taken'[u] \in Segments
      BY Zenon, <2>2 DEF Segments
    <3>2. taken[t] \in Segments
      BY Zenon, <1>3 DEF Segments
    <3>3. \A i \in DOMAIN store : [id |-> i, deltas |-> store'[i]] \in Segments
      BY Zenon, <1>8 DEF Segments
    <3>4. [id |-> id, deltas |-> store'[id]] \in Segments
      BY Zenon, <1>7, <1>8, <3>2
    <3> QED BY Zenon, <1>8, <2>1, <3>1, <3>3, <3>4
  <2>4. \A u \in Putting : u = t \/ (u \in Putting' /\ taken'[u] = taken[u])
    BY Zenon, <1>2 DEF Putting
  <2>5. \A x \in Segments : x \in Segments'
    BY Zenon, <1>7, <1>8, <2>1, <2>4 DEF Segments
  <2> QED BY Zenon, <2>3, <2>5
<1>12. Segmented'
  <2>1. ToSet(accepted') = ToSet(deltas') \cup InFlight' \cup Stored' \cup lost'
    BY Zenon, <1>1, <1>2, <1>10 DEF IInv, Segmented, queueVars
  <2>2. totals'.deltas + Len(deltas') = Len(accepted')
    BY Zenon, <1>1, <1>6 DEF IInv, Segmented, queueVars
  <2>3. \A u \in Tasks \ Putting' : taken'[u] = Nothing
    BY Zenon, <1>2 DEF IInv, Segmented
  <2>4. \A u \in Putting' : u \in Putting /\ u # t /\ taken'[u] = taken[u]
    BY Zenon, <1>2 DEF Putting
  <2>5. \A u \in Putting' : taken'[u].id \notin DOMAIN store'
    BY Zenon, <1>3, <1>8, <2>4 DEF IInv, Segmented, id
  <2>6. \A u, v \in Putting' : u # v => taken'[u].id # taken'[v].id
    BY Zenon, <2>4 DEF IInv, Segmented
  <2> QED BY Zenon, <1>1, <1>11, <2>1, <2>2, <2>3, <2>5, <2>6 DEF IInv, Segmented
<1> QED BY Zenon, <1>2, <1>9, <1>12 DEF IInv

\* A failed put loses its deltas and no others.
LEMMA PutFailsKeeps ==
    ASSUME Typed, IInv, NEW t \in Tasks, PutFails(t)
    PROVE  Typed' /\ IInv'
<1>1. /\ pc[t] = "put" /\ pc' = [pc EXCEPT ![t] = AfterFlush(t)]
      /\ taken' = [taken EXCEPT ![t] = Nothing] /\ lost' = lost \cup ToSet(taken[t].deltas)
      /\ UNCHANGED <<deltas, last, counter, totals, store>> /\ UNCHANGED queueVars
  BY Zenon DEF PutFails, buffer, queueVars
<1>2. /\ pc' \in [Tasks -> Places] /\ Putting' = Putting \ {t}
      /\ taken' \in [Tasks -> [id : Nat, deltas : Seq(Nat)]]
      /\ taken'[t] = Nothing /\ \A u \in Tasks \ {t} : taken'[u] = taken[u]
      /\ InFlight = InFlight' \cup ToSet(taken[t].deltas)
      /\ Underway' /\ Ending'
  BY Zenon, <1>1, LandedKeeps
<1>3. Typed'
  <2>1. taken[t] \in [id : Nat, deltas : Seq(Nat)]
    BY Zenon DEF Typed
  <2>2. ToSet(taken[t].deltas) \subseteq Nat
    BY <2>1 DEF ToSet
  <2>3. lost' \subseteq Nat
    BY Zenon, <1>1, <2>2 DEF Typed
  <2> QED BY Zenon, <1>1, <1>2, <2>3 DEF Typed, queueVars
<1>4. Stored' = Stored
  BY Zenon, <1>1 DEF Stored
<1>5. \A u \in Putting' : u \in Putting /\ taken'[u] = taken[u]
  BY Zenon, <1>2 DEF Putting
<1>6. Segments' \subseteq Segments
  BY Zenon, <1>1, <1>5 DEF Segments
<1>7. Segmented'
  <2>1. ToSet(accepted') = ToSet(deltas') \cup InFlight' \cup Stored' \cup lost'
    BY Zenon, <1>1, <1>2, <1>4 DEF IInv, Segmented, queueVars
  <2>2. totals'.deltas + Len(deltas') = Len(accepted')
    BY Zenon, <1>1 DEF IInv, Segmented, queueVars
  <2>3. \A u \in Tasks \ Putting' : taken'[u] = Nothing
    BY Zenon, <1>2 DEF IInv, Segmented
  <2>4. \A u \in Putting' : taken'[u].id \notin DOMAIN store'
    BY Zenon, <1>1, <1>5 DEF IInv, Segmented
  <2>5. \A u, v \in Putting' : u # v => taken'[u].id # taken'[v].id
    BY Zenon, <1>5 DEF IInv, Segmented
  <2> QED BY Zenon, <1>1, <1>6, <2>1, <2>2, <2>3, <2>4, <2>5 DEF IInv, Segmented
<1> QED BY Zenon, <1>2, <1>3, <1>7 DEF IInv

-----------------------------------------------------------------------------
(* The invariant and what it says. *)

\* At the start nothing is on its way.
LEMMA InitHolds ==
    ASSUME Init
    PROVE  Typed /\ IInv
<1>1. /\ channel = <<>> /\ batch = <<>> /\ deltas = <<>> /\ accepted = <<>>
      /\ sent = 0 /\ due = 0 /\ counter = 0 /\ refused = {} /\ lost = {}
      /\ totals = [deltas |-> 0, segments |-> 0] /\ store = [i \in {} |-> <<>>]
      /\ pc = [t \in Tasks |-> "loop"] /\ taken = [t \in Tasks |-> Nothing]
      /\ stop = [t \in Workers |-> FALSE] /\ last = [t \in Workers |-> FALSE]
  BY Zenon DEF Init
<1>2. /\ "loop" \in Places /\ "loop" \notin {"put", "done"} /\ "persist" \in Tasks
      /\ "persist" \in Workers /\ Nothing \in [id : Nat, deltas : Seq(Nat)]
      /\ ToSet(Nothing.deltas) = {}
  BY EmptyElements DEF Places, Tasks, Workers, Nothing
<1>3. DOMAIN store = {}
  BY Zenon, <1>1
<1>4. Typed
  <2>1. sent \in Nat /\ due \in Nat /\ counter \in Nat /\ totals \in [deltas : Nat, segments : Nat]
    BY <1>1
  <2> QED BY Zenon, <1>1, <1>2, <1>3, <2>1, EmptyElements DEF Typed
<1>5. Putting = {} /\ Segments = {}
  BY Zenon, <1>1, <1>2, <1>3 DEF Putting, Segments
<1>6. Underway
  <2>1. 1 .. sent = {}
    BY <1>1
  <2> QED BY Zenon, <1>1, <2>1, EmptyElements DEF Underway, Before
<1>7. Segmented
  <2>1. InFlight = {} /\ Stored = {}
    BY Zenon, <1>1, <1>2, <1>3 DEF InFlight, Stored
  <2>2. totals.deltas + Len(deltas) = Len(accepted)
    BY <1>1
  <2>3. ToSet(accepted) = {} /\ ToSet(deltas) = {}
    BY Zenon, <1>1, EmptyElements
  <2> QED BY Zenon, <1>1, <1>5, <2>1, <2>2, <2>3 DEF Segmented
<1>8. Ending
  <2>1. due <= sent
    BY <1>1
  <2>2. ~last["persist"] /\ pc["persist"] = "loop"
    BY Zenon, <1>1, <1>2
  <2>3. "loop" \notin {"put", "done"} /\ "loop" # "done"
    OBVIOUS
  <2> QED BY Zenon, <1>1, <2>1, <2>2, <2>3 DEF Ending
<1> QED BY Zenon, <1>4, <1>6, <1>7, <1>8 DEF IInv

\* Every step of every task keeps the invariant.
LEMMA StepKeeps ==
    ASSUME Typed, IInv, [Next]_vars
    PROVE  Typed' /\ IInv'
<1>1. CASE Next
  <2>1. \/ Send \/ Drain \/ Push \/ IntervalPasses
        \/ Pushes \/ CheckFlush \/ AskFlush \/ \E t \in Tasks : TakeNothing(t)
        \/ \E t \in Tasks : Take(t) \/ Put(t) \/ PutFails(t)
        \/ \E t \in Workers : Shutdown(t)
    BY Zenon, <1>1 DEF Next, FlushStep
  <2> QED BY Zenon, <2>1, SendKeeps, DrainKeeps, PushKeeps, IntervalKeeps, MovesKeep, TakeKeeps,
             PutKeeps, PutFailsKeeps, ShutdownKeeps
<1>2. CASE UNCHANGED vars
  <2>1. UNCHANGED queueVars /\ UNCHANGED segmentVars /\ UNCHANGED <<pc, last>>
    BY Zenon, <1>2 DEF vars, queueVars, segmentVars
  <2>2. Typed'
    BY Zenon, <2>1 DEF Typed, queueVars, segmentVars
  <2>3. Underway' /\ Ending'
    BY Zenon, <2>1 DEF IInv, Underway, Ending, queueVars, segmentVars
  <2>4. Segmented'
    BY Zenon, <2>1, SegmentedKept DEF IInv, Putting
  <2> QED BY Zenon, <2>2, <2>3, <2>4 DEF IInv
<1> QED BY Zenon, <1>1, <1>2

\* The state of the buffer and of its tasks is well-typed, and the inductive
\* invariant holds.
THEOREM Invariant == Spec => [](Typed /\ IInv)
<1>1. Init => Typed /\ IInv
  BY Zenon, InitHolds
<1>2. Typed /\ IInv /\ [Next]_vars => (Typed /\ IInv)'
  BY Zenon, StepKeeps
<1> QED BY <1>1, <1>2, PTL DEF Spec

\* Flushes of the two workers and of a caller overlap in every way, and puts
\* fail: each accepted delta is buffered, in a flush, stored or lost with a
\* failed put, no segment is overwritten, and segments in the order of their
\* numbers hold the deltas in the order of the pushes.
THEOREM FlushesInOrder == Spec => []SegmentsInOrder
<1>1. ASSUME Typed, IInv PROVE SegmentsInOrder
  <2>1. /\ ToSet(accepted) = ToSet(deltas) \cup InFlight \cup Stored \cup lost
        /\ \A x, y \in Segments : x.id < y.id => Before(ToSet(x.deltas), ToSet(y.deltas))
    BY Zenon, <1>1 DEF IInv, Segmented
  <2>2. ASSUME NEW i \in DOMAIN store
        PROVE  [id |-> i, deltas |-> store[i]] \in Segments
    BY Zenon DEF Segments
  <2>3. ASSUME NEW i \in DOMAIN store
        PROVE  [id |-> i, deltas |-> store[i]].id = i
               /\ [id |-> i, deltas |-> store[i]].deltas = store[i]
    OBVIOUS
  <2>4. ASSUME NEW i \in DOMAIN store, NEW j \in DOMAIN store, i < j
        PROVE  Before(ToSet(store[i]), ToSet(store[j]))
    BY Zenon, <2>1, <2>2, <2>3, <2>4
  <2>5. ASSUME NEW i \in DOMAIN store, NEW t \in Tasks
        PROVE  ToSet(store[i]) \cap ToSet(taken[t].deltas) = {}
    <3>1. CASE t \notin Putting
      <4>1. taken[t] = Nothing
        BY Zenon, <1>1, <3>1 DEF IInv, Segmented
      <4> QED BY <4>1, EmptyElements DEF Nothing
    <3>2. CASE t \in Putting
      <4>1. taken[t] \in Segments /\ taken[t].id # i
        BY Zenon, <1>1, <3>2 DEF IInv, Segmented, Segments
      <4>2. i \in Nat /\ taken[t] \in [id : Nat, deltas : Seq(Nat)] /\ store[i] \in Seq(Nat)
        BY Zenon, <1>1 DEF Typed
      <4>3. i < taken[t].id \/ taken[t].id < i
        BY <4>1, <4>2
      <4>4. \/ Before(ToSet(store[i]), ToSet(taken[t].deltas))
            \/ Before(ToSet(taken[t].deltas), ToSet(store[i]))
        BY Zenon, <2>1, <2>2, <2>3, <4>1, <4>3
      <4>5. ToSet(store[i]) \subseteq Nat
        BY <4>2 DEF ToSet
      <4>6. \A d \in Nat : ~(d < d)
        OBVIOUS
      <4> QED BY Zenon, <4>4, <4>5, <4>6 DEF Before
    <3> QED BY Zenon, <3>1, <3>2
  <2> QED BY Zenon, <2>1, <2>4, <2>5 DEF SegmentsInOrder, Before
<1> QED BY <1>1, Invariant, PTL

\* What the buffer counts as flushed and what it still holds is what it has
\* accepted, after every step of overlapping flushes.
THEOREM CountersAgree == Spec => [](totals.deltas + Len(deltas) = Len(accepted))
<1>1. ASSUME IInv PROVE totals.deltas + Len(deltas) = Len(accepted)
  BY Zenon, <1>1 DEF IInv, Segmented
<1> QED BY <1>1, Invariant, PTL

\* When the persistence worker has ended, every delta sent before its flag was
\* set is stored, in the hands of another flush, refused by backpressure or lost
\* with a failed put: none is left in the channel, in its batch or in the buffer.
THEOREM ShutdownLeavesNothing == Spec => []ShutdownFlushes
<1>1. ASSUME Typed, IInv PROVE ShutdownFlushes
  <2> SUFFICES ASSUME pc["persist"] = "done", NEW d \in 1 .. due
               PROVE  d \in Stored \cup InFlight \cup refused \cup lost
    BY Zenon DEF ShutdownFlushes
  <2>1. last["persist"] /\ deltas = <<>> /\ batch = <<>>
    BY <1>1 DEF IInv, Ending
  <2>2. \A e \in ToSet(channel) : due < e
    BY Zenon, <1>1, <2>1 DEF IInv, Ending
  <2>3. d \in 1 .. sent /\ ~(due < d)
    BY <1>1 DEF IInv, Ending, Typed
  <2>4. ToSet(deltas) = {} /\ ToSet(batch) = {}
    BY Zenon, <2>1, EmptyElements
  <2>5. d \in ToSet(accepted) \cup refused
    BY Zenon, <1>1, <2>2, <2>3, <2>4 DEF IInv, Underway
  <2> QED BY Zenon, <1>1, <2>4, <2>5 DEF IInv, Segmented
<1> QED BY <1>1, Invariant, PTL
=============================================================================
