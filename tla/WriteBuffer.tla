----------------------------- MODULE WriteBuffer -----------------------------
(***************************************************************************)
(* The write buffer of streaming/write_buffer.rs and its two background    *)
(* tasks: the FlushWorker, and the PersistenceWorker of                    *)
(* streaming/delta_sink.rs that moves deltas from the sink's channel into  *)
(* the buffer. Each of them may flush, and so may a caller; a flush takes  *)
(* the buffer under the lock, writes the segment without it, and counts    *)
(* the segment under the lock again.                                       *)
(*                                                                         *)
(* A delta is a number, given out in the order of the sends; Weight is its *)
(* estimated size. The flush interval is a flag that time sets and a flush *)
(* clears.                                                                 *)
(***************************************************************************)
EXTENDS Naturals, Sequences, FiniteSets, SequencesExt

CONSTANTS MaxSends,      \* deltas sent, at most
          Weight,        \* estimate_delta_size of each delta
          MaxBytes,      \* max_size_bytes
          MaxBuffered,   \* max_deltas
          Threshold,     \* backpressure_threshold_bytes
          MaxFlushes,    \* flushes asked for by a caller
          MaxFailures    \* puts that fail

VARIABLES channel,   \* the deltas in the sink's channel
          batch,     \* those the persistence worker has drained and not pushed
          deltas,    \* WriteBufferInner::deltas
          bytes,     \* WriteBufferInner::estimated_bytes
          counter,   \* segment_counter
          totals,    \* stats.total_deltas_flushed, total_segments_written
          elapsed,   \* the flush interval has passed since the last flush
          pc,        \* what each task does
          last,      \* the worker has read its flag: this is its last iteration
          taken,     \* the segment number and the deltas each flush has taken
          store,     \* the segments in the object store
          stop,      \* the shutdown flag of each worker
          sent, asked,        \* how many deltas were sent, flushes asked for
          accepted,           \* the deltas pushed, in the order of the pushes
          refused, lost,      \* those refused by backpressure, those of a failed put
          due                 \* those sent before the persistence worker's flag

vars == <<channel, batch, deltas, bytes, counter, totals, elapsed, pc, last, taken, store, stop,
          sent, asked, accepted, refused, lost, due>>

Workers == {"persist", "flush"}
Tasks == Workers \cup {"caller"}

Nothing == [id |-> 0, deltas |-> <<>>]

WeightOf(ds) == FoldSeq(LAMBDA d, n : n + Weight[d], 0, ds)

Init ==
    /\ channel = <<>> /\ batch = <<>> /\ deltas = <<>> /\ bytes = 0 /\ counter = 0
    /\ totals = [deltas |-> 0, segments |-> 0]
    /\ elapsed = FALSE
    /\ pc = [t \in Tasks |-> "loop"] /\ taken = [t \in Tasks |-> Nothing]
    /\ store = [i \in {} |-> <<>>]
    /\ stop = [t \in Workers |-> FALSE] /\ last = [t \in Workers |-> FALSE]
    /\ sent = 0 /\ asked = 0
    /\ accepted = <<>> /\ refused = {} /\ lost = {} /\ due = 0

buffer == <<deltas, bytes, accepted, refused>>
flushing == <<counter, totals, elapsed, taken, store, lost>>

Send ==
    /\ sent < MaxSends
    /\ pc["persist"] # "done"
    /\ sent' = sent + 1
    /\ channel' = Append(channel, sent')
    /\ UNCHANGED <<batch, buffer, flushing, pc, last, stop, asked, due>>

Pushed(b, d) ==
    IF b.bytes >= Threshold THEN [b EXCEPT !.refused = @ \cup {d}]
    ELSE [b EXCEPT !.deltas = Append(@, d), !.bytes = @ + Weight[d], !.accepted = Append(@, d)]

ShouldFlush ==
    /\ deltas # <<>>
    /\ bytes >= MaxBytes \/ Len(deltas) >= MaxBuffered \/ elapsed

-----------------------------------------------------------------------------
(* The persistence worker: it reads its flag, drains the channel, pushes   *)
(* what it drained and flushes if that is due, or if this is the end. An   *)
(* iteration that finds nothing to do is left out.                         *)

\* Mutation: the last iteration flushes what is buffered without draining.
DrainNotLast ==
    /\ pc["persist"] = "loop"
    /\ stop["persist"] \/ channel # <<>> \/ ShouldFlush
    /\ last' = [last EXCEPT !["persist"] = stop["persist"]]
    /\ batch' = IF stop["persist"] THEN <<>> ELSE channel
    /\ channel' = IF stop["persist"] THEN channel ELSE <<>>
    /\ pc' = [pc EXCEPT !["persist"] = "push"]
    /\ UNCHANGED <<buffer, flushing, stop, sent, asked, due>>

Drain ==
    /\ pc["persist"] = "loop"
    /\ stop["persist"] \/ channel # <<>> \/ ShouldFlush
    /\ last' = [last EXCEPT !["persist"] = stop["persist"]]
    /\ batch' = channel /\ channel' = <<>>
    /\ pc' = [pc EXCEPT !["persist"] = "push"]
    /\ UNCHANGED <<buffer, flushing, stop, sent, asked, due>>

Push ==
    /\ pc["persist"] = "push" /\ batch # <<>>
    /\ LET b == Pushed([deltas |-> deltas, bytes |-> bytes, accepted |-> accepted,
                        refused |-> refused], Head(batch))
       IN  /\ deltas' = b.deltas /\ bytes' = b.bytes
           /\ accepted' = b.accepted /\ refused' = b.refused
    /\ batch' = Tail(batch)
    /\ UNCHANGED <<channel, flushing, pc, last, stop, sent, asked, due>>

Pushes ==
    /\ pc["persist"] = "push" /\ batch = <<>>
    /\ pc' = [pc EXCEPT !["persist"] = IF last["persist"] \/ ShouldFlush THEN "flush" ELSE "loop"]
    /\ UNCHANGED <<channel, batch, buffer, flushing, last, stop, sent, asked, due>>

\* The flush worker: its flag, then should_flush.
CheckFlush ==
    /\ pc["flush"] = "loop"
    /\ stop["flush"] \/ ShouldFlush
    /\ last' = [last EXCEPT !["flush"] = stop["flush"]]
    /\ pc' = [pc EXCEPT !["flush"] = "flush"]
    /\ UNCHANGED <<channel, batch, buffer, flushing, stop, sent, asked, due>>

AskFlush ==
    /\ pc["caller"] = "loop" /\ asked < MaxFlushes
    /\ asked' = asked + 1
    /\ pc' = [pc EXCEPT !["caller"] = "flush"]
    /\ UNCHANGED <<channel, batch, buffer, flushing, last, stop, sent, due>>

-----------------------------------------------------------------------------
(* WriteBuffer::flush. *)

AfterFlush(t) == IF t \in Workers /\ last[t] THEN "done" ELSE "loop"

TakeNothing(t) ==
    /\ pc[t] = "flush" /\ deltas = <<>>
    /\ pc' = [pc EXCEPT ![t] = AfterFlush(t)]
    /\ UNCHANGED <<channel, batch, buffer, flushing, last, stop, sent, asked, due>>

\* Mutation: the segment number is used up only when the segment is counted.
TakeSharedNumber(t) ==
    /\ pc[t] = "flush" /\ deltas # <<>>
    /\ taken' = [taken EXCEPT ![t] = [id |-> totals.segments, deltas |-> deltas]]
    /\ deltas' = <<>> /\ bytes' = 0
    /\ elapsed' = FALSE
    /\ counter' = counter + 1
    /\ totals' = [totals EXCEPT !.deltas = @ + Len(deltas)]
    /\ pc' = [pc EXCEPT ![t] = "put"]
    /\ UNCHANGED <<channel, batch, accepted, refused, store, lost, last, stop, sent, asked, due>>

Take(t) ==
    /\ pc[t] = "flush" /\ deltas # <<>>
    /\ taken' = [taken EXCEPT ![t] = [id |-> counter, deltas |-> deltas]]
    /\ deltas' = <<>> /\ bytes' = 0
    /\ elapsed' = FALSE
    /\ counter' = counter + 1
    /\ totals' = [totals EXCEPT !.deltas = @ + Len(deltas)]
    /\ pc' = [pc EXCEPT ![t] = "put"]
    /\ UNCHANGED <<channel, batch, accepted, refused, store, lost, last, stop, sent, asked, due>>

\* The put; the segment is counted in the same step, and no task reads the
\* count in between.
Put(t) ==
    /\ pc[t] = "put"
    /\ store' = [i \in DOMAIN store \cup {taken[t].id} |->
                    IF i = taken[t].id THEN taken[t].deltas ELSE store[i]]
    /\ totals' = [totals EXCEPT !.segments = @ + 1]
    /\ taken' = [taken EXCEPT ![t] = Nothing]
    /\ pc' = [pc EXCEPT ![t] = AfterFlush(t)]
    /\ UNCHANGED <<channel, batch, buffer, counter, elapsed, lost, last, stop, sent, asked, due>>

\* The put fails: the error is logged and what was taken is gone.
PutFails(t) ==
    /\ pc[t] = "put"
    /\ Cardinality(lost) < MaxFailures
    /\ lost' = lost \cup ToSet(taken[t].deltas)
    /\ taken' = [taken EXCEPT ![t] = Nothing]
    /\ pc' = [pc EXCEPT ![t] = AfterFlush(t)]
    /\ UNCHANGED <<channel, batch, buffer, counter, totals, elapsed, store, last, stop, sent,
                   asked, due>>

-----------------------------------------------------------------------------
IntervalPasses ==
    /\ ~elapsed
    /\ elapsed' = TRUE
    /\ UNCHANGED <<channel, batch, buffer, counter, totals, taken, store, lost, pc, last, stop,
                   sent, asked, due>>

Shutdown(t) ==
    /\ ~stop[t]
    /\ stop' = [stop EXCEPT ![t] = TRUE]
    /\ due' = IF t = "persist" THEN sent ELSE due
    /\ UNCHANGED <<channel, batch, buffer, flushing, pc, last, sent, asked>>

FlushStep(t) == TakeNothing(t) \/ Take(t) \/ Put(t) \/ PutFails(t)

Next ==
    \/ Send
    \/ Drain \/ Push \/ Pushes
    \/ CheckFlush
    \/ AskFlush
    \/ \E t \in Tasks : FlushStep(t)
    \/ IntervalPasses
    \/ \E t \in Workers : Shutdown(t)

Spec == Init /\ [][Next]_vars

PersistStep == Drain \/ Push \/ Pushes \/ FlushStep("persist")
FlushWorkerStep == CheckFlush \/ FlushStep("flush")

-----------------------------------------------------------------------------
(* Properties. *)

Stored == UNION {ToSet(store[i]) : i \in DOMAIN store}
InFlight == UNION {ToSet(taken[t].deltas) : t \in Tasks}

\* The buffer's own accounts, which its assertions only compare with each other
\* while the lock is held: the estimate is the weight of what is buffered and
\* passes the threshold by less than one delta; every delta accepted is either
\* buffered or counted as flushed, whatever flushes overlap.
BufferAccounts ==
    /\ bytes = WeightOf(deltas)
    /\ \A d \in ToSet(deltas) : bytes < Threshold + Max({Weight[e] : e \in ToSet(deltas)})
    /\ totals.deltas + Len(deltas) = Len(accepted)

\* No flush overwrites or reorders another's segment: each accepted delta is in
\* exactly one of the buffer, the flushes under way, the store and what failed
\* puts lost, and the segments taken in the order of their numbers hold the
\* deltas in the order in which they were pushed.
SegmentsInOrder ==
    /\ ToSet(accepted) = ToSet(deltas) \cup InFlight \cup Stored \cup lost
    /\ \A i, j \in DOMAIN store : i < j =>
        \A m \in ToSet(store[i]), n \in ToSet(store[j]) : m < n
    /\ \A i \in DOMAIN store, t \in Tasks : ToSet(store[i]) \cap ToSet(taken[t].deltas) = {}

\* When the persistence worker has ended, each delta sent before its flag was
\* set is stored or is in the hands of another flush, unless backpressure
\* refused it or its put failed: its last drain and flush leave none behind.
ShutdownFlushes ==
    pc["persist"] = "done" => 1 .. due \subseteq Stored \cup InFlight \cup refused \cup lost
=============================================================================
