----------------------------- MODULE TracesStore -----------------------------
(***************************************************************************)
(* The span trees behind the findings (daemon/traces_store.rs): the traces *)
(* that produced a finding, least recently flushed out first.  A trace the *)
(* window flushes more than once is merged, and its place in the order     *)
(* queue moves to the back by leaving the old item behind as a tombstone.  *)
(* The store is a record here, an operation a function of it; each runs    *)
(* under the store's write lock.                                           *)
(*                                                                         *)
(* A span tree is the sequence of its spans, told apart by their ids, and  *)
(* its size the number of them.                                            *)
(***************************************************************************)
EXTENDS Naturals, Sequences, SequencesExt, Sieve, FiniteSets, FiniteSetsExt, Functions

CONSTANTS MaxRetainedTraces,   \* [daemon] max_retained_traces
          MaxSpansPerTrace     \* max_events_per_trace

ASSUME TracesAssumption ==
    /\ MaxRetainedTraces \in Nat
    /\ MaxSpansPerTrace \in Nat \ {0}

NoTraces == [id \in {} |-> 0]

NewTraces == [traces |-> NoTraces, order |-> <<>>, generation |-> 0]

IsTraces(s) ==
    /\ Cardinality(DOMAIN s.traces) <= MaxRetainedTraces
    /\ \A id \in DOMAIN s.traces :
          /\ s.traces[id].generation \in 1..s.generation
          /\ Len(s.traces[id].spans) <= MaxSpansPerTrace
    /\ Len(s.order) <= 2 * MaxRetainedTraces

\* Mutant: the eviction takes the trace an item names, live or not.
NamedAtAll(traces, item) == item.id \in DOMAIN traces

IsLive(traces, item) ==
    item.id \in DOMAIN traces /\ traces[item.id].generation = item.generation

\* merge_spans: the newer flush wins on a span both hold, the oldest spans go
\* past the limit.
MergeSpans(old, new) ==
    LET newer == {new[i].id : i \in DOMAIN new}
        merged == Sifted(old, {s \in Range(old) : s.id \notin newer}) \o new
        excess == IF Len(merged) > MaxSpansPerTrace THEN Len(merged) - MaxSpansPerTrace ELSE 0
    IN  SubSeq(merged, excess + 1, Len(merged))

\* A trace held is merged and gets the newest generation, another is stored
\* as it is.
Flush(s, id, spans) ==
    LET next == s.generation + 1
        held == IF id \in DOMAIN s.traces THEN MergeSpans(s.traces[id].spans, spans) ELSE spans
    IN  [traces |-> Put(s.traces, id, [generation |-> next, spans |-> held]),
         order |-> Append(s.order, [id |-> id, generation |-> next]),
         generation |-> next]

\* The traces that dropping the first n items of the order queue evicts.
EvictedTraces(s, n) ==
    {s.order[i].id : i \in {j \in 1..n : IsLive(s.traces, s.order[j])}}

\* Mutant: the traces are never brought back to the limit.
Unevicted(s) == s

\* Items leave the front until the traces fit; a tombstone takes nothing with
\* it.  The queue is compacted past twice the capacity.
EvictTraces(s) ==
    LET Fits(n) == Cardinality(DOMAIN s.traces \ EvictedTraces(s, n)) <= MaxRetainedTraces
        n == CHOOSE m \in 0..Len(s.order) : Fits(m) /\ \A k \in 0..(m - 1) : ~ Fits(k)
        traces == Restrict(s.traces, DOMAIN s.traces \ EvictedTraces(s, n))
        order == SubSeq(s.order, n + 1, Len(s.order))
    IN  [s EXCEPT !.traces = traces,
                  !.order = IF Len(order) <= 2 * MaxRetainedTraces THEN order
                            ELSE Sifted(order, {item \in Range(order) : IsLive(traces, item)})]

\* retain_for: the traces of a batch that one of its findings points at.
RetainFor(s, batch, wanted) ==
    IF MaxRetainedTraces = 0 THEN s
    ELSE FoldLeft(LAMBDA kept, trace :
                     IF trace.id \in wanted
                     THEN EvictTraces(Flush(kept, trace.id, trace.spans)) ELSE kept,
                  s, batch)

\* snapshot_for: the newest flushes first, one that does not fit is skipped,
\* and what was kept comes back in flush order.
SnapshotFor(s, wanted, budget) ==
    LET Keep(item, kept) ==
            LET size == Len(s.traces[item.id].spans)
            IN  IF ~ IsLive(s.traces, item) \/ item.id \notin wanted
                   \/ kept.spent + size > budget
                THEN kept
                ELSE [spent |-> kept.spent + size, ids |-> <<item.id>> \o kept.ids]
    IN  FoldRight(Keep, s.order, [spent |-> 0, ids |-> <<>>]).ids

--------------------------------------------------------------------------
(* What the store holds, said without its queue: flushes is every flush a  *)
(* finding pointed at, oldest first.                                       *)

FlushedIds(flushes) == {flushes[i].id : i \in DOMAIN flushes}

\* The index of the last flush of a trace before the n-th, 0 if there is none.
FlushBefore(flushes, id, n) ==
    Max({i \in 1..(n - 1) : flushes[i].id = id} \cup {0})

\* The other traces flushed between two flushes of one are few enough for the
\* store to hold it throughout.
HeldBetween(flushes, i, j) ==
    Cardinality({flushes[k].id : k \in (i + 1)..(j - 1)}) < MaxRetainedTraces

SpanIds(spans) == {spans[i].id : i \in DOMAIN spans}

\* The newest traces are held, each with every span of its last flush and, if
\* it was held since and there is room, of the one before.
HoldsNewest(s, flushes) ==
    LET end == Len(flushes) + 1
        LastOf(id) == FlushBefore(flushes, id, end)
        Earlier(id) == FlushBefore(flushes, id, LastOf(id))
    IN  /\ DOMAIN s.traces = {id \in FlushedIds(flushes) : HeldBetween(flushes, LastOf(id), end)}
        /\ \A id \in DOMAIN s.traces :
              LET spans == s.traces[id].spans
              IN  /\ SpanIds(flushes[LastOf(id)].spans) \subseteq SpanIds(spans)
                  /\ \/ Earlier(id) = 0
                     \/ ~ HeldBetween(flushes, Earlier(id), LastOf(id))
                     \/ Len(spans) = MaxSpansPerTrace
                     \/ SpanIds(flushes[Earlier(id)].spans) \subseteq SpanIds(spans)

\* A reader with a budget gets traces it asked for, each once, in flush order
\* and within the budget; one it does not get does not fit beside the newer
\* ones it does.
ReadsNewest(s, flushes, wanted, budget) ==
    LET ids == SnapshotFor(s, wanted, budget)
        FlushOf(id) == FlushBefore(flushes, id, Len(flushes) + 1)
        SizeOf(id) == Len(s.traces[id].spans)
        Spent(among) == FoldSet(LAMBDA id, sum : sum + SizeOf(id), 0, among)
        got == {ids[i] : i \in DOMAIN ids}
    IN  /\ got \subseteq wanted \cap DOMAIN s.traces
        /\ \A i, j \in DOMAIN ids : i < j => FlushOf(ids[i]) < FlushOf(ids[j])
        /\ Spent(got) <= budget
        /\ \A id \in (wanted \cap DOMAIN s.traces) \ got :
              Spent({g \in got : FlushOf(g) > FlushOf(id)}) + SizeOf(id) > budget
=============================================================================
