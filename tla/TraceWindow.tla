----------------------------- MODULE TraceWindow -----------------------------
(***************************************************************************)
(* The sliding window of correlate/window.rs: the traces being assembled,  *)
(* least recently used first, each with a ring of its last events, and the *)
(* endpoint context (route roots, consumer destinations) retained for it.  *)
(*                                                                         *)
(* A window is a sequence of buffers; the operators are the window's       *)
(* methods.  Those that may evict thread an "accumulator": the window, the *)
(* fragments evicted so far, the events the rings overwrote, and the       *)
(* traces whose buffer carries the generation the running batch stamped.   *)
(* What the context resolves is data: a buffer either holds it or not.     *)
(***************************************************************************)
EXTENDS Naturals, Sequences, SequencesExt, FiniteSets

CONSTANTS MaxActiveTraces,    \* WindowConfig::max_active_traces (NonZero)
          MaxEventsPerTrace,  \* WindowConfig::max_events_per_trace
          TraceTtl            \* WindowConfig::trace_ttl_ms, in clock steps

ASSUME WindowAssumption ==
    /\ MaxActiveTraces \in Nat \ {0}
    /\ MaxEventsPerTrace \in Nat \ {0}
    /\ TraceTtl \in Nat

\* Age at which a buffer is past its TTL; ages saturate there.
Expired == TraceTtl + 1

NewBuffer(t) == [trace |-> t, events |-> <<>>, context |-> FALSE, age |-> 0]

Start(window) ==
    [window |-> window, evicted |-> <<>>, overwritten |-> {}, stamped |-> {}]

Holds(window, t) == \E i \in DOMAIN window : window[i].trace = t

BufferOf(window, t) == window[CHOOSE i \in DOMAIN window : window[i].trace = t]

\* The elements of a sequence at some of its indices, in their order, taken
\* from each front of it and from all of it.
Pickings(seq, indices) ==
    LET picked[n \in 0..Len(seq)] ==
            IF n = 0 THEN <<>>
            ELSE IF n \in indices THEN Append(picked[n - 1], seq[n])
            ELSE picked[n - 1]
    IN  picked

Picked(seq, indices) == Pickings(seq, indices)[Len(seq)]

WithoutTrace(window, t) ==
    Picked(window, {i \in DOMAIN window : window[i].trace # t})

\* finish_trace_buffer: a buffer without events yields nothing to analyse.
Finish(buffers) ==
    Picked(buffers, {i \in DOMAIN buffers : buffers[i].events # <<>>})

\* LruCache::push of a trace the window does not hold.
Insert(acc, buffer) ==
    IF Len(acc.window) < MaxActiveTraces
    THEN [acc EXCEPT !.window = Append(@, buffer)]
    ELSE [acc EXCEPT !.window  = Append(Tail(@), buffer),
                     !.evicted = @ \o Finish(<<Head(acc.window)>>),
                     !.stamped = @ \ {Head(acc.window).trace}]

\* Mutant: the ring is checked before the event is added.
AppendThenLate(acc, buffer, event) ==
    LET full == Len(buffer.events) > MaxEventsPerTrace
        kept == Append(IF full THEN Tail(buffer.events) ELSE buffer.events, event)
    IN [acc EXCEPT
          !.window = Append(WithoutTrace(@, buffer.trace),
                            [buffer EXCEPT !.events = kept, !.age = 0]),
          !.overwritten = IF full THEN @ \cup {Head(buffer.events)} ELSE @]

\* The ring drops its oldest event, silently, once it is over capacity.
AppendToRing(acc, buffer, event) ==
    LET events == Append(buffer.events, event)
        full   == Len(events) > MaxEventsPerTrace
        kept   == IF full THEN Tail(events) ELSE events
    IN [acc EXCEPT
          !.window = Append(WithoutTrace(@, buffer.trace),
                            [buffer EXCEPT !.events = kept, !.age = 0]),
          !.overwritten = IF full THEN @ \cup {Head(events)} ELSE @]

\* A push promotes its trace to most recently used and restarts its TTL.
Push(acc, event) ==
    IF Holds(acc.window, event.trace)
    THEN AppendToRing(acc, BufferOf(acc.window, event.trace), event)
    ELSE Insert(acc, [NewBuffer(event.trace) EXCEPT !.events = <<event>>])

\* Mutant: an update of a held trace promotes it, as get_mut would.
RetainPromoting(acc, t) ==
    LET stamp(a) == [a EXCEPT !.stamped = @ \cup {t}]
    IN IF Holds(acc.window, t)
       THEN stamp([acc EXCEPT !.window =
                     Append(WithoutTrace(@, t),
                            [BufferOf(@, t) EXCEPT !.context = TRUE, !.age = 0])])
       ELSE stamp(Insert(acc, [NewBuffer(t) EXCEPT !.context = TRUE]))

\* Context for a held trace neither promotes it nor restarts its TTL; for a
\* trace the window does not hold it opens a buffer without events.
Retain(acc, t) ==
    LET stamp(a) == [a EXCEPT !.stamped = @ \cup {t}]
        held == [i \in DOMAIN acc.window |->
                   IF acc.window[i].trace = t
                   THEN [acc.window[i] EXCEPT !.context = TRUE]
                   ELSE acc.window[i]]
    IN IF Holds(acc.window, t)
       THEN stamp([acc EXCEPT !.window = held])
       ELSE stamp(Insert(acc, [NewBuffer(t) EXCEPT !.context = TRUE]))

\* Context of a batch is retained for the held traces first; a HashMap gives
\* the order inside each half, so any order may come.
RetentionOrders(window, context) ==
    LET held == {t \in context : Holds(window, t)}
    IN {a \o b : a \in SetToSeqs(held), b \in SetToSeqs(context \ held)}

\* Mutant: the generation check is missing.
PushOnly(acc, event, context) == Push(acc, event)

\* Before an event is pushed its trace's context is retained again when the
\* buffer the batch stamped was evicted in the meantime.
RetainThenPush(acc, event, context) ==
    IF event.trace \in context \ acc.stamped
    THEN Push(Retain(acc, event.trace), event)
    ELSE Push(acc, event)

\* The window after each trace whose context is retained, and after all.
Retaining(window, order) ==
    LET retained[n \in 0..Len(order)] ==
            IF n = 0 THEN Start(window) ELSE Retain(retained[n - 1], order[n])
    IN  retained

RetainAll(window, order) == Retaining(window, order)[Len(order)]

\* The window after each event of a batch, and after all.
Pushing(acc, events, context) ==
    LET pushed[n \in 0..Len(events)] ==
            IF n = 0 THEN acc
            ELSE RetainThenPush(pushed[n - 1], events[n], context)
    IN  pushed

PushAll(acc, events, context) == Pushing(acc, events, context)[Len(events)]

\* One batch under one hold of the window lock.
IngestInto(window, events, context, order) ==
    PushAll(RetainAll(window, order), events, context)

\* Mutant: the expired buffers are copied out and stay in the cache.
EvictExpiredKeeping(window) ==
    [window  |-> window,
     expired |-> Finish(Picked(window, {i \in DOMAIN window : window[i].age = Expired}))]

\* evict_expired scans the whole cache, most recently used first.
EvictExpired(window) ==
    LET old == {i \in DOMAIN window : window[i].age = Expired}
    IN [window  |-> Picked(window, DOMAIN window \ old),
        expired |-> Finish(Reverse(Picked(window, old)))]

DrainAll(window) == Finish(window)

\* Every buffer a clock step older.
Older(window) ==
    [i \in DOMAIN window |->
        [window[i] EXCEPT !.age = IF @ = Expired THEN @ ELSE @ + 1]]
==============================================================================
