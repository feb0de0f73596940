------------------------------ MODULE Pipeline ------------------------------
(***************************************************************************)
(* The path of an event through the daemon (daemon/event_loop.rs): the     *)
(* listeners put batches in a bounded channel, the event loop samples them *)
(* into the trace window and hands evicted and expired traces to the one   *)
(* analysis worker through a second bounded channel, shedding what that    *)
(* channel cannot take.  The select! loop, the worker and the listeners    *)
(* are concurrent; shutdown closes the first channel, drains it into the   *)
(* window, sends the rest to the worker without shedding and joins it; a   *)
(* worker that stops by itself makes the daemon fail.                      *)
(*                                                                         *)
(* An event is a record [id, trace, informed]: informed says its batch     *)
(* carries endpoint context for its trace.  A fragment, the unit of        *)
(* analysis, is a finished buffer of the window.                           *)
(***************************************************************************)
EXTENDS TraceWindow

CONSTANTS Traces,         \* trace ids
          SampledTraces,  \* those the sampling hash keeps
          Contexts,       \* the sets of traces a payload may carry context for
          RxCapacity,     \* capacity of the ingest channel
          QueueCapacity,  \* analysis_queue_capacity
          MaxEvents,      \* bound: events ever sent
          MaxBatch        \* bound: events in one batch

ASSUME PipelineAssumption ==
    /\ SampledTraces \subseteq Traces
    /\ Contexts \subseteq SUBSET Traces
    /\ \A context \in Contexts : IsFiniteSet(context)
    /\ RxCapacity \in Nat \ {0}
    /\ QueueCapacity \in Nat \ {0}
    /\ MaxEvents \in Nat
    /\ MaxBatch \in Nat

VARIABLES sent,      \* number of events accepted so far
          rx,        \* the ingest channel
          window,    \* the trace window
          carried,   \* fragments evicted while the ingest channel was drained,
                     \* then everything the loop has left to hand over
          queue,     \* the analysis channel
          busy,      \* the fragments the worker has taken, <<>> when none
          worker,    \* "waiting", "received", "analysing", "finished", "panicked"
          depth,     \* the analysis_queue_depth gauge
          phase,     \* the event loop: "serving", "closing", "sending",
                     \* "counting", "joining", "stopped", "failed"
          analysed,  \* history: the events analysed, in order
          shed,      \* history: the events of shed fragments
          overwritten, unsampled, lost

vars == <<sent, rx, window, carried, queue, busy, worker, depth, phase,
          analysed, shed, overwritten, unsampled, lost>>

-----------------------------------------------------------------------------
EventIds == 1..MaxEvents

Event == [id : EventIds, trace : Traces, informed : BOOLEAN]

EventsIn(fragments) ==
    UNION {ToSet(fragments[i].events) : i \in DOMAIN fragments}

\* The events of the first fragments, one after another, and of all.
Joined(fragments) ==
    LET joined[n \in 0..Len(fragments)] ==
            IF n = 0 THEN <<>> ELSE joined[n - 1] \o fragments[n].events
    IN  joined

EventsSequence(fragments) == Joined(fragments)[Len(fragments)]

WorkerAlive == worker \in {"waiting", "received", "analysing"}

ChannelOpen == phase = "serving"

Init ==
    /\ sent = 0
    /\ rx = <<>> /\ window = <<>> /\ carried = <<>> /\ queue = <<>> /\ busy = <<>>
    /\ worker = "waiting"
    /\ depth = 0
    /\ phase = "serving"
    /\ analysed = <<>>
    /\ shed = {} /\ overwritten = {} /\ unsampled = {} /\ lost = {}

-----------------------------------------------------------------------------
(* The listeners.                                                          *)

\* A listener sends one batch: the events of one payload, numbered in the
\* order they are sent, and the traces the payload carries context for.  It
\* waits while the channel is full; after the close its send fails.
Accept(traces, context) ==
    /\ ChannelOpen
    /\ Len(rx) < RxCapacity
    /\ sent + Len(traces) <= MaxEvents
    /\ rx' = Append(rx,
                [events  |-> [i \in DOMAIN traces |->
                                 [id |-> sent + i, trace |-> traces[i],
                                  informed |-> traces[i] \in context]],
                 context |-> context])
    /\ sent' = sent + Len(traces)
    /\ UNCHANGED <<window, carried, queue, busy, worker, depth, phase,
                   analysed, shed, overwritten, unsampled, lost>>

-----------------------------------------------------------------------------
(* The event loop.                                                         *)

Sampled(e) == e.trace \in SampledTraces

SampledOf(events) == Picked(events, {i \in DOMAIN events : Sampled(events[i])})

\* Mutant: the gauge counts the batch before the queue has taken it.
EnqueueCountedFirst(fragments) ==
    /\ depth' = IF fragments = <<>> THEN depth ELSE depth + 1
    /\ IF fragments = <<>> THEN UNCHANGED <<queue, shed>>
       ELSE IF WorkerAlive /\ Len(queue) < QueueCapacity
            THEN queue' = Append(queue, fragments) /\ UNCHANGED shed
            ELSE shed' = shed \cup EventsIn(fragments) /\ UNCHANGED queue

\* enqueue_for_analysis: a slot, or the whole batch is shed and counted.
EnqueueForAnalysis(fragments) ==
    \/ /\ fragments = <<>>
       /\ UNCHANGED <<queue, depth, shed>>
    \/ /\ fragments # <<>>
       /\ WorkerAlive /\ Len(queue) < QueueCapacity
       /\ depth' = depth + 1
       /\ queue' = Append(queue, fragments)
       /\ UNCHANGED shed
    \/ /\ fragments # <<>>
       /\ ~WorkerAlive \/ Len(queue) = QueueCapacity
       /\ shed' = shed \cup EventsIn(fragments)
       /\ UNCHANGED <<queue, depth>>

\* ingest_event_batch on the next batch of the channel: one result per order
\* in which the context may be retained.
Ingested ==
    LET batch   == Head(rx)
        context == batch.context \cap SampledTraces
    IN {IngestInto(window, SampledOf(batch.events), context, order) :
            order \in RetentionOrders(window, context)}

TakeIn(result) ==
    /\ rx' = Tail(rx)
    /\ window' = result.window
    /\ overwritten' = overwritten \cup result.overwritten
    /\ unsampled' =
          unsampled \cup {e \in ToSet(Head(rx).events) : ~Sampled(e)}

IngestBatch ==
    /\ phase = "serving"
    /\ rx # <<>>
    /\ \E result \in Ingested :
          /\ TakeIn(result)
          /\ EnqueueForAnalysis(result.evicted)
    /\ UNCHANGED <<sent, carried, busy, worker, phase, analysed, lost>>

\* The eviction ticker.
Tick ==
    /\ phase = "serving"
    /\ LET swept == EvictExpired(window)
       IN /\ window' = swept.window
          /\ EnqueueForAnalysis(swept.expired)
    /\ UNCHANGED <<sent, rx, carried, busy, worker, phase,
                   analysed, overwritten, unsampled, lost>>

\* The shutdown signal: the listeners are aborted and the channel closed.
SignalShutdown ==
    /\ phase = "serving"
    /\ phase' = "closing"
    /\ UNCHANGED <<sent, rx, window, carried, queue, busy, worker, depth,
                   analysed, shed, overwritten, unsampled, lost>>

\* What the closed channel still buffers goes through the window; the traces
\* it evicts are kept aside.
DrainBatch ==
    /\ phase = "closing"
    /\ rx # <<>>
    /\ \E result \in Ingested :
          /\ TakeIn(result)
          /\ carried' = carried \o result.evicted
    /\ UNCHANGED <<sent, queue, busy, worker, depth, phase,
                   analysed, shed, lost>>

\* Mutant: the window goes before the traces evicted while draining.
RemainderReversed == DrainAll(window) \o carried

\* The fragments handed over at shutdown, in this order.
Remainder == carried \o DrainAll(window)

\* drain_to_worker_and_join up to its send.
DrainWindow ==
    /\ phase = "closing"
    /\ rx = <<>>
    /\ carried' = Remainder
    /\ window' = <<>>
    /\ phase' = IF Remainder = <<>> THEN "joining" ELSE "sending"
    /\ UNCHANGED <<sent, rx, queue, busy, worker, depth,
                   analysed, shed, overwritten, unsampled, lost>>

\* Mutant: the last send sheds when the queue is full, as the loop's do.
SendRemainderOrShed ==
    /\ phase = "sending"
    /\ carried' = <<>>
    /\ \/ /\ WorkerAlive /\ Len(queue) < QueueCapacity
          /\ queue' = Append(queue, carried)
          /\ phase' = "counting"
          /\ UNCHANGED shed
       \/ /\ ~WorkerAlive \/ Len(queue) = QueueCapacity
          /\ shed' = shed \cup EventsIn(carried)
          /\ phase' = "joining"
          /\ UNCHANGED queue
    /\ UNCHANGED <<sent, rx, window, busy, worker, depth,
                   analysed, overwritten, unsampled, lost>>

\* The blocking send: it waits for a slot, and fails once the worker is gone.
SendRemainder ==
    /\ phase = "sending"
    /\ carried' = <<>>
    /\ \/ /\ WorkerAlive /\ Len(queue) < QueueCapacity
          /\ queue' = Append(queue, carried)
          /\ phase' = "counting"
          /\ UNCHANGED shed
       \/ /\ ~WorkerAlive
          /\ shed' = shed \cup EventsIn(carried)
          /\ phase' = "joining"
          /\ UNCHANGED queue
    /\ UNCHANGED <<sent, rx, window, busy, worker, depth,
                   analysed, overwritten, unsampled, lost>>

\* Only after the send does the loop count it; then it drops the sender.
CountSent ==
    /\ phase = "counting"
    /\ depth' = depth + 1
    /\ phase' = "joining"
    /\ UNCHANGED <<sent, rx, window, carried, queue, busy, worker,
                   analysed, shed, overwritten, unsampled, lost>>

Join ==
    /\ phase = "joining"
    /\ worker \in {"finished", "panicked"}
    /\ phase' = "stopped"
    /\ UNCHANGED <<sent, rx, window, carried, queue, busy, worker, depth,
                   analysed, shed, overwritten, unsampled, lost>>

\* The loop finds the worker's task ended before any shutdown: the daemon
\* fails at once, without draining.
NoticeWorkerStopped ==
    /\ phase = "serving"
    /\ worker = "panicked"
    /\ phase' = "failed"
    /\ UNCHANGED <<sent, rx, window, carried, queue, busy, worker, depth,
                   analysed, shed, overwritten, unsampled, lost>>

-----------------------------------------------------------------------------
(* The analysis worker.                                                    *)

Receive ==
    /\ worker = "waiting"
    /\ queue # <<>>
    /\ busy' = Head(queue)
    /\ queue' = Tail(queue)
    /\ worker' = "received"
    /\ UNCHANGED <<sent, rx, window, carried, depth, phase,
                   analysed, shed, overwritten, unsampled, lost>>

CountReceived ==
    /\ worker = "received"
    /\ depth' = depth - 1
    /\ worker' = "analysing"
    /\ UNCHANGED <<sent, rx, window, carried, queue, busy, phase,
                   analysed, shed, overwritten, unsampled, lost>>

\* process_traces, seen from the pipeline.
Analyse ==
    /\ worker = "analysing"
    /\ analysed' = analysed \o EventsSequence(busy)
    /\ busy' = <<>>
    /\ worker' = "waiting"
    /\ UNCHANGED <<sent, rx, window, carried, queue, depth, phase,
                   shed, overwritten, unsampled, lost>>

\* The batch being analysed makes the worker panic: its channel is dropped
\* with it.
Panic ==
    /\ worker = "analysing"
    /\ worker' = "panicked"
    /\ lost' = lost \cup EventsIn(busy)
                    \cup UNION {EventsIn(queue[i]) : i \in DOMAIN queue}
    /\ busy' = <<>> /\ queue' = <<>>
    /\ UNCHANGED <<sent, rx, window, carried, depth, phase,
                   analysed, shed, overwritten, unsampled>>

\* Mutant: the loop still owns its sender while it joins the worker.
WorkerExitSenderKept ==
    /\ worker = "waiting"
    /\ queue = <<>>
    /\ phase = "stopped"
    /\ worker' = "finished"
    /\ UNCHANGED <<sent, rx, window, carried, queue, busy, depth, phase,
                   analysed, shed, overwritten, unsampled, lost>>

\* The sender is dropped and the queue empty: recv returns None.
WorkerExit ==
    /\ worker = "waiting"
    /\ queue = <<>>
    /\ phase = "joining"
    /\ worker' = "finished"
    /\ UNCHANGED <<sent, rx, window, carried, queue, busy, depth, phase,
                   analysed, shed, overwritten, unsampled, lost>>

-----------------------------------------------------------------------------
\* A clock step; a buffer's age saturates past its TTL.
Advance ==
    /\ phase = "serving"
    /\ window' = Older(window)
    /\ window' # window
    /\ UNCHANGED <<sent, rx, carried, queue, busy, worker, depth, phase,
                   analysed, shed, overwritten, unsampled, lost>>

Next ==
    \/ \E n \in 0..MaxBatch : \E traces \in [1..n -> Traces],
                                 context \in Contexts :
          /\ n > 0 \/ context # {}
          /\ Accept(traces, context)
    \/ IngestBatch
    \/ Tick
    \/ SignalShutdown
    \/ DrainBatch
    \/ DrainWindow
    \/ SendRemainder
    \/ CountSent
    \/ Join
    \/ NoticeWorkerStopped
    \/ Receive
    \/ CountReceived
    \/ Analyse
    \/ Panic
    \/ WorkerExit
    \/ Advance

Spec == Init /\ [][Next]_vars

\* The loop's way from the shutdown signal, or a worker found stopped, to its
\* end, and the worker's round: one step at a time is possible in each.
ShutdownStep ==
    DrainBatch \/ DrainWindow \/ SendRemainder \/ CountSent \/ Join \/ NoticeWorkerStopped

WorkerStep == Receive \/ CountReceived \/ Analyse \/ Panic \/ WorkerExit

\* The loop polls its channel and its ticker, the worker its queue; time
\* passes; what the shutdown does it does without waiting for anyone else.
\* Nothing makes a listener send, the operator stop the daemon, or a worker
\* panic.
FairSpec ==
    /\ Spec
    /\ WF_vars(IngestBatch) /\ WF_vars(Tick) /\ WF_vars(Advance)
    /\ WF_vars(ShutdownStep)
    /\ WF_vars(WorkerStep)

-----------------------------------------------------------------------------
(* Properties.                                                             *)

Fragments ==
    [trace : Traces, events : Seq(Event), context : BOOLEAN, age : 0..Expired]

TypeOK ==
    /\ sent \in 0..MaxEvents
    /\ Len(rx) <= RxCapacity
    /\ \A i \in DOMAIN rx : /\ rx[i].events \in Seq(Event)
                            /\ rx[i].context \subseteq Traces
    /\ window \in Seq(Fragments) /\ Len(window) <= MaxActiveTraces
    /\ \A i \in DOMAIN window : Len(window[i].events) <= MaxEventsPerTrace
    /\ carried \in Seq(Fragments)
    /\ queue \in Seq(Seq(Fragments)) /\ Len(queue) <= QueueCapacity
    /\ busy \in Seq(Fragments)
    /\ worker \in {"waiting", "received", "analysing", "finished", "panicked"}
    /\ depth \in Int
    /\ phase \in {"serving", "closing", "sending", "counting", "joining",
                  "stopped", "failed"}
    /\ analysed \in Seq(Event)
    /\ shed \cup overwritten \cup unsampled \cup lost \subseteq Event

\* The events still on their way, wherever they wait.
InRx     == UNION {ToSet(rx[i].events) : i \in DOMAIN rx}
InWindow == EventsIn(window)
InLoop   == EventsIn(carried)
InQueue  == UNION {EventsIn(queue[i]) : i \in DOMAIN queue}
InWorker == EventsIn(busy)
Held     == InRx \cup InWindow \cup InLoop \cup InQueue \cup InWorker

IdsOf(events) == {e.id : e \in events}

\* The ledger entry of an event, read off the place it is in.
Fate(i) ==
    IF i > sent THEN "unsent"
    ELSE IF i \in IdsOf(Held) THEN "held"
    ELSE IF i \in IdsOf(ToSet(analysed)) THEN "analysed"
    ELSE IF i \in IdsOf(shed) THEN "shed"
    ELSE IF i \in IdsOf(overwritten) THEN "overwritten"
    ELSE IF i \in IdsOf(unsampled) THEN "unsampled"
    ELSE "lost"

Stage ==
    IF worker = "panicked" THEN "crashed"
    ELSE IF phase = "serving" THEN "open"
    ELSE IF phase = "stopped" THEN "closed"
    ELSE "draining"

Ledger == INSTANCE EventLedger WITH
              Events <- EventIds,
              fate   <- [i \in EventIds |-> Fate(i)],
              stage  <- Stage

\* Through batches, evictions, a full queue and a shutdown an accepted event
\* is held until one thing becomes of it, nothing is shed once the daemon
\* drains, and a clean stop leaves none behind (drain_to_worker_and_join).
KeepsLedger == Ledger!LedgerSpec

\* No event is in two places or has two fates: a fragment evicted in the
\* middle of a batch is not also drained, nor analysed twice.
EachEventOnce ==
    LET places == <<InRx, InWindow, InLoop, InQueue, InWorker, ToSet(analysed),
                    shed, overwritten, unsampled, lost>>
    IN /\ \A i, j \in DOMAIN places : i # j => IdsOf(places[i]) \cap IdsOf(places[j]) = {}
       /\ Cardinality(ToSet(analysed)) = Len(analysed)

\* The fragments of a trace reach detection in the order its events were
\* sent, also when one is evicted by a batch drained at shutdown and the next
\* comes from the window ("FIFO: a deterministic batch sequence").
AnalysedInOrder ==
    \A i, j \in DOMAIN analysed :
        i < j /\ analysed[i].trace = analysed[j].trace
            => analysed[i].id < analysed[j].id

\* An event whose batch carried its trace's context is analysed with it, even
\* if that batch evicted the buffer the context was first retained in.
ContextTravelsWithEvents ==
    \A f \in UNION {ToSet(fs) : fs \in {window, carried, busy} \cup ToSet(queue)} :
        (\E e \in ToSet(f.events) : e.informed) => f.context

\* The gauge is the queue's length up to the two windows in which a batch has
\* been moved and not counted yet, after a receive and after the last send.
GaugeFollowsQueue ==
    WorkerAlive \/ worker = "finished" =>
        depth = Len(queue) + (IF worker = "received" THEN 1 ELSE 0)
                           - (IF phase = "counting" THEN 1 ELSE 0)

\* Traces that fall idle are analysed or shed, however much endpoint context
\* keeps arriving for them: only events restart a TTL.  As many events as the
\* bound allows come in, so in the end nothing is held.
HeldEventsSettle == Held # {} ~> Held = {} \/ worker = "panicked"

\* Once the shutdown signal came the daemon stops.
ShutdownEnds == phase = "closing" ~> phase = "stopped"
==============================================================================
