------------------------------- MODULE Worker -------------------------------
(***************************************************************************)
(* The analysis worker and what it keeps (process_traces in                *)
(* daemon/event_loop.rs).  The worker takes one batch of traces at a time, *)
(* bills the broker's energy for it, detects, feeds the slow window, puts  *)
(* the findings into the stores one after the other, and at last charges   *)
(* the avoidable calls to the services that made them, giving up           *)
(* the processor between them; the readers - an incident freezing and      *)
(* merging its findings, the hub exporter cutting episodes, the scraper    *)
(* of the broker - come in at any point.                                   *)
(*                                                                         *)
(* A batch is a sequence of traces [id, age, spans, others]: age is how    *)
(* long ago it started, others the findings [service, template, severity]  *)
(* that detectors other than the slow ones make of it, an input here.      *)
(* Every store is optional in the configuration, and a behaviour runs with *)
(* one choice of them.                                                     *)
(***************************************************************************)
EXTENDS TracesStore, SlowWindow, FindingsStore, EpisodeTracker, BrokerEnergy, Detectors

CONSTANTS Setups   \* by name: which stores are on, the batches that may come in,
                   \* the windows of incidents; bounds: how many batches, and
                   \* how long it lasts

StoreKinds == {"findings", "traces", "slow", "correlator", "episodes", "broker",
               "waste", "structure"}

\* A batch of finished traces, as detection may find them.
IsBatch(batch) ==
    /\ batch \in Seq(Range(batch))
    /\ \A trace \in Range(batch) :
          /\ trace.id \in Nat /\ trace.age \in Nat
          /\ IsFiniteSet(trace.others) /\ \A o \in trace.others : o.severity \in Nat
          /\ trace.spans \in Seq(Range(trace.spans))
          /\ \A s \in Range(trace.spans) : s.dur \in Nat

ASSUME WorkerAssumption ==
    \A name \in DOMAIN Setups :
       /\ Setups[name].stores \subseteq StoreKinds
       /\ Setups[name].most \in Nat /\ Setups[name].until \in Nat
       /\ \A batch \in Setups[name].batches : IsBatch(batch)
       /\ "traces" \in Setups[name].stores =>   \* the window cuts a trace at the same limit
            \A batch \in Setups[name].batches : \A trace \in Range(batch) :
               Len(trace.spans) <= MaxSpansPerTrace
       /\ "waste" \in Setups[name].stores =>
            \A batch \in Setups[name].batches : \A trace \in Range(batch) :
               \A s \in Range(trace.spans) : s.at \in Nat
       /\ \A window \in Setups[name].windows : window.from \in Nat /\ window.to \in Nat

VARIABLES setup,        \* the name of one of the Setups
          handed,       \* batches analysed
          work,         \* the batch in hand, and the store it goes to next
          slow,         \* SlowWindowTracker
          ring,         \* FindingsStore
          retained,     \* TracesStore
          correlator,
          tracks,       \* EpisodeTracker, and whether it has drained
          charged,      \* the counters by service and grouping, all the avoidable
                        \* calls, and both tiers of the last batch
          capture,      \* an incident's capture, empty before its freeze
          past          \* history

vars == <<setup, handed, work, slow, ring, retained, correlator, tracks, charged, capture, past, brokerVars>>

storeVars == <<handed, work, slow, ring, retained, correlator, tracks, charged, capture, past>>

On(store) == store \in Setups[setup].stores

\* The wall clock.
Now == clock + 1

Idle == [step |-> "idle"]

\* A batch on its way through these stores, or what is left of it: a store
\* that is off does nothing.
Through(stores, batch, findings, at) ==
    LET on == Sifted(stores, {store \in Range(stores) : On(store)})
    IN  IF on = <<>> THEN Idle
        ELSE [step |-> Head(on), batch |-> batch, findings |-> findings, at |-> at]

Onward(stores) == Through(stores, work.batch, work.findings, work.at)

Init ==
    /\ setup \in DOMAIN Setups
    /\ handed = 0
    /\ work = Idle
    /\ slow = NoKeys
    /\ ring = <<>>
    /\ retained = NewTraces
    /\ correlator = NewCorrelator
    /\ tracks = [of |-> NewTracks, drained |-> FALSE]
    /\ charged = [meter |-> NewMeter, total |-> 0, operational |-> 0, canonical |-> 0]
    /\ capture = <<>>
    /\ past = [flushes |-> <<>>, slowSpans |-> {}, reports |-> {}, turnedAway |-> {},
               stored |-> <<>>, kept |-> {}, seen |-> <<>>, refusedLast |-> {},
               refusedEver |-> FALSE, copies |-> {}, calls |-> <<>>,
               analysed |-> <<>>, chains |-> <<>>, pools |-> <<>>]
    /\ BrokerInit

--------------------------------------------------------------------------
Dated(batch) ==
    [i \in DOMAIN batch |->
        [id |-> batch[i].id, spans |-> batch[i].spans, others |-> batch[i].others,
         start |-> IF batch[i].age > Now THEN 0 ELSE Now - batch[i].age]]

OtherFindings(batch) ==
    UNION {{[type |-> "other", service |-> o.service, template |-> o.template,
             severity |-> o.severity, trace |-> batch[i].id, first |-> batch[i].start,
             across |-> FALSE] : o \in batch[i].others} : i \in DOMAIN batch}

\* sort_findings: by type, severity and trace; what ties is left to the end.
SortFindings(found) ==
    LET Rank(f) == <<IF f.type = "other" THEN 1 ELSE 2, f.severity, f.trace>>
        Before(a, b) == \E n \in 1..3 : /\ Rank(a)[n] < Rank(b)[n]
                                        /\ \A k \in 1..(n - 1) : Rank(a)[k] = Rank(b)[k]
    IN  Arranged(found, {p \in found \X found : Before(p[1], p[2])})

\* run_full_detection.
Detected(batch) == SortFindings(OtherFindings(batch) \cup BatchSlowFindings(batch))

\* What the slow window was fed: the spans it counts, and the reports it is
\* told of or makes.
RememberSlow(batch, fed, recurring) ==
    LET spans == Range(SlowSpans(batch))
        reported == {f.template : f \in BatchSlowFindings(batch)}
        held == {s \in spans : s.key \in DOMAIN fed}
    IN  [past EXCEPT
           !.slowSpans = @ \cup {[key |-> s.key, at |-> Now, trace |-> s.trace] :
                                   s \in {h \in held : h.key.template \notin reported}},
           !.reports = @ \cup {[key |-> s.key, at |-> Now, by |-> "batch"] :
                                 s \in {h \in held : h.key.template \in reported}}
                         \cup {[key |-> key, at |-> Now, by |-> "window"] : key \in recurring},
           !.turnedAway = @ \cup {s.key : s \in spans \ held}]

RememberStructure(batch) ==
    [past EXCEPT !.analysed = batch,
                 !.chains = [b \in DOMAIN batch |-> SerializedChains(batch[b])],
                 !.pools = [b \in DOMAIN batch |-> SaturatedPools(batch[b])]]

\* Detection, and the slow window after it.  A batch without findings goes
\* straight to the correlator.
Analyse ==
    /\ work.step = "idle" /\ take.step = "idle"
    /\ handed < Setups[setup].most
    /\ \E batch \in {Dated(b) : b \in Setups[setup].batches} :
          LET fed == IF On("slow") THEN Feed(slow, batch, Now) ELSE slow
              swept == Sweep(fed, Now)
              findings == Detected(batch) \o
                          (IF On("slow") THEN SortFindings(swept.found) ELSE <<>>)
              stores == IF findings = <<>> THEN <<"correlator", "waste">>
                        ELSE <<"findings", "traces", "correlator", "waste">>
          IN  /\ work' = Through(stores, batch, findings, Now)
              /\ slow' = IF On("slow") THEN swept.entries ELSE slow
              /\ past' = IF On("slow") THEN RememberSlow(batch, fed, swept.recurring)
                         ELSE IF On("structure") THEN RememberStructure(batch)
                         ELSE past
    /\ handed' = handed + 1
    /\ UNCHANGED <<setup, ring, retained, correlator, tracks, charged, capture, brokerVars>>

StoreFindings ==
    /\ work.step = "findings"
    /\ ring' = PushBatch(ring, work.findings, work.at)
    /\ past' = [past EXCEPT !.stored = @ \o [i \in DOMAIN work.findings |->
                                               [finding |-> work.findings[i], at |-> work.at]]]
    /\ work' = Onward(<<"traces", "correlator", "waste">>)
    /\ UNCHANGED <<setup, charged, handed, slow, retained, correlator, tracks, capture, brokerVars>>

Wanted == {work.findings[i].trace : i \in DOMAIN work.findings}

RetainTraces ==
    /\ work.step = "traces"
    /\ retained' = RetainFor(retained, work.batch, Wanted)
    /\ past' = [past EXCEPT !.flushes =
                   @ \o Sifted(work.batch, {trace \in Range(work.batch) : trace.id \in Wanted})]
    /\ work' = Onward(<<"correlator", "waste">>)
    /\ UNCHANGED <<setup, charged, handed, slow, ring, correlator, tracks, capture, brokerVars>>

IngestFindings ==
    /\ work.step = "correlator"
    /\ LET ingested == Ingest(correlator, work.findings, work.at)
           Remembered(f) == [endpoint |-> Endpoint(f), event |-> f.first,
                             ingest |-> work.at, idx |-> ingested.c.nowIdx]
       IN  /\ correlator' = ingested.c
           /\ past' = IF On("episodes") THEN past
                      ELSE [past EXCEPT
                             !.seen = @ \o [i \in DOMAIN work.findings |->
                                              Remembered(work.findings[i])],
                             !.refusedLast = ingested.refused,
                             !.refusedEver = @ \/ ingested.refused # {}]
    /\ work' = Onward(<<"waste">>)
    /\ UNCHANGED <<setup, charged, handed, slow, ring, retained, tracks, capture, brokerVars>>

\* The avoidable calls of a batch, charged (score_green,
\* emit_findings_and_update_metrics), and the canonical tier beside them.
Charge(batch) ==
    LET credited == DedupFindings(batch, AvoidableFindings(batch, NPlusOneThreshold))
        avoidable == Repeats(credited)
    IN  [meter |-> MeterShares(charged.meter, AvoidableShares(batch, credited), AnalysedShares(batch)),
         total |-> charged.total + avoidable,
         operational |-> avoidable,
         canonical |-> AvoidableOps(batch, DisclosureThreshold)]

RememberWaste(batch) ==
    LET spans == FlattenSeq([b \in DOMAIN batch |-> batch[b].spans])
        Made(service) == Cardinality({i \in DOMAIN spans : spans[i].key.service = service})
    IN  [past EXCEPT
           !.analysed = batch,
           !.calls = [service \in DOMAIN @ \cup {s.key.service : s \in Range(spans)} |->
                        (IF service \in DOMAIN @ THEN @[service] ELSE 0) + Made(service)]]

\* The last of a batch.
ChargeServices ==
    /\ work.step = "waste"
    /\ charged' = Charge(work.batch)
    /\ past' = RememberWaste(work.batch)
    /\ work' = Idle
    /\ UNCHANGED <<setup, handed, slow, ring, retained, correlator, tracks, capture, brokerVars>>

--------------------------------------------------------------------------
(* The readers.                                                            *)

FreezeCapture ==
    /\ On("findings") /\ capture = <<>>
    /\ \E window \in Setups[setup].windows :
          capture' = <<FreezeWindow(ring, window.service, window.from, window.to)>>
    /\ past' = [past EXCEPT !.kept = {Len(past.stored)}]
    /\ UNCHANGED <<setup, charged, handed, work, slow, ring, retained, correlator, tracks, brokerVars>>

\* Once, when the incident settles.
SettleCapture ==
    /\ capture # <<>> /\ Cardinality(past.kept) = 1
    /\ LET c == capture[1]
       IN  capture' = <<MergeCapture(c, FreezeWindow(ring, c.service, c.from, c.to))>>
    /\ past' = [past EXCEPT !.kept = @ \cup {Len(past.stored)}]
    /\ UNCHANGED <<setup, charged, handed, work, slow, ring, retained, correlator, tracks, brokerVars>>

ObserveEpisodes ==
    /\ On("episodes") /\ ~ tracks.drained
    /\ LET observed == ObserveRows(tracks.of, ActiveCorrelations(correlator), Now)
       IN  /\ tracks' = [tracks EXCEPT !.of = observed.tracks]
           /\ past' = [past EXCEPT !.copies = @ \cup observed.copies]
    /\ UNCHANGED <<setup, charged, handed, work, slow, ring, retained, correlator, capture, brokerVars>>

\* The daemon stops: a last reading, and every episode is closed.
DrainEpisodes ==
    /\ On("episodes") /\ ~ tracks.drained
    /\ LET observed == ObserveRows(tracks.of, ActiveCorrelations(correlator), Now)
           open == OpenPairs(observed.tracks)
       IN  /\ tracks' = [of |-> CloseTracks(observed.tracks, open), drained |-> TRUE]
           /\ past' = [past EXCEPT !.copies = @ \cup observed.copies
                                              \cup ClosingCopies(observed.tracks, open)]
    /\ UNCHANGED <<setup, charged, handed, work, slow, ring, retained, correlator, capture, brokerVars>>

\* The scraper, and what the worker bills before it analyses a batch.
BillBroker ==
    /\ On("broker") /\ work.step = "idle"
    /\ BrokerNext
    /\ UNCHANGED <<setup, storeVars>>

Tick ==
    /\ clock < Setups[setup].until
    /\ AdvanceClock
    /\ UNCHANGED <<setup, storeVars>>

Next ==
    \/ Analyse \/ StoreFindings \/ RetainTraces \/ IngestFindings \/ ChargeServices
    \/ FreezeCapture \/ SettleCapture \/ ObserveEpisodes \/ DrainEpisodes
    \/ BillBroker \/ Tick

Spec == Init /\ [][Next]_vars

--------------------------------------------------------------------------
(* Properties.                                                             *)

\* Every store keeps its bounds.
TypeOK ==
    /\ setup \in DOMAIN Setups
    /\ handed \in 0..Setups[setup].most
    /\ work.step \in {"idle", "findings", "traces", "correlator", "waste"}
    /\ IsSlowWindow(slow, Now)
    /\ Len(ring) <= MaxRetainedFindings
    /\ IsTraces(retained)
    /\ Cardinality(DOMAIN correlator.pairs) <= MaxTrackedPairs
    /\ tracks.drained => OpenPairs(tracks.of) = {}
    /\ Cardinality(charged.meter.names) <= MaxServiceLabels
    /\ Cardinality(charged.meter.pairs) <= MaxPairLabels
    /\ Len(capture) <= 1
    /\ clock \in 0..Setups[setup].until

\* The newest traces findings point at are held, whole as far as there is
\* room, whatever order their fragments are flushed in, and a reader gets the
\* newest of them its budget allows (TracesStore::retain_for, snapshot_for).
NewestTracesKept ==
    On("traces") =>
        /\ HoldsNewest(retained, past.flushes)
        /\ \A wanted \in SUBSET DOMAIN retained.traces : \A budget \in 0..(2 * MaxSpansPerTrace) :
              ReadsNewest(retained, past.flushes, wanted, budget)

\* A template slow again and again is reported in the batch that completes
\* its recurrence, never twice in a window, and never for spans of too few
\* episodes, whatever the batches report themselves (SlowWindowTracker).
RecurrencesReported ==
    On("slow") => RecurrencesTrue(past.slowSpans, past.reports, past.turnedAway, Now)

\* What an incident captured of its window is what the ring held of it when
\* it was frozen and when it settled (freeze_window, merge_then).
CaptureTrue ==
    \A i \in DOMAIN capture : CaptureIsTrue(capture[i], past.stored, past.kept)

\* The correlator's counts are those of the findings it was fed, whatever
\* order they arrive in, and pairs refused at the cap find room in the next
\* batch (CrossTraceCorrelator::ingest).
CountsExact ==
    /\ ~ On("episodes") => CountsTrue(correlator, past.seen, past.refusedEver)
    /\ past.refusedLast # {} => Cardinality(DOMAIN correlator.pairs) < MaxTrackedPairs

\* A hub reads from the copies it was sent what happened to a pair when: its
\* episodes do not overlap, and none goes on after it closed (EpisodeTracker).
EpisodesDisjoint == EpisodesApart(past.copies)

\* The waste a daemon reports is calls that were made and need not have been:
\* never the one call of each template a trace needs, never charged to two
\* series or to one that did not make it, whatever label caps fold; and the
\* disclosed tier is an upper bound of the operator's, unless a trace is in
\* its batch in fragments (detect, score_green, compute_canonical_avoidable).
WasteIsReal ==
    On("waste") =>
        /\ SharesTrue(charged.meter, charged.total, past.calls)
        /\ charged.operational + Needed(past.analysed) <= CallsIn(past.analysed)
        /\ Unsplit(past.analysed) => charged.operational <= charged.canonical

\* Serialized calls and saturated pools are what a reader of the trace finds
\* by hand, where every span has a duration (detect_serialized,
\* detect_pool_saturation).
StructureIsReal ==
    \A b \in DOMAIN past.chains :
        (\A s \in Range(past.analysed[b].spans) : s.dur > 0)
        => /\ ChainsTrue(past.analysed[b], past.chains[b])
           /\ PoolsTrue(past.analysed[b], past.pools[b])

\* The two sweeps agree: the spans shown at a peak are as many as the peak
\* counted (compute_peak_concurrency, peak_span_ids; "must equal").
PeaksAgree ==
    \A b \in DOMAIN past.pools : \A pool \in past.pools[b] :
        Cardinality(pool.spans) = pool.peak
=============================================================================
