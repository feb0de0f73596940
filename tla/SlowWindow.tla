----------------------------- MODULE SlowWindow -----------------------------
(***************************************************************************)
(* Slow spans: what one batch reports of them (detect/slow.rs), and the    *)
(* window that counts slow episodes of a template across batches           *)
(* (daemon/slow_window.rs).  The worker owns the tracker and feeds it one  *)
(* batch at a time; it is a function from keys to entries here.            *)
(*                                                                         *)
(* A trace is [id, start, spans, ...] and its spans, [id, key, dur], are   *)
(* dated by its start.  A key is a service and a template; what a batch    *)
(* reports goes by the template alone.  Traces are numbered, since ties go *)
(* by their ids.                                                           *)
(***************************************************************************)
EXTENDS Naturals, Sequences, SequencesExt, Sieve, FiniteSets, FiniteSetsExt, Functions

CONSTANTS SlowThreshold,       \* slow_threshold_ms
          SlowWindowMs,        \* slow_query_window_minutes
          SlowEpisodeMs,       \* the length of one episode
          SlowMinOccurrences,  \* slow_query_min_occurrences
          MaxSlowWindowKeys    \* MAX_SLOW_WINDOW_KEYS

ASSUME SlowAssumption ==
    /\ SlowThreshold \in Nat
    /\ SlowWindowMs \in Nat \ {0}
    /\ SlowEpisodeMs \in Nat \ {0}
    /\ SlowMinOccurrences \in Nat \ {0}
    /\ MaxSlowWindowKeys \in Nat \ {0}

\* The slow spans of a batch, in the order of its traces, each with its trace.
SlowSpans(batch) ==
    LET Of(trace) == [i \in DOMAIN trace.spans |->
                        [trace |-> trace.id, start |-> trace.start,
                         key |-> trace.spans[i].key, dur |-> trace.spans[i].dur]]
        spans == FlattenSeq([i \in DOMAIN batch |-> Of(batch[i])])
    IN  Sifted(spans, {s \in Range(spans) : s.dur > SlowThreshold})

TracesOf(spans) == {spans[i].trace : i \in DOMAIN spans}

\* The longest of these spans, ties to the smallest trace.
Worst(spans) ==
    CHOOSE s \in Range(spans) :
       \A o \in Range(spans) : o.dur < s.dur \/ (o.dur = s.dur /\ s.trace <= o.trace)

\* The finding some slow spans of a template make.
SlowFinding(spans, service, trace, across) ==
    [type |-> "slow", service |-> service, template |-> Worst(spans).key.template,
     severity |-> IF Worst(spans).dur > 5 * SlowThreshold THEN 1 ELSE 2, trace |-> trace,
     first |-> Min({spans[i].start : i \in DOMAIN spans}), across |-> across]

\* build_cross_trace_finding: enough slow spans of a template, over two traces
\* at least.
SpansTraces(spans) == Len(spans) >= SlowMinOccurrences /\ Cardinality(TracesOf(spans)) >= 2

\* detect_slow and detect_slow_cross_trace: a template is reported for each
\* trace that shows it often enough, and once for the batch.
BatchSlowFindings(batch) ==
    LET spans == SlowSpans(batch)
        templates == {spans[i].key.template : i \in DOMAIN spans}
        Of(template) == Sifted(spans, {s \in Range(spans) : s.key.template = template})
        In(template, t) == Sifted(Of(template), {s \in Range(spans) : s.trace = t})
    IN  {SlowFinding(In(p[1], p[2]), In(p[1], p[2])[1].key.service, p[2], FALSE) :
            p \in {q \in templates \X TracesOf(spans) :
                     Len(In(q[1], q[2])) >= SlowMinOccurrences}}
        \cup {SlowFinding(Of(template), Worst(Of(template)).key.service,
                         Worst(Of(template)).trace, TRUE) :
                template \in {p \in templates : SpansTraces(Of(p))}}

--------------------------------------------------------------------------
Never == 0   \* no report: time starts at 1

NoKeys == [k \in {} |-> 0]

EntryOf(w, key) ==
    IF key \in DOMAIN w THEN w[key] ELSE [episodes |-> <<>>, reported |-> Never]

IsSlowWindow(w, now) ==
    /\ Cardinality(DOMAIN w) <= MaxSlowWindowKeys
    /\ \A key \in DOMAIN w :
          /\ w[key].reported \in Never..now
          /\ w[key].episodes # <<>> \/ w[key].reported # Never
          /\ \A i \in DOMAIN w[key].episodes : w[key].episodes[i].start \in 1..now

\* record: into the open episode, or a new one.
RecordEpisode(episodes, span, now) ==
    IF episodes # <<>> /\ now - Last(episodes).start < SlowEpisodeMs
    THEN IF span.dur > Last(episodes).worst.dur
         THEN [episodes EXCEPT ![Len(episodes)].worst = span] ELSE episodes
    ELSE Append(episodes, [start |-> now, worst |-> span])

HasRoom(w, key) == key \in DOMAIN w \/ Cardinality(DOMAIN w) < MaxSlowWindowKeys

\* One slow span: a new key past the cap is refused; a template the batch has
\* reported counts as a report, not as an episode.
FeedSpan(w, span, reported, now) ==
    IF ~ HasRoom(w, span.key) THEN w
    ELSE LET entry == EntryOf(w, span.key)
         IN  Put(w, span.key, IF span.key.template \in reported
                              THEN [episodes |-> <<>>, reported |-> now]
                              ELSE [entry EXCEPT !.episodes = RecordEpisode(@, span, now)])

Feed(w, batch, now) ==
    LET reported == {f.template : f \in BatchSlowFindings(batch)}
    IN  FoldLeft(LAMBDA acc, span : FeedSpan(acc, span, reported, now), w, SlowSpans(batch))

InCooldown(entry, now) == entry.reported # Never /\ now < entry.reported + SlowWindowMs

\* Mutant: what was counted stays counted for as long as the template is slow.
NothingExpires(entry, now) == entry

\* sweep, of one entry: what the window has left behind ...
Expire(entry, now) ==
    [episodes |-> Sifted(entry.episodes, {e \in Range(entry.episodes) : now < e.start + SlowWindowMs}),
     reported |-> IF InCooldown(entry, now) THEN entry.reported ELSE Never]

EpisodeSpans(entry) == [i \in DOMAIN entry.episodes |-> entry.episodes[i].worst]

\* ... and whether the episode this batch opened completes a recurrence.
Recurs(entry, now) ==
    /\ entry.episodes # <<>>
    /\ Last(entry.episodes).start = now
    /\ ~ InCooldown(entry, now)
    /\ SpansTraces(EpisodeSpans(entry))

\* A recurrence is reported under the trace of its fresh episode, and starts
\* the cooldown.
Sweep(w, now) ==
    LET expired == [key \in DOMAIN w |-> Expire(w[key], now)]
        recurring == {key \in DOMAIN w : Recurs(expired[key], now)}
        swept == [key \in DOMAIN w |->
                    IF key \in recurring THEN [episodes |-> <<>>, reported |-> now]
                    ELSE expired[key]]
    IN  [entries |-> Restrict(swept, {key \in DOMAIN w :
                        swept[key].episodes # <<>> \/ swept[key].reported # Never}),
         recurring |-> recurring,
         found |-> {SlowFinding(EpisodeSpans(expired[key]), key.service,
                                Last(expired[key].episodes).worst.trace, TRUE) :
                       key \in recurring}]

--------------------------------------------------------------------------
(* What the window promises, said over the batches it was fed: slow is     *)
(* every slow span it took, as [key, at, trace], reports every report of a *)
(* key, as [key, at, by], refused the keys it ever turned away.            *)

SlowAt(slow, key) == {s.at : s \in {o \in slow : o.key = key}}
ReportedAt(reports, key) == {r.at : r \in {o \in reports : o.key = key}}

Within(instants, now) == {t \in instants : t <= now /\ now < t + SlowWindowMs}

\* A recurrence is reported once per window, and for slow instants an episode
\* apart.
ReportJustified(slow, reports, r) ==
    /\ \A t \in ReportedAt(reports, r.key) : t < r.at => t + SlowWindowMs <= r.at
    /\ \E instants \in SUBSET Within(SlowAt(slow, r.key), r.at) :
          /\ Cardinality(instants) = SlowMinOccurrences
          /\ \A t, u \in instants : t < u => t + SlowEpisodeMs <= u

\* The key was slow in separate episodes, each in traces of its own.
InSeparateEpisodes(slow, key) ==
    /\ \A t, u \in SlowAt(slow, key) : t < u => t + SlowEpisodeMs <= u
    /\ \A s, o \in slow : s.key = key /\ o.key = key /\ s.trace = o.trace => s.at = o.at

\* A key that is due now: slow in enough separate episodes of the window since
\* it was last reported, the latest of them now, and reported in none of it.
IsDue(slow, reports, key, now) ==
    LET before == ReportedAt({r \in reports : r.at < now}, key)
        instants == {t \in Within(SlowAt(slow, key), now) : \A r \in before : r < t}
    IN  /\ InSeparateEpisodes(slow, key)
        /\ now \in instants
        /\ Within(before, now) = {}
        /\ Cardinality(instants) >= SlowMinOccurrences /\ Cardinality(instants) >= 2

RecurrencesTrue(slow, reports, refused, now) ==
    /\ \A r \in reports : r.by = "window" => ReportJustified(slow, reports, r)
    /\ \A key \in {s.key : s \in slow} \ refused :
          IsDue(slow, reports, key, now) => now \in ReportedAt(reports, key)
=============================================================================
