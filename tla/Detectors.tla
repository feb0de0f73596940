----------------------------- MODULE Detectors -----------------------------
(***************************************************************************)
(* What detection makes of the traces of a batch (detect/*.rs) and what    *)
(* the scores charge for it (score/mod.rs, score/canonical.rs): N+1 and    *)
(* redundant calls, from which the avoidable I/O is counted, the longest   *)
(* chain of calls that could run in parallel, and the connections a        *)
(* service holds at once.  All are functions of one batch.                 *)
(*                                                                         *)
(* A trace is [id, spans]; a span [id, key, dur, at, parent, kind,         *)
(* session, params, marked, orm, endpoint, grouping] with key its service  *)
(* and template, at its timestamp in the unit of dur, session a statement  *)
(* such as COMMIT, marked a template with a placeholder, orm a scope of an *)
(* ORM.  Services and groupings are numbers, in the order of their names;  *)
(* NoGrouping is the empty one, Folded the label "_other".  A group of     *)
(* spans is the set of their positions in the trace.                       *)
(***************************************************************************)
EXTENDS Naturals, Sequences, SequencesExt, FiniteSets, FiniteSetsExt, Functions

CONSTANTS NPlusOneThreshold,  \* n_plus_one_threshold, the operator's
          DetectWindow,       \* window_ms
          SanitizerMode,      \* "auto", "always", "never" or "strict"
          MinCvPercent,       \* sanitizer_aware_min_cv, in hundredths
          MinSequential,      \* serialized_min_sequential
          PoolThreshold,      \* pool_saturation_concurrent_threshold
          MaxServiceLabels,   \* MAX_ANALYSIS_SERVICE_CARDINALITY
          MaxPairLabels       \* MAX_ANALYSIS_GROUPING_PAIRS

ASSUME DetectorsAssumption ==
    /\ NPlusOneThreshold \in Nat \ {0}
    /\ DetectWindow \in Nat
    /\ SanitizerMode \in {"auto", "always", "never", "strict"}
    /\ MinCvPercent \in Nat
    /\ MinSequential \in Nat \ {0, 1}
    /\ PoolThreshold \in Nat \ {0, 1}
    /\ MaxServiceLabels \in Nat /\ MaxPairLabels \in Nat

\* DISCLOSURE_N_PLUS_ONE_THRESHOLD, not the operator's to choose.
DisclosureThreshold == 2

NoParams == "none"
NoParent == "none"
NoGrouping == 0
Folded == 99

Span(trace, i) == trace.spans[i]

EndOf(span) == span.at + span.dur

\* The positions of the spans taken, grouped by a key.
Grouped(trace, Taken(_), KeyOf(_)) ==
    LET taken == {i \in DOMAIN trace.spans : Taken(trace.spans[i])}
    IN  {{i \in taken : KeyOf(trace.spans[i]) = key} : key \in {KeyOf(trace.spans[i]) : i \in taken}}

\* The elements of a set in a strict total order.
Ranked(elements, Before(_, _)) ==
    [n \in 1..Cardinality(elements) |->
        CHOOSE e \in elements : Cardinality({f \in elements : Before(f, e)}) = n - 1]

SumOver(group, Value(_)) == FoldSet(LAMBDA i, sum : sum + Value(i), 0, group)

--------------------------------------------------------------------------
(* N+1 and redundant calls.                                                *)

\* compute_window_and_bounds.
Spread(trace, group) ==
    Max({Span(trace, i).at : i \in group}) - Min({Span(trace, i).at : i \in group})

\* looks_sanitized.
LooksSanitized(trace, group) ==
    \A i \in group : Span(trace, i).params = NoParams /\ Span(trace, i).marked

\* timing_variance_suggests_n_plus_one: (deviation / mean)^2 > min_cv^2.
TimingVaries(trace, group) ==
    LET n == Cardinality(group)
        sum == SumOver(group, LAMBDA i : Span(trace, i).dur)
        squares == SumOver(group, LAMBDA i : Span(trace, i).dur * Span(trace, i).dur)
    IN  /\ n >= 3 /\ sum > 0
        /\ 10000 * (n * squares - sum * sum) > MinCvPercent * MinCvPercent * sum * sum

\* sequential_siblings_indexed.
SequentialSiblings(trace, group) ==
    /\ Cardinality(group) >= 3
    /\ \E parent \in {Span(trace, i).parent : i \in group} \ {NoParent} :
          \A i \in group : Span(trace, i).parent = parent
    /\ \A i, j \in group :
          LET a == Span(trace, i)
              b == Span(trace, j)
          IN  a.at < b.at \/ (a.at = b.at /\ i < j) => EndOf(a) <= b.at

\* classify_sanitized_sql_group and its strict variant.
LikelySql(trace, group, often) ==
    LET orm == \E i \in group : Span(trace, i).orm
    IN  IF SanitizerMode = "strict"
        THEN /\ orm \/ often \/ SequentialSiblings(trace, group)
             /\ often \/ TimingVaries(trace, group)
        ELSE orm \/ TimingVaries(trace, group)

\* classify_http_group_indexed.
LikelyHttp(trace, group, often) ==
    /\ SanitizerMode = "strict" =>
          \/ \E i \in group : Span(trace, i).marked
          \/ often
          \/ SequentialSiblings(trace, group)
    /\ TimingVaries(trace, group)

\* classify_group: by the number of its parameters, or by the signs that a
\* sanitizer has taken them away.
ClassifyGroup(trace, group, threshold) ==
    LET kind == Span(trace, Min(group)).kind
        often == Cardinality(group) >= 3 * threshold
    IN  /\ Cardinality(group) >= threshold
        /\ \/ kind = "messaging"
           \/ Cardinality({Span(trace, i).params : i \in group}) >= threshold
           \/ /\ SanitizerMode # "never"
              /\ kind = "sql" => LooksSanitized(trace, group)
              /\ SanitizerMode # "always" =>
                    IF kind = "sql" THEN LikelySql(trace, group, often)
                    ELSE LikelyHttp(trace, group, often)

\* detect_n_plus_one: the groups it reports.
NPlusOneGroups(trace, threshold) ==
    {group \in Grouped(trace, LAMBDA s : ~ s.session,
                       LAMBDA s : <<s.kind, s.key.template, s.grouping>>) :
        ClassifyGroup(trace, group, threshold) /\ Spread(trace, group) <= DetectWindow}

\* Mutant: a template is redundant whether or not it is an N+1 already.
RedundantToo(trace, nPlusOne) ==
    {group \in Grouped(trace, LAMBDA s : s.kind # "messaging" /\ ~ s.session,
                       LAMBDA s : <<s.kind, s.key.template, s.params, s.grouping>>) :
        Cardinality(group) >= 2}

\* detect_redundant: what is no part of an N+1 of its template.
RedundantGroups(trace, nPlusOne) ==
    {group \in Grouped(trace, LAMBDA s : s.kind # "messaging" /\ ~ s.session,
                       LAMBDA s : <<s.kind, s.key.template, s.params, s.grouping>>) :
        /\ Cardinality(group) >= 2
        /\ \A found \in nPlusOne : group \cap found = {}}

\* The avoidable findings of a batch, each with the place of its trace in it.
AvoidableFindings(batch, threshold) ==
    UNION {LET nPlusOne == NPlusOneGroups(batch[b], threshold)
           IN  {[type |-> "n_plus_one", in |-> b, group |-> g] : g \in nPlusOne}
               \cup {[type |-> "redundant", in |-> b, group |-> g] :
                       g \in RedundantGroups(batch[b], nPlusOne)} : b \in DOMAIN batch}

--------------------------------------------------------------------------
(* The avoidable I/O.                                                      *)

FirstSpan(batch, finding) == Span(batch[finding.in], Min(finding.group))

Occurrences(finding) == Cardinality(finding.group)

DedupKey(batch, finding) ==
    LET first == FirstSpan(batch, finding)
    IN  <<batch[finding.in].id, first.key.template, first.endpoint, first.grouping>>

Repeats(findings) == FoldSet(LAMBDA f, sum : sum + Occurrences(f) - 1, 0, findings)

\* The findings one key is credited from (KeyOps::credited): its largest N+1,
\* of equal ones the first, or its redundant ones when they come to more.
Credited(batch, findings) ==
    LET nPlusOne == {f \in findings : f.type = "n_plus_one"}
        redundant == findings \ nPlusOne
        Stamp(f) == Min({Span(batch[f.in], i).at : i \in f.group})
        Before(f, g) == \/ Occurrences(f) > Occurrences(g)
                        \/ /\ Occurrences(f) = Occurrences(g)
                           /\ \/ Stamp(f) < Stamp(g)
                              \/ Stamp(f) = Stamp(g) /\ f.in <= g.in
        largest == CHOOSE f \in nPlusOne : \A g \in nPlusOne : Before(f, g)
    IN  IF nPlusOne # {} /\ Repeats({largest}) >= Repeats(redundant) THEN {largest} ELSE redundant

\* dedup_avoidable_io_ops_by_service: what is charged.
DedupFindings(batch, findings) ==
    UNION {Credited(batch, {f \in findings : DedupKey(batch, f) = key}) :
             key \in {DedupKey(batch, f) : f \in findings}}

\* What a finding charges a service: its own calls, the finding's service one
\* less for the call that had to be made (avoidable_by_service).
ChargedTo(batch, finding, service) ==
    LET own == {i \in finding.group : Span(batch[finding.in], i).key.service = service}
    IN  IF FirstSpan(batch, finding).key.service = service
        THEN Cardinality(own) - 1 ELSE Cardinality(own)

\* The avoidable calls of a batch by service and grouping.
AvoidableShares(batch, charged) ==
    LET spans == UNION {{Span(batch[f.in], i) : i \in f.group} : f \in charged}
    IN  [share \in {<<s.key.service, s.grouping>> : s \in spans} |->
            FoldSet(LAMBDA f, sum : sum + ChargedTo(batch, f, share[1]), 0,
                    {f \in charged : FirstSpan(batch, f).grouping = share[2]})]

\* count_endpoint_stats: all the calls of a batch by service and grouping.
AnalysedShares(batch) ==
    LET spans == FlattenSeq([b \in DOMAIN batch |-> batch[b].spans])
        ShareOf(span) == <<span.key.service, span.grouping>>
    IN  [share \in {ShareOf(spans[i]) : i \in DOMAIN spans} |->
            Cardinality({i \in DOMAIN spans : ShareOf(spans[i]) = share})]

\* score_green, and the canonical tier beside it (compute_canonical_avoidable).
AvoidableOps(batch, threshold) ==
    Repeats(DedupFindings(batch, AvoidableFindings(batch, threshold)))


--------------------------------------------------------------------------
(* The counters of avoidable and analysed calls by service and grouping    *)
(* (AnalysisServiceMeter, emit_findings_and_update_metrics): past a cap a  *)
(* label folds, and a label once admitted stays.                           *)

NewMeter == [names |-> {}, pairs |-> {}, avoidable |-> <<>>, analysed |-> <<>>]

\* pair_labels: the meter after it, and the label a share is counted under.
AdmitPair(meter, share) ==
    LET known == share[1] = Folded \/ share[1] \in meter.names
        room == Cardinality(meter.names) < MaxServiceLabels
        service == IF known \/ room THEN share[1] ELSE Folded
        pair == <<service, share[2]>>
        passes == share[2] \in {NoGrouping, Folded} \/ pair \in meter.pairs
        fits == Cardinality(meter.pairs) < MaxPairLabels
    IN  [meter |-> [meter EXCEPT !.names = IF ~ known /\ room THEN @ \cup {service} ELSE @,
                                 !.pairs = IF ~ passes /\ fits THEN @ \cup {pair} ELSE @],
         label |-> IF passes \/ fits THEN pair ELSE <<service, Folded>>]

\* A counter moved by n under a label.
Raised(counter, label, n) ==
    [l \in DOMAIN counter \cup {label} |->
        (IF l \in DOMAIN counter THEN counter[l] ELSE 0) + (IF l = label THEN n ELSE 0)]

InOrder(shares) ==
    Ranked(shares, LAMBDA s, t : s[1] < t[1] \/ (s[1] = t[1] /\ s[2] < t[2]))

\* The avoidable shares first, then the analysed ones, each in their order.
MeterShares(meter, avoidable, analysed) ==
    LET first == FoldLeft(LAMBDA m, share :
                            LET admitted == AdmitPair(m, share)
                            IN  [admitted.meter EXCEPT
                                   !.avoidable = Raised(@, admitted.label, avoidable[share])],
                          meter, InOrder(DOMAIN avoidable))
    IN  FoldLeft(LAMBDA m, share :
                   LET admitted == AdmitPair(m, share)
                   IN  [admitted.meter EXCEPT
                          !.analysed = Raised(@, admitted.label, analysed[share])],
                 first, InOrder(DOMAIN analysed))

--------------------------------------------------------------------------
(* Calls one after the other that could run at once (detect/serialized.rs).*)

\* Mutant: the calls in the order they start in.
ByStart(trace, children) ==
    Ranked({i \in children : ~ Span(trace, i).session},
                 LAMBDA i, j : \/ Span(trace, i).at < Span(trace, j).at
                               \/ Span(trace, i).at = Span(trace, j).at /\ i < j)

\* timed_children, in the order they end in.
TimedChildren(trace, children) ==
    Ranked({i \in children : ~ Span(trace, i).session},
                 LAMBDA i, j : \/ EndOf(Span(trace, i)) < EndOf(Span(trace, j))
                               \/ EndOf(Span(trace, i)) = EndOf(Span(trace, j)) /\ i < j)

\* compute_predecessors: the last call that ends before the n-th begins, or
\* 0; never a later one in the order.
Predecessor(trace, timed, n) ==
    LET ended == Cardinality({k \in DOMAIN timed :
                                EndOf(Span(trace, timed[k])) <= Span(trace, timed[n]).at})
    IN  IF ended < n THEN ended ELSE 0

\* longest_non_overlapping: the table of lengths, then the chain behind it.
LongestChain(trace, timed) ==
    LET Before(n) == Predecessor(trace, timed, n)
        longest[n \in 0..Len(timed)] ==
            IF n = 0 THEN 0 ELSE Max({longest[n - 1], longest[Before(n)] + 1})
        chain[n \in 0..Len(timed)] ==
            IF n = 0 THEN <<>>
            ELSE IF longest[Before(n)] + 1 >= longest[n - 1]
                 THEN Append(chain[Before(n)], timed[n])
                 ELSE chain[n - 1]
    IN  chain[Len(timed)]

\* parents_with_children, with the children of each.
Families(trace) ==
    {children \in Grouped(trace, LAMBDA s : s.parent # NoParent, LAMBDA s : s.parent) :
        Cardinality(children) >= MinSequential}

\* serialized_impl: the chains reported, each with the family it is from.
SerializedChains(trace) ==
    {found \in {[family |-> children, chain |-> LongestChain(trace, TimedChildren(trace, children))] :
                  children \in Families(trace)} :
        /\ Len(found.chain) >= MinSequential
        /\ Cardinality({Span(trace, i).key.template : i \in Range(found.chain)}) > 1}

--------------------------------------------------------------------------
(* The connections a service holds at once (detect/pool_saturation.rs).    *)

\* The starts (1) and ends (0) of some spans, an end before a start.
SweepLine(trace, group) ==
    Ranked(UNION {{<<Span(trace, i).at, 1, i>>, <<EndOf(Span(trace, i)), 0, i>>} : i \in group},
                 LAMBDA e, f : \E n \in 1..3 : e[n] < f[n] /\ \A k \in 1..(n - 1) : e[k] = f[k])

\* compute_peak_concurrency.
PeakConcurrency(trace, group) ==
    FoldLeft(LAMBDA held, edge :
               LET current == IF edge[2] = 1 THEN held.current + 1
                              ELSE IF held.current > 0 THEN held.current - 1 ELSE 0
               IN  [current |-> current, peak |-> Max({held.peak, current})],
             [current |-> 0, peak |-> 0], SweepLine(trace, group)).peak

\* peak_span_ids: which spans those are; one without duration holds nothing.
PeakSpans(trace, group) ==
    FoldLeft(LAMBDA held, edge :
               LET active == IF edge[2] = 1 THEN held.active \cup {edge[3]}
                             ELSE held.active \ {edge[3]}
               IN  [active |-> active,
                    peak |-> IF Cardinality(active) > Cardinality(held.peak)
                             THEN active ELSE held.peak],
             [active |-> {}, peak |-> {}],
             SweepLine(trace, {i \in group : Span(trace, i).dur > 0})).peak

\* saturated_services.
SaturatedPools(trace) ==
    {pool \in {[group |-> group, peak |-> PeakConcurrency(trace, group),
                spans |-> PeakSpans(trace, group)] :
                 group \in Grouped(trace, LAMBDA s : s.kind = "sql",
                                   LAMBDA s : <<s.key.service, s.grouping>>)} :
        pool.peak >= PoolThreshold}

--------------------------------------------------------------------------
(* What the reports must mean, said of the spans alone.                    *)

\* No two of these calls run at the same time.
Apart(trace, calls) ==
    \A i, j \in calls : i # j => \/ EndOf(Span(trace, i)) <= Span(trace, j).at
                                 \/ EndOf(Span(trace, j)) <= Span(trace, i).at

WorkOf(trace, family) == {i \in family : ~ Span(trace, i).session}

\* A chain reported is one after the other, in its order, and no longer one
\* of its family is; a family with a long one is passed over only for a chain
\* of one template, which an N+1 finding covers.
ChainsTrue(trace, found) ==
    /\ \A f \in found :
          /\ Range(f.chain) \subseteq WorkOf(trace, f.family)
          /\ \A n \in 2..Len(f.chain) :
                EndOf(Span(trace, f.chain[n - 1])) <= Span(trace, f.chain[n]).at
          /\ \A calls \in SUBSET WorkOf(trace, f.family) :
                Apart(trace, calls) => Cardinality(calls) <= Len(f.chain)
    /\ \A family \in Families(trace) \ {f.family : f \in found} :
          LET apart == {calls \in SUBSET WorkOf(trace, family) : Apart(trace, calls)}
              longest == Max({Cardinality(calls) : calls \in apart})
          IN  longest >= MinSequential =>
                \E calls \in apart : /\ Cardinality(calls) = longest
                                     /\ Cardinality({Span(trace, i).key.template : i \in calls}) = 1

\* The calls of a group in progress when one of them begins.
InProgress(trace, group, first) ==
    {i \in group : /\ Span(trace, i).at <= Span(trace, first).at
                   /\ Span(trace, first).at < EndOf(Span(trace, i))}

\* The peak reported of a pool is the most of its calls ever in progress, the
\* spans shown are as many and were in progress together, and a pool that
\* reaches the threshold is reported.
PoolsTrue(trace, pools) ==
    /\ \A pool \in pools :
          /\ pool.peak = Max({Cardinality(InProgress(trace, pool.group, i)) : i \in pool.group})
          /\ Cardinality(pool.spans) = pool.peak
          /\ \E i \in pool.spans : pool.spans \subseteq InProgress(trace, pool.group, i)
    /\ \A first \in DOMAIN trace.spans :
          LET pooled(s) == <<s.kind, s.key.service, s.grouping>>
              group == {i \in DOMAIN trace.spans : pooled(Span(trace, i)) = pooled(Span(trace, first))}
          IN  /\ Span(trace, first).kind = "sql"
              /\ Cardinality(InProgress(trace, group, first)) >= PoolThreshold
              => group \in {pool.group : pool \in pools}

\* The calls a batch could not do without: one of each template, kind and
\* grouping in each of its traces.
Needed(batch) ==
    FoldFunctionOnSet(+, 0,
        [b \in DOMAIN batch |->
            Cardinality({<<s.kind, s.key.template, s.grouping>> :
                           s \in {t \in Range(batch[b].spans) : ~ t.session}})],
        DOMAIN batch)

CallsIn(batch) == FoldFunctionOnSet(+, 0, [b \in DOMAIN batch |-> Len(batch[b].spans)], DOMAIN batch)

\* A trace is in the batch once, whole.
Unsplit(batch) == \A b, c \in DOMAIN batch : batch[b].id = batch[c].id => b = c

CountedIn(counter, labels) == FoldFunctionOnSet(+, 0, counter, labels \cap DOMAIN counter)

\* The counters, against the calls of each service: the avoidable ones come
\* to the total, no series has more of them than calls analysed, and a
\* service with a label of its own has all its calls under it.
SharesTrue(meter, total, calls) ==
    /\ CountedIn(meter.avoidable, DOMAIN meter.avoidable) = total
    /\ DOMAIN meter.avoidable \subseteq DOMAIN meter.analysed
    /\ \A label \in DOMAIN meter.avoidable : meter.avoidable[label] <= meter.analysed[label]
    /\ \A service \in meter.names :
          CountedIn(meter.analysed, {l \in DOMAIN meter.analysed : l[1] = service}) = calls[service]
    /\ CountedIn(meter.analysed, DOMAIN meter.analysed) = CountedIn(calls, DOMAIN calls)
=============================================================================
