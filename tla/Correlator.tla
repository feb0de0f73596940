----------------------------- MODULE Correlator -----------------------------
(***************************************************************************)
(* The cross-trace correlator (detect/correlate_cross.rs): which findings  *)
(* of different services fire together, the earlier one the source.  It    *)
(* keeps occurrences only as long as another may still pair with them, and *)
(* counts pairs and endpoints on a grid of half windows.  The correlator   *)
(* is a record here and ingest a function of it; the daemon holds its lock *)
(* throughout.                                                             *)
(*                                                                         *)
(* A finding is [type, service, template, first, ...], first its first     *)
(* span's timestamp; all are of one grouping.  The samples of lags and     *)
(* trace ids are left out: nothing is decided by them.                     *)
(***************************************************************************)
EXTENDS Naturals, Sequences, SequencesExt, Sieve, FiniteSets, FiniteSetsExt, Functions

CONSTANTS CorrelationWindow,   \* window_ms
          LagThreshold,        \* lag_threshold_ms
          IngestSkew,          \* ingest_skew_ms
          MinCoOccurrences,    \* min_co_occurrences
          MinConfidence,       \* min_confidence, in percent
          MaxTrackedPairs      \* max_tracked_pairs

ASSUME CorrelatorAssumption ==
    /\ CorrelationWindow \in Nat /\ LagThreshold \in Nat /\ IngestSkew \in Nat
    /\ MinCoOccurrences \in Nat /\ MinConfidence \in 0..100 /\ MaxTrackedPairs \in Nat

HalfWindow == Max({CorrelationWindow \div 2, 1})

\* An occurrence is out of every later finding's reach past this.
Reach == LagThreshold + IngestSkew

--------------------------------------------------------------------------
(* HalfWindowCount.                                                        *)

NoCount == [idx |-> 0, cur |-> 0, prev |-> 0]

Total(count, nowIdx) ==
    IF nowIdx <= count.idx THEN count.prev + count.cur
    ELSE IF nowIdx = count.idx + 1 THEN count.cur ELSE 0

\* An index older than the previous bucket is dropped.
AddAt(count, idx) ==
    CASE idx + 1 = count.idx -> [count EXCEPT !.prev = @ + 1]
      [] idx = count.idx     -> [count EXCEPT !.cur = @ + 1]
      [] idx = count.idx + 1 -> [idx |-> idx, cur |-> 1, prev |-> count.cur]
      [] idx > count.idx + 1 -> [idx |-> idx, cur |-> 1, prev |-> 0]
      [] OTHER               -> count

--------------------------------------------------------------------------
NewCorrelator ==
    [occurrences |-> <<>>, pairs |-> [key \in {} |-> 0], endpoints |-> [ep \in {} |-> 0],
     nowIdx |-> 0, prunedIdx |-> 0]

Endpoint(finding) ==
    [type |-> finding.type, service |-> finding.service, template |-> finding.template]

Pairable(a, b) == a.service # b.service

\* evict_stale: what the horizon has left behind, from the front.
EvictStale(occurrences, now) ==
    Sifted(occurrences, {occ \in Range(occurrences) : occ.ingest + Reach >= now})

\* The pairs that matched within the window.
RetainPairs(pairs, now) ==
    Restrict(pairs, {key \in DOMAIN pairs : pairs[key].last + CorrelationWindow >= now})

\* prune_endpoints, once per step of the grid: an endpoint without a count
\* goes, unless a pair or an occurrence still points at it.
PruneEndpoints(c) ==
    LET occurring == Range(c.occurrences)
        pinned == UNION {{key[1], key[2]} : key \in DOMAIN c.pairs}
                  \cup {o.endpoint : o \in occurring} \cup UNION {o.counted : o \in occurring}
        kept == {ep \in DOMAIN c.endpoints : Total(c.endpoints[ep], c.nowIdx) > 0 \/ ep \in pinned}
    IN  IF c.nowIdx = c.prunedIdx THEN c
        ELSE [c EXCEPT !.prunedIdx = c.nowIdx, !.endpoints = Restrict(@, kept)]

Intern(c, endpoint) ==
    LET count == IF endpoint \in DOMAIN c.endpoints THEN c.endpoints[endpoint] ELSE NoCount
    IN  [c EXCEPT !.endpoints = Put(@, endpoint, AddAt(count, c.nowIdx))]

\* Mutant: a match is counted in the bucket it happens in.
CountedNow(source, acc) == acc.incoming.idx

\* A match counts in the bucket that counted its source.
CreditedIdx(source, acc) == source.idx

\* One step of record_co_occurrences: the incoming occurrence against the i-th
\* of the horizon.  The earlier event is the source, a tie the earlier arrival;
\* a new pair past the cap is refused; a source counts once per target.
Match(acc, i) ==
    LET incoming == acc.incoming
        occ == acc.occurrences[i]
        lag == Max({occ.event, incoming.event}) - Min({occ.event, incoming.event})
        ahead == incoming.event < occ.event
        source == IF ahead THEN incoming ELSE occ
        target == IF ahead THEN occ ELSE incoming
        key == <<source.endpoint, target.endpoint>>
        state == IF key \in DOMAIN acc.pairs THEN acc.pairs[key]
                 ELSE [co |-> NoCount, first |-> incoming.ingest, last |-> incoming.ingest]
        counted == target.endpoint \in source.counted
        matched == [state EXCEPT !.last = incoming.ingest,
                                 !.co = IF counted THEN @ ELSE AddAt(@, CreditedIdx(source, acc))]
        marked == source.counted \cup {target.endpoint}
    IN  IF lag > LagThreshold \/ ~ Pairable(occ.endpoint, incoming.endpoint) THEN acc
        ELSE IF key \notin DOMAIN acc.pairs /\ Cardinality(DOMAIN acc.pairs) >= MaxTrackedPairs
        THEN [acc EXCEPT !.refused = @ \cup {key}]
        ELSE [acc EXCEPT !.pairs = Put(@, key, matched),
                         !.incoming.counted = IF ahead THEN marked ELSE @,
                         !.occurrences[i].counted = IF ahead THEN @ ELSE marked]

\* One finding of a batch.
IngestOne(acc, finding, now) ==
    LET c == Intern(acc.c, Endpoint(finding))
        start == [occurrences |-> c.occurrences, pairs |-> c.pairs, refused |-> acc.refused,
                  incoming |-> [endpoint |-> Endpoint(finding), event |-> finding.first,
                                ingest |-> now, idx |-> c.nowIdx, counted |-> {}]]
        met == FoldLeft(Match, start, [i \in DOMAIN c.occurrences |-> i])
    IN  [c |-> [c EXCEPT !.occurrences = Append(met.occurrences, met.incoming), !.pairs = met.pairs],
         refused |-> met.refused]

\* enforce_pair_cap: down to nine tenths of the cap, at least one, the fewest
\* co-occurrences first, then the stalest.
EnforcePairCap(c) ==
    LET size == Cardinality(DOMAIN c.pairs)
        goal == MaxTrackedPairs - MaxTrackedPairs \div 10
        toRemove == IF size > goal + 1 THEN size - goal ELSE 1
        keys == DOMAIN c.pairs
        Rank(key) == <<Total(c.pairs[key].co, c.nowIdx), c.pairs[key].last>>
        Below(a, b) == a[1] < b[1] \/ (a[1] = b[1] /\ a[2] < b[2])
        Order == Arranged(keys, {p \in keys \X keys : Below(Rank(p[1]), Rank(p[2]))})
        doomed == {Order[i] : i \in 1..toRemove}
    IN  IF size = 0 \/ size < MaxTrackedPairs THEN c
        ELSE [c EXCEPT !.pairs = Restrict(@, DOMAIN @ \ doomed)]

\* ingest: what it leaves, and the pairs it refused.
Ingest(correlator, findings, now) ==
    LET idx == Max({correlator.nowIdx, now \div HalfWindow})
        aged == PruneEndpoints([correlator EXCEPT !.nowIdx = idx,
                                   !.occurrences = EvictStale(@, now),
                                   !.pairs = RetainPairs(@, now)])
        met == FoldLeft(LAMBDA acc, finding : IngestOne(acc, finding, now),
                        [c |-> aged, refused |-> {}], findings)
    IN  [c |-> IF met.refused = {} THEN met.c ELSE EnforcePairCap(met.c),
         refused |-> met.refused]

\* active_correlations: the pairs above both thresholds.
ActiveCorrelations(c) ==
    LET Co(key) == Total(c.pairs[key].co, c.nowIdx)
        Source(key) == IF key[1] \in DOMAIN c.endpoints
                       THEN Total(c.endpoints[key[1]], c.nowIdx) ELSE 0
        active == {key \in DOMAIN c.pairs :
                      /\ Co(key) >= MinCoOccurrences
                      /\ Source(key) > 0
                      /\ Min({100 * Co(key), 100 * Source(key)}) >= MinConfidence * Source(key)}
    IN  {[pair |-> key, co |-> Co(key), total |-> Source(key),
          first |-> c.pairs[key].first, last |-> c.pairs[key].last] : key \in active}

--------------------------------------------------------------------------
(* What the counts say, over every finding ingested, oldest first, as      *)
(* [endpoint, event, ingest, idx].                                         *)

\* The j-th finding is a target the i-th one leads to, close enough in event
\* time, and ingested near enough for the two to have met.
LeadsTo(seen, i, j) ==
    LET Apart(a, b) == IF a > b THEN a - b ELSE b - a
    IN  /\ seen[i].event < seen[j].event \/ (seen[i].event = seen[j].event /\ i < j)
        /\ seen[j].event - seen[i].event <= LagThreshold
        /\ Apart(seen[i].ingest, seen[j].ingest) <= Reach
        /\ Pairable(seen[i].endpoint, seen[j].endpoint)

\* The occurrences of a source in the buckets that count.
Counted(seen, endpoint, nowIdx) ==
    {i \in DOMAIN seen : seen[i].endpoint = endpoint /\ seen[i].idx + 1 >= nowIdx}

Leading(seen, key, nowIdx) ==
    {i \in Counted(seen, key[1], nowIdx) :
        \E j \in DOMAIN seen : seen[j].endpoint = key[2] /\ LeadsTo(seen, i, j)}

\* An endpoint counts its occurrences, and a pair those of its source that led
\* to its target: all of them unless a pair was ever refused, never more.
CountsTrue(c, seen, refusedEver) ==
    LET endpoints == {seen[i].endpoint : i \in DOMAIN seen}
        Co(key) == IF key \in DOMAIN c.pairs THEN Total(c.pairs[key].co, c.nowIdx) ELSE 0
        Count(ep) == IF ep \in DOMAIN c.endpoints THEN Total(c.endpoints[ep], c.nowIdx) ELSE 0
    IN  /\ \A ep \in endpoints : Count(ep) = Cardinality(Counted(seen, ep, c.nowIdx))
        /\ \A key \in endpoints \X endpoints :
              LET leading == Cardinality(Leading(seen, key, c.nowIdx))
              IN  Co(key) <= leading /\ (~ refusedEver => Co(key) = leading)
=============================================================================
