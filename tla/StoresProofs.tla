---------------------------- MODULE StoresProofs ----------------------------
(***************************************************************************)
(* Proofs about the stores behind the worker: the span trees of the        *)
(* findings, the pairs of the correlator, the labels of the waste          *)
(* counters; and that every store keeps its bounds, for any bounds and     *)
(* any batches.                                                            *)
(***************************************************************************)
EXTENDS WorkerProofs

-----------------------------------------------------------------------------
(* The traces behind the findings.                                         *)

\* The last flush of a trace before the n-th.
LEMMA FlushBeforeFacts ==
  ASSUME NEW F, NEW id, NEW n \in Nat \ {0}
  PROVE  /\ FlushBefore(F, id, n) \in 0..(n - 1)
         /\ FlushBefore(F, id, n) # 0 => F[FlushBefore(F, id, n)].id = id
         /\ \A i \in 1..(n - 1) : F[i].id = id => i <= FlushBefore(F, id, n)
<1>1. PICK T : T = {i \in 1..(n - 1) : F[i].id = id} \cup {0}
  OBVIOUS
<1>2. PICK B \in Nat : B = n - 1
  OBVIOUS
<1>3. T \in SUBSET (0..B) /\ T # {}
  BY <1>1, <1>2
<1>4. PICK b : b = Max(T)
  OBVIOUS
<1>5. b \in T /\ \A i \in T : i <= b
  BY <1>3, <1>4, MaxIsGreatest
<1>6. FlushBefore(F, id, n) = b
  BY <1>1, <1>4 DEF FlushBefore
<1>7. b \in 0..(n - 1) /\ (b # 0 => F[b].id = id)
  BY <1>1, <1>2, <1>3, <1>5
<1>8. \A i \in 1..(n - 1) : F[i].id = id => i <= b
  BY <1>1, <1>5
<1> QED BY <1>6, <1>7, <1>8

\* A flush of the trace, or none, after which there is no other.
LEMMA FlushBeforeIs ==
  ASSUME NEW F, NEW id, NEW n \in Nat \ {0}, NEW b \in 0..(n - 1),
         b # 0 => F[b].id = id, \A i \in (b + 1)..(n - 1) : F[i].id # id
  PROVE  FlushBefore(F, id, n) = b
<1>1. PICK c : c = FlushBefore(F, id, n)
  OBVIOUS
<1>2. /\ c \in 0..(n - 1) /\ (c # 0 => F[c].id = id)
      /\ \A i \in 1..(n - 1) : F[i].id = id => i <= c
  BY <1>1, FlushBeforeFacts
<1>3. c <= b
  <2>1. c > b => c \in (b + 1)..(n - 1) /\ c # 0
    BY <1>2
  <2>2. c \in Nat /\ b \in Nat
    BY <1>2
  <2> QED BY <1>2, <2>1, <2>2
<1>4. b <= c
  BY <1>2
<1>5. b = c
  BY <1>2, <1>3, <1>4
<1> QED BY <1>1, <1>5

\* A later flush changes nothing of it.
LEMMA FlushBeforeSame ==
  ASSUME NEW F, NEW G, NEW id, NEW n \in Nat \ {0}, \A i \in 1..(n - 1) : G[i] = F[i]
  PROVE  FlushBefore(G, id, n) = FlushBefore(F, id, n)
<1>1. PICK b : b = FlushBefore(F, id, n)
  OBVIOUS
<1>2. /\ b \in 0..(n - 1) /\ (b # 0 => F[b].id = id)
      /\ \A i \in 1..(n - 1) : F[i].id = id => i <= b
  BY <1>1, FlushBeforeFacts
<1>3. b # 0 => G[b].id = id
  <2>1. b # 0 => b \in 1..(n - 1)
    BY <1>2
  <2> QED BY <1>2, <2>1
<1>4. \A i \in (b + 1)..(n - 1) : G[i].id # id
  <2> TAKE i \in (b + 1)..(n - 1)
  <2>1. i \in 1..(n - 1) /\ ~ (i <= b)
    BY <1>2
  <2> QED BY <1>2, <2>1
<1>5. FlushBefore(G, id, n) = b
  BY <1>2, <1>3, <1>4, FlushBeforeIs
<1> QED BY <1>1, <1>5

\* The traces flushed between two flushes depend on no later flush.
LEMMA HeldBetweenSame ==
  ASSUME NEW F, NEW G, NEW i \in Nat, NEW j \in Nat, \A k \in 1..(j - 1) : G[k] = F[k]
  PROVE  HeldBetween(G, i, j) = HeldBetween(F, i, j)
<1>1. \A k \in (i + 1)..(j - 1) : k \in 1..(j - 1)
  OBVIOUS
<1>2. {G[k].id : k \in (i + 1)..(j - 1)} = {F[k].id : k \in (i + 1)..(j - 1)}
  BY <1>1
<1> QED BY <1>2 DEF HeldBetween

\* The traces flushed between two flushes are finitely many.
LEMMA BetweenFinite ==
  ASSUME NEW F, NEW i \in Nat, NEW j \in Nat
  PROVE  IsFiniteSet({F[k].id : k \in (i + 1)..(j - 1)})
<1>1. PICK K : K = (i + 1)..(j - 1)
  OBVIOUS
<1>2. IsFiniteSet(K)
  BY <1>1, FS_Interval
<1>3. PICK f : f = [k \in K |-> F[k].id]
  OBVIOUS
<1>4. IsFiniteSet({f[k] : k \in K})
  BY <1>2, <1>3, FiniteImage
<1> QED BY <1>1, <1>3, <1>4

\* Where the spans of a merged trace come from.
LEMMA MergeFacts ==
  ASSUME NEW A, NEW old \in Seq(A), NEW new \in Seq(A),
         Len(new) <= MaxSpansPerTrace
  PROVE  /\ MergeSpans(old, new) \in Seq(A)
         /\ Len(MergeSpans(old, new)) <= MaxSpansPerTrace
         /\ SpanIds(new) \subseteq SpanIds(MergeSpans(old, new))
         /\ \/ Len(MergeSpans(old, new)) = MaxSpansPerTrace
            \/ SpanIds(old) \subseteq SpanIds(MergeSpans(old, new))
<1>1. PICK newer : newer = {new[i].id : i \in DOMAIN new}
  OBVIOUS
<1>2. PICK keep : keep = {s \in Range(old) : s.id \notin newer}
  OBVIOUS
<1>3. PICK kept \in Seq(A) : kept = Sifted(old, keep) /\ Range(kept) = Range(old) \cap keep
  BY SiftedRange
<1>4. PICK m \in Nat, n \in Nat : /\ m = Len(kept) /\ DOMAIN kept = 1..m
                                  /\ n = Len(new) /\ DOMAIN new = 1..n
  OBVIOUS
<1>5. PICK both \in Seq(A) : /\ both = kept \o new /\ Len(both) = m + n
                             /\ Range(both) = Range(kept) \cup Range(new)
  BY <1>4, ConcatRange
<1>6. \A i \in 1..n : both[m + i] = new[i]
  BY <1>4, <1>5, ConcatAt
<1>7. PICK cut \in 0..(m + n) : cut = IF Len(both) > MaxSpansPerTrace
                                      THEN Len(both) - MaxSpansPerTrace ELSE 0
  <2>1. PICK most \in Nat : most = MaxSpansPerTrace
    BY TracesAssumption
  <2>2. CASE m + n > most
    <3>1. m + n - most \in 0..(m + n)
      BY <2>2
    <3> QED BY <1>5, <2>1, <2>2, <3>1
  <2>3. CASE ~ (m + n > most)
    BY <1>5, <2>1, <2>3
  <2> QED BY <2>2, <2>3
<1>8. cut <= m /\ m + n - cut <= MaxSpansPerTrace
      /\ (cut = 0 \/ m + n - cut = MaxSpansPerTrace)
  BY <1>4, <1>5, <1>7, TracesAssumption
<1>9. PICK r : r = MergeSpans(old, new)
  OBVIOUS
<1>10. r = SubSeq(both, cut + 1, m + n)
  BY <1>1, <1>2, <1>3, <1>5, <1>7, <1>9 DEF MergeSpans
<1>11. PICK l \in 0..(m + n) : l = m + n - cut
  OBVIOUS
<1>12. r = [i \in 1..l |-> both[cut + i]]
  <2>1. r = [i \in 1..(1 + (m + n) - (cut + 1)) |-> both[i + (cut + 1) - 1]]
    BY <1>5, <1>10
  <2>2. 1 + (m + n) - (cut + 1) = l /\ \A i \in 1..l : i + (cut + 1) - 1 = cut + i
    BY <1>11
  <2> QED BY <2>1, <2>2
<1>13. \A i \in 1..l : cut + i \in 1..(m + n)
  BY <1>11
<1>14. r \in Seq(A) /\ Len(r) = l /\ DOMAIN r = 1..l
  <2>1. \A k \in 1..(m + n) : both[k] \in A
    BY <1>5
  <2>2. \A i \in 1..l : r[i] \in A
    BY <1>12, <1>13, <2>1
  <2> QED BY <1>12, <2>2
<1>15. SpanIds(new) \subseteq SpanIds(r)
  <2> SUFFICES ASSUME NEW i \in 1..n PROVE new[i].id \in SpanIds(r)
    BY <1>4 DEF SpanIds
  <2>1. PICK j \in 1..l : j = m - cut + i
    BY <1>8, <1>11
  <2>2. cut + j = m + i
    BY <1>8, <2>1
  <2>3. r[j] = new[i]
    BY <1>6, <1>12, <2>2
  <2> QED BY <1>14, <2>3 DEF SpanIds
<1>16. CASE cut = 0
  <2>1. l = m + n
    BY <1>11, <1>16
  <2>2. \A i \in 1..l : r[i] = both[i]
    <3>1. \A i \in 1..l : cut + i = i
      BY <1>16
    <3> QED BY <1>12, <3>1
  <2>3. \A s \in Range(both) : s.id \in SpanIds(r)
    BY <1>5, <1>14, <2>1, <2>2 DEF Range, SpanIds
  <2>4. SpanIds(old) \subseteq SpanIds(r)
    <3> SUFFICES ASSUME NEW i \in DOMAIN old PROVE old[i].id \in SpanIds(r)
      BY DEF SpanIds
    <3>1. old[i] \in Range(old)
      BY DEF Range
    <3>2. CASE old[i].id \in newer
      BY <1>1, <1>15, <3>2 DEF SpanIds
    <3>3. CASE old[i].id \notin newer
      BY <1>2, <1>3, <1>5, <2>3, <3>1, <3>3
    <3> QED BY <3>2, <3>3
  <2> QED BY <1>8, <1>9, <1>11, <1>14, <1>15, <2>4
<1>17. CASE cut # 0
  BY <1>8, <1>9, <1>11, <1>14, <1>15, <1>17
<1> QED BY <1>16, <1>17

\* The flushes of a store of traces: none is longer than a trace may be.
IsFlush(trace) == trace.spans \in Seq(Range(trace.spans)) /\ Len(trace.spans) <= MaxSpansPerTrace

AreFlushes(F) == F \in Seq(Range(F)) /\ \A trace \in Range(F) : IsFlush(trace)

\* Each trace held is dated by its last flush, no flush after that is of a
\* trace that is not held, and a store that is not full holds them all.
HeldSince(traces, F, most) ==
    /\ IsFiniteSet(DOMAIN traces) /\ Cardinality(DOMAIN traces) <= most
    /\ \A id \in DOMAIN traces :
          /\ traces[id].generation \in 1..Len(F)
          /\ F[traces[id].generation].id = id
          /\ \A n \in (traces[id].generation + 1)..Len(F) : F[n].id # id /\ F[n].id \in DOMAIN traces
          /\ traces[id].spans \in Seq(Range(traces[id].spans))
          /\ Len(traces[id].spans) <= MaxSpansPerTrace
    /\ \/ Cardinality(DOMAIN traces) >= MaxRetainedTraces
       \/ \A n \in 1..Len(F) : F[n].id \in DOMAIN traces

\* The queue names flushes in their order, the last one of every trace held
\* among them.
Queues(order, traces, F) ==
    /\ order \in Seq(Range(order))
    /\ \A i \in DOMAIN order : /\ order[i].generation \in 1..Len(F)
                               /\ F[order[i].generation].id = order[i].id
    /\ \A i, j \in DOMAIN order : i < j => order[i].generation < order[j].generation
    /\ \A id \in DOMAIN traces : \E i \in DOMAIN order : order[i].generation = traces[id].generation

\* What is held of the spans of a trace.
SpansKept(id, held, F) ==
    LET earlier == FlushBefore(F, id, held.generation)
    IN  /\ SpanIds(F[held.generation].spans) \subseteq SpanIds(held.spans)
        /\ \/ earlier = 0
           \/ ~ HeldBetween(F, earlier, held.generation)
           \/ Len(held.spans) = MaxSpansPerTrace
           \/ SpanIds(F[earlier].spans) \subseteq SpanIds(held.spans)

StoreOf(s, F, most) ==
    /\ s = [traces |-> s.traces, order |-> s.order, generation |-> s.generation]
    /\ s.traces = [id \in DOMAIN s.traces |-> s.traces[id]]
    /\ AreFlushes(F) /\ s.generation = Len(F)
    /\ HeldSince(s.traces, F, most)
    /\ Queues(s.order, s.traces, F)
    /\ \A id \in DOMAIN s.traces : SpansKept(id, s.traces[id], F)

\* A trace that is not held was flushed before all that are.
LEMMA GoneIsOlder ==
  ASSUME NEW F, AreFlushes(F), NEW traces, HeldSince(traces, F, MaxRetainedTraces),
         NEW e \in 1..Len(F), F[e].id \notin DOMAIN traces
  PROVE  /\ \A id \in DOMAIN traces : traces[id].generation > e
         /\ ~ HeldBetween(F, e, Len(F) + 1)
<1>1. PICK N \in Nat : N = Len(F)
  BY DEF AreFlushes
<1>2. PICK D : D = DOMAIN traces
  OBVIOUS
<1>3. \A id \in D : traces[id].generation > e /\ traces[id].generation \in 1..N
                    /\ F[traces[id].generation].id = id
  <2> TAKE id \in D
  <2>1. PICK g \in 1..N : g = traces[id].generation /\ F[g].id = id
                          /\ \A n \in (g + 1)..N : F[n].id \in D
    BY <1>1, <1>2 DEF HeldSince
  <2>2. e # g
    BY <1>2, <2>1
  <2>3. ~ (e \in (g + 1)..N)
    BY <1>2, <2>1
  <2>4. g > e
    BY <1>1, <2>1, <2>2, <2>3
  <2> QED BY <1>1, <2>1, <2>4
<1>4. IsFiniteSet(D) /\ Cardinality(D) >= MaxRetainedTraces
  BY <1>2 DEF HeldSince
<1>5. PICK B : B = {F[k].id : k \in (e + 1)..N}
  OBVIOUS
<1>6. D \subseteq B
  <2> SUFFICES ASSUME NEW id \in D PROVE id \in B
    OBVIOUS
  <2>1. traces[id].generation \in (e + 1)..N
    BY <1>1, <1>3
  <2> QED BY <1>3, <1>5, <2>1
<1>7. IsFiniteSet(B)
  <2>1. (N + 1) - 1 = N /\ e \in Nat /\ N + 1 \in Nat
    BY <1>1
  <2> QED BY <1>5, <2>1, BetweenFinite
<1>8. Cardinality(D) <= Cardinality(B) /\ Cardinality(D) \in Nat /\ Cardinality(B) \in Nat
  BY <1>6, <1>7, FS_Subset, FS_CardinalityType
<1>9. ~ (Cardinality(B) < MaxRetainedTraces)
  BY <1>4, <1>8, TracesAssumption
<1>10. ~ HeldBetween(F, e, N + 1)
  <2>1. (N + 1) - 1 = N
    OBVIOUS
  <2> QED BY <1>5, <1>9, <2>1 DEF HeldBetween
<1> QED BY <1>1, <1>2, <1>3, <1>10

\* A trace held was flushed after all but fewer others than fit.
LEMMA HeldIsNewest ==
  ASSUME NEW F, AreFlushes(F), NEW traces, HeldSince(traces, F, MaxRetainedTraces),
         NEW id \in DOMAIN traces
  PROVE  HeldBetween(F, traces[id].generation, Len(F) + 1)
<1>1. PICK N \in Nat : N = Len(F)
  BY DEF AreFlushes
<1>2. PICK D : D = DOMAIN traces
  OBVIOUS
<1>3. PICK g \in 1..N : g = traces[id].generation /\ \A n \in (g + 1)..N : F[n].id # id /\ F[n].id \in D
  BY <1>1, <1>2 DEF HeldSince
<1>4. PICK B : B = {F[k].id : k \in (g + 1)..N}
  OBVIOUS
<1>5. PICK R : R = D \ {id}
  OBVIOUS
<1>6. B \subseteq R
  BY <1>3, <1>4, <1>5
<1>7. IsFiniteSet(D) /\ Cardinality(D) <= MaxRetainedTraces /\ Cardinality(D) \in Nat
  BY <1>2, FS_CardinalityType DEF HeldSince
<1>8. IsFiniteSet(R) /\ Cardinality(R) = Cardinality(D) - 1
  BY <1>2, <1>5, <1>7, FS_RemoveElement
<1>9. Cardinality(B) <= Cardinality(R) /\ Cardinality(B) \in Nat
  BY <1>6, <1>8, FS_Subset, FS_CardinalityType
<1>10. Cardinality(B) < MaxRetainedTraces
  BY <1>7, <1>8, <1>9, TracesAssumption
<1>11. HeldBetween(F, g, N + 1)
  <2>1. (N + 1) - 1 = N
    OBVIOUS
  <2> QED BY <1>4, <1>10, <2>1 DEF HeldBetween
<1> QED BY <1>1, <1>3, <1>11

\* A flush dates its trace, puts it last in the queue, and loses no spans of
\* its last two flushes that there is room for.
LEMMA FlushKeeps ==
  ASSUME MaxRetainedTraces # 0, NEW s, NEW F, StoreOf(s, F, MaxRetainedTraces),
         NEW trace, IsFlush(trace)
  PROVE  StoreOf(Flush(s, trace.id, trace.spans), Append(F, trace), MaxRetainedTraces + 1)
<1>1. PICK N \in Nat : N = Len(F) /\ DOMAIN F = 1..N
  BY DEF StoreOf, AreFlushes
<1>2. PICK id, spans : id = trace.id /\ spans = trace.spans
  OBVIOUS
<1>3. PICK A : A = Range(F) \cup {trace}
  OBVIOUS
<1>4. PICK G \in Seq(A) : G = Append(F, trace)
  <2>1. F \in Seq(A) /\ trace \in A
    BY <1>3 DEF StoreOf, AreFlushes
  <2>2. Append(F, trace) \in Seq(A)
    BY <2>1, AppendProperties
  <2> QED BY <2>2
<1>5. /\ Len(G) = N + 1 /\ DOMAIN G = 1..(N + 1) /\ G[N + 1] = trace
      /\ \A i \in 1..N : G[i] = F[i]
  BY <1>1, <1>4 DEF StoreOf, AreFlushes
<1>6. AreFlushes(G)
  <2>1. \A i \in 1..(N + 1) : IsFlush(G[i])
    <3> TAKE i \in 1..(N + 1)
    <3>1. CASE i = N + 1
      BY <1>5, <3>1
    <3>2. CASE i # N + 1
      <4>1. i \in 1..N
        BY <3>2
      <4>2. F[i] \in Range(F)
        BY <1>1, <4>1 DEF Range
      <4> QED BY <1>5, <4>1, <4>2 DEF StoreOf, AreFlushes
    <3> QED BY <3>1, <3>2
  <2>2. G \in Seq(Range(G))
    BY FiniteSequence
  <2> QED BY <1>5, <2>1, <2>2 DEF AreFlushes, Range
<1>7. PICK traces, order : traces = s.traces /\ order = s.order
  OBVIOUS
<1>8. PICK D : D = DOMAIN traces
  OBVIOUS
<1>9. /\ s.generation = N /\ HeldSince(traces, F, MaxRetainedTraces) /\ Queues(order, traces, F)
      /\ \A i \in D : SpansKept(i, traces[i], F)
  BY <1>1, <1>7, <1>8 DEF StoreOf
<1>10. PICK held : held = IF id \in D THEN MergeSpans(traces[id].spans, spans) ELSE spans
  OBVIOUS
<1>11. PICK new : new = [generation |-> N + 1, spans |-> held]
  OBVIOUS
<1>12. PICK E : E = D \cup {id}
  OBVIOUS
<1>13. PICK after : after = [k \in E |-> IF k = id THEN new ELSE traces[k]]
  OBVIOUS
<1>14. PICK item : item = [id |-> id, generation |-> N + 1]
  OBVIOUS
<1>15. PICK queue : queue = Append(order, item)
  OBVIOUS
<1>16. Flush(s, id, spans) = [traces |-> after, order |-> queue, generation |-> N + 1]
  BY <1>7, <1>8, <1>9, <1>10, <1>11, <1>12, <1>13, <1>14, <1>15 DEF Flush, Put
<1>17. DOMAIN after = E /\ after[id] = new /\ \A k \in E : k # id => after[k] = traces[k] /\ k \in D
  BY <1>12, <1>13
<1>18. /\ spans \in Seq(Range(spans)) /\ Len(spans) <= MaxSpansPerTrace
       /\ held \in Seq(Range(held)) /\ Len(held) <= MaxSpansPerTrace
       /\ SpanIds(spans) \subseteq SpanIds(held)
       /\ id \in D => \/ Len(held) = MaxSpansPerTrace
                      \/ SpanIds(traces[id].spans) \subseteq SpanIds(held)
  <2>1. spans \in Seq(Range(spans)) /\ Len(spans) <= MaxSpansPerTrace
    BY <1>2 DEF IsFlush
  <2>2. CASE id \notin D
    BY <1>10, <2>1, <2>2
  <2>3. CASE id \in D
    <3>1. PICK old : old = traces[id].spans
      OBVIOUS
    <3>2. old \in Seq(Range(old))
      BY <1>8, <1>9, <2>3, <3>1 DEF HeldSince
    <3>3. PICK O : O = Range(old) \cup Range(spans)
      OBVIOUS
    <3>4. old \in Seq(O) /\ spans \in Seq(O)
      BY <2>1, <3>2, <3>3
    <3>5. held = MergeSpans(old, spans)
      BY <1>10, <2>3, <3>1
    <3>6. /\ held \in Seq(O) /\ Len(held) <= MaxSpansPerTrace
          /\ SpanIds(spans) \subseteq SpanIds(held)
          /\ Len(held) = MaxSpansPerTrace \/ SpanIds(old) \subseteq SpanIds(held)
      BY <2>1, <3>4, <3>5, MergeFacts
    <3>7. held \in Seq(Range(held))
      BY <3>6, FiniteSequence
    <3> QED BY <2>1, <3>1, <3>6, <3>7
  <2> QED BY <2>2, <2>3
<1>19. HeldSince(after, G, MaxRetainedTraces + 1)
  <2>1. IsFiniteSet(D) /\ Cardinality(D) <= MaxRetainedTraces /\ Cardinality(D) \in Nat
    BY <1>8, <1>9, FS_CardinalityType DEF HeldSince
  <2>2. IsFiniteSet(E) /\ Cardinality(E) = IF id \in D THEN Cardinality(D) ELSE Cardinality(D) + 1
    BY <1>12, <2>1, FS_AddElement
  <2>3. Cardinality(E) <= MaxRetainedTraces + 1
    BY <2>1, <2>2, TracesAssumption
  <2>4. ASSUME NEW k \in E
        PROVE  /\ after[k].generation \in 1..(N + 1)
               /\ G[after[k].generation].id = k
               /\ \A n \in (after[k].generation + 1)..(N + 1) : G[n].id # k /\ G[n].id \in E
               /\ after[k].spans \in Seq(Range(after[k].spans))
               /\ Len(after[k].spans) <= MaxSpansPerTrace
    <3>1. CASE k = id
      <4>1. after[k].generation = N + 1 /\ after[k].spans = held
        BY <1>11, <1>17, <3>1
      <4>2. N + 1 \in 1..(N + 1) /\ (N + 1 + 1)..(N + 1) = {}
        OBVIOUS
      <4> QED BY <1>2, <1>5, <1>18, <3>1, <4>1, <4>2
    <3>2. CASE k # id
      <4>1. after[k] = traces[k] /\ k \in D
        BY <1>17, <3>2
      <4>2. PICK g \in 1..N : /\ g = traces[k].generation /\ F[g].id = k
                              /\ \A n \in (g + 1)..N : F[n].id # k /\ F[n].id \in D
        BY <1>1, <1>8, <1>9, <4>1 DEF HeldSince
      <4>3. traces[k].spans \in Seq(Range(traces[k].spans)) /\ Len(traces[k].spans) <= MaxSpansPerTrace
        BY <1>8, <1>9, <4>1 DEF HeldSince
      <4>4. \A n \in (g + 1)..(N + 1) : n = N + 1 \/ (n \in (g + 1)..N /\ n \in 1..N)
        OBVIOUS
      <4>5. \A n \in (g + 1)..(N + 1) : G[n].id # k /\ G[n].id \in E
        BY <1>2, <1>5, <1>12, <3>2, <4>2, <4>4
      <4>6. g \in 1..(N + 1) /\ G[g].id = k
        BY <1>5, <4>2
      <4> QED BY <4>1, <4>2, <4>3, <4>5, <4>6
    <3> QED BY <3>1, <3>2
  <2>5. \/ Cardinality(E) >= MaxRetainedTraces
        \/ \A n \in 1..(N + 1) : G[n].id \in E
    <3>1. CASE Cardinality(D) >= MaxRetainedTraces
      BY <2>1, <2>2, <3>1, TracesAssumption
    <3>2. CASE \A n \in 1..N : F[n].id \in D
      <4>1. \A n \in 1..(N + 1) : n = N + 1 \/ n \in 1..N
        OBVIOUS
      <4> QED BY <1>2, <1>5, <1>12, <3>2, <4>1
    <3> QED BY <1>1, <1>8, <1>9, <3>1, <3>2 DEF HeldSince
  <2> QED BY <1>5, <1>17, <2>2, <2>3, <2>4, <2>5 DEF HeldSince
<1>20. Queues(queue, after, G)
  <2>1. PICK L \in Nat : L = Len(order) /\ DOMAIN order = 1..L
    BY <1>9 DEF Queues
  <2>2. PICK Q : Q = Range(order) \cup {item}
    OBVIOUS
  <2>3. order \in Seq(Q) /\ item \in Q
    BY <1>9, <2>2 DEF Queues
  <2>4. /\ queue \in Seq(Q) /\ DOMAIN queue = 1..(L + 1) /\ queue[L + 1] = item
        /\ \A i \in 1..L : queue[i] = order[i]
    BY <1>15, <2>1, <2>3
  <2>5. queue \in Seq(Range(queue))
    BY <2>4, FiniteSequence
  <2>6. \A i \in 1..(L + 1) : i = L + 1 \/ i \in 1..L
    OBVIOUS
  <2>7. \A i \in 1..L : order[i].generation \in 1..N /\ F[order[i].generation].id = order[i].id
    BY <1>1, <1>9, <2>1 DEF Queues
  <2>8. item.generation = N + 1 /\ item.id = id
    BY <1>14
  <2>9. ASSUME NEW i \in 1..(L + 1)
        PROVE  queue[i].generation \in 1..(N + 1) /\ G[queue[i].generation].id = queue[i].id
    <3>1. CASE i = L + 1
      BY <1>2, <1>5, <2>4, <2>8, <3>1
    <3>2. CASE i \in 1..L
      <4>1. PICK g \in 1..N : g = order[i].generation /\ F[g].id = order[i].id
        BY <2>7, <3>2
      <4>2. g \in 1..(N + 1) /\ G[g] = F[g]
        BY <1>5
      <4> QED BY <2>4, <3>2, <4>1, <4>2
    <3> QED BY <2>6, <3>1, <3>2
  <2>10. ASSUME NEW i \in 1..(L + 1), NEW j \in 1..(L + 1), i < j
         PROVE  queue[i].generation < queue[j].generation
    <3>1. i \in 1..L
      BY <2>10
    <3>2. CASE j = L + 1
      <4>1. order[i].generation \in 1..N /\ queue[i] = order[i]
        BY <2>4, <2>7, <3>1
      <4> QED BY <2>4, <2>8, <3>2, <4>1
    <3>3. CASE j \in 1..L
      BY <1>9, <2>1, <2>4, <2>10, <3>1, <3>3 DEF Queues
    <3> QED BY <2>6, <3>2, <3>3
  <2>11. ASSUME NEW k \in E PROVE \E i \in 1..(L + 1) : queue[i].generation = after[k].generation
    <3>1. CASE k = id
      <4>1. L + 1 \in 1..(L + 1) /\ after[k].generation = N + 1
        BY <1>11, <1>17, <3>1
      <4> QED BY <2>4, <2>8, <4>1
    <3>2. CASE k # id
      <4>1. after[k] = traces[k] /\ k \in D
        BY <1>17, <3>2
      <4>2. PICK i \in 1..L : order[i].generation = traces[k].generation
        BY <1>8, <1>9, <2>1, <4>1 DEF Queues
      <4>3. i \in 1..(L + 1)
        OBVIOUS
      <4> QED BY <2>4, <4>1, <4>2, <4>3
    <3> QED BY <3>1, <3>2
  <2> QED BY <1>5, <1>17, <2>4, <2>5, <2>9, <2>10, <2>11 DEF Queues
<1>21. ASSUME NEW k \in E PROVE SpansKept(k, after[k], G)
  <2>1. CASE k # id
    <3>1. after[k] = traces[k] /\ k \in D
      BY <1>17, <2>1
    <3>2. PICK g \in 1..N : g = traces[k].generation
      BY <1>1, <1>8, <1>9, <3>1 DEF HeldSince
    <3>3. PICK e \in 0..(g - 1) : e = FlushBefore(F, k, g)
      BY FlushBeforeFacts
    <3>4. \A i \in 1..(g - 1) : G[i] = F[i]
      BY <1>5
    <3>5. FlushBefore(G, k, g) = e /\ G[g] = F[g]
      BY <1>5, <3>3, <3>4, FlushBeforeSame
    <3>6. HeldBetween(G, e, g) = HeldBetween(F, e, g)
      BY <3>4, HeldBetweenSame
    <3>7. e # 0 => G[e] = F[e]
      BY <1>5
    <3>8. SpansKept(k, traces[k], F)
      BY <1>9, <3>1
    <3> QED BY <3>1, <3>2, <3>3, <3>5, <3>6, <3>7, <3>8 DEF SpansKept
  <2>2. CASE k = id
    <3>1. after[k] = new /\ new.generation = N + 1 /\ new.spans = held
      BY <1>11, <1>17, <2>2
    <3>2. PICK e \in 0..N : e = FlushBefore(F, id, N + 1)
      <4>1. N + 1 \in Nat \ {0} /\ (N + 1) - 1 = N
        OBVIOUS
      <4> QED BY <4>1, FlushBeforeFacts
    <3>3. FlushBefore(G, id, N + 1) = e
      <4>1. N + 1 \in Nat \ {0} /\ \A i \in 1..((N + 1) - 1) : G[i] = F[i]
        BY <1>5
      <4> QED BY <3>2, <4>1, FlushBeforeSame
    <3>4. SpanIds(G[N + 1].spans) \subseteq SpanIds(held)
      BY <1>2, <1>5, <1>18
    <3>5. \/ e = 0
          \/ ~ HeldBetween(G, e, N + 1)
          \/ Len(held) = MaxSpansPerTrace
          \/ SpanIds(G[e].spans) \subseteq SpanIds(held)
      <4>1. CASE id \in D
        <5>1. PICK g \in 1..N : /\ g = traces[id].generation /\ F[g].id = id
                                /\ \A n \in (g + 1)..N : F[n].id # id
          BY <1>1, <1>8, <1>9, <4>1 DEF HeldSince
        <5>2. e = g
          <6>1. N + 1 \in Nat \ {0} /\ (N + 1) - 1 = N /\ g \in 0..N
            OBVIOUS
          <6> QED BY <3>2, <5>1, <6>1, FlushBeforeIs
        <5>3. SpanIds(F[g].spans) \subseteq SpanIds(traces[id].spans)
          BY <1>9, <4>1, <5>1 DEF SpansKept
        <5>4. G[e] = F[g]
          BY <1>5, <5>2
        <5> QED BY <1>18, <4>1, <5>3, <5>4
      <4>2. CASE id \notin D
        <5>1. CASE e # 0
          <6>1. e \in 1..N /\ F[e].id = id
            <7>1. N + 1 \in Nat \ {0}
              OBVIOUS
            <7> QED BY <3>2, <5>1, <7>1, FlushBeforeFacts
          <6>2. ~ HeldBetween(F, e, N + 1)
            BY <1>1, <1>8, <1>9, <4>2, <6>1, GoneIsOlder DEF StoreOf
          <6>3. HeldBetween(G, e, N + 1) = HeldBetween(F, e, N + 1)
            <7>1. N + 1 \in Nat /\ e \in Nat /\ \A i \in 1..((N + 1) - 1) : G[i] = F[i]
              BY <1>5
            <7> QED BY <7>1, HeldBetweenSame
          <6> QED BY <6>2, <6>3
        <5> QED BY <5>1
      <4> QED BY <4>1, <4>2
    <3> QED BY <2>2, <3>1, <3>3, <3>4, <3>5 DEF SpansKept
  <2> QED BY <2>1, <2>2
<1>22. PICK t : t = Flush(s, id, spans)
  OBVIOUS
<1>23. t.traces = after /\ t.order = queue /\ t.generation = N + 1
       /\ t = [traces |-> t.traces, order |-> t.order, generation |-> t.generation]
  BY <1>16, <1>22
<1>24. after = [k \in DOMAIN after |-> after[k]]
  BY <1>13, <1>17
<1>25. StoreOf(t, G, MaxRetainedTraces + 1)
  BY <1>5, <1>6, <1>17, <1>19, <1>20, <1>21, <1>23, <1>24 DEF StoreOf
<1> QED BY <1>2, <1>4, <1>22, <1>25

\* The items of the queue that are live, in their order, are a queue of the
\* same traces, and as few as they are.
LEMMA CompactQueue ==
  ASSUME NEW order, NEW traces, NEW F, Queues(order, traces, F), IsFiniteSet(DOMAIN traces),
         NEW live, live = {item \in Range(order) : IsLive(traces, item)},
         \A id \in DOMAIN traces : F[traces[id].generation].id = id
  PROVE  /\ Queues(Sifted(order, live), traces, F)
         /\ Len(Sifted(order, live)) <= Cardinality(DOMAIN traces)
<1>1. PICK L \in Nat : L = Len(order) /\ DOMAIN order = 1..L
  BY DEF Queues
<1>2. PICK A : A = Range(order)
  OBVIOUS
<1>3. order \in Seq(A)
  BY <1>2 DEF Queues
<1>4. PICK r \in Seq(A) : r = Sifted(order, live) /\ Range(r) = A \cap live
  BY <1>2, <1>3, SiftedRange
<1>5. PICK place : Sifting(order, live, r, L, place)
  BY <1>1, <1>3, <1>4, SiftedFacts
<1>6. PICK l \in Nat : l = Len(r) /\ DOMAIN r = 1..l
  <2>1. Len(r) \in Nat /\ DOMAIN r = 1..Len(r)
    BY <1>4, FiniteSequence
  <2> QED BY <2>1
<1>7. /\ place \in [1..l -> 1..L]
      /\ \A i, j \in 1..l : i < j => place[i] < place[j]
      /\ \A i \in 1..l : r[i] = order[place[i]] /\ r[i] \in live
      /\ \A k \in 1..L : order[k] \in live => \E i \in 1..l : place[i] = k
  BY <1>5, <1>6 DEF Sifting
<1>8. \A i \in 1..L : order[i].generation \in 1..Len(F) /\ F[order[i].generation].id = order[i].id
  BY <1>1 DEF Queues
<1>9. \A i, j \in 1..L : i < j => order[i].generation < order[j].generation
  BY <1>1 DEF Queues
<1>10. \A i \in 1..l : r[i].generation \in 1..Len(F) /\ F[r[i].generation].id = r[i].id
  <2> TAKE i \in 1..l
  <2>1. PICK k \in 1..L : k = place[i]
    BY <1>7
  <2> QED BY <1>7, <1>8, <2>1
<1>11. \A i, j \in 1..l : i < j => r[i].generation < r[j].generation
  <2> SUFFICES ASSUME NEW i \in 1..l, NEW j \in 1..l, i < j
               PROVE  r[i].generation < r[j].generation
    OBVIOUS
  <2>1. PICK k \in 1..L, m \in 1..L : k = place[i] /\ m = place[j]
    BY <1>7
  <2>2. k < m
    BY <1>7, <2>1
  <2> QED BY <1>7, <1>9, <2>1, <2>2
<1>12. ASSUME NEW id \in DOMAIN traces
       PROVE  \E i \in 1..l : r[i].generation = traces[id].generation
  <2>1. PICK k \in 1..L : order[k].generation = traces[id].generation
    BY <1>1 DEF Queues
  <2>2. order[k].id = id
    BY <1>8, <2>1
  <2>3. order[k] \in live
    BY <1>1, <2>1, <2>2 DEF IsLive, Range
  <2>4. PICK i \in 1..l : place[i] = k
    BY <1>7, <2>3
  <2> QED BY <1>7, <2>1, <2>4
<1>13. r \in Seq(Range(r))
  BY <1>4, FiniteSequence
<1>14. Queues(r, traces, F)
  BY <1>6, <1>10, <1>11, <1>12, <1>13 DEF Queues
<1>15. l <= Cardinality(DOMAIN traces)
  <2>1. PICK D : D = DOMAIN traces
    OBVIOUS
  <2>2. PICK f : f = [i \in 1..l |-> r[i].id]
    OBVIOUS
  <2>3. \A i \in 1..l : r[i].id \in D /\ traces[r[i].id].generation = r[i].generation
    BY <1>7, <2>1 DEF IsLive
  <2>4. \A i, j \in 1..l : r[i].id = r[j].id => i = j
    <3> SUFFICES ASSUME NEW i \in 1..l, NEW j \in 1..l, r[i].id = r[j].id PROVE i = j
      OBVIOUS
    <3>1. r[i].generation = r[j].generation
      BY <2>3
    <3>2. r[i].generation \in 1..Len(F) /\ r[j].generation \in 1..Len(F)
      BY <1>10
    <3>3. ~ (i < j) /\ ~ (j < i)
      BY <1>11, <3>1, <3>2
    <3> QED BY <3>3
  <2>5. f \in Injection(1..l, D)
    BY <2>2, <2>3, <2>4 DEF Injection, IsInjective
  <2>6. Cardinality(1..l) = l
    BY <1>6, FirstNumbers
  <2> QED BY <2>1, <2>5, <2>6, FS_Injection
<1> QED BY <1>4, <1>6, <1>14, <1>15

\* What the front of the queue takes with it: nothing, or when one trace is too
\* many, the one flushed longest ago.
FrontOf(order, traces, p) ==
    \/ p = 0 /\ Cardinality(DOMAIN traces) <= MaxRetainedTraces
    \/ /\ Cardinality(DOMAIN traces) = MaxRetainedTraces + 1
       /\ p \in 1..Len(order) /\ IsLive(traces, order[p])
       /\ \A k \in 1..(p - 1) : ~ IsLive(traces, order[k])

\* One trace too many has a front to evict: the queue still holds every live
\* trace.
LEMMA FrontExists ==
  ASSUME NEW s, NEW F, StoreOf(s, F, MaxRetainedTraces + 1)
  PROVE  \E p \in 0..Len(s.order) : FrontOf(s.order, s.traces, p)
<1>1. PICK traces, order : traces = s.traces /\ order = s.order
  OBVIOUS
<1>2. PICK L \in Nat : L = Len(order) /\ DOMAIN order = 1..L
  BY <1>1 DEF StoreOf, Queues
<1>3. PICK D : D = DOMAIN traces
  OBVIOUS
<1>4. IsFiniteSet(D) /\ Cardinality(D) <= MaxRetainedTraces + 1 /\ Cardinality(D) \in Nat
  BY <1>1, <1>3, FS_CardinalityType DEF StoreOf, HeldSince
<1>5. CASE Cardinality(D) <= MaxRetainedTraces
  <2>1. FrontOf(order, traces, 0) /\ 0 \in 0..L
    BY <1>3, <1>5 DEF FrontOf
  <2> QED BY <1>1, <1>2, <2>1
<1>6. CASE ~ (Cardinality(D) <= MaxRetainedTraces)
  <2>1. Cardinality(D) = MaxRetainedTraces + 1 /\ Cardinality(D) # 0
    BY <1>4, <1>6, TracesAssumption
  <2>2. PICK id \in D : TRUE
    BY <1>4, <2>1, FS_EmptySet
  <2>3. PICK i \in 1..L : order[i].generation = traces[id].generation
    BY <1>1, <1>2, <1>3 DEF StoreOf, Queues
  <2>4. order[i].id = id
    <3>1. F[order[i].generation].id = order[i].id
      BY <1>1, <1>2 DEF StoreOf, Queues
    <3>2. F[traces[id].generation].id = id
      BY <1>1, <1>3 DEF StoreOf, HeldSince
    <3> QED BY <2>3, <3>1, <3>2
  <2>5. PICK T : T = {k \in 1..L : IsLive(traces, order[k])}
    OBVIOUS
  <2>6. i \in T /\ T \in SUBSET Nat
    BY <1>3, <2>3, <2>4, <2>5 DEF IsLive
  <2>7. PICK p \in T : \A k \in T : p <= k
    BY <2>6, LeastNatural
  <2>8. p \in 1..L /\ IsLive(traces, order[p])
    BY <2>5
  <2>9. \A k \in 1..(p - 1) : ~ IsLive(traces, order[k])
    <3> TAKE k \in 1..(p - 1)
    <3>1. k \in 1..L /\ ~ (p <= k)
      BY <2>8
    <3> QED BY <2>5, <2>7, <3>1
  <2>10. FrontOf(order, traces, p) /\ p \in 0..L
    BY <1>2, <1>3, <2>1, <2>8, <2>9 DEF FrontOf
  <2> QED BY <1>1, <1>2, <2>10
<1> QED BY <1>5, <1>6

\* That front is as far as the eviction goes.
LEMMA FrontIsEvicted ==
  ASSUME NEW s, NEW F, StoreOf(s, F, MaxRetainedTraces + 1),
         NEW p \in 0..Len(s.order), FrontOf(s.order, s.traces, p)
  PROVE  /\ EvictedTraces(s, p) = IF p = 0 THEN {} ELSE {s.order[p].id}
         /\ p = CHOOSE m \in 0..Len(s.order) :
                   /\ Cardinality(DOMAIN s.traces \ EvictedTraces(s, m)) <= MaxRetainedTraces
                   /\ \A k \in 0..(m - 1) :
                         ~ (Cardinality(DOMAIN s.traces \ EvictedTraces(s, k)) <= MaxRetainedTraces)
<1>1. PICK traces, order : traces = s.traces /\ order = s.order
  OBVIOUS
<1>2. PICK L \in Nat : L = Len(order)
  BY <1>1 DEF StoreOf, Queues
<1>3. PICK D : D = DOMAIN traces
  OBVIOUS
<1>4. IsFiniteSet(D) /\ Cardinality(D) \in Nat
  BY <1>1, <1>3, FS_CardinalityType DEF StoreOf, HeldSince
<1>5. p \in 0..L /\ FrontOf(order, traces, p)
  BY <1>1, <1>2
<1>6. ASSUME NEW k \in 0..L, k < p \/ k = 0 PROVE EvictedTraces(s, k) = {}
  <2>1. \A i \in 1..k : ~ IsLive(traces, order[i])
    <3> TAKE i \in 1..k
    <3>1. k # 0 /\ k < p /\ p # 0 /\ i \in 1..(p - 1)
      BY <1>6
    <3> QED BY <1>5, <3>1 DEF FrontOf
  <2> QED BY <1>1, <2>1 DEF EvictedTraces
<1>7. EvictedTraces(s, p) = IF p = 0 THEN {} ELSE {order[p].id}
  <2>1. CASE p = 0
    BY <1>6, <2>1
  <2>2. CASE p # 0
    <3>1. p \in 1..p /\ IsLive(traces, order[p]) /\ \A k \in 1..(p - 1) : ~ IsLive(traces, order[k])
      BY <1>5, <2>2 DEF FrontOf
    <3>2. \A k \in 1..p : k = p \/ k \in 1..(p - 1)
      OBVIOUS
    <3>3. {j \in 1..p : IsLive(traces, order[j])} = {p}
      BY <3>1, <3>2
    <3> QED BY <1>1, <2>2, <3>3 DEF EvictedTraces
  <2> QED BY <2>1, <2>2
<1> DEFINE Fits(m) == Cardinality(D \ EvictedTraces(s, m)) <= MaxRetainedTraces
<1>8. Fits(p)
  <2>1. CASE p = 0
    <3>1. D \ EvictedTraces(s, p) = D /\ Cardinality(D) <= MaxRetainedTraces
      BY <1>3, <1>5, <1>7, <2>1 DEF FrontOf
    <3> QED BY <3>1
  <2>2. CASE p # 0
    <3>1. PICK id : id = order[p].id
      OBVIOUS
    <3>2. id \in D /\ Cardinality(D) = MaxRetainedTraces + 1
      BY <1>3, <1>5, <2>2, <3>1 DEF FrontOf, IsLive
    <3>3. Cardinality(D \ {id}) = Cardinality(D) - 1
      BY <1>4, <3>2, FS_RemoveElement
    <3>4. Cardinality(D \ {id}) = MaxRetainedTraces
      BY <3>2, <3>3, TracesAssumption
    <3> QED BY <1>7, <2>2, <3>1, <3>4, TracesAssumption
  <2> QED BY <2>1, <2>2
<1>9. ASSUME NEW k \in 0..L, k < p PROVE ~ Fits(k)
  <2>1. D \ EvictedTraces(s, k) = D
    BY <1>6, <1>9
  <2>2. p # 0
    BY <1>9
  <2>3. Cardinality(D) = MaxRetainedTraces + 1
    BY <1>3, <1>5, <2>2 DEF FrontOf
  <2>4. ~ (Cardinality(D) <= MaxRetainedTraces)
    BY <2>3, TracesAssumption
  <2> QED BY <2>1, <2>4
<1> HIDE DEF Fits
<1> DEFINE First(m) == Fits(m) /\ \A k \in 0..(m - 1) : ~ Fits(k)
<1>10. First(p)
  <2>1. \A k \in 0..(p - 1) : k \in 0..L /\ k < p
    BY <1>5
  <2> QED BY <1>8, <1>9, <2>1
<1>11. ASSUME NEW m \in 0..L, First(m) PROVE m = p
  <2>1. ~ (m < p)
    BY <1>9, <1>11
  <2>2. ~ (p < m)
    <3>1. p < m => p \in 0..(m - 1)
      BY <1>5
    <3> QED BY <1>8, <1>11, <3>1
  <2> QED BY <1>5, <2>1, <2>2
<1> HIDE DEF First
<1>12. p = CHOOSE m \in 0..L : First(m)
  BY <1>5, <1>10, <1>11
<1> QED BY <1>1, <1>2, <1>3, <1>7, <1>12 DEF First, Fits

\* What is left of a sequence without its first p elements.
LEMMA WithoutFirst ==
  ASSUME NEW A, NEW s \in Seq(A), NEW p \in 0..Len(s)
  PROVE  /\ SubSeq(s, p + 1, Len(s)) \in Seq(A)
         /\ Len(SubSeq(s, p + 1, Len(s))) = Len(s) - p
         /\ \A i \in 1..(Len(s) - p) : SubSeq(s, p + 1, Len(s))[i] = s[p + i]
<1>1. PICK n \in Nat : n = Len(s) /\ DOMAIN s = 1..n
  OBVIOUS
<1>2. PICK l \in 0..n : l = n - p
  BY <1>1
<1>3. PICK r : r = SubSeq(s, p + 1, n)
  OBVIOUS
<1>4. r = [i \in 1..l |-> s[p + i]]
  <2>1. r = [i \in 1..(1 + n - (p + 1)) |-> s[i + (p + 1) - 1]]
    BY <1>1, <1>3
  <2>2. 1 + n - (p + 1) = l /\ \A i \in 1..l : i + (p + 1) - 1 = p + i
    BY <1>1, <1>2
  <2> QED BY <2>1, <2>2
<1>5. \A i \in 1..l : p + i \in 1..n
  BY <1>1, <1>2
<1>6. \A i \in 1..l : s[p + i] \in A
  BY <1>1, <1>5
<1>7. r \in Seq(A) /\ Len(r) = l /\ \A i \in 1..l : r[i] = s[p + i]
  BY <1>4, <1>6
<1> QED BY <1>1, <1>2, <1>3, <1>7

\* The store after its front went, before the queue is compacted.
LeftOf(s, p) == DOMAIN s.traces \ EvictedTraces(s, p)
TracesLeft(s, p) == Restrict(s.traces, LeftOf(s, p))
QueueLeft(s, p) == SubSeq(s.order, p + 1, Len(s.order))

\* It is a store of no more traces than it may hold.
LEMMA FrontLeaves ==
  ASSUME NEW s, NEW F, StoreOf(s, F, MaxRetainedTraces + 1),
         NEW p \in 0..Len(s.order), FrontOf(s.order, s.traces, p)
  PROVE  /\ DOMAIN TracesLeft(s, p) = LeftOf(s, p)
         /\ TracesLeft(s, p) = [id \in LeftOf(s, p) |-> TracesLeft(s, p)[id]]
         /\ HeldSince(TracesLeft(s, p), F, MaxRetainedTraces)
         /\ Queues(QueueLeft(s, p), TracesLeft(s, p), F)
         /\ \A id \in LeftOf(s, p) : SpansKept(id, TracesLeft(s, p)[id], F)
<1>1. PICK traces, order : traces = s.traces /\ order = s.order
  OBVIOUS
<1>2. PICK L \in Nat : L = Len(order) /\ DOMAIN order = 1..L
  BY <1>1 DEF StoreOf, Queues
<1>3. PICK D : D = DOMAIN traces
  OBVIOUS
<1>4. PICK N \in Nat : N = Len(F)
  BY DEF StoreOf, AreFlushes
<1>5. p \in 0..L /\ FrontOf(order, traces, p)
  BY <1>1, <1>2
<1>0. PICK left, after, rest : left = LeftOf(s, p) /\ after = TracesLeft(s, p)
                               /\ rest = QueueLeft(s, p)
  OBVIOUS
<1>6. EvictedTraces(s, p) = IF p = 0 THEN {} ELSE {order[p].id}
  BY <1>1, FrontIsEvicted
<1>7. left = D \ (IF p = 0 THEN {} ELSE {order[p].id}) /\ left \subseteq D
  BY <1>0, <1>1, <1>3, <1>6 DEF LeftOf
<1>8. DOMAIN after = left /\ after = [id \in left |-> after[id]]
      /\ \A id \in left : after[id] = traces[id]
  BY <1>0, <1>1 DEF Restrict, TracesLeft
<1>9. HeldSince(traces, F, MaxRetainedTraces + 1) /\ Queues(order, traces, F)
      /\ \A id \in D : SpansKept(id, traces[id], F)
  BY <1>1, <1>3 DEF StoreOf
<1>10. IsFiniteSet(D) /\ Cardinality(D) \in Nat
  BY <1>3, <1>9, FS_CardinalityType DEF HeldSince
<1>11. \A i \in 1..L : order[i].generation \in 1..N /\ F[order[i].generation].id = order[i].id
  BY <1>2, <1>4, <1>9 DEF Queues
<1>12. ASSUME NEW id \in D
       PROVE  /\ traces[id].generation \in 1..N /\ F[traces[id].generation].id = id
              /\ \A n \in (traces[id].generation + 1)..N : F[n].id # id /\ F[n].id \in D
  BY <1>3, <1>4, <1>9 DEF HeldSince
<1>13. ASSUME NEW id \in left PROVE \E i \in (p + 1)..L : order[i].generation = traces[id].generation
  <2>1. id \in D
    BY <1>7
  <2>2. PICK i \in 1..L : order[i].generation = traces[id].generation
    BY <1>2, <1>3, <1>9, <2>1 DEF Queues
  <2>3. order[i].id = id
    BY <1>11, <1>12, <2>1, <2>2
  <2>4. IsLive(traces, order[i])
    BY <1>3, <2>1, <2>2, <2>3 DEF IsLive
  <2>5. CASE p = 0
    BY <2>2, <2>5
  <2>6. CASE p # 0
    <3>1. i # p
      BY <1>7, <2>3, <2>6
    <3>2. ~ (i \in 1..(p - 1))
      BY <1>5, <2>4, <2>6 DEF FrontOf
    <3>3. i \in (p + 1)..L
      BY <1>5, <3>1, <3>2
    <3> QED BY <2>2, <3>3
  <2> QED BY <2>5, <2>6
<1>14. ASSUME p # 0
       PROVE  /\ order[p].id \in D /\ traces[order[p].id].generation = order[p].generation
              /\ Cardinality(D) = MaxRetainedTraces + 1 /\ p \in 1..L
  BY <1>3, <1>5, <1>14 DEF FrontOf, IsLive
<1>15. \A i, j \in 1..L : i < j => order[i].generation < order[j].generation
  BY <1>2, <1>9 DEF Queues
<1>16. HeldSince(after, F, MaxRetainedTraces)
  <2>1. IsFiniteSet(left) /\ Cardinality(left) <= MaxRetainedTraces
        /\ (Cardinality(left) >= MaxRetainedTraces \/ \A n \in 1..N : F[n].id \in left)
    <3>1. CASE p = 0
      <4>1. left = D
        BY <1>7, <3>1
      <4>2. Cardinality(D) <= MaxRetainedTraces
        BY <1>3, <1>5, <3>1 DEF FrontOf
      <4> QED BY <1>3, <1>4, <1>9, <1>10, <4>1, <4>2 DEF HeldSince
    <3>2. CASE p # 0
      <4>1. PICK id : id = order[p].id
        OBVIOUS
      <4>2. id \in D /\ Cardinality(D) = MaxRetainedTraces + 1 /\ left = D \ {id}
        BY <1>7, <1>14, <3>2, <4>1
      <4>3. IsFiniteSet(left) /\ Cardinality(left) = Cardinality(D) - 1
        BY <1>10, <4>2, FS_RemoveElement
      <4> QED BY <4>2, <4>3, TracesAssumption
    <3> QED BY <3>1, <3>2
  <2>2. ASSUME NEW id \in left
        PROVE  /\ traces[id].generation \in 1..N
               /\ F[traces[id].generation].id = id
               /\ \A n \in (traces[id].generation + 1)..N : F[n].id # id /\ F[n].id \in left
    <3>1. PICK g \in 1..N : /\ g = traces[id].generation /\ F[g].id = id
                            /\ \A n \in (g + 1)..N : F[n].id # id /\ F[n].id \in D
      BY <1>7, <1>12
    <3>2. ASSUME NEW n \in (g + 1)..N PROVE F[n].id \in left
      <4>1. CASE p = 0
        BY <1>7, <3>1, <4>1
      <4>2. CASE p # 0
        <5>1. PICK o : o = order[p].id
          OBVIOUS
        <5>2. PICK h \in 1..N : h = traces[o].generation /\ h = order[p].generation
                                /\ \A k \in (h + 1)..N : F[k].id # o
          BY <1>12, <1>14, <4>2, <5>1
        <5>3. PICK i \in (p + 1)..L : order[i].generation = g
          BY <1>13, <3>1
        <5>4. h < g
          <6>1. p \in 1..L /\ i \in 1..L /\ p < i
            BY <1>5, <4>2
          <6> QED BY <1>15, <5>2, <5>3, <6>1
        <5>5. n \in (h + 1)..N
          BY <5>4
        <5>6. F[n].id # o
          BY <5>2, <5>5
        <5> QED BY <1>7, <3>1, <4>2, <5>1, <5>6
      <4> QED BY <4>1, <4>2
    <3> QED BY <3>1, <3>2
  <2>3. ASSUME NEW id \in left
        PROVE  /\ traces[id].spans \in Seq(Range(traces[id].spans))
               /\ Len(traces[id].spans) <= MaxSpansPerTrace
    <3>1. id \in D
      BY <1>7
    <3> QED BY <1>3, <1>9, <3>1 DEF HeldSince
  <2> QED BY <1>4, <1>8, <2>1, <2>2, <2>3 DEF HeldSince
<1>17. Queues(rest, after, F)
  <2>1. PICK A : A = Range(order)
    OBVIOUS
  <2>2. order \in Seq(A)
    BY <1>9, <2>1 DEF Queues
  <2>3. PICK l \in 0..L : l = L - p
    BY <1>5
  <2>4. rest = SubSeq(order, p + 1, L)
    BY <1>0, <1>1, <1>2 DEF QueueLeft
  <2>5. \A i \in 1..l : p + i \in 1..L /\ rest[i] = order[p + i]
    BY <1>2, <1>5, <2>2, <2>3, <2>4, WithoutFirst
  <2>7. rest \in Seq(A) /\ DOMAIN rest = 1..l
    <3>1. rest \in Seq(A) /\ Len(rest) = l
      BY <1>2, <1>5, <2>2, <2>3, <2>4, WithoutFirst
    <3> QED BY <3>1, FiniteSequence
  <2>8. rest \in Seq(Range(rest))
    BY <2>7, FiniteSequence
  <2>9. \A i \in 1..l : rest[i].generation \in 1..N /\ F[rest[i].generation].id = rest[i].id
    BY <1>11, <2>5
  <2>10. ASSUME NEW i \in 1..l, NEW j \in 1..l, i < j PROVE rest[i].generation < rest[j].generation
    <3>1. p + i \in 1..L /\ p + j \in 1..L /\ p + i < p + j
      BY <1>5, <2>3, <2>10
    <3> QED BY <1>15, <2>5, <3>1
  <2>11. ASSUME NEW id \in left PROVE \E i \in 1..l : rest[i].generation = traces[id].generation
    <3>1. PICK k \in (p + 1)..L : order[k].generation = traces[id].generation
      BY <1>13
    <3>2. PICK i \in 1..l : p + i = k
      <4>1. k - p \in 1..l /\ p + (k - p) = k
        BY <1>5, <2>3
      <4> QED BY <4>1
    <3> QED BY <2>5, <3>1, <3>2
  <2> QED BY <1>4, <1>8, <2>7, <2>8, <2>9, <2>10, <2>11 DEF Queues
<1>18. \A id \in left : SpansKept(id, after[id], F)
  BY <1>7, <1>8, <1>9
<1> QED BY <1>0, <1>8, <1>16, <1>17, <1>18

\* What a store of traces is, for the flushes it was told of.
IsStoreOf(s, F) == StoreOf(s, F, MaxRetainedTraces) /\ Len(s.order) <= 2 * MaxRetainedTraces

\* An eviction brings a store with one trace too many back to its limits.
LEMMA EvictKeeps ==
  ASSUME NEW s, NEW F, StoreOf(s, F, MaxRetainedTraces + 1)
  PROVE  IsStoreOf(EvictTraces(s), F)
<1>1. PICK traces, order, generation :
        s = [traces |-> traces, order |-> order, generation |-> generation]
  BY DEF StoreOf
<1>2. s.traces = traces /\ s.order = order /\ s.generation = generation
  BY <1>1
<1>3. PICK p \in 0..Len(order) : FrontOf(order, traces, p)
  BY <1>2, FrontExists
<1>4. p = CHOOSE m \in 0..Len(s.order) :
             /\ Cardinality(DOMAIN s.traces \ EvictedTraces(s, m)) <= MaxRetainedTraces
             /\ \A k \in 0..(m - 1) :
                   ~ (Cardinality(DOMAIN s.traces \ EvictedTraces(s, k)) <= MaxRetainedTraces)
  BY <1>2, <1>3, FrontIsEvicted
<1>5. PICK left, after, rest : left = LeftOf(s, p) /\ after = TracesLeft(s, p)
                               /\ rest = QueueLeft(s, p)
  OBVIOUS
<1>6. left = DOMAIN traces \ EvictedTraces(s, p) /\ after = Restrict(traces, left)
  BY <1>2, <1>5 DEF LeftOf, TracesLeft
<1>7. rest = SubSeq(order, p + 1, Len(order))
  BY <1>2, <1>5 DEF QueueLeft
<1>8. /\ DOMAIN after = left /\ after = [id \in left |-> after[id]]
      /\ HeldSince(after, F, MaxRetainedTraces)
      /\ Queues(rest, after, F)
      /\ \A id \in left : SpansKept(id, after[id], F)
  BY <1>2, <1>3, <1>5, FrontLeaves
<1>9. PICK live : live = {item \in Range(rest) : IsLive(after, item)}
  OBVIOUS
<1>10. PICK queue : queue = IF Len(rest) <= 2 * MaxRetainedTraces THEN rest ELSE Sifted(rest, live)
  OBVIOUS
<1>11. PICK e : e = [traces |-> after, order |-> queue, generation |-> generation]
  OBVIOUS
<1>12. EvictTraces(s) = e
  <2>1. EvictTraces(s) = [s EXCEPT !.traces = after, !.order = queue]
    BY <1>2, <1>4, <1>6, <1>7, <1>9, <1>10 DEF EvictTraces
  <2> QED BY <1>1, <1>11, <2>1
<1>13. Queues(queue, after, F) /\ Len(queue) <= 2 * MaxRetainedTraces
  <2>1. CASE Len(rest) <= 2 * MaxRetainedTraces
    BY <1>8, <1>10, <2>1
  <2>2. CASE ~ (Len(rest) <= 2 * MaxRetainedTraces)
    <3>1. IsFiniteSet(left) /\ Cardinality(left) <= MaxRetainedTraces
          /\ \A id \in left : F[after[id].generation].id = id
      BY <1>8 DEF HeldSince
    <3>2. /\ Queues(Sifted(rest, live), after, F)
          /\ Len(Sifted(rest, live)) <= Cardinality(left)
      BY <1>8, <1>9, <3>1, CompactQueue
    <3>3. queue = Sifted(rest, live)
      BY <1>10, <2>2
    <3>4. PICK n \in Nat : n = Len(queue)
      BY <3>2, <3>3 DEF Queues
    <3>5. Cardinality(left) \in Nat
      BY <3>1, FS_CardinalityType
    <3>6. n <= 2 * MaxRetainedTraces
      BY <3>1, <3>2, <3>3, <3>4, <3>5, TracesAssumption
    <3> QED BY <3>2, <3>3, <3>4, <3>6
  <2> QED BY <2>1, <2>2
<1>14. e.traces = after /\ e.order = queue /\ e.generation = generation
       /\ e = [traces |-> e.traces, order |-> e.order, generation |-> e.generation]
  BY <1>11
<1>15. AreFlushes(F) /\ generation = Len(F)
  BY <1>2 DEF StoreOf
<1> QED BY <1>8, <1>12, <1>13, <1>14, <1>15 DEF IsStoreOf, StoreOf

\* What a trace of a batch does to the store.
KeepTrace(kept, trace, wanted) ==
    IF trace.id \in wanted THEN EvictTraces(Flush(kept, trace.id, trace.spans)) ELSE kept

KeepsUpTo(n, f, s, batch, wanted) ==
    f = [t \in SUBSET (1..n) |->
           IF t = {} THEN s ELSE KeepTrace(f[t \ {Max(t)}], batch[Max(t)], wanted)]

\* A batch of one trace more is kept by keeping that trace after the others.
LEMMA KeepsGrow ==
  ASSUME NEW n \in Nat, NEW f, NEW s, NEW batch, NEW wanted, KeepsUpTo(n, f, s, batch, wanted)
  PROVE  \E g : KeepsUpTo(n + 1, g, s, batch, wanted)
<1>1. PICK m \in Nat \ {0} : m = n + 1
  OBVIOUS
<1>2. PICK g : g = [t \in SUBSET (1..m) |->
                      IF t \in SUBSET (1..n) THEN f[t] ELSE KeepTrace(f[t \ {m}], batch[m], wanted)]
  OBVIOUS
<1>3. \A t \in SUBSET (1..n) : t \in SUBSET (1..m)
  BY <1>1
<1>4. \A t \in SUBSET (1..n) : g[t] = f[t]
  BY <1>2, <1>3
<1>5. ASSUME NEW t \in SUBSET (1..m), t \notin SUBSET (1..n)
      PROVE  m \in t /\ t # {} /\ t \ {m} \in SUBSET (1..n) /\ Max(t) = m
  <2>1. m \in t /\ t \ {m} \in SUBSET (1..n)
    BY <1>1, <1>5
  <2>2. t \in SUBSET (0..m) /\ m \in Nat
    OBVIOUS
  <2>3. \A k \in t : k <= m
    BY <2>2
  <2>4. Max(t) = m
    BY <2>1, <2>2, <2>3, GreatestIsMax
  <2> QED BY <2>1, <2>4
<1>6. ASSUME NEW t \in SUBSET (1..m)
      PROVE  g[t] = IF t = {} THEN s ELSE KeepTrace(g[t \ {Max(t)}], batch[Max(t)], wanted)
  <2>1. CASE t \in SUBSET (1..n)
    <3>1. t \ {Max(t)} \in SUBSET (1..n)
      BY <2>1
    <3>2. f[t] = IF t = {} THEN s ELSE KeepTrace(f[t \ {Max(t)}], batch[Max(t)], wanted)
      BY <2>1 DEF KeepsUpTo
    <3>3. g[t] = f[t] /\ g[t \ {Max(t)}] = f[t \ {Max(t)}]
      BY <1>4, <2>1, <3>1
    <3> QED BY <3>2, <3>3
  <2>2. CASE t \notin SUBSET (1..n)
    <3>1. m \in t /\ t # {} /\ t \ {m} \in SUBSET (1..n) /\ Max(t) = m
      BY <1>5, <2>2
    <3>2. g[t] = KeepTrace(f[t \ {m}], batch[m], wanted)
      BY <1>2, <2>2
    <3>3. f[t \ {m}] = g[t \ {m}]
      BY <1>4, <3>1
    <3>4. g[t] = KeepTrace(g[t \ {Max(t)}], batch[Max(t)], wanted)
      BY <3>1, <3>2, <3>3
    <3> QED BY <3>1, <3>4
  <2> QED BY <2>1, <2>2
<1>7. g = [t \in SUBSET (1..m) |->
             IF t = {} THEN s ELSE KeepTrace(g[t \ {Max(t)}], batch[Max(t)], wanted)]
  <2>1. g = [t \in SUBSET (1..m) |-> g[t]]
    BY <1>2
  <2> QED BY <1>6, <2>1
<1>8. KeepsUpTo(m, g, s, batch, wanted)
  BY <1>7 DEF KeepsUpTo
<1> QED BY <1>1, <1>8

\* The store after each trace of a batch.
KeepRun(f, s, batch, wanted) ==
    /\ RetainFor(s, batch, wanted) = f[Len(batch)]
    /\ f[0] = s
    /\ \A n \in 1..Len(batch) : f[n] = KeepTrace(f[n - 1], batch[n], wanted)

\* Keeping a batch is a run over its traces.
LEMMA KeepRuns ==
  ASSUME MaxRetainedTraces # 0, NEW s, NEW batch, batch \in Seq(Range(batch)), NEW wanted
  PROVE  \E f : KeepRun(f, s, batch, wanted)
<1>1. PICK N \in Nat : N = Len(batch) /\ DOMAIN batch = 1..N
  OBVIOUS
<1> DEFINE S == {n \in Nat : \E f : KeepsUpTo(n, f, s, batch, wanted)}
<1>2. 0 \in S
  <2>1. SUBSET (1..0) = {{}}
    OBVIOUS
  <2>2. PICK f : f = [t \in SUBSET (1..0) |-> s]
    OBVIOUS
  <2>3. f = [t \in SUBSET (1..0) |->
               IF t = {} THEN s ELSE KeepTrace(f[t \ {Max(t)}], batch[Max(t)], wanted)]
    BY <2>1, <2>2
  <2>4. KeepsUpTo(0, f, s, batch, wanted)
    BY <2>3 DEF KeepsUpTo
  <2> QED BY <2>4
<1>3. ASSUME NEW n \in Nat, n \in S PROVE n + 1 \in S
  <2>1. PICK f : KeepsUpTo(n, f, s, batch, wanted)
    BY <1>3
  <2>2. \E g : KeepsUpTo(n + 1, g, s, batch, wanted)
    BY <2>1, KeepsGrow
  <2> QED BY <2>2
<1> HIDE DEF S
<1>4. N \in S
  BY <1>2, <1>3, SetInduction
<1>5. PICK h : h = CHOOSE f : KeepsUpTo(N, f, s, batch, wanted)
  OBVIOUS
<1>6. KeepsUpTo(N, h, s, batch, wanted)
  BY <1>4, <1>5 DEF S
<1>7. RetainFor(s, batch, wanted) = h[1..N]
  BY <1>1, <1>5 DEF RetainFor, FoldLeft, MapThenFoldSet, KeepsUpTo, KeepTrace
<1>8. PICK f : f = [n \in 0..N |-> h[1..n]]
  OBVIOUS
<1>9. N \in 0..N /\ 0 \in 0..N /\ 1..0 = {}
  OBVIOUS
<1>10. \A t \in SUBSET (1..N) :
         h[t] = IF t = {} THEN s ELSE KeepTrace(h[t \ {Max(t)}], batch[Max(t)], wanted)
  BY <1>6 DEF KeepsUpTo
<1>11. f[0] = s /\ f[N] = h[1..N]
  BY <1>8, <1>9, <1>10
<1>12. ASSUME NEW n \in 1..N PROVE f[n] = KeepTrace(f[n - 1], batch[n], wanted)
  <2>1. 1..n \in SUBSET (1..N) /\ n \in 0..N /\ n - 1 \in 0..N
    OBVIOUS
  <2>2. Max(1..n) = n /\ 1..n # {} /\ (1..n) \ {n} = 1..(n - 1)
    BY LastPlace
  <2>3. h[1..n] = KeepTrace(h[1..(n - 1)], batch[n], wanted)
    BY <1>10, <2>1, <2>2
  <2> QED BY <1>8, <2>1, <2>3
<1> QED BY <1>1, <1>7, <1>11, <1>12 DEF KeepRun

\* A batch is retained: the store is one of the flushes before and those the
\* batch adds.
LEMMA RetainKeeps ==
  ASSUME MaxRetainedTraces # 0, NEW s, NEW F, IsStoreOf(s, F),
         NEW batch, batch \in Seq(Range(batch)), \A trace \in Range(batch) : IsFlush(trace),
         NEW wanted, NEW these, these = {trace \in Range(batch) : trace.id \in wanted}
  PROVE  IsStoreOf(RetainFor(s, batch, wanted), F \o Sifted(batch, these))
<1>1. PICK N \in Nat : N = Len(batch) /\ DOMAIN batch = 1..N
  OBVIOUS
<1>2. PICK f : KeepRun(f, s, batch, wanted)
  BY KeepRuns
<1>3. PICK A : A = Range(batch)
  OBVIOUS
<1>4. batch \in Seq(A)
  BY <1>3
<1>5. PICK g : SiftRun(g, A, batch, these)
  BY <1>4, SiftRuns
<1>6. /\ Sifted(batch, these) = g[N] /\ g \in [0..N -> Seq(A)] /\ g[0] = <<>>
      /\ \A n \in 1..N : g[n] = SiftStep(batch, these, g[n - 1], n)
  BY <1>1, <1>5 DEF SiftRun
<1>7. /\ RetainFor(s, batch, wanted) = f[N] /\ f[0] = s
      /\ \A n \in 1..N : f[n] = KeepTrace(f[n - 1], batch[n], wanted)
  BY <1>1, <1>2 DEF KeepRun
<1>8. F \in Seq(Range(F))
  BY DEF IsStoreOf, StoreOf, AreFlushes
<1> DEFINE S == {n \in 0..N : IsStoreOf(f[n], F \o g[n])}
<1>9. 0 \in S
  <2>1. F \o <<>> = F
    BY <1>8
  <2>2. 0 \in 0..N
    OBVIOUS
  <2> QED BY <1>6, <1>7, <2>1, <2>2
<1>10. ASSUME NEW n \in 0..(N - 1), n \in S PROVE n + 1 \in S
  <2>1. PICK m \in 1..N : m = n + 1 /\ m - 1 = n /\ m \in 0..N
    OBVIOUS
  <2>2. PICK trace \in A : trace = batch[m]
    BY <1>1, <1>3 DEF Range
  <2>3. PICK kept, some : kept = f[n] /\ some = g[n]
    OBVIOUS
  <2>4. IsStoreOf(kept, F \o some) /\ some \in Seq(A)
    BY <1>6, <1>10, <2>3
  <2>5. f[m] = KeepTrace(kept, trace, wanted) /\ g[m] = SiftStep(batch, these, some, m)
    BY <1>6, <1>7, <2>1, <2>2, <2>3
  <2>6. CASE trace.id \notin wanted
    <3>1. f[m] = kept /\ g[m] = some
      BY <2>2, <2>5, <2>6 DEF KeepTrace, SiftStep
    <3> QED BY <2>1, <2>4, <3>1
  <2>7. CASE trace.id \in wanted
    <3>1. f[m] = EvictTraces(Flush(kept, trace.id, trace.spans)) /\ g[m] = Append(some, trace)
      BY <1>3, <2>2, <2>5, <2>7 DEF KeepTrace, SiftStep
    <3>2. PICK G : G = F \o some
      OBVIOUS
    <3>3. StoreOf(kept, G, MaxRetainedTraces) /\ IsFlush(trace)
      BY <1>3, <2>4, <3>2 DEF IsStoreOf
    <3>4. PICK flushed, more : flushed = Flush(kept, trace.id, trace.spans) /\ more = Append(G, trace)
      OBVIOUS
    <3>5. StoreOf(flushed, more, MaxRetainedTraces + 1)
      BY <3>3, <3>4, FlushKeeps
    <3>6. IsStoreOf(EvictTraces(flushed), more)
      BY <3>5, EvictKeeps
    <3>7. more = F \o Append(some, trace)
      <4>1. PICK B : B = Range(F) \cup A
        OBVIOUS
      <4>2. F \in Seq(B) /\ some \in Seq(B) /\ trace \in B
        BY <1>8, <2>4, <4>1
      <4>3. F \o some \in Seq(B) /\ <<trace>> \in Seq(B)
        BY <4>2
      <4>4. Append(F \o some, trace) = (F \o some) \o <<trace>> /\ Append(some, trace) = some \o <<trace>>
        BY <4>2, <4>3, AppendIsConcat
      <4>5. (F \o some) \o <<trace>> = F \o (some \o <<trace>>)
        BY <4>2, <4>3, ConcatAssociative
      <4> QED BY <3>2, <3>4, <4>4, <4>5
    <3>8. f[m] = EvictTraces(flushed) /\ F \o g[m] = more
      BY <3>1, <3>4, <3>7
    <3>9. IsStoreOf(f[m], F \o g[m])
      BY <3>6, <3>8
    <3> QED BY <2>1, <3>9
  <2> QED BY <2>6, <2>7
<1> HIDE DEF S
<1>11. N \in S
  <2>1. N \in 0..N /\ 0..N \subseteq S
    BY <1>9, <1>10, BoundedInduction
  <2> QED BY <2>1
<1> QED BY <1>6, <1>7, <1>11 DEF S

\* What a batch on its way carries.
LEMMA OnwardKeeps ==
  ASSUME NEW A, NEW stores \in Seq(A), work' = Onward(stores)
  PROVE  work'.step = "idle" \/ (work'.batch = work.batch /\ work'.at = work.at
                                 /\ work'.findings = work.findings)
<1>1. CASE work' = Idle
  BY <1>1 DEF Idle
<1>2. CASE work' # Idle
  <2>1. PICK batch, findings, at :
          /\ batch = work.batch /\ findings = work.findings /\ at = work.at
          /\ work' = Through(stores, batch, findings, at)
    BY DEF Onward
  <2>2. PICK step \in Range(stores) :
          work' = [step |-> step, batch |-> batch, findings |-> findings, at |-> at]
    BY <1>2, <2>1, ThroughFacts
  <2> QED BY <2>1, <2>2
<1> QED BY <1>1, <1>2

\* No trace of the batch is longer than the window lets one be, and its spans
\* are timed.
Fitting(batch) == \A trace \in Range(batch) : Len(trace.spans) <= MaxSpansPerTrace

Timed(batch) == \A trace \in Range(batch) : \A s \in Range(trace.spans) : s.at \in Nat

Fits(batch) == (On("traces") => Fitting(batch)) /\ (On("waste") => Timed(batch))

BatchInv == work.step # "idle" => Fits(work.batch)

TracesInv ==
    /\ AreFlushes(past.flushes)
    /\ IF MaxRetainedTraces = 0 THEN retained = NewTraces ELSE IsStoreOf(retained, past.flushes)

RetainedInv == FoundInv /\ PastShape /\ BatchInv /\ TracesInv

\* A batch dated is as long and as timed as it came in.
LEMMA DatedFits ==
  ASSUME SetupInv, NEW b \in Setups[setup].batches
  PROVE  Fits(Dated(b))
<1>1. PICK name \in DOMAIN Setups : name = setup
  BY DEF SetupInv
<1>2. PICK d : d = Dated(b)
  OBVIOUS
<1>3. DOMAIN d = DOMAIN b /\ \A i \in DOMAIN b : d[i].spans = b[i].spans
  BY <1>2 DEF Dated
<1>4. \A i \in DOMAIN b : b[i] \in Range(b)
  BY DEF Range
<1>5. On("traces") => Fitting(d)
  <2>1. On("traces") => \A trace \in Range(b) : Len(trace.spans) <= MaxSpansPerTrace
    BY <1>1, WorkerAssumption DEF On
  <2> QED BY <1>3, <1>4, <2>1 DEF Fitting, Range
<1>6. On("waste") => Timed(d)
  <2>1. On("waste") => \A trace \in Range(b) : \A s \in Range(trace.spans) : s.at \in Nat
    BY <1>1, WorkerAssumption DEF On
  <2>2. ASSUME On("waste"), NEW i \in DOMAIN b PROVE \A s \in Range(d[i].spans) : s.at \in Nat
    BY <1>3, <1>4, <2>1, <2>2
  <2>3. \A trace \in Range(d) : \E i \in DOMAIN b : trace = d[i]
    BY <1>3 DEF Range
  <2> QED BY <2>2, <2>3 DEF Timed
<1> QED BY <1>2, <1>5, <1>6 DEF Fits

\* A batch in hand keeps the limits it came in with.
LEMMA BatchStep ==
  ASSUME FoundInv, BatchInv, [Next]_vars
  PROVE  BatchInv'
<1>1. ASSUME setup' = setup,
             \/ work'.step = "idle" \/ work' = work
             \/ (work'.batch = work.batch /\ work.step # "idle")
      PROVE  BatchInv'
  BY <1>1 DEF BatchInv, Fits, On
<1>2. CASE Analyse
  <2>1. PICK b \in Setups[setup].batches : TakenUp(Dated(b))
    BY <1>2 DEF Analyse, TakenUp
  <2>2. PICK batch : batch = Dated(b)
    OBVIOUS
  <2>3. PICK findings, stores :
          /\ stores = (IF findings = <<>> THEN <<"correlator", "waste">>
                       ELSE <<"findings", "traces", "correlator", "waste">>)
          /\ work' = Through(stores, batch, findings, Now)
    BY <2>1, <2>2 DEF TakenUp
  <2>4. stores \in Seq({"findings", "traces", "correlator", "waste"})
    <3>1. <<"correlator", "waste">> \in Seq({"findings", "traces", "correlator", "waste"})
      OBVIOUS
    <3>2. <<"findings", "traces", "correlator", "waste">>
             \in Seq({"findings", "traces", "correlator", "waste"})
      OBVIOUS
    <3> QED BY <2>3, <3>1, <3>2
  <2>5. PICK now : now = Now
    OBVIOUS
  <2>6. \/ work' = Idle
        \/ \E step \in Range(stores) :
             work' = [step |-> step, batch |-> batch, findings |-> findings, at |-> now]
    BY <2>3, <2>4, <2>5, ThroughFacts
  <2>7. work'.step = "idle" \/ work'.batch = batch
    BY <2>6 DEF Idle
  <2>8. Fits(batch)
    BY <2>2, DatedFits DEF FoundInv
  <2>9. setup' = setup
    BY <1>2 DEF Analyse
  <2> QED BY <2>7, <2>8, <2>9 DEF BatchInv, Fits, On
<1>3. CASE StoreFindings
  <2>1. <<"traces", "correlator", "waste">> \in Seq({"traces", "correlator", "waste"})
    OBVIOUS
  <2> QED BY <1>1, <1>3, <2>1, OnwardKeeps DEF StoreFindings
<1>4. CASE RetainTraces
  <2>1. <<"correlator", "waste">> \in Seq({"traces", "correlator", "waste"})
    OBVIOUS
  <2> QED BY <1>1, <1>4, <2>1, OnwardKeeps DEF RetainTraces
<1>5. CASE IngestFindings
  <2>1. <<"waste">> \in Seq({"traces", "correlator", "waste"})
    OBVIOUS
  <2> QED BY <1>1, <1>5, <2>1, OnwardKeeps DEF IngestFindings
<1>6. CASE ChargeServices
  BY <1>1, <1>6 DEF ChargeServices, Idle
<1>7. CASE FreezeCapture \/ SettleCapture \/ ObserveEpisodes \/ DrainEpisodes
  BY <1>1, <1>7 DEF FreezeCapture, SettleCapture, ObserveEpisodes, DrainEpisodes
<1>8. CASE BillBroker \/ Tick \/ UNCHANGED vars
  BY <1>1, <1>8 DEF BillBroker, Tick, storeVars, vars
<1> QED BY <1>2, <1>3, <1>4, <1>5, <1>6, <1>7, <1>8 DEF Next

\* A new store holds the newest traces of none.
LEMMA NothingRetained == IsStoreOf(NewTraces, <<>>) /\ AreFlushes(<<>>)
<1>1. PICK s : s = NewTraces
  OBVIOUS
<1>2. s.traces = NoTraces /\ s.order = <<>> /\ s.generation = 0
      /\ s = [traces |-> s.traces, order |-> s.order, generation |-> s.generation]
  BY <1>1 DEF NewTraces
<1>3. DOMAIN NoTraces = {} /\ NoTraces = [id \in DOMAIN NoTraces |-> NoTraces[id]]
  BY DEF NoTraces
<1>4. AreFlushes(<<>>)
  BY DEF AreFlushes, Range
<1>5. IsFiniteSet({}) /\ Cardinality({}) = 0
  BY FS_EmptySet
<1>6. Len(<<>>) = 0 /\ 1..0 = {} /\ DOMAIN <<>> = {} /\ <<>> \in Seq(Range(<<>>))
  BY DEF Range
<1>7. HeldSince(NoTraces, <<>>, MaxRetainedTraces)
  BY <1>3, <1>5, <1>6, TracesAssumption DEF HeldSince
<1>8. Queues(<<>>, NoTraces, <<>>)
  BY <1>3, <1>6 DEF Queues
<1> QED BY <1>1, <1>2, <1>3, <1>4, <1>6, <1>7, <1>8, TracesAssumption DEF IsStoreOf, StoreOf

\* Every step keeps the store the newest traces flushed to it.
LEMMA RetainedStep ==
  ASSUME RetainedInv, [Next]_vars
  PROVE  RetainedInv'
<1>1. FoundInv' /\ PastShape' /\ BatchInv'
  BY FoundStep, PastStep, BatchStep DEF RetainedInv
<1>2. CASE retained' = retained /\ past'.flushes = past.flushes
  BY <1>1, <1>2 DEF RetainedInv, TracesInv
<1>3. CASE RetainTraces
  <2>1. PICK batch, wanted, F : batch = work.batch /\ wanted = Wanted /\ F = past.flushes
    OBVIOUS
  <2>2. On("traces") /\ IsDated(batch) /\ Fitting(batch)
    BY <1>3, <2>1 DEF RetainTraces, RetainedInv, FoundInv, WorkInv, BatchInv, Fits
  <2>3. batch \in Seq(Range(batch)) /\ \A trace \in Range(batch) : IsFlush(trace)
    BY <2>2 DEF IsDated, Fitting, IsFlush
  <2>4. PICK these : these = {trace \in Range(batch) : trace.id \in wanted}
    OBVIOUS
  <2>5. PICK more : more = Sifted(batch, these)
    OBVIOUS
  <2>6. past'.flushes = F \o more
    BY <1>3, <2>1, <2>4, <2>5 DEF RetainTraces, RetainedInv, PastShape, PastFields
  <2>7. retained' = RetainFor(retained, batch, wanted)
    BY <1>3, <2>1 DEF RetainTraces
  <2>8. AreFlushes(F \o more)
    <3>1. F \in Seq(Range(F)) /\ \A trace \in Range(F) : IsFlush(trace)
      BY <2>1 DEF RetainedInv, TracesInv, AreFlushes
    <3>2. more \in Seq(Range(batch)) /\ Range(more) \subseteq Range(batch)
      <4>1. PICK A : A = Range(batch)
        OBVIOUS
      <4>2. batch \in Seq(A)
        BY <2>3, <4>1
      <4>3. more \in Seq(A) /\ Range(more) = A \cap these
        BY <2>5, <4>1, <4>2, SiftedRange
      <4> QED BY <4>1, <4>3
    <3>3. PICK B : B = Range(F) \cup Range(batch)
      OBVIOUS
    <3>4. F \in Seq(B) /\ more \in Seq(B)
      BY <3>1, <3>2, <3>3
    <3>5. F \o more \in Seq(B) /\ Range(F \o more) = Range(F) \cup Range(more)
      BY <3>4, ConcatRange
    <3>6. F \o more \in Seq(Range(F \o more))
      BY <3>5, FiniteSequence
    <3> QED BY <2>3, <3>1, <3>2, <3>5, <3>6 DEF AreFlushes
  <2>9. CASE MaxRetainedTraces = 0
    BY <1>1, <2>6, <2>7, <2>8, <2>9 DEF RetainFor, RetainedInv, TracesInv
  <2>10. CASE MaxRetainedTraces # 0
    <3>1. PICK s : s = retained
      OBVIOUS
    <3>2. IsStoreOf(s, F)
      BY <2>1, <2>10, <3>1 DEF RetainedInv, TracesInv
    <3>3. IsStoreOf(RetainFor(s, batch, wanted), F \o more)
      BY <2>3, <2>4, <2>5, <2>10, <3>2, RetainKeeps
    <3> QED BY <1>1, <2>6, <2>7, <2>8, <2>10, <3>1, <3>3 DEF RetainedInv, TracesInv
  <2> QED BY <2>9, <2>10
<1>4. CASE Analyse
  BY <1>2, <1>4 DEF Analyse, RememberSlow, RememberStructure, RetainedInv, PastShape, PastFields
<1>5. CASE StoreFindings \/ IngestFindings
  BY <1>2, <1>5 DEF StoreFindings, IngestFindings, RetainedInv, PastShape, PastFields
<1>6. CASE ChargeServices
  BY <1>2, <1>6 DEF ChargeServices, RememberWaste, RetainedInv, PastShape, PastFields
<1>7. CASE FreezeCapture \/ SettleCapture
  BY <1>2, <1>7 DEF FreezeCapture, SettleCapture, RetainedInv, PastShape, PastFields
<1>8. CASE ObserveEpisodes \/ DrainEpisodes
  BY <1>2, <1>8 DEF ObserveEpisodes, DrainEpisodes, RetainedInv, PastShape, PastFields
<1>9. CASE BillBroker \/ Tick \/ UNCHANGED vars
  BY <1>2, <1>9 DEF BillBroker, Tick, storeVars, vars
<1> QED BY <1>3, <1>4, <1>5, <1>6, <1>7, <1>8, <1>9 DEF Next

\* It starts so.
LEMMA RetainedInit == Init => RetainedInv
<1> SUFFICES ASSUME Init PROVE RetainedInv
  OBVIOUS
<1>1. FoundInv /\ PastShape
  BY FoundInit DEF Init, PastShape, PastFields
<1>2. past.flushes = <<>> /\ retained = NewTraces /\ work.step = "idle"
  BY DEF Init, Idle
<1> QED BY <1>1, <1>2, NothingRetained DEF RetainedInv, TracesInv, BatchInv

\* What a reader of the store relies on.
Shows(s, F) ==
    /\ AreFlushes(F)
    /\ HeldSince(s.traces, F, MaxRetainedTraces)
    /\ Queues(s.order, s.traces, F)
    /\ \A id \in DOMAIN s.traces : SpansKept(id, s.traces[id], F)

\* What the invariant shows of the traces held.
LEMMA RetainedShows ==
  ASSUME TracesInv
  PROVE  Shows(retained, past.flushes)
<1>1. PICK s, F : s = retained /\ F = past.flushes
  OBVIOUS
<1>2. CASE MaxRetainedTraces # 0
  BY <1>2 DEF TracesInv, IsStoreOf, StoreOf, Shows
<1>3. CASE MaxRetainedTraces = 0
  <2>1. s.traces = NoTraces /\ s.order = <<>> /\ AreFlushes(F)
    BY <1>1, <1>3 DEF TracesInv, NewTraces
  <2>2. DOMAIN NoTraces = {}
    BY DEF NoTraces
  <2>3. IsFiniteSet({}) /\ Cardinality({}) = 0
    BY FS_EmptySet
  <2>4. DOMAIN <<>> = {} /\ <<>> \in Seq(Range(<<>>))
    BY DEF Range
  <2>5. HeldSince(NoTraces, F, MaxRetainedTraces)
    BY <1>3, <2>2, <2>3 DEF HeldSince
  <2>6. Queues(<<>>, NoTraces, F)
    BY <2>2, <2>4 DEF Queues
  <2>7. Shows(s, F)
    BY <2>1, <2>2, <2>5, <2>6 DEF Shows
  <2> QED BY <1>1, <2>7
<1> QED BY <1>2, <1>3

\* A trace held is dated by its last flush.
LEMMA DatedByLast ==
  ASSUME NEW s, NEW F, Shows(s, F), NEW id \in DOMAIN s.traces
  PROVE  /\ FlushBefore(F, id, Len(F) + 1) = s.traces[id].generation
         /\ s.traces[id].generation \in 1..Len(F)
         /\ F[s.traces[id].generation].id = id
         /\ HeldBetween(F, s.traces[id].generation, Len(F) + 1)
<1>1. PICK N \in Nat : N = Len(F)
  BY DEF Shows, AreFlushes
<1>2. PICK traces : traces = s.traces
  OBVIOUS
<1>3. PICK g \in 1..N : g = traces[id].generation /\ F[g].id = id
                        /\ \A n \in (g + 1)..N : F[n].id # id
  BY <1>1, <1>2 DEF Shows, HeldSince
<1>4. N + 1 \in Nat \ {0} /\ (N + 1) - 1 = N /\ g \in 0..N
  OBVIOUS
<1>5. FlushBefore(F, id, N + 1) = g
  BY <1>3, <1>4, FlushBeforeIs
<1>6. HeldBetween(F, traces[id].generation, Len(F) + 1)
  BY <1>2, HeldIsNewest DEF Shows
<1> QED BY <1>1, <1>2, <1>3, <1>5, <1>6

\* A store of the newest traces is what HoldsNewest promises.
LEMMA StoreHolds ==
  ASSUME NEW s, NEW F, Shows(s, F)
  PROVE  HoldsNewest(s, F)
<1>1. PICK N \in Nat : N = Len(F) /\ DOMAIN F = 1..N
  BY DEF Shows, AreFlushes
<1>2. PICK traces : traces = s.traces
  OBVIOUS
<1>3. PICK D : D = DOMAIN traces
  OBVIOUS
<1>4. ASSUME NEW id \in FlushedIds(F), HeldBetween(F, FlushBefore(F, id, N + 1), N + 1)
      PROVE  id \in D
  <2>1. PICK i \in 1..N : F[i].id = id
    BY <1>1 DEF FlushedIds
  <2>2. PICK e : e = FlushBefore(F, id, N + 1)
    OBVIOUS
  <2>3. N + 1 \in Nat \ {0} /\ (N + 1) - 1 = N
    OBVIOUS
  <2>4. /\ e \in 0..N /\ (e # 0 => F[e].id = id)
        /\ \A k \in 1..N : F[k].id = id => k <= e
    BY <2>2, <2>3, FlushBeforeFacts
  <2>5. e \in 1..N
    BY <2>1, <2>4
  <2>6. F[e].id = id
    BY <2>4, <2>5
  <2>7. SUFFICES ASSUME id \notin D PROVE FALSE
    OBVIOUS
  <2>8. ~ HeldBetween(F, e, Len(F) + 1)
    <3>1. AreFlushes(F) /\ HeldSince(traces, F, MaxRetainedTraces)
      BY <1>2 DEF Shows
    <3>2. e \in 1..Len(F) /\ F[e].id \notin DOMAIN traces
      BY <1>1, <1>3, <2>5, <2>6, <2>7
    <3> QED BY <3>1, <3>2, GoneIsOlder
  <2> QED BY <1>1, <1>4, <2>2, <2>8
<1>5. ASSUME NEW id \in D
      PROVE  /\ id \in FlushedIds(F)
             /\ FlushBefore(F, id, N + 1) = traces[id].generation
             /\ HeldBetween(F, traces[id].generation, N + 1)
  <2>1. PICK g \in 1..N : /\ g = traces[id].generation /\ F[g].id = id
                          /\ FlushBefore(F, id, N + 1) = g /\ HeldBetween(F, g, N + 1)
    BY <1>1, <1>2, <1>3, DatedByLast
  <2> QED BY <1>1, <2>1 DEF FlushedIds
<1>6. D = {id \in FlushedIds(F) : HeldBetween(F, FlushBefore(F, id, N + 1), N + 1)}
  BY <1>4, <1>5
<1>7. ASSUME NEW id \in D
      PROVE  LET spans == traces[id].spans
                 last == FlushBefore(F, id, N + 1)
                 earlier == FlushBefore(F, id, last)
             IN  /\ SpanIds(F[last].spans) \subseteq SpanIds(spans)
                 /\ \/ earlier = 0
                    \/ ~ HeldBetween(F, earlier, last)
                    \/ Len(spans) = MaxSpansPerTrace
                    \/ SpanIds(F[earlier].spans) \subseteq SpanIds(spans)
  <2>1. SpansKept(id, traces[id], F)
    BY <1>2, <1>3 DEF Shows
  <2> QED BY <1>5, <2>1 DEF SpansKept
<1> QED BY <1>1, <1>2, <1>3, <1>6, <1>7 DEF HoldsNewest

-----------------------------------------------------------------------------
(* Sums over the members of a finite set, in whatever order.               *)

\* What each set of the members adds up to.
IsSum(f, D, size) ==
    /\ f \in [SUBSET D -> Nat]
    /\ f[{}] = 0
    /\ \A t \in SUBSET D : \A x \in t : f[t] = f[t \ {x}] + size[x]

\* One member more.
LEMMA SumGrows ==
  ASSUME NEW D, NEW a, a \notin D, NEW size, \A x \in D \cup {a} : size[x] \in Nat,
         NEW f, IsSum(f, D, size)
  PROVE  \E g : IsSum(g, D \cup {a}, size)
<1>1. PICK E : E = D \cup {a}
  OBVIOUS
<1>2. PICK g : g = [t \in SUBSET E |-> IF a \in t THEN f[t \ {a}] + size[a] ELSE f[t]]
  OBVIOUS
<1>3. /\ f \in [SUBSET D -> Nat] /\ f[{}] = 0
      /\ \A t \in SUBSET D : \A x \in t : f[t] = f[t \ {x}] + size[x]
  BY DEF IsSum
<1>4. size[a] \in Nat /\ \A x \in E : size[x] \in Nat
  BY <1>1
<1>5. ASSUME NEW t \in SUBSET E PROVE g[t] \in Nat
  <2>1. CASE a \in t
    <3>1. t \ {a} \in SUBSET D
      BY <1>1
    <3>2. f[t \ {a}] \in Nat
      BY <1>3, <3>1
    <3> QED BY <1>2, <1>4, <2>1, <3>2
  <2>2. CASE a \notin t
    <3>1. t \in SUBSET D
      BY <1>1, <2>2
    <3> QED BY <1>2, <1>3, <2>2, <3>1
  <2> QED BY <2>1, <2>2
<1>6. g \in [SUBSET E -> Nat]
  BY <1>2, <1>5
<1>7. g[{}] = 0
  BY <1>2, <1>3
<1>8. ASSUME NEW t \in SUBSET E, NEW x \in t PROVE g[t] = g[t \ {x}] + size[x]
  <2>1. CASE a \notin t
    <3>1. t \in SUBSET D /\ t \ {x} \in SUBSET E /\ a \notin t \ {x}
      BY <1>1, <2>1
    <3>2. g[t] = f[t] /\ g[t \ {x}] = f[t \ {x}]
      BY <1>2, <2>1, <3>1
    <3> QED BY <1>3, <3>1, <3>2
  <2>2. CASE x = a
    <3>1. t \ {x} \in SUBSET E /\ a \notin t \ {x}
      BY <2>2
    <3>2. g[t \ {x}] = f[t \ {x}] /\ g[t] = f[t \ {a}] + size[a]
      BY <1>2, <2>2, <3>1
    <3> QED BY <2>2, <3>2
  <2>3. CASE a \in t /\ x # a
    <3>1. PICK u, v : u = t \ {a} /\ v = t \ {x}
      OBVIOUS
    <3>2. u \in SUBSET D /\ x \in u /\ v \in SUBSET E /\ a \in v /\ v \ {a} = u \ {x}
      BY <1>1, <2>3, <3>1
    <3>3. g[t] = f[u] + size[a] /\ g[v] = f[u \ {x}] + size[a]
      BY <1>2, <2>3, <3>1, <3>2
    <3>4. f[u] = f[u \ {x}] + size[x]
      BY <1>3, <3>2
    <3>5. PICK k \in Nat, m \in Nat, n \in Nat : k = f[u \ {x}] /\ m = size[a] /\ n = size[x]
      <4>1. u \ {x} \in SUBSET D
        BY <3>2
      <4> QED BY <1>3, <1>4, <4>1
    <3>6. g[t] = k + n + m /\ g[v] = k + m
      BY <3>3, <3>4, <3>5
    <3> QED BY <3>1, <3>5, <3>6
  <2> QED BY <2>1, <2>2, <2>3
<1>9. IsSum(g, E, size)
  BY <1>6, <1>7, <1>8 DEF IsSum
<1> QED BY <1>1, <1>9

\* The sums over a finite set exist.
LEMMA SumExists ==
  ASSUME NEW D, IsFiniteSet(D), NEW size, \A x \in D : size[x] \in Nat
  PROVE  \E f : IsSum(f, D, size)
<1> DEFINE S == {n \in Nat : \A T \in SUBSET D : Cardinality(T) = n => \E f : IsSum(f, T, size)}
<1>1. 0 \in S
  <2> SUFFICES ASSUME NEW T \in SUBSET D, Cardinality(T) = 0 PROVE \E f : IsSum(f, T, size)
    OBVIOUS
  <2>1. IsFiniteSet(T)
    BY FS_Subset
  <2>2. T = {}
    BY <2>1, FS_EmptySet
  <2>3. PICK f : f = [t \in SUBSET T |-> 0]
    OBVIOUS
  <2>4. IsSum(f, T, size)
    BY <2>2, <2>3 DEF IsSum
  <2> QED BY <2>4
<1>2. ASSUME NEW n \in Nat, n \in S PROVE n + 1 \in S
  <2> SUFFICES ASSUME NEW T \in SUBSET D, Cardinality(T) = n + 1 PROVE \E f : IsSum(f, T, size)
    OBVIOUS
  <2>1. IsFiniteSet(T)
    BY FS_Subset
  <2>2. T # {}
    BY FS_EmptySet
  <2>3. PICK a \in T : TRUE
    BY <2>2
  <2>4. PICK U : U = T \ {a}
    OBVIOUS
  <2>5. Cardinality(U) = n
    <3>1. Cardinality(T \ {a}) = Cardinality(T) - 1
      BY <2>1, FS_RemoveElement
    <3>2. (n + 1) - 1 = n
      OBVIOUS
    <3> QED BY <2>4, <3>1, <3>2
  <2>6. U \in SUBSET D
    BY <2>4
  <2>7. PICK f : IsSum(f, U, size)
    BY <1>2, <2>5, <2>6
  <2>8. a \notin U /\ U \cup {a} = T /\ \A x \in U \cup {a} : size[x] \in Nat
    BY <2>4
  <2>9. \E g : IsSum(g, U \cup {a}, size)
    BY <2>7, <2>8, SumGrows
  <2> QED BY <2>8, <2>9
<1> HIDE DEF S
<1>3. Nat \subseteq S
  BY <1>1, <1>2, SetInduction
<1>4. Cardinality(D) \in S
  BY <1>3, FS_CardinalityType
<1> QED BY <1>4 DEF S

\* What a fold that picks some member each time computes.
SumFold(h, T, size) ==
    h = [t \in SUBSET T |->
           IF t = {} THEN 0
           ELSE LET x == CHOOSE y \in t : TRUE IN h[t \ {x}] + size[x]]

\* It is the sum.
LEMMA SumFolds ==
  ASSUME NEW D, IsFiniteSet(D), NEW size, NEW f, IsSum(f, D, size), NEW T \in SUBSET D
  PROVE  /\ \E h : SumFold(h, T, size)
         /\ \A h : SumFold(h, T, size) => h[T] = f[T]
<1>1. /\ f \in [SUBSET D -> Nat] /\ f[{}] = 0
      /\ \A t \in SUBSET D : \A x \in t : f[t] = f[t \ {x}] + size[x]
  BY DEF IsSum
<1>2. \A t \in SUBSET T : t # {} => (CHOOSE y \in t : TRUE) \in t
  OBVIOUS
<1>3. \E h : SumFold(h, T, size)
  <2>1. PICK h : h = [t \in SUBSET T |-> f[t]]
    OBVIOUS
  <2>2. ASSUME NEW t \in SUBSET T
        PROVE  h[t] = IF t = {} THEN 0
                      ELSE LET x == CHOOSE y \in t : TRUE IN h[t \ {x}] + size[x]
    <3>1. CASE t = {}
      BY <1>1, <2>1, <3>1
    <3>2. CASE t # {}
      <4>1. PICK x \in t : x = CHOOSE y \in t : TRUE
        BY <1>2, <3>2
      <4>2. f[t] = f[t \ {x}] + size[x]
        BY <1>1
      <4>3. h[t] = f[t] /\ h[t \ {x}] = f[t \ {x}]
        BY <2>1
      <4> QED BY <3>2, <4>1, <4>2, <4>3
    <3> QED BY <3>1, <3>2
  <2>3. h = [t \in SUBSET T |-> h[t]]
    BY <2>1
  <2>4. SumFold(h, T, size)
    BY <2>2, <2>3 DEF SumFold
  <2> QED BY <2>4
<1>4. ASSUME NEW h, SumFold(h, T, size) PROVE h[T] = f[T]
  <2>1. \A t \in SUBSET T :
          h[t] = IF t = {} THEN 0
                 ELSE LET x == CHOOSE y \in t : TRUE IN h[t \ {x}] + size[x]
    BY <1>4 DEF SumFold
  <2> DEFINE S == {n \in Nat : \A t \in SUBSET T : Cardinality(t) = n => h[t] = f[t]}
  <2>2. 0 \in S
    <3> SUFFICES ASSUME NEW t \in SUBSET T, Cardinality(t) = 0 PROVE h[t] = f[t]
      OBVIOUS
    <3>1. t = {}
      BY FS_Subset, FS_EmptySet
    <3> QED BY <1>1, <2>1, <3>1
  <2>3. ASSUME NEW n \in Nat, n \in S PROVE n + 1 \in S
    <3> SUFFICES ASSUME NEW t \in SUBSET T, Cardinality(t) = n + 1 PROVE h[t] = f[t]
      OBVIOUS
    <3>1. IsFiniteSet(t) /\ t # {}
      BY FS_Subset, FS_EmptySet
    <3>2. PICK x \in t : x = CHOOSE y \in t : TRUE
      BY <1>2, <3>1
    <3>3. Cardinality(t \ {x}) = n
      <4>1. Cardinality(t \ {x}) = Cardinality(t) - 1
        BY <3>1, FS_RemoveElement
      <4>2. (n + 1) - 1 = n
        OBVIOUS
      <4> QED BY <4>1, <4>2
    <3>4. h[t \ {x}] = f[t \ {x}]
      BY <2>3, <3>3
    <3>5. h[t] = h[t \ {x}] + size[x]
      BY <2>1, <3>1, <3>2
    <3>6. f[t] = f[t \ {x}] + size[x]
      BY <1>1
    <3> QED BY <3>4, <3>5, <3>6
  <2> HIDE DEF S
  <2>4. Cardinality(T) \in S
    <3>1. IsFiniteSet(T) /\ Cardinality(T) \in Nat
      BY FS_Subset, FS_CardinalityType
    <3>2. Nat \subseteq S
      BY <2>2, <2>3, SetInduction
    <3> QED BY <3>1, <3>2
  <2> QED BY <2>4 DEF S
<1> QED BY <1>3, <1>4

\* What a fold over a set of traces held, one after another, adds up.
SpentOn(s, among) == FoldSet(LAMBDA id, sum : sum + Len(s.traces[id].spans), 0, among)

SizesOf(s) == [id \in DOMAIN s.traces |-> Len(s.traces[id].spans)]

\* It is the sum of their sizes.
LEMMA SpentIsSum ==
  ASSUME NEW s, NEW W \in SUBSET DOMAIN s.traces, IsFiniteSet(W),
         NEW f, IsSum(f, W, SizesOf(s)), NEW T \in SUBSET W
  PROVE  SpentOn(s, T) = f[T]
<1>1. PICK size, D : size = SizesOf(s) /\ D = DOMAIN s.traces
  OBVIOUS
<1>2. PICK h : h = CHOOSE g : SumFold(g, T, size)
  OBVIOUS
<1>3. SumFold(h, T, size) /\ h[T] = f[T]
  BY <1>1, <1>2, SumFolds
<1> DEFINE Summed(g) == [t \in SUBSET T |->
                         IF t = {} THEN 0
                         ELSE LET x == CHOOSE y \in t : TRUE IN g[t \ {x}] + Len(s.traces[x].spans)]
<1>4. \A g : Summed(g) = [t \in SUBSET T |->
                          IF t = {} THEN 0
                          ELSE LET x == CHOOSE y \in t : TRUE IN g[t \ {x}] + size[x]]
  <2> TAKE g
  <2>1. ASSUME NEW t \in SUBSET T, t # {}
        PROVE  size[CHOOSE y \in t : TRUE] = Len(s.traces[CHOOSE y \in t : TRUE].spans)
    <3>1. PICK x \in t : x = CHOOSE y \in t : TRUE
      BY <2>1
    <3>2. x \in D
      BY <1>1
    <3> QED BY <1>1, <3>1, <3>2 DEF SizesOf
  <2> QED BY <2>1
<1>5. \A g : SumFold(g, T, size) <=> g = Summed(g)
  BY <1>4 DEF SumFold
<1> HIDE DEF Summed
<1>6. h = CHOOSE g : g = Summed(g)
  BY <1>2, <1>5
<1>7. SpentOn(s, T) = h[T]
  BY <1>6 DEF SpentOn, FoldSet, MapThenFoldSet, Summed
<1> QED BY <1>3, <1>7

-----------------------------------------------------------------------------
(* A reader with a budget.                                                 *)

\* What the reader makes of one item of the queue.
KeepItem(s, wanted, budget, item, kept) ==
    LET size == Len(s.traces[item.id].spans)
    IN  IF ~ IsLive(s.traces, item) \/ item.id \notin wanted \/ kept.spent + size > budget
        THEN kept
        ELSE [spent |-> kept.spent + size, ids |-> <<item.id>> \o kept.ids]

NothingRead == [spent |-> 0, ids |-> <<>>]

ReadsFrom(k, N, f, s, wanted, budget) ==
    f = [t \in SUBSET (k..N) |->
           IF t = {} THEN NothingRead
           ELSE KeepItem(s, wanted, budget, s.order[Min(t)], f[t \ {Min(t)}])]

\* One item more, in front.
LEMMA ReadsGrow ==
  ASSUME NEW N \in Nat, NEW k \in 1..N, NEW f, NEW s, NEW wanted, NEW budget,
         ReadsFrom(k + 1, N, f, s, wanted, budget)
  PROVE  \E g : ReadsFrom(k, N, g, s, wanted, budget)
<1> DEFINE After(item, kept) == KeepItem(s, wanted, budget, item, kept)
<1> HIDE DEF After
<1>1. PICK later : later = (k + 1)..N
  OBVIOUS
<1>2. PICK g : g = [t \in SUBSET (k..N) |->
                      IF t \in SUBSET later THEN f[t] ELSE After(s.order[k], f[t \ {k}])]
  OBVIOUS
<1>3. \A t \in SUBSET later : t \in SUBSET (k..N)
  BY <1>1
<1>4. \A t \in SUBSET later : g[t] = f[t]
  BY <1>2, <1>3
<1>5. ASSUME NEW t \in SUBSET (k..N), t \notin SUBSET later
      PROVE  k \in t /\ t # {} /\ t \ {k} \in SUBSET later /\ Min(t) = k
  <2>1. k \in t /\ t \ {k} \in SUBSET later
    BY <1>1, <1>5
  <2>2. t \in SUBSET Nat /\ \A n \in t : k <= n
    OBVIOUS
  <2>3. Min(t) = k
    BY <2>1, <2>2, LeastIsMin
  <2> QED BY <2>1, <2>3
<1>6. \A t \in SUBSET later :
        f[t] = IF t = {} THEN NothingRead ELSE After(s.order[Min(t)], f[t \ {Min(t)}])
  BY <1>1 DEF ReadsFrom, After
<1>7. ASSUME NEW t \in SUBSET (k..N)
      PROVE  g[t] = IF t = {} THEN NothingRead ELSE After(s.order[Min(t)], g[t \ {Min(t)}])
  <2>1. CASE t \in SUBSET later
    <3>1. t \ {Min(t)} \in SUBSET later
      BY <2>1
    <3>2. g[t] = f[t] /\ g[t \ {Min(t)}] = f[t \ {Min(t)}]
      BY <1>4, <2>1, <3>1
    <3> QED BY <1>6, <2>1, <3>2
  <2>2. CASE t \notin SUBSET later
    <3>1. k \in t /\ t # {} /\ t \ {k} \in SUBSET later /\ Min(t) = k
      BY <1>5, <2>2
    <3>2. g[t] = After(s.order[k], f[t \ {k}])
      BY <1>2, <2>2
    <3>3. f[t \ {k}] = g[t \ {k}]
      BY <1>4, <3>1
    <3>4. g[t] = After(s.order[Min(t)], g[t \ {Min(t)}])
      BY <3>1, <3>2, <3>3
    <3> QED BY <3>1, <3>4
  <2> QED BY <2>1, <2>2
<1>8. g = [t \in SUBSET (k..N) |->
             IF t = {} THEN NothingRead ELSE After(s.order[Min(t)], g[t \ {Min(t)}])]
  <2>1. g = [t \in SUBSET (k..N) |-> g[t]]
    BY <1>2
  <2> QED BY <1>7, <2>1
<1>9. ReadsFrom(k, N, g, s, wanted, budget)
  BY <1>8 DEF ReadsFrom, After
<1> QED BY <1>9

\* What the reader has at each item, from the last on.
ReadRun(f, s, wanted, budget) ==
    /\ SnapshotFor(s, wanted, budget) = f[1].ids
    /\ f[Len(s.order) + 1] = NothingRead
    /\ \A k \in 1..Len(s.order) : f[k] = KeepItem(s, wanted, budget, s.order[k], f[k + 1])

\* A snapshot is a run over the queue, from its newest end.
LEMMA ReadRuns ==
  ASSUME NEW s, s.order \in Seq(Range(s.order)), NEW wanted, NEW budget
  PROVE  \E f : ReadRun(f, s, wanted, budget)
<1>1. PICK N \in Nat : N = Len(s.order) /\ DOMAIN s.order = 1..N
  OBVIOUS
<1> DEFINE S == {n \in 0..N : \E f : ReadsFrom(N + 1 - n, N, f, s, wanted, budget)}
<1>2. 0 \in S
  <2>1. SUBSET ((N + 1)..N) = {{}} /\ N + 1 - 0 = N + 1 /\ 0 \in 0..N
    OBVIOUS
  <2>2. PICK f : f = [t \in SUBSET ((N + 1)..N) |-> NothingRead]
    OBVIOUS
  <2>3. f = [t \in SUBSET ((N + 1)..N) |->
               IF t = {} THEN NothingRead
               ELSE KeepItem(s, wanted, budget, s.order[Min(t)], f[t \ {Min(t)}])]
    BY <2>1, <2>2
  <2>4. ReadsFrom(N + 1, N, f, s, wanted, budget)
    BY <2>3 DEF ReadsFrom
  <2> QED BY <2>1, <2>4
<1>3. ASSUME NEW n \in 0..(N - 1), n \in S PROVE n + 1 \in S
  <2>1. PICK k \in 1..N : k = N - n /\ k + 1 = N + 1 - n /\ k = N + 1 - (n + 1) /\ n + 1 \in 0..N
    OBVIOUS
  <2>2. PICK f : ReadsFrom(k + 1, N, f, s, wanted, budget)
    BY <1>3, <2>1
  <2>3. \E g : ReadsFrom(k, N, g, s, wanted, budget)
    BY <2>2, ReadsGrow
  <2> QED BY <2>1, <2>3
<1> HIDE DEF S
<1>4. N \in S
  <2>1. 0..N \subseteq S /\ N \in 0..N
    BY <1>2, <1>3, BoundedInduction
  <2> QED BY <2>1
<1>5. \E f : ReadsFrom(1, N, f, s, wanted, budget)
  <2>1. N + 1 - N = 1
    OBVIOUS
  <2> QED BY <1>4, <2>1 DEF S
<1>6. PICK h : h = CHOOSE f : ReadsFrom(1, N, f, s, wanted, budget)
  OBVIOUS
<1>7. ReadsFrom(1, N, h, s, wanted, budget)
  BY <1>5, <1>6
<1>8. SnapshotFor(s, wanted, budget) = h[1..N].ids
  BY <1>1, <1>6 DEF SnapshotFor, FoldRight, MapThenFoldSet, ReadsFrom, KeepItem, NothingRead
<1>9. PICK f : f = [k \in 1..(N + 1) |-> h[k..N]]
  OBVIOUS
<1>10. \A t \in SUBSET (1..N) :
         h[t] = IF t = {} THEN NothingRead
                ELSE KeepItem(s, wanted, budget, s.order[Min(t)], h[t \ {Min(t)}])
  BY <1>7 DEF ReadsFrom
<1>11. f[1] = h[1..N] /\ f[N + 1] = NothingRead
  <2>1. 1 \in 1..(N + 1) /\ N + 1 \in 1..(N + 1) /\ (N + 1)..N = {}
    OBVIOUS
  <2>2. h[{}] = NothingRead
    BY <1>10
  <2> QED BY <1>9, <2>1, <2>2
<1>12. ASSUME NEW k \in 1..N PROVE f[k] = KeepItem(s, wanted, budget, s.order[k], f[k + 1])
  <2>1. k..N \in SUBSET (1..N) /\ k \in 1..(N + 1) /\ k + 1 \in 1..(N + 1)
    OBVIOUS
  <2>6. \A n \in k..N : n \in Nat /\ k <= n
    OBVIOUS
  <2>7. k \in k..N
    OBVIOUS
  <2>2. k..N \in SUBSET Nat /\ k..N # {}
    BY <2>6, <2>7
  <2>5. (k..N) \ {k} = (k + 1)..N
    OBVIOUS
  <2>3. Min(k..N) = k
    BY <2>2, <2>6, <2>7, LeastIsMin
  <2>4. h[k..N] = KeepItem(s, wanted, budget, s.order[k], h[(k + 1)..N])
    BY <1>10, <2>1, <2>2, <2>3, <2>5
  <2> QED BY <1>9, <2>1, <2>4
<1> QED BY <1>1, <1>8, <1>11, <1>12 DEF ReadRun

\* The traces of W, dated by gen and of these sizes, and the items of a queue of
\* N, which stand for them by date.
RankedBy(N, W, gen, rank, size, sum, budget) ==
    /\ N \in Nat /\ budget \in Nat
    /\ IsSum(sum, W, size)
    /\ \A x \in W : gen[x] \in Nat /\ size[x] \in Nat
    /\ \A x, y \in W : gen[x] = gen[y] => x = y
    /\ \A q \in 1..N : rank[q] \in Nat
    /\ \A p, q \in 1..N : p < q => rank[p] < rank[q]

\* What the reader has of the items from the k-th on: traces it asked for, in
\* flush order and within the budget, and no other fits beside the newer ones.
Picked(ids, spent, k, N, W, gen, rank, size, sum, budget) ==
    /\ ids \in Seq(W)
    /\ \A i, j \in DOMAIN ids : i < j => gen[ids[i]] < gen[ids[j]]
    /\ \A x \in Range(ids) : \E q \in k..N : rank[q] = gen[x]
    /\ spent = sum[Range(ids)] /\ spent <= budget
    /\ \A x \in W \ Range(ids) : (\E q \in k..N : rank[q] = gen[x])
          => sum[{g \in Range(ids) : gen[g] > gen[x]}] + size[x] > budget

\* The traces picked are all newer than the items before.
LEMMA PickedAreNewer ==
  ASSUME NEW N, NEW W, NEW gen, NEW rank, NEW size, NEW sum, NEW budget,
         RankedBy(N, W, gen, rank, size, sum, budget), NEW k \in 1..N,
         NEW ids, NEW spent, Picked(ids, spent, k + 1, N, W, gen, rank, size, sum, budget)
  PROVE  \A x \in Range(ids) : gen[x] > rank[k] /\ x \in W
<1> TAKE x \in Range(ids)
<1>1. PICK q \in (k + 1)..N : rank[q] = gen[x]
  BY DEF Picked
<1>2. k \in 1..N /\ q \in 1..N /\ k < q
  BY DEF RankedBy
<1>3. rank[k] < rank[q] /\ rank[q] \in Nat /\ rank[k] \in Nat
  BY <1>2 DEF RankedBy
<1>4. ids \in Seq(W)
  BY DEF Picked
<1>5. x \in W
  BY <1>4, FiniteSequence
<1> QED BY <1>1, <1>3, <1>5

\* An item passed over.
LEMMA PassedOver ==
  ASSUME NEW N, NEW W, NEW gen, NEW rank, NEW size, NEW sum, NEW budget,
         RankedBy(N, W, gen, rank, size, sum, budget), NEW k \in 1..N,
         NEW ids, NEW spent, Picked(ids, spent, k + 1, N, W, gen, rank, size, sum, budget),
         \A x \in W : gen[x] = rank[k] => spent + size[x] > budget
  PROVE  Picked(ids, spent, k, N, W, gen, rank, size, sum, budget)
<1>1. PICK got : got = Range(ids)
  OBVIOUS
<1>2. \A x \in got : gen[x] > rank[k]
  BY <1>1, PickedAreNewer
<1>3. \A q \in k..N : q = k \/ q \in (k + 1)..N
  BY DEF RankedBy
<1>4. \A q \in (k + 1)..N : q \in k..N
  BY DEF RankedBy
<1>5. \A x \in got : \E q \in k..N : rank[q] = gen[x]
  BY <1>1, <1>4 DEF Picked
<1>6. ASSUME NEW x \in W \ got, NEW q \in k..N, rank[q] = gen[x]
      PROVE  sum[{g \in got : gen[g] > gen[x]}] + size[x] > budget
  <2>1. CASE q \in (k + 1)..N
    BY <1>1, <1>6, <2>1 DEF Picked
  <2>2. CASE q = k
    <3>1. {g \in got : gen[g] > gen[x]} = got
      BY <1>2, <1>6, <2>2
    <3>2. spent = sum[got]
      BY <1>1 DEF Picked
    <3> QED BY <1>6, <2>2, <3>1, <3>2
  <2> QED BY <1>3, <2>1, <2>2
<1> QED BY <1>1, <1>5, <1>6 DEF Picked

\* A trace taken.
LEMMA TakenIn ==
  ASSUME NEW N, NEW W, NEW gen, NEW rank, NEW size, NEW sum, NEW budget,
         RankedBy(N, W, gen, rank, size, sum, budget), NEW k \in 1..N,
         NEW ids, NEW spent, Picked(ids, spent, k + 1, N, W, gen, rank, size, sum, budget),
         NEW id \in W, gen[id] = rank[k], spent + size[id] <= budget
  PROVE  Picked(<<id>> \o ids, spent + size[id], k, N, W, gen, rank, size, sum, budget)
<1>1. PICK got : got = Range(ids)
  OBVIOUS
<1>2. \A x \in got : gen[x] > gen[id] /\ x \in W
  BY <1>1, PickedAreNewer
<1>3. \A q \in k..N : q = k \/ q \in (k + 1)..N
  BY DEF RankedBy
<1>4. k \in k..N /\ \A q \in (k + 1)..N : q \in k..N
  BY DEF RankedBy
<1>5. ids \in Seq(W) /\ <<id>> \in Seq(W)
  BY DEF Picked
<1>6. PICK n \in Nat : n = Len(ids) /\ DOMAIN ids = 1..n
  BY <1>5
<1>7. PICK all \in Seq(W) : all = <<id>> \o ids /\ Range(all) = Range(<<id>>) \cup got
                            /\ Len(all) = Len(<<id>>) + Len(ids)
  BY <1>1, <1>5, ConcatRange
<1>8. Len(<<id>>) = 1 /\ Range(<<id>>) = {id} /\ <<id>>[1] = id /\ 1 \in 1..1
  BY DEF Range
<1>9. DOMAIN all = 1..(n + 1) /\ Range(all) = got \cup {id}
  BY <1>6, <1>7, <1>8
<1>10. all[1] = id /\ \A i \in 1..n : all[1 + i] = ids[i]
  BY <1>5, <1>6, <1>7, <1>8, ConcatAt
<1>11. \A i \in 1..n : ids[i] \in got
  BY <1>1, <1>6 DEF Range
<1>12. ASSUME NEW i \in 1..(n + 1), NEW j \in 1..(n + 1), i < j PROVE gen[all[i]] < gen[all[j]]
  <2>1. PICK b \in 1..n : j = 1 + b
    <3>1. j - 1 \in 1..n /\ j = 1 + (j - 1)
      BY <1>12
    <3> QED BY <3>1
  <2>2. all[j] = ids[b] /\ ids[b] \in got
    BY <1>10, <1>11, <2>1
  <2>3. CASE i = 1
    <3>1. gen[ids[b]] > gen[id]
      BY <1>2, <2>2
    <3>2. gen[id] \in Nat /\ gen[ids[b]] \in Nat
      BY <1>2, <2>2 DEF RankedBy
    <3>3. PICK g \in Nat, h \in Nat : g = gen[id] /\ h = gen[ids[b]]
      BY <3>2
    <3>4. g < h
      BY <3>1, <3>3
    <3> QED BY <1>10, <2>2, <2>3, <3>3, <3>4
  <2>4. CASE i # 1
    <3>1. PICK a \in 1..n : i = 1 + a /\ a < b
      <4>1. i - 1 \in 1..n /\ i = 1 + (i - 1) /\ i - 1 < b
        BY <1>12, <2>1, <2>4
      <4> QED BY <4>1
    <3>2. all[i] = ids[a] /\ gen[ids[a]] < gen[ids[b]]
      BY <1>6, <1>10, <3>1 DEF Picked
    <3> QED BY <2>2, <3>2
  <2> QED BY <2>3, <2>4
<1>13. ASSUME NEW x \in got \cup {id} PROVE \E q \in k..N : rank[q] = gen[x]
  <2>1. CASE x \in got
    BY <1>1, <1>4, <2>1 DEF Picked
  <2>2. CASE x = id
    BY <1>4, <2>2
  <2> QED BY <2>1, <2>2
<1>14. spent + size[id] = sum[got \cup {id}]
  <2>1. id \notin got
    <3>1. ~ (gen[id] > gen[id])
      BY DEF RankedBy
    <3> QED BY <1>2, <3>1
  <2>2. PICK more : more = got \cup {id}
    OBVIOUS
  <2>3. more \in SUBSET W /\ id \in more /\ more \ {id} = got
    BY <1>2, <2>1, <2>2
  <2>4. sum[more] = sum[more \ {id}] + size[id]
    BY <2>3 DEF RankedBy, IsSum
  <2>5. spent = sum[got]
    BY <1>1 DEF Picked
  <2> QED BY <2>2, <2>3, <2>4, <2>5
<1>15. ASSUME NEW x \in W \ (got \cup {id}), NEW q \in k..N, rank[q] = gen[x]
       PROVE  sum[{g \in got \cup {id} : gen[g] > gen[x]}] + size[x] > budget
  <2>1. q \in (k + 1)..N
    <3>1. q # k
      BY <1>15 DEF RankedBy
    <3> QED BY <1>3, <3>1
  <2>2. sum[{g \in got : gen[g] > gen[x]}] + size[x] > budget
    BY <1>1, <1>15, <2>1 DEF Picked
  <2>3. rank[k] < rank[q] /\ rank[k] \in Nat /\ rank[q] \in Nat
    <3>1. k \in 1..N /\ q \in 1..N /\ k < q
      BY <2>1 DEF RankedBy
    <3> QED BY <3>1 DEF RankedBy
  <2>4. ~ (gen[id] > gen[x])
    BY <1>15, <2>3
  <2>5. {g \in got \cup {id} : gen[g] > gen[x]} = {g \in got : gen[g] > gen[x]}
    BY <2>4
  <2> QED BY <2>2, <2>5
<1>16. PICK most : most = spent + size[id]
  OBVIOUS
<1>17. most = sum[Range(all)] /\ most <= budget
  BY <1>9, <1>14, <1>16
<1>18. \A x \in Range(all) : \E q \in k..N : rank[q] = gen[x]
  BY <1>9, <1>13
<1>19. \A x \in W \ Range(all) : (\E q \in k..N : rank[q] = gen[x])
          => sum[{g \in Range(all) : gen[g] > gen[x]}] + size[x] > budget
  BY <1>9, <1>15
<1>20. \A i, j \in DOMAIN all : i < j => gen[all[i]] < gen[all[j]]
  BY <1>9, <1>12
<1>21. Picked(all, most, k, N, W, gen, rank, size, sum, budget)
  BY <1>17, <1>18, <1>19, <1>20 DEF Picked
<1> QED BY <1>7, <1>16, <1>21

GensOf(s) == [id \in DOMAIN s.traces |-> s.traces[id].generation]
RanksOf(s) == [q \in 1..Len(s.order) |-> s.order[q].generation]

\* The traces of a store, and its queue, for a reader.
LEMMA StoreRanks ==
  ASSUME NEW s, NEW F, Shows(s, F), NEW W \in SUBSET DOMAIN s.traces, NEW budget \in Nat
  PROVE  \E sum : RankedBy(Len(s.order), W, GensOf(s), RanksOf(s), SizesOf(s), sum, budget)
<1>1. PICK N \in Nat : N = Len(s.order) /\ DOMAIN s.order = 1..N
  BY DEF Shows, Queues
<1>2. PICK traces, order, D : traces = s.traces /\ order = s.order /\ D = DOMAIN traces
  OBVIOUS
<1>3. PICK M \in Nat : M = Len(F)
  BY DEF Shows, AreFlushes
<1>4. PICK gen, size, rank : gen = GensOf(s) /\ size = SizesOf(s) /\ rank = RanksOf(s)
  OBVIOUS
<1>5. ASSUME NEW id \in W
      PROVE  gen[id] \in 1..M /\ F[gen[id]].id = id /\ size[id] \in Nat
  <2>1. traces[id].generation \in 1..M /\ F[traces[id].generation].id = id
    BY <1>2, <1>3 DEF Shows, HeldSince
  <2>2. traces[id].spans \in Seq(Range(traces[id].spans))
    BY <1>2 DEF Shows, HeldSince
  <2>3. Len(traces[id].spans) \in Nat
    BY <2>2
  <2>4. gen[id] = traces[id].generation /\ size[id] = Len(traces[id].spans)
    BY <1>2, <1>4 DEF GensOf, SizesOf
  <2> QED BY <2>1, <2>3, <2>4
<1>6. \A q \in 1..N : rank[q] = order[q].generation
  BY <1>1, <1>2, <1>4 DEF RanksOf
<1>7. /\ \A q \in 1..N : rank[q] \in 1..M
      /\ \A p, q \in 1..N : p < q => rank[p] < rank[q]
  BY <1>1, <1>2, <1>3, <1>6 DEF Shows, Queues
<1>8. IsFiniteSet(W)
  <2>1. IsFiniteSet(D)
    BY <1>2 DEF Shows, HeldSince
  <2> QED BY <1>2, <2>1, FS_Subset
<1>9. PICK sum : IsSum(sum, W, size)
  BY <1>5, <1>8, SumExists
<1>10. \A x, y \in W : gen[x] = gen[y] => x = y
  <2> TAKE x, y \in W
  <2>1. F[gen[x]].id = x /\ F[gen[y]].id = y
    BY <1>5
  <2> QED BY <2>1
<1>11. RankedBy(N, W, gen, rank, size, sum, budget)
  BY <1>5, <1>7, <1>9, <1>10 DEF RankedBy
<1> QED BY <1>1, <1>4, <1>11

\* An item of the queue, for a reader.
LEMMA KeepPicks ==
  ASSUME NEW s, NEW F, Shows(s, F), NEW wanted, NEW W, W = wanted \cap DOMAIN s.traces,
         NEW budget, NEW sum,
         RankedBy(Len(s.order), W, GensOf(s), RanksOf(s), SizesOf(s), sum, budget),
         NEW k \in 1..Len(s.order), NEW r,
         Picked(r.ids, r.spent, k + 1, Len(s.order), W, GensOf(s), RanksOf(s), SizesOf(s), sum, budget),
         NEW next, next = KeepItem(s, wanted, budget, s.order[k], r)
  PROVE  Picked(next.ids, next.spent, k, Len(s.order), W, GensOf(s), RanksOf(s), SizesOf(s), sum, budget)
<1>1. PICK N \in Nat : N = Len(s.order) /\ DOMAIN s.order = 1..N
  BY DEF Shows, Queues
<1>2. PICK gen, size, rank : gen = GensOf(s) /\ size = SizesOf(s) /\ rank = RanksOf(s)
  OBVIOUS
<1>3. RankedBy(N, W, gen, rank, size, sum, budget)
  BY <1>1, <1>2
<1>4. PICK ids, spent : ids = r.ids /\ spent = r.spent
  OBVIOUS
<1>5. Picked(ids, spent, k + 1, N, W, gen, rank, size, sum, budget) /\ k \in 1..N
  BY <1>1, <1>2, <1>4
<1>6. PICK item, traces, D : item = s.order[k] /\ traces = s.traces /\ D = DOMAIN traces
  OBVIOUS
<1>7. PICK id : id = item.id
  OBVIOUS
<1>8. rank[k] = item.generation /\ F[rank[k]].id = id
  BY <1>1, <1>2, <1>6, <1>7 DEF RanksOf, Shows, Queues
<1>9. \A x \in D : gen[x] = traces[x].generation /\ size[x] = Len(traces[x].spans)
  BY <1>2, <1>6 DEF GensOf, SizesOf
<1>10. \A x \in D : F[traces[x].generation].id = x
  BY <1>6 DEF Shows, HeldSince
<1>11. PICK cost : cost = Len(traces[id].spans)
  OBVIOUS
<1>12. next = IF ~ IsLive(traces, item) \/ id \notin wanted \/ spent + cost > budget THEN r
              ELSE [spent |-> spent + cost, ids |-> <<id>> \o ids]
  BY <1>4, <1>6, <1>7, <1>11 DEF KeepItem
<1>13. CASE id \in W /\ gen[id] = rank[k] /\ spent + size[id] <= budget
  <2>1. id \in D /\ IsLive(traces, item) /\ id \in wanted
    BY <1>6, <1>7, <1>8, <1>9, <1>13 DEF IsLive
  <2>2. cost = size[id]
    BY <1>9, <1>11, <2>1
  <2>3. ~ (spent + cost > budget)
    <3>1. spent \in Nat /\ cost \in Nat /\ budget \in Nat
      <4>1. spent = sum[Range(ids)] /\ ids \in Seq(W)
        BY <1>5 DEF Picked
      <4>2. Range(ids) \in SUBSET W
        BY <4>1, FiniteSequence
      <4>3. sum \in [SUBSET W -> Nat]
        BY <1>3 DEF RankedBy, IsSum
      <4> QED BY <1>3, <1>13, <2>2, <4>1, <4>2, <4>3 DEF RankedBy
    <3> QED BY <1>13, <2>2, <3>1
  <2>4. PICK all, most : all = <<id>> \o ids /\ most = spent + size[id]
    OBVIOUS
  <2>5. next = [spent |-> most, ids |-> all]
    BY <1>12, <2>1, <2>2, <2>3, <2>4
  <2>6. next.ids = all /\ next.spent = most
    BY <2>5
  <2>7. Picked(all, most, k, N, W, gen, rank, size, sum, budget)
    BY <1>3, <1>5, <1>13, <2>4, TakenIn
  <2> QED BY <1>1, <1>2, <2>6, <2>7
<1>14. CASE ~ (id \in W /\ gen[id] = rank[k] /\ spent + size[id] <= budget)
  <2>1. spent \in Nat /\ budget \in Nat
    <3>1. spent = sum[Range(ids)] /\ ids \in Seq(W)
      BY <1>5 DEF Picked
    <3>2. Range(ids) \in SUBSET W
      BY <3>1, FiniteSequence
    <3>3. sum \in [SUBSET W -> Nat]
      BY <1>3 DEF RankedBy, IsSum
    <3> QED BY <1>3, <3>1, <3>2, <3>3 DEF RankedBy
  <2>2. \A x \in W : size[x] \in Nat
    BY <1>3 DEF RankedBy
  <2>3. IsLive(traces, item) /\ id \in wanted => id \in W /\ gen[id] = rank[k] /\ cost = size[id]
    BY <1>6, <1>7, <1>8, <1>9, <1>11 DEF IsLive
  <2>4. next = r
    <3>1. SUFFICES ASSUME IsLive(traces, item), id \in wanted PROVE spent + cost > budget
      BY <1>12
    <3>2. id \in W /\ gen[id] = rank[k] /\ cost = size[id]
      BY <2>3, <3>1
    <3> QED BY <1>14, <2>1, <2>2, <3>2
  <2>5. ASSUME NEW x \in W, gen[x] = rank[k] PROVE spent + size[x] > budget
    <3>1. x \in D /\ traces[x].generation = rank[k]
      BY <1>6, <1>9, <2>5
    <3>2. x = id
      BY <1>8, <1>10, <3>1
    <3> QED BY <1>14, <2>1, <2>2, <2>5, <3>2
  <2>6. Picked(ids, spent, k, N, W, gen, rank, size, sum, budget)
    BY <1>3, <1>5, <2>5, PassedOver
  <2> QED BY <1>1, <1>2, <1>4, <2>4, <2>6
<1> QED BY <1>13, <1>14

\* All that the reader gets.
LEMMA SnapshotPicks ==
  ASSUME NEW s, NEW F, Shows(s, F), NEW wanted, NEW W, W = wanted \cap DOMAIN s.traces,
         NEW budget, NEW sum,
         RankedBy(Len(s.order), W, GensOf(s), RanksOf(s), SizesOf(s), sum, budget)
  PROVE  \E spent : Picked(SnapshotFor(s, wanted, budget), spent, 1, Len(s.order), W,
                           GensOf(s), RanksOf(s), SizesOf(s), sum, budget)
<1>1. PICK N \in Nat : N = Len(s.order) /\ s.order \in Seq(Range(s.order))
  BY DEF Shows, Queues
<1>2. PICK gen, size, rank : gen = GensOf(s) /\ size = SizesOf(s) /\ rank = RanksOf(s)
  OBVIOUS
<1>3. RankedBy(N, W, gen, rank, size, sum, budget)
  BY <1>1, <1>2
<1>4. PICK f : ReadRun(f, s, wanted, budget)
  BY <1>1, ReadRuns
<1>5. /\ SnapshotFor(s, wanted, budget) = f[1].ids /\ f[N + 1] = NothingRead
      /\ \A k \in 1..N : f[k] = KeepItem(s, wanted, budget, s.order[k], f[k + 1])
  BY <1>1, <1>4 DEF ReadRun
<1> DEFINE S == {n \in 0..N : Picked(f[N + 1 - n].ids, f[N + 1 - n].spent, N + 1 - n, N, W,
                                     gen, rank, size, sum, budget)}
<1>6. 0 \in S
  <2>1. N + 1 - 0 = N + 1 /\ 0 \in 0..N /\ (N + 1)..N = {}
    BY <1>1
  <2>2. NothingRead.ids = <<>> /\ NothingRead.spent = 0
    BY DEF NothingRead
  <2>3. Range(<<>>) = {} /\ DOMAIN <<>> = {} /\ <<>> \in Seq(W)
    BY DEF Range
  <2>4. sum[{}] = 0 /\ 0 <= budget
    BY <1>3 DEF RankedBy, IsSum
  <2>5. Picked(<<>>, 0, N + 1, N, W, gen, rank, size, sum, budget)
    BY <2>1, <2>3, <2>4 DEF Picked
  <2> QED BY <1>5, <2>1, <2>2, <2>5
<1>7. ASSUME NEW n \in 0..(N - 1), n \in S PROVE n + 1 \in S
  <2>1. PICK k \in 1..N : k = N - n /\ k + 1 = N + 1 - n /\ k = N + 1 - (n + 1) /\ n + 1 \in 0..N
    OBVIOUS
  <2>2. PICK r, next : r = f[k + 1] /\ next = f[k]
    OBVIOUS
  <2>3. Picked(r.ids, r.spent, k + 1, N, W, gen, rank, size, sum, budget)
    BY <1>7, <2>1, <2>2
  <2>4. next = KeepItem(s, wanted, budget, s.order[k], r)
    BY <1>5, <2>2
  <2>5. Picked(next.ids, next.spent, k, N, W, gen, rank, size, sum, budget)
    <3>1. k \in 1..Len(s.order)
      BY <1>1
    <3>2. Picked(r.ids, r.spent, k + 1, Len(s.order), W, GensOf(s), RanksOf(s), SizesOf(s), sum, budget)
      BY <1>1, <1>2, <2>3
    <3> QED BY <1>1, <1>2, <2>4, <3>1, <3>2, KeepPicks
  <2> QED BY <2>1, <2>2, <2>5
<1> HIDE DEF S
<1>8. N \in S
  <2>1. 0..N \subseteq S /\ N \in 0..N
    BY <1>6, <1>7, BoundedInduction
  <2> QED BY <2>1
<1>9. N + 1 - N = 1
  OBVIOUS
<1>10. Picked(f[1].ids, f[1].spent, 1, N, W, gen, rank, size, sum, budget)
  BY <1>8, <1>9 DEF S
<1>11. PICK ids, spent : ids = f[1].ids /\ spent = f[1].spent
  OBVIOUS
<1>12. Picked(ids, spent, 1, N, W, gen, rank, size, sum, budget)
  BY <1>10, <1>11
<1> QED BY <1>1, <1>2, <1>5, <1>11, <1>12

\* A reader gets the newest of the traces it asked for that its budget allows.
LEMMA StoreReads ==
  ASSUME NEW s, NEW F, Shows(s, F), NEW wanted, NEW budget \in Nat
  PROVE  ReadsNewest(s, F, wanted, budget)
<1>1. PICK N \in Nat : N = Len(s.order) /\ DOMAIN s.order = 1..N
  BY DEF Shows, Queues
<1>2. PICK M \in Nat : M = Len(F)
  BY DEF Shows, AreFlushes
<1>3. PICK D, W : D = DOMAIN s.traces /\ W = wanted \cap D
  OBVIOUS
<1>4. PICK gen, size, rank : gen = GensOf(s) /\ size = SizesOf(s) /\ rank = RanksOf(s)
  OBVIOUS
<1>5. PICK sum : RankedBy(N, W, gen, rank, size, sum, budget)
  BY <1>1, <1>3, <1>4, StoreRanks
<1>6. PICK ids, spent : /\ ids = SnapshotFor(s, wanted, budget)
                        /\ Picked(ids, spent, 1, N, W, gen, rank, size, sum, budget)
  BY <1>1, <1>3, <1>4, <1>5, SnapshotPicks
<1>7. PICK got : got = Range(ids)
  OBVIOUS
<1>8. ids \in Seq(W) /\ got \subseteq W /\ W \subseteq D /\ \A i \in DOMAIN ids : ids[i] \in got
  <2>1. ids \in Seq(W)
    BY <1>6 DEF Picked
  <2>2. got \subseteq W
    BY <1>7, <2>1, FiniteSequence
  <2> QED BY <1>3, <1>7, <2>1, <2>2 DEF Range
<1> DEFINE FlushOf(id) == FlushBefore(F, id, M + 1)
           SizeOf(id) == Len(s.traces[id].spans)
<1>9. \A id \in D : FlushOf(id) = gen[id]
  <2> TAKE id \in D
  <2>1. FlushBefore(F, id, Len(F) + 1) = s.traces[id].generation
    BY <1>3, DatedByLast
  <2>2. gen[id] = s.traces[id].generation
    BY <1>3, <1>4 DEF GensOf
  <2> QED BY <1>2, <2>1, <2>2
<1>10. \A id \in D : SizeOf(id) = size[id]
  BY <1>3, <1>4 DEF SizesOf
<1>11. \A T \in SUBSET W : SpentOn(s, T) = sum[T]
  <2>1. IsFiniteSet(D)
    BY <1>3 DEF Shows, HeldSince
  <2>2. W \in SUBSET DOMAIN s.traces /\ IsFiniteSet(W)
    BY <1>3, <2>1, FS_Subset
  <2>3. IsSum(sum, W, SizesOf(s))
    BY <1>4, <1>5 DEF RankedBy
  <2> QED BY <2>2, <2>3, SpentIsSum
<1> HIDE DEF FlushOf, SizeOf
<1>12. \A i, j \in DOMAIN ids : i < j => FlushOf(ids[i]) < FlushOf(ids[j])
  BY <1>6, <1>8, <1>9 DEF Picked
<1>13. SpentOn(s, got) <= budget
  BY <1>6, <1>7, <1>8, <1>11 DEF Picked
<1>14. ASSUME NEW id \in W \ got
       PROVE  SpentOn(s, {g \in got : FlushOf(g) > FlushOf(id)}) + SizeOf(id) > budget
  <2>1. \E q \in 1..N : rank[q] = gen[id]
    <3>1. id \in D
      BY <1>8
    <3>2. PICK q \in 1..N : s.order[q].generation = s.traces[id].generation
      BY <1>1, <1>3, <3>1 DEF Shows, Queues
    <3>3. rank[q] = s.order[q].generation /\ gen[id] = s.traces[id].generation
      BY <1>1, <1>3, <1>4, <3>1 DEF RanksOf, GensOf
    <3> QED BY <3>2, <3>3
  <2>2. PICK newer : newer = {g \in got : gen[g] > gen[id]}
    OBVIOUS
  <2>3. sum[newer] + size[id] > budget
    BY <1>6, <1>7, <2>1, <2>2 DEF Picked
  <2>4. {g \in got : FlushOf(g) > FlushOf(id)} = newer
    BY <1>8, <1>9, <2>2
  <2>5. newer \in SUBSET W
    BY <1>8, <2>2
  <2> QED BY <1>8, <1>10, <1>11, <2>3, <2>4, <2>5
<1>15. {ids[i] : i \in DOMAIN ids} = got
  BY <1>7 DEF Range
<1>16. got \subseteq wanted \cap D /\ (wanted \cap D) \ got = W \ got
  BY <1>3, <1>8
<1>17. /\ \A i, j \in DOMAIN ids : i < j => FlushBefore(F, ids[i], Len(F) + 1)
                                         < FlushBefore(F, ids[j], Len(F) + 1)
       /\ \A id \in (wanted \cap D) \ got :
             SpentOn(s, {g \in got : FlushBefore(F, g, Len(F) + 1) > FlushBefore(F, id, Len(F) + 1)})
               + Len(s.traces[id].spans) > budget
  BY <1>2, <1>12, <1>14, <1>16 DEF FlushOf, SizeOf
<1>18. /\ {SnapshotFor(s, wanted, budget)[i] : i \in DOMAIN SnapshotFor(s, wanted, budget)} = got
       /\ SnapshotFor(s, wanted, budget) = ids
  BY <1>6, <1>15
<1> QED BY <1>3, <1>13, <1>16, <1>17, <1>18, Zenon DEF ReadsNewest, SpentOn

\* The newest traces findings point at are held, whole as far as there is room,
\* whatever order their fragments are flushed in, and a reader gets the newest
\* of them its budget allows (TracesStore::retain_for, snapshot_for): for any
\* limits, any batches and any budget.
THEOREM NewestTracesAreKept == Spec => []NewestTracesKept
<1>1. RetainedInv => NewestTracesKept
  <2> SUFFICES ASSUME RetainedInv PROVE NewestTracesKept
    OBVIOUS
  <2>1. PICK s, F : s = retained /\ F = past.flushes
    OBVIOUS
  <2>2. Shows(s, F)
    BY <2>1, RetainedShows DEF RetainedInv
  <2>3. HoldsNewest(s, F)
    BY <2>2, StoreHolds
  <2>4. ASSUME NEW wanted, NEW budget \in 0..(2 * MaxSpansPerTrace)
        PROVE  ReadsNewest(s, F, wanted, budget)
    <3>1. budget \in Nat
      BY TracesAssumption
    <3> QED BY <2>2, <3>1, StoreReads
  <2> QED BY <2>1, <2>3, <2>4 DEF NewestTracesKept
<1> QED BY <1>1, RetainedInit, RetainedStep, PTL DEF Spec

-----------------------------------------------------------------------------
(* The pairs the correlator tracks.                                        *)

\* A finding against the occurrences at these places in turn.
MatchAll(start, places) == FoldLeft(Match, start, places)

MatchesUpTo(n, f, start, places) ==
    f = [t \in SUBSET (1..n) |->
           IF t = {} THEN start ELSE Match(f[t \ {Max(t)}], places[Max(t)])]

\* Matching one place more goes on from the places before.
LEMMA MatchesGrow ==
  ASSUME NEW n \in Nat, NEW f, NEW start, NEW places, MatchesUpTo(n, f, start, places)
  PROVE  \E g : MatchesUpTo(n + 1, g, start, places)
<1>1. PICK v : v = [t \in SUBSET (1..n) |-> Match(f[t], places[n + 1])]
  OBVIOUS
<1>2. PICK g : g = [t \in SUBSET (1..(n + 1)) |-> IF n + 1 \in t THEN v[t \ {n + 1}] ELSE f[t]]
  OBVIOUS
<1>3. Extends(g, f, v, n)
  BY <1>2, FoldExtends
<1>4. ASSUME NEW t \in SUBSET (1..(n + 1))
      PROVE  g[t] = IF t = {} THEN start ELSE Match(g[t \ {Max(t)}], places[Max(t)])
  BY <1>1, <1>3 DEF Extends, MatchesUpTo
<1>5. g = [t \in SUBSET (1..(n + 1)) |->
             IF t = {} THEN start ELSE Match(g[t \ {Max(t)}], places[Max(t)])]
  BY <1>2, <1>4
<1> QED BY <1>5 DEF MatchesUpTo

MatchRun(f, start, places) ==
    /\ MatchAll(start, places) = f[Len(places)]
    /\ f[0] = start
    /\ \A n \in 1..Len(places) : f[n] = Match(f[n - 1], places[n])

\* Matching an occurrence against many is a run over them.
LEMMA MatchRuns ==
  ASSUME NEW start, NEW places, places \in Seq(Range(places))
  PROVE  \E f : MatchRun(f, start, places)
<1>1. PICK N \in Nat : N = Len(places) /\ DOMAIN places = 1..N
  OBVIOUS
<1> DEFINE S == {n \in Nat : \E f : MatchesUpTo(n, f, start, places)}
<1>2. 0 \in S
  <2>1. PICK f : f = [t \in SUBSET (1..0) |-> start]
    OBVIOUS
  <2>2. \A t \in SUBSET (1..0) : t = {}
    OBVIOUS
  <2>3. MatchesUpTo(0, f, start, places)
    BY <2>1, <2>2 DEF MatchesUpTo
  <2> QED BY <2>3
<1>3. ASSUME NEW n \in Nat, n \in S PROVE n + 1 \in S
  <2>1. PICK f : MatchesUpTo(n, f, start, places)
    BY <1>3
  <2>2. \E g : MatchesUpTo(n + 1, g, start, places)
    BY <2>1, MatchesGrow
  <2> QED BY <2>2
<1> HIDE DEF S
<1>4. N \in S
  BY <1>2, <1>3, SetInduction
<1>5. PICK h : h = CHOOSE f : MatchesUpTo(N, f, start, places)
  OBVIOUS
<1>6. MatchesUpTo(N, h, start, places)
  BY <1>4, <1>5 DEF S
<1>7. MatchAll(start, places) = h[1..N]
  BY <1>1, <1>5 DEF MatchAll, FoldLeft, MapThenFoldSet, MatchesUpTo
<1>8. PICK f : f = [n \in 0..N |-> h[1..n]]
  OBVIOUS
<1>9. \A t \in SUBSET (1..N) :
         h[t] = IF t = {} THEN start ELSE Match(h[t \ {Max(t)}], places[Max(t)])
  BY <1>6 DEF MatchesUpTo
<1>10. f[0] = start /\ f[N] = h[1..N]
  BY <1>8, <1>9
<1>11. ASSUME NEW n \in 1..N PROVE f[n] = Match(f[n - 1], places[n])
  <2>1. 1..n \in SUBSET (1..N) /\ n \in 0..N /\ n - 1 \in 0..N
    OBVIOUS
  <2>2. Max(1..n) = n /\ 1..n # {} /\ (1..n) \ {n} = 1..(n - 1)
    BY LastPlace
  <2>3. h[1..n] = Match(h[1..(n - 1)], places[n])
    BY <1>9, <2>1, <2>2
  <2> QED BY <1>8, <2>1, <2>3
<1> QED BY <1>1, <1>7, <1>10, <1>11 DEF MatchRun

\* The findings of a batch in turn.
IngestAll(start, findings, now) ==
    FoldLeft(LAMBDA acc, finding : IngestOne(acc, finding, now), start, findings)

IngestsUpTo(n, f, start, findings, now) ==
    f = [t \in SUBSET (1..n) |->
           IF t = {} THEN start ELSE IngestOne(f[t \ {Max(t)}], findings[Max(t)], now)]

\* Ingesting one finding more goes on from the findings before.
LEMMA IngestsGrow ==
  ASSUME NEW n \in Nat, NEW f, NEW start, NEW findings, NEW now, IngestsUpTo(n, f, start, findings, now)
  PROVE  \E g : IngestsUpTo(n + 1, g, start, findings, now)
<1>1. PICK v : v = [t \in SUBSET (1..n) |-> IngestOne(f[t], findings[n + 1], now)]
  OBVIOUS
<1>2. PICK g : g = [t \in SUBSET (1..(n + 1)) |-> IF n + 1 \in t THEN v[t \ {n + 1}] ELSE f[t]]
  OBVIOUS
<1>3. Extends(g, f, v, n)
  BY <1>2, FoldExtends
<1>4. ASSUME NEW t \in SUBSET (1..(n + 1))
      PROVE  g[t] = IF t = {} THEN start ELSE IngestOne(g[t \ {Max(t)}], findings[Max(t)], now)
  BY <1>1, <1>3 DEF Extends, IngestsUpTo
<1>5. g = [t \in SUBSET (1..(n + 1)) |->
             IF t = {} THEN start ELSE IngestOne(g[t \ {Max(t)}], findings[Max(t)], now)]
  BY <1>2, <1>4
<1> QED BY <1>5 DEF IngestsUpTo

IngestRun(f, start, findings, now) ==
    /\ IngestAll(start, findings, now) = f[Len(findings)]
    /\ f[0] = start
    /\ \A n \in 1..Len(findings) : f[n] = IngestOne(f[n - 1], findings[n], now)

\* Ingesting a batch is a run over its findings.
LEMMA IngestRuns ==
  ASSUME NEW start, NEW findings, NEW now, findings \in Seq(Range(findings))
  PROVE  \E f : IngestRun(f, start, findings, now)
<1>1. PICK N \in Nat : N = Len(findings) /\ DOMAIN findings = 1..N
  OBVIOUS
<1> DEFINE S == {n \in Nat : \E f : IngestsUpTo(n, f, start, findings, now)}
<1>2. 0 \in S
  <2>1. PICK f : f = [t \in SUBSET (1..0) |-> start]
    OBVIOUS
  <2>2. \A t \in SUBSET (1..0) : t = {}
    OBVIOUS
  <2>3. IngestsUpTo(0, f, start, findings, now)
    BY <2>1, <2>2 DEF IngestsUpTo
  <2> QED BY <2>3
<1>3. ASSUME NEW n \in Nat, n \in S PROVE n + 1 \in S
  <2>1. PICK f : IngestsUpTo(n, f, start, findings, now)
    BY <1>3
  <2>2. \E g : IngestsUpTo(n + 1, g, start, findings, now)
    BY <2>1, IngestsGrow
  <2> QED BY <2>2
<1> HIDE DEF S
<1>4. N \in S
  BY <1>2, <1>3, SetInduction
<1>5. PICK h : h = CHOOSE f : IngestsUpTo(N, f, start, findings, now)
  OBVIOUS
<1>6. IngestsUpTo(N, h, start, findings, now)
  BY <1>4, <1>5 DEF S
<1>7. IngestAll(start, findings, now) = h[1..N]
  BY <1>1, <1>5 DEF IngestAll, FoldLeft, MapThenFoldSet, IngestsUpTo
<1>8. PICK f : f = [n \in 0..N |-> h[1..n]]
  OBVIOUS
<1>9. \A t \in SUBSET (1..N) :
         h[t] = IF t = {} THEN start ELSE IngestOne(h[t \ {Max(t)}], findings[Max(t)], now)
  BY <1>6 DEF IngestsUpTo
<1>10. f[0] = start /\ f[N] = h[1..N]
  BY <1>8, <1>9
<1>11. ASSUME NEW n \in 1..N PROVE f[n] = IngestOne(f[n - 1], findings[n], now)
  <2>1. 1..n \in SUBSET (1..N) /\ n \in 0..N /\ n - 1 \in 0..N
    OBVIOUS
  <2>2. Max(1..n) = n /\ 1..n # {} /\ (1..n) \ {n} = 1..(n - 1)
    BY LastPlace
  <2>3. h[1..n] = IngestOne(h[1..(n - 1)], findings[n], now)
    BY <1>9, <2>1, <2>2
  <2> QED BY <1>8, <2>1, <2>3
<1> QED BY <1>1, <1>7, <1>10, <1>11 DEF IngestRun

Capped(pairs) == IsFiniteSet(DOMAIN pairs) /\ Cardinality(DOMAIN pairs) <= MaxTrackedPairs

IsCorrelator(c) ==
    /\ DOMAIN c = {"occurrences", "pairs", "endpoints", "nowIdx", "prunedIdx"}
    /\ c.occurrences \in Seq(Range(c.occurrences))
    /\ Capped(c.pairs)

\* What is left of capped pairs is capped.
LEMMA RestrictedPairs ==
  ASSUME NEW pairs, Capped(pairs), NEW K \in SUBSET DOMAIN pairs
  PROVE  Capped(Restrict(pairs, K))
<1>1. IsFiniteSet(K) /\ Cardinality(K) <= Cardinality(DOMAIN pairs)
  BY FS_Subset DEF Capped
<1>2. Cardinality(K) \in Nat /\ Cardinality(DOMAIN pairs) \in Nat
  BY <1>1, FS_CardinalityType DEF Capped
<1>3. DOMAIN Restrict(pairs, K) = K
  BY DEF Restrict
<1> QED BY <1>1, <1>2, <1>3, CorrelatorAssumption DEF Capped

\* A pair known or with room for it keeps them capped.
LEMMA PutPair ==
  ASSUME NEW pairs, Capped(pairs), NEW key, NEW value,
         key \in DOMAIN pairs \/ ~ (Cardinality(DOMAIN pairs) >= MaxTrackedPairs)
  PROVE  Capped(Put(pairs, key, value))
<1>1. PICK K : K = DOMAIN pairs
  OBVIOUS
<1>2. IsFiniteSet(K) /\ Cardinality(K) \in Nat /\ Cardinality(K) <= MaxTrackedPairs
  BY <1>1, FS_CardinalityType DEF Capped
<1>3. DOMAIN Put(pairs, key, value) = K \cup {key}
  BY <1>1 DEF Put
<1>4. IsFiniteSet(K \cup {key}) /\ Cardinality(K \cup {key}) <= MaxTrackedPairs
  <2>1. CASE key \in K
    <3>1. K \cup {key} = K
      BY <2>1
    <3> QED BY <1>2, <3>1
  <2>2. CASE key \notin K
    <3>1. IsFiniteSet(K \cup {key}) /\ Cardinality(K \cup {key}) = Cardinality(K) + 1
      BY <1>2, <2>2, FS_AddElement
    <3> QED BY <1>1, <1>2, <2>2, <3>1, CorrelatorAssumption
  <2> QED BY <2>1, <2>2
<1> QED BY <1>3, <1>4 DEF Capped

\* What recording co-occurrences works on.
IsRecording(acc, n) ==
    /\ DOMAIN acc = {"occurrences", "pairs", "refused", "incoming"}
    /\ acc.occurrences \in Seq(Range(acc.occurrences)) /\ Len(acc.occurrences) = n
    /\ Capped(acc.pairs)

MarkedAt(s, i, x) == [s EXCEPT ![i] = x]

\* Marking one occurrence leaves them as many.
LEMMA MarkedOccurrence ==
  ASSUME NEW s, s \in Seq(Range(s)), NEW i, NEW x
  PROVE  /\ MarkedAt(s, i, x) \in Seq(Range(MarkedAt(s, i, x)))
         /\ Len(MarkedAt(s, i, x)) = Len(s)
<1>1. PICK n \in Nat : n = Len(s) /\ DOMAIN s = 1..n
  OBVIOUS
<1>2. PICK r : r = MarkedAt(s, i, x)
  OBVIOUS
<1>3. DOMAIN r = 1..n /\ r = [k \in 1..n |-> r[k]]
  BY <1>1, <1>2 DEF MarkedAt
<1>4. \A k \in 1..n : r[k] \in Range(r)
  BY <1>3 DEF Range
<1>5. PICK A : A = Range(r)
  OBVIOUS
<1>6. r \in Seq(A) /\ Len(r) = n
  BY <1>3, <1>4, <1>5
<1> QED BY <1>1, <1>2, <1>5, <1>6

\* A match is refused when there is no room for its pair.
LEMMA MatchKeeps ==
  ASSUME NEW n \in Nat, NEW acc, IsRecording(acc, n), NEW i \in 1..n
  PROVE  IsRecording(Match(acc, i), n)
<1> DEFINE incoming == acc.incoming
           occ == acc.occurrences[i]
           lag == Max({occ.event, incoming.event}) - Min({occ.event, incoming.event})
           ahead == incoming.event < occ.event
           source == IF ahead THEN incoming ELSE occ
           target == IF ahead THEN occ ELSE incoming
           key == <<source.endpoint, target.endpoint>>
           state == IF key \in DOMAIN acc.pairs THEN acc.pairs[key]
                    ELSE [co |-> NoCount, first |-> incoming.ingest, last |-> incoming.ingest]
           counted == target.endpoint \in source.counted
           matched == [state EXCEPT !.last = incoming.ingest,
                                    !.co = IF counted THEN @ ELSE AddAt(@, CreditedIdx(source, acc))]
           marked == source.counted \cup {target.endpoint}
           skip == lag > LagThreshold \/ ~ Pairable(occ.endpoint, incoming.endpoint)
<1>1. Match(acc, i) =
         IF skip THEN acc
         ELSE IF key \notin DOMAIN acc.pairs /\ Cardinality(DOMAIN acc.pairs) >= MaxTrackedPairs
         THEN [acc EXCEPT !.refused = @ \cup {key}]
         ELSE [acc EXCEPT !.pairs = Put(@, key, matched),
                          !.incoming.counted = IF ahead THEN marked ELSE @,
                          !.occurrences[i].counted = IF ahead THEN @ ELSE marked]
  BY DEF Match
<1> HIDE DEF incoming, occ, lag, ahead, source, target, key, state, counted, matched, marked, skip
<1>2. PICK k, m, w, before : k = key /\ m = matched /\ w = marked /\ before = ahead
  OBVIOUS
<1>3. Match(acc, i) =
         IF skip THEN acc
         ELSE IF k \notin DOMAIN acc.pairs /\ Cardinality(DOMAIN acc.pairs) >= MaxTrackedPairs
         THEN [acc EXCEPT !.refused = @ \cup {k}]
         ELSE [acc EXCEPT !.pairs = Put(@, k, m),
                          !.incoming.counted = IF before THEN w ELSE @,
                          !.occurrences[i].counted = IF before THEN @ ELSE w]
  BY <1>1, <1>2
<1>4. CASE skip
  BY <1>3, <1>4
<1>5. CASE ~ skip /\ k \notin DOMAIN acc.pairs /\ Cardinality(DOMAIN acc.pairs) >= MaxTrackedPairs
  <2>1. PICK out : out = [acc EXCEPT !.refused = @ \cup {k}]
    OBVIOUS
  <2>2. DOMAIN out = DOMAIN acc /\ out.occurrences = acc.occurrences /\ out.pairs = acc.pairs
    BY <2>1 DEF IsRecording
  <2> QED BY <1>3, <1>5, <2>1, <2>2 DEF IsRecording
<1>6. CASE ~ skip /\ ~ (k \notin DOMAIN acc.pairs /\ Cardinality(DOMAIN acc.pairs) >= MaxTrackedPairs)
  <2>1. PICK s, pairs, one, at :
           /\ s = acc.occurrences /\ pairs = acc.pairs
           /\ one = [acc.incoming EXCEPT !.counted = IF before THEN w ELSE @]
           /\ at = [s[i] EXCEPT !.counted = IF before THEN @ ELSE w]
    OBVIOUS
  <2>2. PICK r, more : r = MarkedAt(s, i, at) /\ more = Put(pairs, k, m)
    OBVIOUS
  <2>3. PICK out : out = [acc EXCEPT !.pairs = more, !.incoming = one, !.occurrences = r]
    OBVIOUS
  <2>4. Match(acc, i) = out
    BY <1>3, <1>6, <2>1, <2>2, <2>3 DEF MarkedAt
  <2>5. DOMAIN out = DOMAIN acc /\ out.occurrences = r /\ out.pairs = more
    BY <2>3 DEF IsRecording
  <2>6. r \in Seq(Range(r)) /\ Len(r) = n
    BY <2>1, <2>2, MarkedOccurrence DEF IsRecording
  <2>7. Capped(more)
    BY <1>6, <2>1, <2>2, PutPair DEF IsRecording
  <2> QED BY <2>4, <2>5, <2>6, <2>7 DEF IsRecording
<1> QED BY <1>4, <1>5, <1>6

\* Matching a finding against every occurrence keeps the pairs capped.
LEMMA MatchAllKeeps ==
  ASSUME NEW n \in Nat, NEW start, IsRecording(start, n), NEW places,
         places = [i \in 1..n |-> i]
  PROVE  IsRecording(MatchAll(start, places), n)
<1>1. places \in Seq(Range(places)) /\ Len(places) = n
  BY DEF Range
<1>2. PICK f : MatchRun(f, start, places)
  BY <1>1, MatchRuns
<1>3. /\ f[0] = start /\ MatchAll(start, places) = f[n]
      /\ \A k \in 1..n : f[k] = Match(f[k - 1], k)
  BY <1>1, <1>2 DEF MatchRun
<1> DEFINE S == {k \in 0..n : IsRecording(f[k], n)}
<1>4. 0 \in S
  BY <1>3
<1>5. ASSUME NEW k \in 0..(n - 1), k \in S PROVE k + 1 \in S
  <2>1. k + 1 \in 1..n /\ (k + 1) - 1 = k /\ k + 1 \in 0..n
    OBVIOUS
  <2>2. f[k + 1] = Match(f[k], k + 1)
    BY <1>3, <2>1
  <2>3. PICK acc, i : acc = f[k] /\ i = k + 1
    OBVIOUS
  <2>4. IsRecording(Match(acc, i), n)
    BY <1>5, <2>1, <2>3, MatchKeeps
  <2> QED BY <2>1, <2>2, <2>3, <2>4
<1> HIDE DEF S
<1>6. n \in S
  <2>1. 0..n \subseteq S
    BY <1>4, <1>5, BoundedInduction
  <2> QED BY <2>1
<1> QED BY <1>3, <1>6 DEF S

IsIngesting(acc) == DOMAIN acc = {"c", "refused"} /\ IsCorrelator(acc.c)

\* So does ingesting a finding,
LEMMA IngestOneKeeps ==
  ASSUME NEW acc, IsIngesting(acc), NEW finding, NEW now
  PROVE  IsIngesting(IngestOne(acc, finding, now))
<1>1. PICK c : c = Intern(acc.c, Endpoint(finding))
  OBVIOUS
<1>2. PICK old : old = acc.c
  OBVIOUS
<1>3. DOMAIN c = DOMAIN old /\ c.occurrences = old.occurrences /\ c.pairs = old.pairs
  BY <1>1, <1>2 DEF Intern, IsIngesting, IsCorrelator
<1>4. IsCorrelator(c)
  BY <1>2, <1>3 DEF IsIngesting, IsCorrelator
<1>5. PICK start : start = [occurrences |-> c.occurrences, pairs |-> c.pairs, refused |-> acc.refused,
                  incoming |-> [endpoint |-> Endpoint(finding), event |-> finding.first,
                                ingest |-> now, idx |-> c.nowIdx, counted |-> {}]]
  OBVIOUS
<1>6. PICK n \in Nat : n = Len(c.occurrences) /\ DOMAIN c.occurrences = 1..n
  BY <1>4 DEF IsCorrelator
<1>7. IsRecording(start, n)
  <2>1. /\ DOMAIN start = {"occurrences", "pairs", "refused", "incoming"}
        /\ start.occurrences = c.occurrences /\ start.pairs = c.pairs
    BY <1>5
  <2> QED BY <1>4, <1>6, <2>1 DEF IsRecording, IsCorrelator
<1>8. PICK places : places = [i \in 1..n |-> i]
  OBVIOUS
<1>9. PICK met : met = MatchAll(start, places)
  OBVIOUS
<1>10. IsRecording(met, n)
  BY <1>7, <1>8, <1>9, MatchAllKeeps
<1>11. IngestOne(acc, finding, now)
         = [c |-> [c EXCEPT !.occurrences = Append(met.occurrences, met.incoming), !.pairs = met.pairs],
            refused |-> met.refused]
  BY <1>1, <1>5, <1>6, <1>8, <1>9 DEF IngestOne, MatchAll
<1>12. PICK s, one, more : s = met.occurrences /\ one = met.incoming /\ more = Append(s, one)
  OBVIOUS
<1>13. PICK d : d = [c EXCEPT !.occurrences = more, !.pairs = met.pairs]
  OBVIOUS
<1>14. IngestOne(acc, finding, now) = [c |-> d, refused |-> met.refused]
  BY <1>11, <1>12, <1>13
<1>15. DOMAIN d = DOMAIN c /\ d.occurrences = more /\ d.pairs = met.pairs
  BY <1>4, <1>13 DEF IsCorrelator
<1>16. more \in Seq(Range(more))
  <2>1. PICK A : A = Range(s) \cup {one}
    OBVIOUS
  <2>2. s \in Seq(Range(s)) /\ s \in Seq(A)
    BY <1>10, <1>12, <2>1 DEF IsRecording
  <2>3. more \in Seq(A)
    BY <1>12, <2>1, <2>2
  <2> QED BY <2>3, FiniteSequence
<1>17. IsCorrelator(d)
  BY <1>4, <1>10, <1>15, <1>16 DEF IsCorrelator, IsRecording
<1> QED BY <1>14, <1>17 DEF IsIngesting

\* a batch of them,
LEMMA IngestAllKeeps ==
  ASSUME NEW start, IsIngesting(start), NEW findings, findings \in Seq(Range(findings)), NEW now
  PROVE  IsIngesting(IngestAll(start, findings, now))
<1>1. PICK n \in Nat : n = Len(findings)
  OBVIOUS
<1>2. PICK f : IngestRun(f, start, findings, now)
  BY IngestRuns
<1>3. /\ f[0] = start /\ IngestAll(start, findings, now) = f[n]
      /\ \A k \in 1..n : f[k] = IngestOne(f[k - 1], findings[k], now)
  BY <1>1, <1>2 DEF IngestRun
<1> DEFINE S == {k \in 0..n : IsIngesting(f[k])}
<1>4. 0 \in S
  BY <1>3
<1>5. ASSUME NEW k \in 0..(n - 1), k \in S PROVE k + 1 \in S
  <2>1. k + 1 \in 1..n /\ (k + 1) - 1 = k /\ k + 1 \in 0..n
    OBVIOUS
  <2>2. f[k + 1] = IngestOne(f[k], findings[k + 1], now)
    BY <1>3, <2>1
  <2>3. PICK acc, one : acc = f[k] /\ one = findings[k + 1]
    OBVIOUS
  <2>4. IsIngesting(IngestOne(acc, one, now))
    BY <1>5, <2>3, IngestOneKeeps
  <2> QED BY <2>1, <2>2, <2>3, <2>4
<1> HIDE DEF S
<1>6. n \in S
  <2>1. 0..n \subseteq S
    BY <1>4, <1>5, BoundedInduction
  <2> QED BY <2>1
<1> QED BY <1>3, <1>6 DEF S

\* making room past the cap,
LEMMA EnforceKeeps ==
  ASSUME NEW c, IsCorrelator(c)
  PROVE  IsCorrelator(EnforcePairCap(c))
<1>1. PICK doomed : EnforcePairCap(c) = c
                    \/ EnforcePairCap(c) = [c EXCEPT !.pairs = Restrict(@, DOMAIN @ \ doomed)]
  BY DEF EnforcePairCap
<1>2. PICK pairs, left : pairs = c.pairs /\ left = Restrict(pairs, DOMAIN pairs \ doomed)
  OBVIOUS
<1>3. Capped(left)
  BY <1>2, RestrictedPairs DEF IsCorrelator
<1>4. PICK d : d = [c EXCEPT !.pairs = left]
  OBVIOUS
<1>5. DOMAIN d = DOMAIN c /\ d.occurrences = c.occurrences /\ d.pairs = left
  BY <1>4 DEF IsCorrelator
<1>6. IsCorrelator(d)
  BY <1>3, <1>5 DEF IsCorrelator
<1> QED BY <1>1, <1>2, <1>4, <1>6

\* and letting pairs go that are quiet.
LEMMA PruneKeeps ==
  ASSUME NEW c, IsCorrelator(c)
  PROVE  IsCorrelator(PruneEndpoints(c))
<1>1. PICK kept : PruneEndpoints(c) = c
                  \/ PruneEndpoints(c) = [c EXCEPT !.prunedIdx = c.nowIdx, !.endpoints = Restrict(@, kept)]
  BY DEF PruneEndpoints
<1>2. PICK d : d = [c EXCEPT !.prunedIdx = c.nowIdx, !.endpoints = Restrict(@, kept)]
  OBVIOUS
<1>3. DOMAIN d = DOMAIN c /\ d.occurrences = c.occurrences /\ d.pairs = c.pairs
  BY <1>2 DEF IsCorrelator
<1> QED BY <1>1, <1>2, <1>3 DEF IsCorrelator

\* The correlator keeps the pairs it tracks within their cap.
LEMMA IngestKeeps ==
  ASSUME NEW correlated, IsCorrelator(correlated),
         NEW findings, findings \in Seq(Range(findings)), NEW now
  PROVE  IsCorrelator(Ingest(correlated, findings, now).c)
<1>1. PICK c, idx : c = correlated /\ idx = Max({correlated.nowIdx, now \div HalfWindow})
  OBVIOUS
<1>2. PICK occurrences, pairs : occurrences = EvictStale(c.occurrences, now)
                                /\ pairs = RetainPairs(c.pairs, now)
  OBVIOUS
<1>3. PICK later : later = [c EXCEPT !.nowIdx = idx, !.occurrences = EvictStale(@, now),
                                     !.pairs = RetainPairs(@, now)]
  OBVIOUS
<1>4. IsCorrelator(later)
  <2>1. DOMAIN later = DOMAIN c /\ later.occurrences = occurrences /\ later.pairs = pairs
    BY <1>1, <1>2, <1>3 DEF IsCorrelator
  <2>2. occurrences \in Seq(Range(occurrences))
    <3>1. PICK s, A : s = c.occurrences /\ A = Range(s)
      OBVIOUS
    <3>2. PICK these : these = {occ \in Range(s) : occ.ingest + Reach >= now}
      OBVIOUS
    <3>3. s \in Seq(A)
      BY <1>1, <3>1 DEF IsCorrelator
    <3>4. occurrences = Sifted(s, these)
      BY <1>2, <3>1, <3>2 DEF EvictStale
    <3>5. occurrences \in Seq(A)
      BY <3>3, <3>4, SiftedRange
    <3> QED BY <3>5, FiniteSequence
  <2>3. Capped(pairs)
    <3>1. PICK old, these : old = c.pairs /\ these = {key \in DOMAIN old : old[key].last + CorrelationWindow >= now}
      OBVIOUS
    <3>2. pairs = Restrict(old, these) /\ these \in SUBSET DOMAIN old
      BY <1>2, <3>1 DEF RetainPairs
    <3> QED BY <1>1, <3>1, <3>2, RestrictedPairs DEF IsCorrelator
  <2> QED BY <1>1, <2>1, <2>2, <2>3 DEF IsCorrelator
<1>5. PICK aged : aged = PruneEndpoints(later)
  OBVIOUS
<1>6. PICK start : start = [c |-> aged, refused |-> {}]
  OBVIOUS
<1>7. IsIngesting(start)
  BY <1>4, <1>5, <1>6, PruneKeeps DEF IsIngesting
<1>8. PICK met : met = IngestAll(start, findings, now)
  OBVIOUS
<1>9. IsIngesting(met)
  BY <1>7, <1>8, IngestAllKeeps
<1>10. Ingest(correlated, findings, now).c = IF met.refused = {} THEN met.c ELSE EnforcePairCap(met.c)
  BY <1>1, <1>3, <1>5, <1>6, <1>8 DEF Ingest, IngestAll
<1>11. PICK d : d = met.c
  OBVIOUS
<1>12. IsCorrelator(d) /\ IsCorrelator(EnforcePairCap(d))
  BY <1>9, <1>11, EnforceKeeps DEF IsIngesting
<1> QED BY <1>10, <1>11, <1>12

-----------------------------------------------------------------------------
(* The labels the calls are counted under.                                 *)

IsMeter(m) ==
    /\ DOMAIN m = {"names", "pairs", "avoidable", "analysed"}
    /\ IsFiniteSet(m.names) /\ Cardinality(m.names) <= MaxServiceLabels
    /\ IsFiniteSet(m.pairs) /\ Cardinality(m.pairs) <= MaxPairLabels

\* One label more, where there is room.
LEMMA LabelAdmitted ==
  ASSUME NEW set, IsFiniteSet(set), NEW cap \in Nat, Cardinality(set) < cap, NEW label
  PROVE  IsFiniteSet(set \cup {label}) /\ Cardinality(set \cup {label}) <= cap
<1>1. Cardinality(set) \in Nat
  BY FS_CardinalityType
<1>2. CASE label \in set
  <2>1. set \cup {label} = set
    BY <1>2
  <2> QED BY <1>1, <2>1
<1>3. CASE label \notin set
  <2>1. IsFiniteSet(set \cup {label}) /\ Cardinality(set \cup {label}) = Cardinality(set) + 1
    BY <1>3, FS_AddElement
  <2> QED BY <1>1, <2>1
<1> QED BY <1>2, <1>3

\* Admitting a share's labels, folded or not, keeps the caps,
LEMMA AdmitKeeps ==
  ASSUME NEW m, IsMeter(m), NEW share
  PROVE  IsMeter(AdmitPair(m, share).meter)
<1>1. PICK service, pair, one, two :
         /\ AdmitPair(m, share).meter
              = [m EXCEPT !.names = IF one THEN @ \cup {service} ELSE @,
                          !.pairs = IF two THEN @ \cup {pair} ELSE @]
         /\ one => Cardinality(m.names) < MaxServiceLabels
         /\ two => Cardinality(m.pairs) < MaxPairLabels
  BY DEF AdmitPair
<1>2. PICK names, pairs : /\ names = IF one THEN m.names \cup {service} ELSE m.names
                          /\ pairs = IF two THEN m.pairs \cup {pair} ELSE m.pairs
  OBVIOUS
<1>3. PICK d : d = [m EXCEPT !.names = names, !.pairs = pairs]
  OBVIOUS
<1>4. AdmitPair(m, share).meter = d
  BY <1>1, <1>2, <1>3
<1>5. DOMAIN d = DOMAIN m /\ d.names = names /\ d.pairs = pairs
  BY <1>3 DEF IsMeter
<1>6. IsFiniteSet(names) /\ Cardinality(names) <= MaxServiceLabels
  BY <1>1, <1>2, LabelAdmitted, DetectorsAssumption DEF IsMeter
<1>7. IsFiniteSet(pairs) /\ Cardinality(pairs) <= MaxPairLabels
  BY <1>1, <1>2, LabelAdmitted, DetectorsAssumption DEF IsMeter
<1> QED BY <1>4, <1>5, <1>6, <1>7 DEF IsMeter

\* A share charged, and a share analysed.
ChargeShare(m, share, avoidable) ==
    LET admitted == AdmitPair(m, share)
    IN  [admitted.meter EXCEPT !.avoidable = Raised(@, admitted.label, avoidable[share])]

AnalyseShare(m, share, analysed) ==
    LET admitted == AdmitPair(m, share)
    IN  [admitted.meter EXCEPT !.analysed = Raised(@, admitted.label, analysed[share])]

\* and so do charging the share and counting its calls.
LEMMA ShareKeeps ==
  ASSUME NEW m, IsMeter(m), NEW share, NEW amounts
  PROVE  IsMeter(ChargeShare(m, share, amounts)) /\ IsMeter(AnalyseShare(m, share, amounts))
<1>1. PICK d, label : d = AdmitPair(m, share).meter /\ label = AdmitPair(m, share).label
  OBVIOUS
<1>2. IsMeter(d)
  BY <1>1, AdmitKeeps
<1>3. PICK a : a = [d EXCEPT !.avoidable = Raised(@, label, amounts[share])]
  OBVIOUS
<1>4. PICK b : b = [d EXCEPT !.analysed = Raised(@, label, amounts[share])]
  OBVIOUS
<1>5. DOMAIN a = DOMAIN d /\ a.names = d.names /\ a.pairs = d.pairs
  BY <1>2, <1>3 DEF IsMeter
<1>6. DOMAIN b = DOMAIN d /\ b.names = d.names /\ b.pairs = d.pairs
  BY <1>2, <1>4 DEF IsMeter
<1>7. ChargeShare(m, share, amounts) = a /\ AnalyseShare(m, share, amounts) = b
  BY <1>1, <1>3, <1>4 DEF ChargeShare, AnalyseShare
<1> QED BY <1>2, <1>5, <1>6, <1>7 DEF IsMeter

ChargeAll(start, shares, amounts) ==
    FoldLeft(LAMBDA m, share : ChargeShare(m, share, amounts), start, shares)

ChargesUpTo(n, f, start, shares, amounts) ==
    f = [t \in SUBSET (1..n) |->
           IF t = {} THEN start ELSE ChargeShare(f[t \ {Max(t)}], shares[Max(t)], amounts)]

\* Charging one share more goes on from the shares before.
LEMMA ChargesGrow ==
  ASSUME NEW n \in Nat, NEW f, NEW start, NEW shares, NEW amounts, ChargesUpTo(n, f, start, shares, amounts)
  PROVE  \E g : ChargesUpTo(n + 1, g, start, shares, amounts)
<1>1. PICK v : v = [t \in SUBSET (1..n) |-> ChargeShare(f[t], shares[n + 1], amounts)]
  OBVIOUS
<1>2. PICK g : g = [t \in SUBSET (1..(n + 1)) |-> IF n + 1 \in t THEN v[t \ {n + 1}] ELSE f[t]]
  OBVIOUS
<1>3. Extends(g, f, v, n)
  BY <1>2, FoldExtends
<1>4. ASSUME NEW t \in SUBSET (1..(n + 1))
      PROVE  g[t] = IF t = {} THEN start ELSE ChargeShare(g[t \ {Max(t)}], shares[Max(t)], amounts)
  BY <1>1, <1>3 DEF Extends, ChargesUpTo
<1>5. g = [t \in SUBSET (1..(n + 1)) |->
             IF t = {} THEN start ELSE ChargeShare(g[t \ {Max(t)}], shares[Max(t)], amounts)]
  BY <1>2, <1>4
<1> QED BY <1>5 DEF ChargesUpTo

ChargeRun(f, start, shares, amounts) ==
    /\ ChargeAll(start, shares, amounts) = f[Len(shares)]
    /\ f[0] = start
    /\ \A n \in 1..Len(shares) : f[n] = ChargeShare(f[n - 1], shares[n], amounts)

\* Charging shares is a run over them.
LEMMA ChargeRuns ==
  ASSUME NEW start, NEW shares, NEW amounts, shares \in Seq(Range(shares))
  PROVE  \E f : ChargeRun(f, start, shares, amounts)
<1>1. PICK N \in Nat : N = Len(shares) /\ DOMAIN shares = 1..N
  OBVIOUS
<1> DEFINE S == {n \in Nat : \E f : ChargesUpTo(n, f, start, shares, amounts)}
<1>2. 0 \in S
  <2>1. PICK f : f = [t \in SUBSET (1..0) |-> start]
    OBVIOUS
  <2>2. \A t \in SUBSET (1..0) : t = {}
    OBVIOUS
  <2>3. ChargesUpTo(0, f, start, shares, amounts)
    BY <2>1, <2>2 DEF ChargesUpTo
  <2> QED BY <2>3
<1>3. ASSUME NEW n \in Nat, n \in S PROVE n + 1 \in S
  <2>1. PICK f : ChargesUpTo(n, f, start, shares, amounts)
    BY <1>3
  <2>2. \E g : ChargesUpTo(n + 1, g, start, shares, amounts)
    BY <2>1, ChargesGrow
  <2> QED BY <2>2
<1> HIDE DEF S
<1>4. N \in S
  BY <1>2, <1>3, SetInduction
<1>5. PICK h : h = CHOOSE f : ChargesUpTo(N, f, start, shares, amounts)
  OBVIOUS
<1>6. ChargesUpTo(N, h, start, shares, amounts)
  BY <1>4, <1>5 DEF S
<1>7. ChargeAll(start, shares, amounts) = h[1..N]
  BY <1>1, <1>5 DEF ChargeAll, FoldLeft, MapThenFoldSet, ChargesUpTo
<1>8. PICK f : f = [n \in 0..N |-> h[1..n]]
  OBVIOUS
<1>9. \A t \in SUBSET (1..N) :
         h[t] = IF t = {} THEN start ELSE ChargeShare(h[t \ {Max(t)}], shares[Max(t)], amounts)
  BY <1>6 DEF ChargesUpTo
<1>10. f[0] = start /\ f[N] = h[1..N]
  BY <1>8, <1>9
<1>11. ASSUME NEW n \in 1..N PROVE f[n] = ChargeShare(f[n - 1], shares[n], amounts)
  <2>1. 1..n \in SUBSET (1..N) /\ n \in 0..N /\ n - 1 \in 0..N
    OBVIOUS
  <2>2. Max(1..n) = n /\ 1..n # {} /\ (1..n) \ {n} = 1..(n - 1)
    BY LastPlace
  <2>3. h[1..n] = ChargeShare(h[1..(n - 1)], shares[n], amounts)
    BY <1>9, <2>1, <2>2
  <2> QED BY <1>8, <2>1, <2>3
<1> QED BY <1>1, <1>7, <1>10, <1>11 DEF ChargeRun

AnalyseAll(start, shares, amounts) ==
    FoldLeft(LAMBDA m, share : AnalyseShare(m, share, amounts), start, shares)

AnalysesUpTo(n, f, start, shares, amounts) ==
    f = [t \in SUBSET (1..n) |->
           IF t = {} THEN start ELSE AnalyseShare(f[t \ {Max(t)}], shares[Max(t)], amounts)]

\* Counting the calls of one share more goes on from the shares before.
LEMMA AnalysesGrow ==
  ASSUME NEW n \in Nat, NEW f, NEW start, NEW shares, NEW amounts, AnalysesUpTo(n, f, start, shares, amounts)
  PROVE  \E g : AnalysesUpTo(n + 1, g, start, shares, amounts)
<1>1. PICK v : v = [t \in SUBSET (1..n) |-> AnalyseShare(f[t], shares[n + 1], amounts)]
  OBVIOUS
<1>2. PICK g : g = [t \in SUBSET (1..(n + 1)) |-> IF n + 1 \in t THEN v[t \ {n + 1}] ELSE f[t]]
  OBVIOUS
<1>3. Extends(g, f, v, n)
  BY <1>2, FoldExtends
<1>4. ASSUME NEW t \in SUBSET (1..(n + 1))
      PROVE  g[t] = IF t = {} THEN start ELSE AnalyseShare(g[t \ {Max(t)}], shares[Max(t)], amounts)
  BY <1>1, <1>3 DEF Extends, AnalysesUpTo
<1>5. g = [t \in SUBSET (1..(n + 1)) |->
             IF t = {} THEN start ELSE AnalyseShare(g[t \ {Max(t)}], shares[Max(t)], amounts)]
  BY <1>2, <1>4
<1> QED BY <1>5 DEF AnalysesUpTo

AnalyseRun(f, start, shares, amounts) ==
    /\ AnalyseAll(start, shares, amounts) = f[Len(shares)]
    /\ f[0] = start
    /\ \A n \in 1..Len(shares) : f[n] = AnalyseShare(f[n - 1], shares[n], amounts)

\* Counting calls is a run over the shares.
LEMMA AnalyseRuns ==
  ASSUME NEW start, NEW shares, NEW amounts, shares \in Seq(Range(shares))
  PROVE  \E f : AnalyseRun(f, start, shares, amounts)
<1>1. PICK N \in Nat : N = Len(shares) /\ DOMAIN shares = 1..N
  OBVIOUS
<1> DEFINE S == {n \in Nat : \E f : AnalysesUpTo(n, f, start, shares, amounts)}
<1>2. 0 \in S
  <2>1. PICK f : f = [t \in SUBSET (1..0) |-> start]
    OBVIOUS
  <2>2. \A t \in SUBSET (1..0) : t = {}
    OBVIOUS
  <2>3. AnalysesUpTo(0, f, start, shares, amounts)
    BY <2>1, <2>2 DEF AnalysesUpTo
  <2> QED BY <2>3
<1>3. ASSUME NEW n \in Nat, n \in S PROVE n + 1 \in S
  <2>1. PICK f : AnalysesUpTo(n, f, start, shares, amounts)
    BY <1>3
  <2>2. \E g : AnalysesUpTo(n + 1, g, start, shares, amounts)
    BY <2>1, AnalysesGrow
  <2> QED BY <2>2
<1> HIDE DEF S
<1>4. N \in S
  BY <1>2, <1>3, SetInduction
<1>5. PICK h : h = CHOOSE f : AnalysesUpTo(N, f, start, shares, amounts)
  OBVIOUS
<1>6. AnalysesUpTo(N, h, start, shares, amounts)
  BY <1>4, <1>5 DEF S
<1>7. AnalyseAll(start, shares, amounts) = h[1..N]
  BY <1>1, <1>5 DEF AnalyseAll, FoldLeft, MapThenFoldSet, AnalysesUpTo
<1>8. PICK f : f = [n \in 0..N |-> h[1..n]]
  OBVIOUS
<1>9. \A t \in SUBSET (1..N) :
         h[t] = IF t = {} THEN start ELSE AnalyseShare(h[t \ {Max(t)}], shares[Max(t)], amounts)
  BY <1>6 DEF AnalysesUpTo
<1>10. f[0] = start /\ f[N] = h[1..N]
  BY <1>8, <1>9
<1>11. ASSUME NEW n \in 1..N PROVE f[n] = AnalyseShare(f[n - 1], shares[n], amounts)
  <2>1. 1..n \in SUBSET (1..N) /\ n \in 0..N /\ n - 1 \in 0..N
    OBVIOUS
  <2>2. Max(1..n) = n /\ 1..n # {} /\ (1..n) \ {n} = 1..(n - 1)
    BY LastPlace
  <2>3. h[1..n] = AnalyseShare(h[1..(n - 1)], shares[n], amounts)
    BY <1>9, <2>1, <2>2
  <2> QED BY <1>8, <2>1, <2>3
<1> QED BY <1>1, <1>7, <1>10, <1>11 DEF AnalyseRun

\* Charging any number of shares, or counting their calls, keeps the caps.
LEMMA AllKeep ==
  ASSUME NEW start, IsMeter(start), NEW shares, shares \in Seq(Range(shares)), NEW amounts
  PROVE  IsMeter(ChargeAll(start, shares, amounts)) /\ IsMeter(AnalyseAll(start, shares, amounts))
<1>1. PICK n \in Nat : n = Len(shares)
  OBVIOUS
<1>2. PICK f : ChargeRun(f, start, shares, amounts)
  BY ChargeRuns
<1>3. PICK g : AnalyseRun(g, start, shares, amounts)
  BY AnalyseRuns
<1>4. /\ f[0] = start /\ ChargeAll(start, shares, amounts) = f[n]
      /\ \A k \in 1..n : f[k] = ChargeShare(f[k - 1], shares[k], amounts)
  BY <1>1, <1>2 DEF ChargeRun
<1>5. /\ g[0] = start /\ AnalyseAll(start, shares, amounts) = g[n]
      /\ \A k \in 1..n : g[k] = AnalyseShare(g[k - 1], shares[k], amounts)
  BY <1>1, <1>3 DEF AnalyseRun
<1> DEFINE S == {k \in 0..n : IsMeter(f[k]) /\ IsMeter(g[k])}
<1>6. 0 \in S
  BY <1>4, <1>5
<1>7. ASSUME NEW k \in 0..(n - 1), k \in S PROVE k + 1 \in S
  <2>1. k + 1 \in 1..n /\ (k + 1) - 1 = k /\ k + 1 \in 0..n
    OBVIOUS
  <2>2. /\ f[k + 1] = ChargeShare(f[k], shares[k + 1], amounts)
        /\ g[k + 1] = AnalyseShare(g[k], shares[k + 1], amounts)
    BY <1>4, <1>5, <2>1
  <2>3. PICK a, b, share : a = f[k] /\ b = g[k] /\ share = shares[k + 1]
    OBVIOUS
  <2>4. IsMeter(ChargeShare(a, share, amounts)) /\ IsMeter(AnalyseShare(b, share, amounts))
    BY <1>7, <2>3, ShareKeeps
  <2> QED BY <2>1, <2>2, <2>3, <2>4
<1> HIDE DEF S
<1>8. n \in S
  <2>1. 0..n \subseteq S
    BY <1>6, <1>7, BoundedInduction
  <2> QED BY <2>1
<1> QED BY <1>4, <1>5, <1>8 DEF S

\* Finitely many shares can be put in an order.
LEMMA OrderedShares ==
  ASSUME NEW shares, IsFiniteSet(shares)
  PROVE  InOrder(shares) \in Seq(Range(InOrder(shares)))
<1>1. PICK n \in Nat : n = Cardinality(shares)
  BY FS_CardinalityType
<1>2. PICK s : s = InOrder(shares)
  OBVIOUS
<1> DEFINE Nth(k) == CHOOSE e \in shares :
                       Cardinality({f \in shares : f[1] < e[1] \/ (f[1] = e[1] /\ f[2] < e[2])}) = k - 1
<1>3. s = [k \in 1..Cardinality(shares) |-> Nth(k)]
  BY <1>2 DEF InOrder, Ranked
<1> HIDE DEF Nth
<1>4. DOMAIN s = 1..n /\ s = [k \in 1..n |-> s[k]]
  BY <1>1, <1>3
<1>5. \A k \in 1..n : s[k] \in Range(s)
  BY <1>4 DEF Range
<1>6. PICK A : A = Range(s)
  OBVIOUS
<1>7. s \in Seq(A)
  BY <1>4, <1>5, <1>6
<1> QED BY <1>2, <1>6, <1>7

\* The meter stays within its caps whatever it is charged.
LEMMA MeterKeeps ==
  ASSUME NEW meter, IsMeter(meter), NEW avoidable, IsFiniteSet(DOMAIN avoidable),
         NEW analysed, IsFiniteSet(DOMAIN analysed)
  PROVE  IsMeter(MeterShares(meter, avoidable, analysed))
<1>1. PICK s, t : s = InOrder(DOMAIN avoidable) /\ t = InOrder(DOMAIN analysed)
  OBVIOUS
<1>2. s \in Seq(Range(s)) /\ t \in Seq(Range(t))
  BY <1>1, OrderedShares
<1>3. PICK first : first = ChargeAll(meter, s, avoidable)
  OBVIOUS
<1>4. IsMeter(first) /\ IsMeter(AnalyseAll(first, t, analysed))
  BY <1>2, <1>3, AllKeep
<1>5. MeterShares(meter, avoidable, analysed) = AnalyseAll(first, t, analysed)
  BY <1>1, <1>3 DEF MeterShares, ChargeAll, AnalyseAll, ChargeShare, AnalyseShare
<1> QED BY <1>4, <1>5

-----------------------------------------------------------------------------
(* What of a batch is charged.                                             *)

\* A group of calls of a trace that a detector reports.
LEMMA GroupsAreCalls ==
  ASSUME NEW trace, NEW threshold, NEW nPlusOne,
         NEW g \in NPlusOneGroups(trace, threshold) \cup RedundantGroups(trace, nPlusOne)
  PROVE  g \in SUBSET DOMAIN trace.spans /\ g # {}
<1>1. CASE g \in NPlusOneGroups(trace, threshold)
  <2>1. g \in Grouped(trace, LAMBDA s : ~ s.session,
                      LAMBDA s : <<s.kind, s.key.template, s.grouping>>)
    BY <1>1 DEF NPlusOneGroups
  <2> QED BY <2>1 DEF Grouped
<1>2. CASE g \in RedundantGroups(trace, nPlusOne)
  <2>1. g \in Grouped(trace, LAMBDA s : s.kind # "messaging" /\ ~ s.session,
                      LAMBDA s : <<s.kind, s.key.template, s.params, s.grouping>>)
    BY <1>2 DEF RedundantGroups
  <2> QED BY <2>1 DEF Grouped
<1> QED BY <1>1, <1>2

\* A finding over calls of a trace of the batch.
IsOver(f, batch) ==
    /\ f.in \in DOMAIN batch
    /\ f.group \in SUBSET DOMAIN batch[f.in].spans /\ f.group # {}

\* An avoidable finding is over calls of one trace of its batch.
LEMMA AvoidableAreOver ==
  ASSUME NEW batch, NEW threshold, NEW f \in AvoidableFindings(batch, threshold)
  PROVE  IsOver(f, batch)
<1>1. PICK b \in DOMAIN batch : \E g \in NPlusOneGroups(batch[b], threshold)
                                     \cup RedundantGroups(batch[b], NPlusOneGroups(batch[b], threshold)) :
         f.in = b /\ f.group = g
  BY DEF AvoidableFindings
<1>2. PICK trace, nPlusOne : trace = batch[b] /\ nPlusOne = NPlusOneGroups(batch[b], threshold)
  OBVIOUS
<1>3. PICK g \in NPlusOneGroups(trace, threshold) \cup RedundantGroups(trace, nPlusOne) :
         f.in = b /\ f.group = g
  BY <1>1, <1>2
<1>4. g \in SUBSET DOMAIN trace.spans /\ g # {}
  BY <1>3, GroupsAreCalls
<1> QED BY <1>2, <1>3, <1>4 DEF IsOver

Leads(f, S, size, stamp, place) ==
    \A g \in S : \/ size[f] > size[g]
                 \/ /\ size[f] = size[g]
                    /\ stamp[f] < stamp[g] \/ (stamp[f] = stamp[g] /\ place[f] <= place[g])

\* The first of the largest, when there are any.
LEMMA FirstOfLargest ==
  ASSUME NEW S, S # {}, NEW B \in Nat,
         NEW size \in [S -> 0..B], NEW stamp \in [S -> Nat], NEW place \in [S -> Nat]
  PROVE  \E f \in S : Leads(f, S, size, stamp, place)
<1>1. PICK sizes : sizes = {size[f] : f \in S}
  OBVIOUS
<1>2. sizes \in SUBSET (0..B) /\ sizes # {}
  BY <1>1
<1>3. PICK m \in sizes : \A k \in sizes : k <= m
  BY <1>2, MaxIsGreatest
<1>4. PICK largest : largest = {f \in S : size[f] = m}
  OBVIOUS
<1>5. PICK stamps : stamps = {stamp[f] : f \in largest}
  OBVIOUS
<1>6. stamps \in SUBSET Nat /\ stamps # {}
  BY <1>1, <1>3, <1>4, <1>5
<1>7. PICK t \in stamps : \A u \in stamps : t <= u
  BY <1>6, LeastNatural
<1>8. PICK earliest : earliest = {f \in largest : stamp[f] = t}
  OBVIOUS
<1>9. PICK places : places = {place[f] : f \in earliest}
  OBVIOUS
<1>10. places \in SUBSET Nat /\ places # {}
  BY <1>4, <1>5, <1>7, <1>8, <1>9
<1>11. PICK p \in places : \A q \in places : p <= q
  BY <1>10, LeastNatural
<1>12. PICK f \in earliest : place[f] = p
  BY <1>9, <1>11
<1>13. f \in S /\ size[f] = m /\ stamp[f] = t
  BY <1>4, <1>8, <1>12
<1>14. ASSUME NEW g \in S
       PROVE  \/ size[f] > size[g]
              \/ /\ size[f] = size[g]
                 /\ stamp[f] < stamp[g] \/ (stamp[f] = stamp[g] /\ place[f] <= place[g])
  <2>1. size[g] <= m /\ size[g] \in Nat /\ m \in Nat
    BY <1>1, <1>2, <1>3
  <2>2. CASE size[g] = m
    <3>1. g \in largest /\ stamp[g] \in stamps /\ t <= stamp[g] /\ t \in Nat /\ stamp[g] \in Nat
      BY <2>2, <1>4, <1>5, <1>6, <1>7
    <3>2. stamp[g] = t => place[g] \in places /\ p <= place[g]
      BY <3>1, <1>8, <1>9, <1>11
    <3> QED BY <2>2, <3>1, <3>2, <1>12, <1>13
  <2>3. CASE size[g] # m
    BY <2>1, <2>3, <1>13
  <2> QED BY <2>2, <2>3
<1> QED BY <1>13, <1>14 DEF Leads

\* What a key is credited from is among its findings.
LEMMA CreditedAreFound ==
  ASSUME NEW batch, IsDated(batch), Timed(batch),
         NEW found, \A f \in found : IsOver(f, batch)
  PROVE  Credited(batch, found) \subseteq found
<1>1. PICK nPlusOne : nPlusOne = {f \in found : f.type = "n_plus_one"}
  OBVIOUS
<1>2. PICK n \in Nat : n = Len(batch) /\ DOMAIN batch = 1..n
  BY DEF IsDated
<1>3. ASSUME NEW b \in 1..n
      PROVE  \E N \in Nat : /\ N = Len(batch[b].spans) /\ DOMAIN batch[b].spans = 1..N
                            /\ \A i \in 1..N : batch[b].spans[i].at \in Nat
  <2>1. PICK t : t = batch[b]
    OBVIOUS
  <2>2. t \in Range(batch)
    BY <1>2, <2>1 DEF Range
  <2>3. t.spans \in Seq(Range(t.spans)) /\ \A s \in Range(t.spans) : s.at \in Nat
    BY <2>2 DEF IsDated, Timed
  <2>4. PICK N \in Nat : N = Len(t.spans) /\ DOMAIN t.spans = 1..N
    BY <2>3
  <2>5. \A i \in 1..N : t.spans[i].at \in Nat
    BY <2>3, <2>4 DEF Range
  <2> QED BY <2>1, <2>4, <2>5
<1>4. PICK lengths : lengths = [b \in 1..n |-> Len(batch[b].spans)]
  OBVIOUS
<1>5. PICK B \in Nat : \A b \in 1..n : lengths[b] \in 0..B
  <2>1. \A b \in 1..n : lengths[b] \in Nat
    BY <1>3, <1>4
  <2>2. PICK D : D = 1..n
    OBVIOUS
  <2>3. PICK T : T = {lengths[b] : b \in D}
    OBVIOUS
  <2>4. IsFiniteSet(D) /\ DOMAIN lengths = D
    BY <1>4, <2>2, FS_Interval
  <2>5. IsFiniteSet(T)
    BY <2>3, <2>4, FiniteImage
  <2>6. T \in SUBSET Nat
    BY <2>1, <2>2, <2>3
  <2>7. PICK B \in Nat : T \in SUBSET (0..B)
    BY <2>5, <2>6, BoundExists
  <2> QED BY <2>2, <2>3, <2>7
<1>6. ASSUME NEW f \in found
      PROVE  /\ Occurrences(f) \in 0..B /\ f.in \in Nat
             /\ Min({Span(batch[f.in], i).at : i \in f.group}) \in Nat
  <2>1. PICK b \in 1..n : b = f.in
    BY <1>2 DEF IsOver
  <2>2. PICK N \in Nat : /\ N = Len(batch[b].spans) /\ DOMAIN batch[b].spans = 1..N
                         /\ \A i \in 1..N : batch[b].spans[i].at \in Nat
    BY <1>3
  <2>3. PICK g : g = f.group
    OBVIOUS
  <2>4. g \in SUBSET (1..N) /\ g # {}
    BY <2>1, <2>2, <2>3 DEF IsOver
  <2>5. Occurrences(f) \in 0..B
    <3>1. IsFiniteSet(1..N) /\ Cardinality(1..N) = N
      BY FS_Interval
    <3>2. IsFiniteSet(g) /\ Cardinality(g) <= N
      BY <2>4, <3>1, FS_Subset
    <3>3. Cardinality(g) \in Nat
      BY <3>2, FS_CardinalityType
    <3>4. N \in 0..B
      BY <1>4, <1>5, <2>2
    <3> QED BY <2>3, <3>2, <3>3, <3>4 DEF Occurrences
  <2>6. PICK stamps : stamps = {Span(batch[f.in], i).at : i \in f.group}
    OBVIOUS
  <2>7. stamps \in SUBSET Nat /\ stamps # {}
    BY <2>1, <2>2, <2>3, <2>4, <2>6 DEF Span
  <2>8. Min(stamps) \in Nat
    BY <2>7, MinIsLeast
  <2> QED BY <2>1, <2>5, <2>6, <2>8
<1>7. PICK size, stamp, place :
         /\ size = [f \in nPlusOne |-> Occurrences(f)]
         /\ stamp = [f \in nPlusOne |-> Min({Span(batch[f.in], i).at : i \in f.group})]
         /\ place = [f \in nPlusOne |-> f.in]
  OBVIOUS
<1>8. /\ size \in [nPlusOne -> 0..B] /\ stamp \in [nPlusOne -> Nat]
      /\ place \in [nPlusOne -> Nat]
  BY <1>1, <1>6, <1>7
<1> DEFINE Stamp(f) == Min({Span(batch[f.in], i).at : i \in f.group})
           Before(f, g) == \/ Occurrences(f) > Occurrences(g)
                           \/ /\ Occurrences(f) = Occurrences(g)
                              /\ \/ Stamp(f) < Stamp(g)
                                 \/ Stamp(f) = Stamp(g) /\ f.in <= g.in
           largest == CHOOSE f \in nPlusOne : \A g \in nPlusOne : Before(f, g)
<1>9. nPlusOne # {} => largest \in nPlusOne
  <2> SUFFICES ASSUME nPlusOne # {} PROVE \E f \in nPlusOne : \A g \in nPlusOne : Before(f, g)
    OBVIOUS
  <2>1. PICK f \in nPlusOne : Leads(f, nPlusOne, size, stamp, place)
    BY <1>8, FirstOfLargest
  <2>2. \A g \in nPlusOne : size[g] = Occurrences(g) /\ stamp[g] = Stamp(g) /\ place[g] = g.in
    BY <1>7
  <2> HIDE DEF Stamp
  <2>3. \A g \in nPlusOne : Before(f, g)
    BY <2>1, <2>2 DEF Leads
  <2> QED BY <2>3
<1>10. Credited(batch, found) =
          LET redundant == found \ nPlusOne
          IN  IF nPlusOne # {} /\ Repeats({largest}) >= Repeats(redundant) THEN {largest} ELSE redundant
  BY <1>1 DEF Credited
<1> HIDE DEF largest
<1> QED BY <1>1, <1>9, <1>10

\* So is every finding credited in the end.
LEMMA DedupAreFound ==
  ASSUME NEW batch, IsDated(batch), Timed(batch), NEW threshold,
         NEW f \in DedupFindings(batch, AvoidableFindings(batch, threshold))
  PROVE  IsOver(f, batch)
<1>1. PICK found : found = AvoidableFindings(batch, threshold)
  OBVIOUS
<1>2. \A g \in found : IsOver(g, batch)
  BY <1>1, AvoidableAreOver
<1>3. PICK key : f \in Credited(batch, {g \in found : DedupKey(batch, g) = key})
  BY <1>1 DEF DedupFindings
<1>4. PICK these : these = {g \in found : DedupKey(batch, g) = key}
  OBVIOUS
<1>5. f \in these
  BY <1>2, <1>3, <1>4, CreditedAreFound
<1> QED BY <1>2, <1>4, <1>5

\* The spans of a batch, one after another, and their shares.
LEMMA SpansOfBatch ==
  ASSUME NEW batch, IsDated(batch)
  PROVE  /\ FlattenSeq([b \in DOMAIN batch |-> batch[b].spans])
              \in Seq(Range(FlattenSeq([b \in DOMAIN batch |-> batch[b].spans])))
         /\ Range(FlattenSeq([b \in DOMAIN batch |-> batch[b].spans]))
              = UNION {Range(batch[b].spans) : b \in DOMAIN batch}
<1>1. PICK n \in Nat : n = Len(batch) /\ DOMAIN batch = 1..n
  BY DEF IsDated
<1>2. PICK seqs : seqs = [b \in DOMAIN batch |-> batch[b].spans]
  OBVIOUS
<1>3. PICK A : A = UNION {Range(batch[b].spans) : b \in DOMAIN batch}
  OBVIOUS
<1>4. ASSUME NEW b \in 1..n PROVE seqs[b] \in Seq(A) /\ Range(seqs[b]) = Range(batch[b].spans)
  <2>1. PICK s : s = batch[b].spans
    OBVIOUS
  <2>2. batch[b] \in Range(batch)
    BY <1>1 DEF Range
  <2>3. s \in Seq(Range(s))
    BY <2>1, <2>2 DEF IsDated
  <2>4. Range(s) \subseteq A
    BY <1>1, <1>3, <2>1
  <2>5. s \in Seq(A)
    BY <2>3, <2>4
  <2> QED BY <1>1, <1>2, <2>1, <2>5
<1>5. seqs \in Seq(Seq(A)) /\ DOMAIN seqs = 1..n
  BY <1>1, <1>2, <1>4
<1>6. PICK flat : flat = FlattenSeq(seqs)
  OBVIOUS
<1>7. flat \in Seq(A) /\ Range(flat) = UNION {Range(seqs[b]) : b \in DOMAIN seqs}
  BY <1>5, <1>6, FlattenFacts
<1>8. Range(flat) = A
  BY <1>1, <1>3, <1>4, <1>5, <1>7
<1> QED BY <1>2, <1>3, <1>6, <1>7, <1>8

\* The shares of a batch are finitely many.
LEMMA SharesAreFinite ==
  ASSUME NEW batch, IsDated(batch), Timed(batch), NEW threshold
  PROVE  /\ IsFiniteSet(DOMAIN AnalysedShares(batch))
         /\ IsFiniteSet(DOMAIN AvoidableShares(batch,
                                  DedupFindings(batch, AvoidableFindings(batch, threshold))))
<1>1. PICK flat : flat = FlattenSeq([b \in DOMAIN batch |-> batch[b].spans])
  OBVIOUS
<1>2. flat \in Seq(Range(flat)) /\ Range(flat) = UNION {Range(batch[b].spans) : b \in DOMAIN batch}
  BY <1>1, SpansOfBatch
<1>3. PICK S : S = Range(flat)
  OBVIOUS
<1>4. IsFiniteSet(S)
  BY <1>2, <1>3, FiniteSequence
<1>5. PICK f : f = [s \in S |-> <<s.key.service, s.grouping>>]
  OBVIOUS
<1>6. PICK T : T = {f[s] : s \in S}
  OBVIOUS
<1>7. IsFiniteSet(T)
  BY <1>4, <1>5, <1>6, FiniteImage
<1>8. IsFiniteSet(DOMAIN AnalysedShares(batch))
  <2>1. DOMAIN AnalysedShares(batch) = {<<flat[i].key.service, flat[i].grouping>> : i \in DOMAIN flat}
    BY <1>1 DEF AnalysedShares
  <2>2. \A i \in DOMAIN flat : flat[i] \in S
    BY <1>3 DEF Range
  <2>3. DOMAIN AnalysedShares(batch) \subseteq T
    BY <1>5, <1>6, <2>1, <2>2
  <2> QED BY <1>7, <2>3, FS_Subset
<1>9. PICK charged1 : charged1 = DedupFindings(batch, AvoidableFindings(batch, threshold))
  OBVIOUS
<1>10. IsFiniteSet(DOMAIN AvoidableShares(batch, charged1))
  <2>1. PICK spans : spans = UNION {{Span(batch[g.in], i) : i \in g.group} : g \in charged1}
    OBVIOUS
  <2>2. ASSUME NEW s \in spans PROVE s \in S
    <3>1. PICK g \in charged1 : \E i \in g.group : s = Span(batch[g.in], i)
      BY <2>1
    <3>2. PICK i \in g.group : s = Span(batch[g.in], i)
      BY <3>1
    <3>3. IsOver(g, batch)
      BY <1>9, DedupAreFound
    <3>4. PICK b \in DOMAIN batch : b = g.in /\ i \in DOMAIN batch[b].spans
      BY <3>2, <3>3 DEF IsOver
    <3>5. s \in Range(batch[b].spans)
      BY <3>2, <3>4 DEF Span, Range
    <3> QED BY <1>2, <1>3, <3>5
  <2>3. DOMAIN AvoidableShares(batch, charged1) = {<<s.key.service, s.grouping>> : s \in spans}
    BY <2>1 DEF AvoidableShares
  <2>4. DOMAIN AvoidableShares(batch, charged1) \subseteq T
    BY <1>5, <1>6, <2>2, <2>3
  <2> QED BY <1>7, <2>4, FS_Subset
<1> QED BY <1>8, <1>9, <1>10

-----------------------------------------------------------------------------
(* The bounds of all the stores.                                           *)

\* A daemon that drained its episodes has none open.
LEMMA NoneIsOpen ==
  ASSUME NEW of
  PROVE  OpenPairs(CloseTracks(of, OpenPairs(of))) = {}
<1>1. PICK open, closed : open = OpenPairs(of) /\ closed = CloseTracks(of, open)
  OBVIOUS
<1>2. DOMAIN closed = DOMAIN of
  BY <1>1 DEF CloseTracks
<1>3. ASSUME NEW pair \in DOMAIN of PROVE ~ IsOpen(closed[pair])
  <2>1. CASE pair \in open
    <3>1. closed[pair].open = <<>>
      BY <1>1, <2>1 DEF CloseTracks
    <3> QED BY <3>1 DEF IsOpen
  <2>2. CASE pair \notin open
    <3>1. closed[pair] = of[pair]
      BY <1>1, <2>2 DEF CloseTracks
    <3> QED BY <1>1, <2>2, <3>1 DEF OpenPairs
  <2> QED BY <2>1, <2>2
<1> QED BY <1>1, <1>2, <1>3 DEF OpenPairs

StoresInv ==
    /\ handed \in 0..Setups[setup].most
    /\ clock \in 0..Setups[setup].until
    /\ IsCorrelator(correlator)
    /\ DOMAIN tracks = {"of", "drained"} /\ tracks.drained \in BOOLEAN
    /\ tracks.drained => OpenPairs(tracks.of) = {}
    /\ IsMeter(charged.meter)

BoundsInv == FindingsInv /\ RetainedInv /\ StoresInv

\* Every step keeps the bounds of every store.
LEMMA BoundsStep ==
  ASSUME BoundsInv, [Next]_vars
  PROVE  BoundsInv'
<1>1. FindingsInv' /\ RetainedInv'
  BY FindingsStep, RetainedStep DEF BoundsInv
<1>2. setup' = setup
  BY DEF Next, Analyse, StoreFindings, RetainTraces, IngestFindings, ChargeServices, FreezeCapture,
     SettleCapture, ObserveEpisodes, DrainEpisodes, BillBroker, Tick, vars
<1>3. handed' \in 0..Setups[setup].most
  <2>1. PICK most \in Nat : most = Setups[setup].most
    BY WorkerAssumption DEF BoundsInv, FindingsInv, FoundInv, SetupInv
  <2>2. CASE handed' = handed
    BY <2>2 DEF BoundsInv, StoresInv
  <2>3. CASE Analyse
    BY <2>1, <2>3 DEF Analyse, BoundsInv, StoresInv
  <2> QED BY <2>2, <2>3 DEF Next, StoreFindings, RetainTraces, IngestFindings, ChargeServices,
      FreezeCapture, SettleCapture, ObserveEpisodes, DrainEpisodes, BillBroker, Tick, storeVars, vars
<1>4. clock' \in 0..Setups[setup].until
  <2>1. PICK until \in Nat : until = Setups[setup].until
    BY WorkerAssumption DEF BoundsInv, FindingsInv, FoundInv, SetupInv
  <2>2. CASE clock' = clock
    BY <2>2 DEF BoundsInv, StoresInv
  <2>3. CASE Tick
    BY <2>1, <2>3 DEF Tick, AdvanceClock, BoundsInv, StoresInv
  <2>4. CASE BillBroker
    BY <2>2, <2>4, BrokerKeepsTime DEF BillBroker
  <2> QED BY <2>2, <2>3, <2>4 DEF Next, Analyse, StoreFindings, RetainTraces, IngestFindings,
      ChargeServices, FreezeCapture, SettleCapture, ObserveEpisodes, DrainEpisodes, brokerVars, vars
<1>5. IsCorrelator(correlator')
  <2>1. CASE correlator' = correlator
    BY <2>1 DEF BoundsInv, StoresInv
  <2>2. CASE IngestFindings
    <3>1. PICK c, findings, now : c = correlator /\ findings = work.findings /\ now = work.at
      OBVIOUS
    <3>2. correlator' = Ingest(c, findings, now).c
      BY <2>2, <3>1 DEF IngestFindings
    <3>3. findings \in Seq(Range(findings))
      BY <2>2, <3>1 DEF IngestFindings, BoundsInv, FindingsInv, FoundInv, WorkInv
    <3>4. IsCorrelator(Ingest(c, findings, now).c)
      BY <3>1, <3>3, IngestKeeps DEF BoundsInv, StoresInv
    <3> QED BY <3>2, <3>4
  <2> QED BY <2>1, <2>2 DEF Next, Analyse, StoreFindings, RetainTraces, ChargeServices,
      FreezeCapture, SettleCapture, ObserveEpisodes, DrainEpisodes, BillBroker, Tick, storeVars, vars
<1>6. /\ DOMAIN tracks' = {"of", "drained"} /\ tracks'.drained \in BOOLEAN
      /\ tracks'.drained => OpenPairs(tracks'.of) = {}
  <2>1. CASE tracks' = tracks
    BY <2>1 DEF BoundsInv, StoresInv
  <2>2. CASE ObserveEpisodes
    <3>1. PICK of : tracks' = [tracks EXCEPT !.of = of] /\ ~ tracks.drained
      BY <2>2 DEF ObserveEpisodes
    <3>2. DOMAIN tracks' = DOMAIN tracks /\ tracks'.drained = tracks.drained
      BY <3>1 DEF BoundsInv, StoresInv
    <3> QED BY <3>1, <3>2 DEF BoundsInv, StoresInv
  <2>3. CASE DrainEpisodes
    <3>1. PICK of : of = ObserveRows(tracks.of, ActiveCorrelations(correlator), Now).tracks
      OBVIOUS
    <3>2. PICK closed : closed = CloseTracks(of, OpenPairs(of))
      OBVIOUS
    <3>3. tracks' = [of |-> closed, drained |-> TRUE]
      BY <2>3, <3>1, <3>2 DEF DrainEpisodes
    <3>4. OpenPairs(closed) = {}
      BY <3>2, NoneIsOpen
    <3> QED BY <3>3, <3>4
  <2> QED BY <2>1, <2>2, <2>3 DEF Next, Analyse, StoreFindings, RetainTraces, IngestFindings,
      ChargeServices, FreezeCapture, SettleCapture, BillBroker, Tick, storeVars, vars
<1>7. IsMeter(charged'.meter)
  <2>1. CASE charged' = charged
    BY <2>1 DEF BoundsInv, StoresInv
  <2>2. CASE ChargeServices
    <3>1. PICK batch, meter : batch = work.batch /\ meter = charged.meter
      OBVIOUS
    <3>2. IsDated(batch) /\ Timed(batch)
      BY <2>2, <3>1 DEF ChargeServices, BoundsInv, FindingsInv, RetainedInv, FoundInv, WorkInv,
         BatchInv, Fits
    <3>3. PICK credited : credited = DedupFindings(batch, AvoidableFindings(batch, NPlusOneThreshold))
      OBVIOUS
    <3>4. PICK avoidable, analysed : avoidable = AvoidableShares(batch, credited)
                                     /\ analysed = AnalysedShares(batch)
      OBVIOUS
    <3>5. IsFiniteSet(DOMAIN avoidable) /\ IsFiniteSet(DOMAIN analysed)
      BY <3>2, <3>3, <3>4, SharesAreFinite
    <3>6. IsMeter(MeterShares(meter, avoidable, analysed))
      BY <3>1, <3>5, MeterKeeps DEF BoundsInv, StoresInv
    <3>7. charged'.meter = MeterShares(meter, avoidable, analysed)
      BY <2>2, <3>1, <3>3, <3>4 DEF ChargeServices, Charge
    <3> QED BY <3>6, <3>7
  <2> QED BY <2>1, <2>2 DEF Next, Analyse, StoreFindings, RetainTraces, IngestFindings,
      FreezeCapture, SettleCapture, ObserveEpisodes, DrainEpisodes, BillBroker, Tick, storeVars, vars
<1> QED BY <1>1, <1>2, <1>3, <1>4, <1>5, <1>6, <1>7 DEF BoundsInv, StoresInv

\* Every store starts within its bounds.
LEMMA BoundsInit == Init => BoundsInv
<1> SUFFICES ASSUME Init PROVE BoundsInv
  OBVIOUS
<1>1. FindingsInv /\ RetainedInv
  BY FindingsInit, RetainedInit
<1>2. handed \in 0..Setups[setup].most /\ clock \in 0..Setups[setup].until
  <2>1. PICK most \in Nat, until \in Nat : most = Setups[setup].most /\ until = Setups[setup].until
    BY WorkerAssumption DEF Init
  <2> QED BY <2>1 DEF Init, BrokerInit
<1>3. IsFiniteSet({}) /\ Cardinality({}) = 0
  BY FS_EmptySet
<1>4. IsCorrelator(correlator)
  <2>1. /\ DOMAIN correlator = {"occurrences", "pairs", "endpoints", "nowIdx", "prunedIdx"}
        /\ correlator.occurrences = <<>> /\ correlator.pairs = [key \in {} |-> 0]
    BY DEF Init, NewCorrelator
  <2>2. DOMAIN correlator.pairs = {}
    BY <2>1
  <2>3. <<>> \in Seq(Range(<<>>))
    BY DEF Range
  <2> QED BY <1>3, <2>1, <2>2, <2>3, CorrelatorAssumption DEF IsCorrelator, Capped
<1>5. /\ DOMAIN tracks = {"of", "drained"} /\ tracks.drained = FALSE
  BY DEF Init
<1>6. IsMeter(charged.meter)
  <2>1. charged.meter = NewMeter
    BY DEF Init
  <2>2. /\ DOMAIN NewMeter = {"names", "pairs", "avoidable", "analysed"}
        /\ NewMeter.names = {} /\ NewMeter.pairs = {}
    BY DEF NewMeter
  <2> QED BY <1>3, <2>1, <2>2, DetectorsAssumption DEF IsMeter
<1> QED BY <1>1, <1>2, <1>4, <1>5, <1>6 DEF BoundsInv, StoresInv

\* Every store of the worker keeps within its bounds, for any limits and any
\* batches: the slow window and the correlator the keys they may track, the ring
\* and the traces store what they may retain, the meter the labels it may admit,
\* and a daemon that drained has no episode open.
THEOREM StoresKeepBounds == Spec => []TypeOK
<1>1. BoundsInv => TypeOK
  <2> SUFFICES ASSUME BoundsInv PROVE TypeOK
    OBVIOUS
  <2>1. /\ setup \in DOMAIN Setups /\ Now \in Nat
        /\ work.step \in {"idle", "findings", "traces", "correlator", "waste"}
    BY DEF BoundsInv, FindingsInv, FoundInv, SetupInv, WorkInv, Now
  <2>2. IsSlowWindow(slow, Now)
    BY <2>1, SlowWindowFacts DEF BoundsInv, FindingsInv, FoundInv, SlowInv
  <2>3. Len(ring) <= MaxRetainedFindings
    <3>1. PICK s, A : s = past.stored /\ A = Range(s)
      OBVIOUS
    <3>2. s \in Seq(A)
      BY <3>1 DEF BoundsInv, FindingsInv, RingInv, IsStored
    <3>3. Len(Newest(s, MaxRetainedFindings)) = HeldOf(Len(s)) /\ Len(s) \in Nat
      BY <3>2, NewestAreLast
    <3>4. ring = Newest(s, MaxRetainedFindings)
      BY <3>1 DEF BoundsInv, FindingsInv, RingInv
    <3> QED BY <3>3, <3>4, FindingsAssumption DEF HeldOf
  <2>4. IsTraces(retained)
    <3>1. CASE MaxRetainedTraces = 0
      <4>1. retained.traces = NoTraces /\ retained.order = <<>> /\ DOMAIN NoTraces = {}
        BY <3>1 DEF BoundsInv, RetainedInv, TracesInv, NewTraces, NoTraces
      <4>2. Cardinality({}) = 0 /\ Len(<<>>) = 0
        BY FS_EmptySet
      <4> QED BY <3>1, <4>1, <4>2 DEF IsTraces
    <3>2. CASE MaxRetainedTraces # 0
      <4>1. IsStoreOf(retained, past.flushes)
        BY <3>2 DEF BoundsInv, RetainedInv, TracesInv
      <4>2. HeldSince(retained.traces, past.flushes, MaxRetainedTraces)
            /\ retained.generation = Len(past.flushes) /\ Len(retained.order) <= 2 * MaxRetainedTraces
        BY <4>1 DEF IsStoreOf, StoreOf
      <4> QED BY <4>2 DEF HeldSince, IsTraces
    <3> QED BY <3>1, <3>2
  <2>5. Cardinality(DOMAIN correlator.pairs) <= MaxTrackedPairs
    BY DEF BoundsInv, StoresInv, IsCorrelator, Capped
  <2>6. Cardinality(charged.meter.names) <= MaxServiceLabels
        /\ Cardinality(charged.meter.pairs) <= MaxPairLabels
    BY DEF BoundsInv, StoresInv, IsMeter
  <2>7. Len(capture) <= 1
    <3>1. CASE capture = <<>>
      BY <3>1
    <3>2. ASSUME NEW c, capture = <<c>> PROVE Len(capture) <= 1
      BY <3>2
    <3> QED BY <3>1, <3>2 DEF BoundsInv, FindingsInv, CaptureInv
  <2> QED BY <2>1, <2>2, <2>3, <2>4, <2>5, <2>6, <2>7 DEF TypeOK, BoundsInv, StoresInv
<1> QED BY <1>1, BoundsInit, BoundsStep, PTL DEF Spec
=============================================================================
