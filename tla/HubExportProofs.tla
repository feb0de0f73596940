-------------------------- MODULE HubExportProofs --------------------------
(***************************************************************************)
(* What TLAPS proves of HubExport: the invariants of the export table hold *)
(* for any set of signatures, any cap and any batch size.  IInv is the     *)
(* inductive invariant; the lemmas on the eviction loop are stated for an  *)
(* arbitrary table, since acknowledge bounds sent_entries the same way     *)
(* evict_by_order bounds entries.                                          *)
(***************************************************************************)
EXTENDS HubExport, FiniteSetTheorems, FunctionTheorems, TLAPS

Items == [sig : Signatures, rev : Nat \ {0}]

\* A severity, or none, is one of four numbers.
LEMMA SeverityRange == \A v \in Severity \union {Clean} : v \in 0..3
BY SeverityAssumption DEF Clean

(* The queue items that match their entry are at most as many as the       *)
(* entries: two of them of one signature would carry one revision.         *)
LEMMA MatchingItemsBounded ==
  ASSUME NEW R, NEW table \in [Signatures -> R],
         NEW queue \in SUBSET Items
  PROVE  LET live == {item \in queue : Matches(table, item)}
         IN  IsFiniteSet(live) /\ Cardinality(live) <= Cardinality(Keys(table))
<1> DEFINE live == {item \in queue : Matches(table, item)}
           f == [item \in live |-> item.sig]
<1>1. IsFiniteSet(Keys(table))
  BY SignaturesAssumption, FS_Subset DEF Keys
<1>2. f \in [live -> Keys(table)]
  BY DEF Matches, Keys, Items
<1>3. ASSUME NEW x \in live, NEW y \in live, f[x] = f[y] PROVE x = y
  BY <1>3 DEF Matches, Items
<1>4. f \in Injection(live, Keys(table))
  BY <1>2, <1>3, Fun_IsInj
<1> QED
  BY <1>1, <1>4, FS_Injection

(* The eviction loop and the compaction after it, on any table whose queue *)
(* covers it: the table fits its cap, the queue twice the cap, the queue   *)
(* still covers the table, and entries are dropped whole or not at all.    *)
LEMMA EvictionFits ==
  ASSUME NEW R, NEW none \in R, none.rev = 0,
         NEW table \in [Signatures -> R],
         NEW queue \in SUBSET Items, IsFiniteSet(queue),
         QueueCovers(table, queue),
         NEW cut, StopsAt(table, none, queue, cut)
  PROVE  LET popped == Front(queue, cut)
             kept   == Without(table, none, popped)
             left   == Compact(kept, queue \ popped)
         IN  /\ kept \in [Signatures -> R]
             /\ \A s \in Signatures : kept[s] = table[s] \/ kept[s] = none
             /\ left \in SUBSET queue
             /\ IsFiniteSet(left)
             /\ QueueCovers(kept, left)
             /\ Cardinality(Keys(kept)) <= MaxPending
             /\ Cardinality(left) <= 2 * MaxPending
<1> DEFINE popped == Front(queue, cut)
           kept   == Without(table, none, popped)
           left   == Compact(kept, queue \ popped)
<1>1. kept \in [Signatures -> R]
  BY DEF Without
<1>2. \A s \in Signatures : kept[s] = table[s] \/ kept[s] = none
  BY DEF Without
<1>3. left \in SUBSET (queue \ popped)
  BY DEF Compact
<1>4. IsFiniteSet(left) /\ IsFiniteSet(queue \ popped)
  BY <1>3, FS_Subset
<1>5. ASSUME NEW s \in Keys(kept)
      PROVE  Item(s, kept[s].rev) \in left
  <2>1. s \in Signatures /\ kept[s].rev # 0
    BY DEF Keys
  <2>2. kept[s] = table[s] /\ Item(s, table[s].rev) \notin popped
    BY <2>1 DEF Without
  <2>3. Item(s, kept[s].rev) \in queue \ popped
    BY <2>1, <2>2 DEF QueueCovers, Keys
  <2>4. Matches(kept, Item(s, kept[s].rev))
    BY DEF Matches, Item
  <2> QED
    BY <2>3, <2>4 DEF Compact
<1>6. Cardinality(Keys(kept)) <= MaxPending
  <2>1. CASE popped = queue
    <3>1. Keys(kept) = {}
      BY <2>1, <1>3, <1>5
    <3> QED
      BY <3>1, FS_EmptySet, LimitsAssumption
  <2>2. CASE Fits(table, none, queue, cut)
    BY <2>2 DEF Fits
  <2> QED
    BY <2>1, <2>2 DEF StopsAt
<1>7. Cardinality(left) <= 2 * MaxPending
  <2>1. CASE Cardinality(queue \ popped) > 2 * MaxPending
    <3>1. left = {item \in queue \ popped : Matches(kept, item)}
      BY <2>1 DEF Compact
    <3>2. Cardinality(left) <= Cardinality(Keys(kept))
      BY <3>1, <1>1, MatchingItemsBounded
    <3>3. IsFiniteSet(Keys(kept))
      BY SignaturesAssumption, FS_Subset DEF Keys
    <3> QED
      BY <3>2, <3>3, <1>4, <1>6, FS_CardinalityType, LimitsAssumption
  <2>2. CASE ~ (Cardinality(queue \ popped) > 2 * MaxPending)
    <3>1. left = queue \ popped
      BY <2>2 DEF Compact
    <3>2. Cardinality(queue \ popped) \in Nat
      BY <1>4, FS_CardinalityType
    <3>3. Cardinality(queue \ popped) <= 2 * MaxPending
      BY <3>2, <2>2, LimitsAssumption
    <3> QED
      BY <3>1, <3>3
  <2> QED
    BY <2>1, <2>2
<1> QED
  BY <1>1, <1>2, <1>3, <1>4, <1>5, <1>6, <1>7 DEF QueueCovers

(* Initially the tables, the queues and the batch are empty.               *)
LEMMA InitEstablishesInv == Init => IInv
<1> SUFFICES ASSUME Init PROVE IInv
  OBVIOUS
<1> USE DEF Init
<1>1. Keys(pending) = {} /\ Keys(sent) = {}
  BY DEF Keys, NoEntry, NeverSent
<1>2. TypeOK
  <2>1. NoEntry \in Entry /\ NeverSent \in SentRecord
    BY DEF Entry, SentRecord, NoEntry, NeverSent
  <2> QED
    BY <2>1 DEF TypeOK
<1>3. QueuesCoverTables
  BY <1>1 DEF QueuesCoverTables, QueueCovers
<1>4. BuffersBounded /\ SentBounded /\ AllFinite
  BY <1>1, FS_EmptySet, LimitsAssumption DEF BuffersBounded, SentBounded, AllFinite
<1>5. EscalationNeverForgotten
  BY DEF EscalationNeverForgotten, Clean
<1>6. DrainLeavesNothing /\ BatchMatchesTable /\ SuppressionIsSettled
  BY <1>1 DEF DrainLeavesNothing, BatchMatchesTable, SuppressionIsSettled
<1>7. DrainedFacts /\ PushingNotDraining /\ EntriesAreFindings
  BY <1>1 DEF DrainedFacts, PushingNotDraining, EntriesAreFindings
<1> QED
  BY <1>2, <1>3, <1>4, <1>5, <1>6, <1>7 DEF IInv

(* Steps that leave the tables alone.                                      *)
LEMMA QuietSteps ==
  ASSUME IInv,
         LockForPush \/ Drained \/ BusyOrRetry \/ Shutdown \/ Abort \/ Tick
         \/ UNCHANGED vars
  PROVE  IInv'
<1> USE DEF IInv
<1>1. UNCHANGED <<pending, order, sent, sent_order, next_revision, worst, settled>>
  BY DEF LockForPush, Drained, BusyOrRetry, Shutdown, Abort, Tick, vars, buffer, history
<1>2. batch' \in {batch, {}}
  BY DEF LockForPush, Drained, BusyOrRetry, Shutdown, Abort, Tick, vars
<1>3. now' \in Nat /\ now' >= now
  BY DEF LockForPush, Drained, BusyOrRetry, Shutdown, Abort, Tick, vars, TypeOK
<1>4. TypeOK'
  <2>1. sent' \in [Signatures -> SentRecord']
    BY <1>1, <1>3 DEF TypeOK, SentRecord
  <2>2. /\ pending' \in [Signatures -> Entry']
        /\ order' \in SUBSET QueueItem'
        /\ sent_order' \in SUBSET QueueItem'
        /\ batch' \in SUBSET BatchItem'
    BY <1>1, <1>2 DEF TypeOK, Entry, QueueItem, BatchItem
  <2>3. /\ lock' \in {"push", "free"}
        /\ exporter' \in {"idle", "posting", "stopped", "aborted"}
        /\ draining' \in BOOLEAN
    BY DEF LockForPush, Drained, BusyOrRetry, Shutdown, Abort, Tick, vars, TypeOK
  <2> QED
    BY <1>1, <1>3, <2>1, <2>2, <2>3 DEF TypeOK
<1>5. Keys(pending)' = Keys(pending) /\ Keys(sent)' = Keys(sent)
  BY <1>1 DEF Keys
<1>6. QueuesCoverTables'
  BY <1>1, <1>5 DEF QueuesCoverTables, QueueCovers
<1>7. BuffersBounded' /\ SentBounded'
  <2>1. lock' = "free" => lock = "free"
    BY DEF LockForPush, Drained, BusyOrRetry, Shutdown, Abort, Tick, vars
  <2> QED
    BY <1>1, <1>5, <2>1 DEF BuffersBounded, SentBounded
<1>8. EscalationNeverForgotten' /\ SuppressionIsSettled'
  BY <1>1, <1>5 DEF EscalationNeverForgotten, SuppressionIsSettled
<1>9. BatchMatchesTable' /\ AllFinite' /\ EntriesAreFindings'
  BY <1>1, <1>2, <1>5, FS_EmptySet DEF BatchMatchesTable, AllFinite, EntriesAreFindings
<1>10. DrainLeavesNothing'
  <2>1. CASE Drained
    <3>1. ASSUME NEW s \in Keys(pending) PROVE FALSE
      <4>1. Item(s, pending[s].rev) \in order
        BY DEF QueuesCoverTables, QueueCovers
      <4>2. Matches(pending, Item(s, pending[s].rev))
        BY DEF Matches, Item
      <4> QED
        BY <2>1, <4>1, <4>2 DEF Drained, PendingItems
    <3> QED
      BY <3>1, <1>5 DEF DrainLeavesNothing
  <2>2. CASE ~ Drained
    BY <2>2, <1>5 DEF LockForPush, BusyOrRetry, Shutdown, Abort, Tick, vars, DrainLeavesNothing
  <2> QED
    BY <2>1, <2>2
<1>11. DrainedFacts' /\ PushingNotDraining'
  BY DEF LockForPush, Drained, BusyOrRetry, Shutdown, Abort, Tick, vars, DrainedFacts,
         PushingNotDraining
<1> QED
  BY <1>4, <1>6, <1>7, <1>8, <1>9, <1>10, <1>11

(* One finding of a batch, pushed, merged or suppressed.                   *)
LEMMA PushPreservesInv ==
  ASSUME IInv, NEW s \in Signatures, NEW sev \in Severity, PushFinding(s, sev)
  PROVE  IInv'
<1> USE DEF IInv
<1> DEFINE R == next_revision + 1
<1>1. /\ lock = "push" /\ lock' = lock /\ UNCHANGED <<exporter, batch, draining, now, settled>>
      /\ worst' = [worst EXCEPT ![s] = Worse(@, sev)]
      /\ sent_order' = sent_order
  BY DEF PushFinding, MergePending, InsertPending, SkipSuppressed, buffer
<1>2. \/ UNCHANGED <<pending, order, next_revision>>
      \/ /\ next_revision' = R
         /\ pending' = [pending EXCEPT ![s] = [sev |-> sev, rev |-> R]]
         /\ order' = order \union {Item(s, R)}
  BY DEF PushFinding, MergePending, InsertPending, SkipSuppressed, buffer, Enqueue
<1>3. sent' = sent \/ sent' = [sent EXCEPT ![s] = NeverSent]
  BY DEF PushFinding, MergePending, InsertPending, SkipSuppressed, buffer
<1>4. next_revision \in Nat /\ next_revision' \in Nat /\ next_revision' >= next_revision
  BY <1>2 DEF TypeOK
<1>5. Severity \union {Clean} \subseteq 0..3 /\ sev \in 0..2
  BY SeverityAssumption DEF Clean
<1>6. TypeOK'
  <2>1. pending' \in [Signatures -> Entry'] /\ order' \in SUBSET QueueItem'
    <3>1. pending \in [Signatures -> Entry'] /\ order \in SUBSET QueueItem'
      BY <1>4 DEF TypeOK, Entry, QueueItem
    <3> QED
      BY <1>2, <1>4, <3>1 DEF Entry, QueueItem, Item
  <2>2. sent' \in [Signatures -> SentRecord'] /\ sent_order' \in SUBSET QueueItem'
    <3>1. sent \in [Signatures -> SentRecord'] /\ sent_order \in SUBSET QueueItem'
      BY <1>1, <1>4 DEF TypeOK, SentRecord, QueueItem
    <3>2. NeverSent \in SentRecord'
      BY <1>1, <1>4 DEF TypeOK, SentRecord, NeverSent
    <3> QED
      BY <1>1, <1>3, <3>1, <3>2
  <2>3. batch' \in SUBSET BatchItem'
    BY <1>1, <1>4 DEF TypeOK, BatchItem
  <2>4. worst' \in [Signatures -> Severity \union {Clean}]
    BY <1>1 DEF TypeOK, Worse
  <2> QED
    BY <1>1, <1>4, <2>1, <2>2, <2>3, <2>4 DEF TypeOK
<1>7. QueuesCoverTables'
  <2>1. QueueCovers(pending', order')
    BY <1>2, <1>4 DEF QueuesCoverTables, QueueCovers, Keys, Item, TypeOK
  <2>2. QueueCovers(sent', sent_order')
    BY <1>1, <1>3 DEF QueuesCoverTables, QueueCovers, Keys, TypeOK, NeverSent
  <2> QED
    BY <2>1, <2>2 DEF QueuesCoverTables
<1>8. SentBounded'
  <2>1. Keys(sent') \subseteq Keys(sent)
    BY <1>3 DEF Keys, NeverSent, TypeOK
  <2>2. IsFiniteSet(Keys(sent)) /\ IsFiniteSet(Keys(sent'))
    BY SignaturesAssumption, FS_Subset DEF Keys
  <2>3. Cardinality(Keys(sent')) <= Cardinality(Keys(sent))
    BY <2>1, <2>2, FS_Subset
  <2>4. Cardinality(Keys(sent)) \in Nat /\ Cardinality(Keys(sent')) \in Nat
    BY <2>2, FS_CardinalityType
  <2>5. Cardinality(Keys(sent')) <= MaxPending
    BY <2>3, <2>4, LimitsAssumption DEF SentBounded
  <2> QED
    BY <2>5, <1>1 DEF SentBounded
<1>9. BuffersBounded' /\ AllFinite'
  <2>1. IsFiniteSet(order')
    BY <1>2, FS_AddElement DEF AllFinite
  <2> QED
    BY <1>1, <2>1 DEF BuffersBounded, AllFinite
<1>10. BatchMatchesTable' /\ EntriesAreFindings'
  BY <1>1, <1>2, <1>4, <1>5 DEF BatchMatchesTable, TypeOK, BatchItem, EntriesAreFindings, Keys, Clean
<1>11. SuppressionIsSettled'
  BY <1>1, <1>3 DEF SuppressionIsSettled, Keys, NeverSent, TypeOK
<1>12. EscalationNeverForgotten'
  <2> SUFFICES ASSUME NEW t \in Signatures, worst'[t] < settled'[t]
               PROVE  pending'[t].rev # 0 /\ pending'[t].sev <= worst'[t]
    BY DEF EscalationNeverForgotten
  <2>1. CASE t # s
    BY <2>1, <1>1, <1>2 DEF EscalationNeverForgotten, TypeOK
  <2>2. CASE t = s
    <3>0. /\ worst[s] \in 0..3 /\ settled[s] \in 0..3 /\ pending[s].sev \in 0..3
          /\ sent[s].sev \in 0..3 /\ worst'[s] = Worse(worst[s], sev)
          /\ pending[s].rev \in Nat /\ sent[s].rev \in Nat
      BY <1>1, <1>4, <1>5 DEF TypeOK, Entry, SentRecord
    <3>1. CASE MergePending(s, sev)
      <4>1. CASE sev < pending[s].sev
        <5>1. pending'[s] = [sev |-> sev, rev |-> R]
          BY <3>1, <4>1 DEF MergePending, Enqueue, TypeOK
        <5>2. pending'[s].sev = sev /\ pending'[s].rev # 0
          BY <5>1, <1>4
        <5>3. worst'[s] = sev \/ (worst'[s] = worst[s] /\ worst[s] < settled[s])
          BY <2>2, <3>0, <1>1 DEF Worse
        <5>4. worst[s] < settled[s] => sev < worst[s]
          BY <3>0, <4>1, <1>5 DEF EscalationNeverForgotten
        <5> QED
          BY <2>2, <3>0, <5>2, <5>3, <5>4, <1>5 DEF Worse
      <4>2. CASE ~ (sev < pending[s].sev)
        <5>1. pending' = pending /\ pending[s].rev # 0
          BY <3>1, <4>2 DEF MergePending
        <5> QED
          BY <2>2, <3>0, <4>2, <5>1, <1>1, <1>5 DEF EscalationNeverForgotten, Worse
      <4> QED
        BY <4>1, <4>2
    <3>2. CASE InsertPending(s, sev)
      <4>1. pending'[s] = [sev |-> sev, rev |-> R] /\ pending[s].rev = 0
        BY <3>2 DEF InsertPending, Enqueue, TypeOK
      <4> QED
        BY <2>2, <3>0, <4>1, <1>1, <1>4, <1>5 DEF EscalationNeverForgotten, Worse
    <3>3. CASE SkipSuppressed(s, sev)
      <4>1. pending' = pending /\ pending[s].rev = 0 /\ sent[s].rev # 0 /\ sev >= sent[s].sev
        BY <3>3 DEF SkipSuppressed, SuppressedByRecentSend, buffer
      <4>2. settled[s] <= sent[s].sev
        BY <4>1 DEF SuppressionIsSettled, Keys
      <4> QED
        BY <2>2, <3>0, <4>1, <4>2, <1>1, <1>5 DEF EscalationNeverForgotten, Worse
    <3> QED
      BY <3>1, <3>2, <3>3 DEF PushFinding
  <2> QED
    BY <2>1, <2>2
<1>13. DrainLeavesNothing' /\ DrainedFacts' /\ PushingNotDraining'
  BY <1>1 DEF DrainLeavesNothing, DrainedFacts, PushingNotDraining
<1> QED
  BY <1>6, <1>7, <1>8, <1>9, <1>10, <1>11, <1>12, <1>13

(* The eviction that closes a batch of findings.                           *)
LEMMA EvictPreservesInv ==
  ASSUME IInv, EvictOverflow
  PROVE  IInv'
<1> USE DEF IInv
<1>1. PICK cut : /\ StopsAt(pending, NoEntry, order, cut)
                 /\ pending' = Without(pending, NoEntry, Front(order, cut))
                 /\ order' = Compact(pending', order \ Front(order, cut))
                 /\ worst' = [s \in Signatures |->
                                IF pending'[s] # pending[s] THEN Clean ELSE worst[s]]
  BY DEF EvictOverflow
<1>2. /\ lock = "push" /\ lock' = "free"
      /\ UNCHANGED <<sent, sent_order, next_revision, exporter, batch, draining, now, settled>>
  BY DEF EvictOverflow
<1>3. /\ NoEntry \in Entry /\ NoEntry.rev = 0 /\ pending \in [Signatures -> Entry]
      /\ order \in SUBSET Items
  BY DEF TypeOK, Entry, NoEntry, QueueItem, Items
<1>4. /\ pending' \in [Signatures -> Entry]
      /\ \A s \in Signatures : pending'[s] = pending[s] \/ pending'[s] = NoEntry
      /\ order' \in SUBSET order
      /\ IsFiniteSet(order')
      /\ QueueCovers(pending', order')
      /\ Cardinality(Keys(pending')) <= MaxPending
      /\ Cardinality(order') <= 2 * MaxPending
  BY <1>1, <1>3, EvictionFits DEF AllFinite, QueuesCoverTables
<1>5. TypeOK'
  <2>1. /\ pending' \in [Signatures -> Entry'] /\ order' \in SUBSET QueueItem'
        /\ sent' \in [Signatures -> SentRecord'] /\ sent_order' \in SUBSET QueueItem'
        /\ batch' \in SUBSET BatchItem'
    BY <1>2, <1>4 DEF TypeOK, Entry, QueueItem, SentRecord, BatchItem
  <2>2. worst' \in [Signatures -> Severity \union {Clean}]
    BY <1>1 DEF TypeOK
  <2> QED
    BY <1>2, <2>1, <2>2 DEF TypeOK
<1>6. QueuesCoverTables' /\ BuffersBounded' /\ SentBounded' /\ AllFinite'
  BY <1>2, <1>4 DEF QueuesCoverTables, QueueCovers, Keys, BuffersBounded, SentBounded, AllFinite
<1>7. EscalationNeverForgotten'
  <2> SUFFICES ASSUME NEW s \in Signatures, worst'[s] < settled'[s]
               PROVE  pending'[s].rev # 0 /\ pending'[s].sev <= worst'[s]
    BY DEF EscalationNeverForgotten
  <2>1. CASE pending'[s] = pending[s]
    BY <1>1, <1>2, <2>1 DEF EscalationNeverForgotten
  <2>2. CASE pending'[s] # pending[s]
    <3>1. settled[s] \in Severity \union {Clean}
      BY DEF TypeOK
    <3>2. settled[s] <= Clean /\ settled[s] \in Nat
      BY <3>1, SeverityAssumption DEF Clean
    <3> QED
      BY <1>1, <1>2, <2>2, <3>2 DEF Clean
  <2> QED
    BY <2>1, <2>2
<1>8. DrainLeavesNothing' /\ DrainedFacts' /\ PushingNotDraining'
  BY <1>2 DEF DrainLeavesNothing, DrainedFacts, PushingNotDraining
<1>9. SuppressionIsSettled'
  BY <1>2 DEF SuppressionIsSettled, Keys
<1>10. BatchMatchesTable' /\ EntriesAreFindings'
  BY <1>2, <1>4 DEF BatchMatchesTable, TypeOK, BatchItem, NoEntry, EntriesAreFindings, Keys
<1> QED
  BY <1>5, <1>6, <1>7, <1>8, <1>9, <1>10

(* A batch is taken: one item per finding, and each as its entry stands.   *)
LEMMA SnapshotPreservesInv ==
  ASSUME IInv, Snapshot
  PROVE  IInv'
<1> USE DEF IInv
<1>1. /\ batch' \in SUBSET PendingItems /\ exporter = "idle" /\ exporter' = "posting"
      /\ UNCHANGED <<buffer, lock, draining, now, history>>
  BY DEF Snapshot
<1>2. \A x \in PendingItems : /\ x \in BatchItem /\ pending[x.sig].rev = x.rev
                              /\ pending[x.sig].sev = x.sev
  <2> SUFFICES ASSUME NEW i \in order, Matches(pending, i)
               PROVE  LET x == [sig |-> i.sig, rev |-> i.rev, sev |-> pending[i.sig].sev]
                      IN  /\ x \in BatchItem /\ pending[x.sig].rev = x.rev
                          /\ pending[x.sig].sev = x.sev
    BY DEF PendingItems
  <2>1. i.sig \in Signatures /\ i.rev \in 1..next_revision /\ pending[i.sig].rev = i.rev
    BY DEF TypeOK, QueueItem, Matches
  <2>2. pending[i.sig].sev \in Severity
    <3>1. i.sig \in Keys(pending)
      BY <2>1 DEF Keys
    <3> QED
      BY <2>1, <3>1 DEF TypeOK, Entry, EntriesAreFindings
  <2> QED
    BY <2>1, <2>2 DEF BatchItem
<1>3. \A x, y \in PendingItems : x.sig = y.sig => x = y
  BY <1>2 DEF BatchItem
<1>4. IsFiniteSet(batch')
  <2> DEFINE f == [x \in batch' |-> x.sig]
  <2>1. f \in [batch' -> Signatures]
    BY <1>1, <1>2 DEF BatchItem
  <2>2. \A x, y \in batch' : f[x] = f[y] => x = y
    BY <1>1, <1>3
  <2> QED
    BY <2>1, <2>2, SignaturesAssumption, Fun_IsInj, FS_Injection
<1>5. batch' \in SUBSET BatchItem' /\ BatchMatchesTable'
  BY <1>1, <1>2, <1>3 DEF buffer, BatchItem, BatchMatchesTable
<1>6. TypeOK'
  BY <1>1, <1>5 DEF TypeOK, buffer, history, Entry, SentRecord, QueueItem
<1>7. QueuesCoverTables' /\ BuffersBounded' /\ SentBounded' /\ SuppressionIsSettled'
      /\ EscalationNeverForgotten' /\ EntriesAreFindings'
  BY <1>1 DEF EntriesAreFindings, QueuesCoverTables, QueueCovers, BuffersBounded, SentBounded, Keys, buffer, history,
              SuppressionIsSettled, EscalationNeverForgotten
<1>8. AllFinite' /\ DrainLeavesNothing' /\ DrainedFacts' /\ PushingNotDraining'
  BY <1>1, <1>4 DEF AllFinite, buffer, DrainLeavesNothing, DrainedFacts, PushingNotDraining
<1> QED
  BY <1>5, <1>6, <1>7, <1>8

(* The batch is accepted or refused: what is unchanged leaves the table,   *)
(* and the sent records are renewed and bounded.                           *)
LEMMA FinishPreservesInv ==
  ASSUME IInv, NEW outcome, Finish(outcome)
  PROVE  IInv'
<1> USE DEF IInv
<1> DEFINE queue == sent_order \union {Item(x.sig, SentRevision(x)) : x \in batch}
<1>1. /\ lock = "free" /\ UNCHANGED <<lock, draining, now, order, worst>>
      /\ exporter = "posting" /\ exporter' = "idle" /\ batch' = {}
      /\ next_revision' = next_revision + Cardinality(batch)
      /\ pending' = [s \in Signatures |->
                       IF InBatch(s) /\ pending[s].rev = ItemOf(s).rev
                       THEN NoEntry ELSE pending[s]]
      /\ settled' = [s \in Signatures |->
                       IF InBatch(s) THEN Worse(settled[s], ItemOf(s).sev) ELSE settled[s]]
  BY DEF Finish, Acknowledge, RemoveAcknowledged, AdvanceRevision, Settle
<1>2. PICK cut : /\ StopsAt(RecordSent, NeverSent, queue, cut)
                 /\ sent' = Without(RecordSent, NeverSent, Front(queue, cut))
                 /\ sent_order' = Compact(sent', queue \ Front(queue, cut))
  BY DEF Finish, Acknowledge
<1>3. Cardinality(batch) \in Nat /\ next_revision \in Nat
      /\ next_revision' \in Nat /\ next_revision' >= next_revision
  BY <1>1, FS_CardinalityType DEF AllFinite, TypeOK
<1>4. ASSUME NEW s \in Signatures, InBatch(s)
      PROVE  ItemOf(s) \in batch /\ ItemOf(s).sig = s /\ ItemOf(s).sev \in Severity
             /\ ItemOf(s).rev \in 1..next_revision
  BY <1>4 DEF InBatch, ItemOf, TypeOK, BatchItem
<1>5. ASSUME NEW x \in batch
      PROVE  SentRevision(x) \in 1..next_revision' /\ Item(x.sig, SentRevision(x)) \in QueueItem'
  <2> DEFINE older == {y \in batch : y.rev <= x.rev}
  <2>1. x \in older /\ x.sig \in Signatures
    BY DEF TypeOK, BatchItem
  <2>2. IsFiniteSet(older) /\ Cardinality(older) <= Cardinality(batch)
    BY FS_Subset DEF AllFinite
  <2>3. Cardinality(older) \in Nat /\ Cardinality(older) # 0
    BY <2>1, <2>2, FS_CardinalityType, FS_EmptySet
  <2>4. SentRevision(x) = next_revision + Cardinality(older)
    BY DEF SentRevision
  <2>5. SentRevision(x) \in 1..next_revision'
    BY <1>1, <1>3, <2>2, <2>3, <2>4
  <2> QED
    BY <2>1, <2>5 DEF Item, QueueItem
<1>6. RecordSent \in [Signatures -> SentRecord'] /\ NeverSent \in SentRecord' /\ NeverSent.rev = 0
  <2>1. ASSUME NEW s \in Signatures PROVE RecordSent[s] \in SentRecord'
    <3>1. CASE InBatch(s)
      BY <3>1, <1>1, <1>3, <1>4, <1>5 DEF RecordSent, SentRecord, TypeOK
    <3>2. CASE ~ InBatch(s)
      BY <3>2, <1>1, <1>3 DEF RecordSent, SentRecord, TypeOK
    <3> QED
      BY <3>1, <3>2
  <2>2. NeverSent \in SentRecord'
    BY <1>1, <1>3 DEF SentRecord, NeverSent, TypeOK
  <2> QED
    BY <2>1, <2>2 DEF RecordSent, NeverSent
<1>7. queue \in SUBSET QueueItem' /\ queue \in SUBSET Items
  BY <1>3, <1>5 DEF TypeOK, QueueItem, Items
<1>8. IsFiniteSet(queue)
  <2> DEFINE new == {Item(x.sig, SentRevision(x)) : x \in batch}
             f == [x \in batch |-> Item(x.sig, SentRevision(x))]
  <2>1. f \in [batch -> new] /\ \A i \in new : \E x \in batch : f[x] = i
    OBVIOUS
  <2>2. IsFiniteSet(new)
    BY <2>1, Fun_IsSurj, FS_Surjection DEF AllFinite
  <2> QED
    BY <2>2, FS_Union DEF AllFinite
<1>9. QueueCovers(RecordSent, queue)
  <2> SUFFICES ASSUME NEW s \in Keys(RecordSent)
               PROVE  Item(s, RecordSent[s].rev) \in queue
    BY DEF QueueCovers
  <2>1. s \in Signatures /\ RecordSent[s].rev # 0
    BY DEF Keys
  <2>2. CASE InBatch(s)
    BY <2>1, <2>2, <1>4 DEF RecordSent
  <2>3. CASE ~ InBatch(s)
    <3>1. RecordSent[s] = sent[s] /\ s \in Keys(sent)
      BY <2>1, <2>3 DEF RecordSent, Keys
    <3> QED
      BY <3>1 DEF QueuesCoverTables, QueueCovers
  <2> QED
    BY <2>2, <2>3
<1>10. /\ sent' \in [Signatures -> SentRecord']
       /\ \A s \in Signatures : sent'[s] = RecordSent[s] \/ sent'[s] = NeverSent
       /\ sent_order' \in SUBSET queue
       /\ IsFiniteSet(sent_order')
       /\ QueueCovers(sent', sent_order')
       /\ Cardinality(Keys(sent')) <= MaxPending
       /\ Cardinality(sent_order') <= 2 * MaxPending
  <2> HIDE DEF queue
  <2> QED
    BY <1>2, <1>6, <1>7, <1>8, <1>9, EvictionFits
<1>11. /\ pending' \in [Signatures -> Entry']
       /\ \A s \in Signatures : pending'[s] = pending[s] \/ pending'[s] = NoEntry
  <2>1. pending \in [Signatures -> Entry'] /\ NoEntry \in Entry'
    BY <1>3 DEF TypeOK, Entry, NoEntry
  <2> QED
    BY <1>1, <2>1
<1>12. TypeOK'
  <2>1. order' \in SUBSET QueueItem' /\ sent_order' \in SUBSET QueueItem'
    BY <1>1, <1>3, <1>7, <1>10 DEF TypeOK, QueueItem
  <2>2. worst' \in [Signatures -> Severity \union {Clean}]
    BY <1>1 DEF TypeOK
  <2>3. settled' \in [Signatures -> Severity \union {Clean}]
    BY <1>1, <1>4 DEF TypeOK, Worse
  <2> QED
    BY <1>1, <1>3, <1>10, <1>11, <2>1, <2>2, <2>3 DEF TypeOK
<1>13. QueuesCoverTables'
  BY <1>1, <1>10, <1>11 DEF QueuesCoverTables, QueueCovers, Keys, NoEntry
<1>14. BuffersBounded' /\ SentBounded' /\ AllFinite'
  <2>1. Keys(pending') \subseteq Keys(pending)
    BY <1>11 DEF Keys, NoEntry
  <2>2. IsFiniteSet(Keys(pending))
    BY SignaturesAssumption, FS_Subset DEF Keys
  <2>3. IsFiniteSet(Keys(pending')) /\ Cardinality(Keys(pending')) <= Cardinality(Keys(pending))
    BY <2>1, <2>2, FS_Subset
  <2>4. Cardinality(Keys(pending')) \in Nat /\ Cardinality(Keys(pending)) \in Nat
    BY <2>2, <2>3, FS_CardinalityType
  <2>5. Cardinality(Keys(pending)) <= MaxPending
    BY <1>1 DEF BuffersBounded
  <2>6. Cardinality(Keys(pending')) <= MaxPending
    BY <2>3, <2>4, <2>5, LimitsAssumption
  <2> QED
    BY <1>1, <1>10, <2>6, FS_EmptySet DEF BuffersBounded, SentBounded, AllFinite
<1>15. SuppressionIsSettled'
  <2> SUFFICES ASSUME NEW s \in Signatures, sent'[s].rev # 0
               PROVE  settled'[s] <= sent'[s].sev
    BY DEF SuppressionIsSettled, Keys
  <2>1. sent'[s] = RecordSent[s]
    BY <1>10 DEF NeverSent
  <2>2. settled[s] \in 0..3
    BY SeverityRange DEF TypeOK
  <2>3. CASE InBatch(s)
    <3>1. sent'[s].sev = ItemOf(s).sev /\ settled'[s] = Worse(settled[s], ItemOf(s).sev)
      BY <2>1, <2>3, <1>1 DEF RecordSent
    <3>2. ItemOf(s).sev \in 0..2
      BY <2>3, <1>4, SeverityAssumption
    <3> QED
      BY <2>2, <3>1, <3>2 DEF Worse
  <2>4. CASE ~ InBatch(s)
    BY <2>1, <2>4, <1>1 DEF RecordSent, SuppressionIsSettled, Keys
  <2> QED
    BY <2>3, <2>4
<1>16. EscalationNeverForgotten'
  <2> SUFFICES ASSUME NEW s \in Signatures, worst'[s] < settled'[s]
               PROVE  pending'[s].rev # 0 /\ pending'[s].sev <= worst'[s]
    BY DEF EscalationNeverForgotten
  <2>1. settled[s] \in 0..3 /\ worst[s] \in 0..3 /\ pending[s].sev \in 0..3
    BY SeverityRange DEF TypeOK, Entry
  <2>2. CASE ~ InBatch(s)
    BY <2>2, <1>1 DEF EscalationNeverForgotten
  <2>3. CASE InBatch(s)
    <3>1. settled'[s] = Worse(settled[s], ItemOf(s).sev) /\ ItemOf(s).sev \in 0..2
      BY <2>3, <1>1, <1>4, SeverityAssumption
    <3>2. worst[s] < settled[s] /\ worst[s] < ItemOf(s).sev
      BY <1>1, <2>1, <3>1 DEF Worse
    <3>3. pending[s].rev # 0 /\ pending[s].sev <= worst[s]
      BY <3>2 DEF EscalationNeverForgotten
    <3>4. pending[s].rev # ItemOf(s).rev
      BY <2>1, <2>3, <1>4, <3>1, <3>2, <3>3 DEF BatchMatchesTable
    <3> QED
      BY <1>1, <3>3, <3>4
  <2> QED
    BY <2>2, <2>3
<1>17. DrainLeavesNothing' /\ DrainedFacts' /\ PushingNotDraining' /\ BatchMatchesTable'
  BY <1>1 DEF DrainLeavesNothing, DrainedFacts, PushingNotDraining, BatchMatchesTable
<1>18. EntriesAreFindings'
  BY <1>11 DEF EntriesAreFindings, Keys, NoEntry
<1> QED
  BY <1>12, <1>13, <1>14, <1>15, <1>16, <1>17, <1>18

-----------------------------------------------------------------------------
(* IInv is inductive.                                                      *)
THEOREM InvHolds == Spec => []IInv
<1>1. IInv /\ [Next]_vars => IInv'
  <2> SUFFICES ASSUME IInv, [Next]_vars PROVE IInv'
    OBVIOUS
  <2>1. CASE \/ LockForPush \/ Drained \/ BusyOrRetry \/ Shutdown \/ Abort \/ Tick
             \/ UNCHANGED vars
    BY <2>1, QuietSteps
  <2>2. CASE \E s \in Signatures, sev \in Severity : PushFinding(s, sev)
    BY <2>2, PushPreservesInv
  <2>3. CASE EvictOverflow
    BY <2>3, EvictPreservesInv
  <2>4. CASE Snapshot
    BY <2>4, SnapshotPreservesInv
  <2>5. CASE Accepted \/ Rejected \/ Oversized
    BY <2>5, FinishPreservesInv DEF Accepted, Rejected, Oversized
  <2> QED
    BY <2>1, <2>2, <2>3, <2>4, <2>5 DEF Next
<1> QED
  BY <1>1, InitEstablishesInv, PTL DEF Spec

(* Types: no revision or stamp runs ahead of what hands it out.            *)
THEOREM TypeCorrect == Spec => []TypeOK
BY InvHolds, PTL DEF IInv

(* No entry of either table is ever without its queue item: the snapshot   *)
(* and the eviction can always reach it.                                   *)
THEOREM NothingUnreachable == Spec => []QueuesCoverTables
BY InvHolds, PTL DEF IInv

(* The tables and their queues keep their caps for every batch length.     *)
THEOREM Bounded == Spec => []BuffersBounded
BY InvHolds, PTL DEF IInv

(* No answer and no suppression hides a severity worse than any settled.   *)
THEOREM EscalationKept == Spec => []EscalationNeverForgotten
BY InvHolds, PTL DEF IInv

(* The drain ends on its own only when nothing is pending.                 *)
THEOREM DrainComplete == Spec => []DrainLeavesNothing
BY InvHolds, PTL DEF IInv
=============================================================================
