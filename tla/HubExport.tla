----------------------------- MODULE HubExport -----------------------------
(***************************************************************************)
(* The findings half of the Hub exporter (daemon/hub_export.rs): the       *)
(* bounded table of findings waiting for PerfSentinelHub, which the        *)
(* analysis worker fills, and the exporter task, which sends it in batches *)
(* to a Hub that may be slow, refuse, or not answer.                       *)
(*                                                                         *)
(* The worker and the exporter share the table through one mutex.          *)
(* push_batch keeps it for a whole batch of findings, so the batch is a    *)
(* critical section here (lock = "push") made of one step per finding and  *)
(* a closing eviction: a batch of any length is covered.  snapshot and     *)
(* acknowledge each take the mutex for one step; the exporter holds        *)
(* nothing while it waits for the Hub, and that is where the worker        *)
(* interleaves.                                                            *)
(*                                                                         *)
(* Data kept: of a finding its signature and severity, of an entry its     *)
(* revision.  Counts, stamps, payloads and metrics are left out.  A queue  *)
(* item (signature, revision) always carries the newest revision when it   *)
(* is pushed to the back, so a VecDeque is the set of its items: the front *)
(* is the item of the smallest revision.  Revisions are natural numbers    *)
(* (the code's u64 wraps after 2^64 of them).                              *)
(***************************************************************************)
EXTENDS Naturals, FiniteSets

CONSTANTS
  Signatures,       (* Signatures of findings.                             *)
  Severity,         (* Severities in use: 0 Critical, 1 Warning, 2 Info.   *)
  MaxPending,       (* [daemon.hub_export] max_pending.                    *)
  BatchSize,        (* [daemon.hub_export] batch_size.                     *)
  RefreshInterval,  (* EXPORT_REFRESH_INTERVAL_MS, in ticks of the clock.  *)
  MaxRevision,      (* Bound: no finding is pushed past this revision.     *)
  MaxTime           (* Bound: the clock stops here.                        *)

ASSUME SignaturesAssumption == IsFiniteSet(Signatures)
ASSUME SeverityAssumption == Severity \subseteq 0..2
ASSUME LimitsAssumption ==
  /\ MaxPending \in Nat \ {0}
  /\ BatchSize \in Nat \ {0}
  /\ RefreshInterval \in Nat
  /\ MaxRevision \in Nat
  /\ MaxTime \in Nat

VARIABLES
  pending,       (* entries: the finding pending under each signature.     *)
  order,         (* order: the queue of (signature, revision).             *)
  sent,          (* sent_entries: what was last acknowledged, per signature. *)
  sent_order,    (* sent_order: the queue that bounds sent.                *)
  next_revision, (* The last revision handed out.                          *)
  lock,          (* Who holds the mutex across steps: "push" or "free".    *)
  exporter,      (* The task: "idle", "posting", "stopped", "aborted".     *)
  batch,         (* The findings on their way to the Hub while posting.    *)
  draining,      (* shutdown was notified: the worker has ended.           *)
  now,           (* The daemon's wall clock.                               *)
  worst,         (* History: the worst severity pushed under a signature   *)
                 (* since the table last dropped it.                       *)
  settled        (* History: the worst severity the exporter is done with, *)
                 (* accepted or refused by the Hub.                        *)

buffer == <<pending, order, sent, sent_order, next_revision>>
history == <<worst, settled>>
vars == <<pending, order, sent, sent_order, next_revision, lock, exporter,
          batch, draining, now, worst, settled>>

-----------------------------------------------------------------------------
(* Tables and their queues.  Revision 0 marks an absent entry, and Clean a *)
(* severity milder than any.                                               *)

Clean == 3
NoEntry == [sev |-> Clean, rev |-> 0]
NeverSent == [sev |-> Clean, rev |-> 0, at |-> 0]

Item(s, r) == [sig |-> s, rev |-> r]
Keys(table) == {s \in Signatures : table[s].rev # 0}
Worse(a, b) == IF a < b THEN a ELSE b

(* A queue item whose revision no longer matches its entry is stale.       *)
Matches(table, item) == table[item.sig].rev = item.rev

(* The part of a queue popped when its front has passed revision cut, and  *)
(* the table without the entries popped.                                   *)
Front(queue, cut) == {item \in queue : item.rev <= cut}
Without(table, none, popped) ==
  [s \in Signatures |-> IF Item(s, table[s].rev) \in popped THEN none ELSE table[s]]

Fits(table, none, queue, cut) ==
  Cardinality(Keys(Without(table, none, Front(queue, cut)))) <= MaxPending

(* evict_by_order's loop pops the front until the table fits, or until the *)
(* queue is empty: it stops at the first such revision.                    *)
StopsAt(table, none, queue, cut) ==
  LET cuts == {0} \union {item.rev : item \in queue} IN
  /\ cut \in cuts
  /\ Fits(table, none, queue, cut) \/ Front(queue, cut) = queue
  /\ \A c \in cuts : c < cut => ~ Fits(table, none, queue, c)

(* Slip: stale items are never removed. *)
NeverCompact(table, queue) == queue

(* The retain that follows, once stale items make the queue twice the cap. *)
Compact(table, queue) ==
  IF Cardinality(queue) > 2 * MaxPending
  THEN {item \in queue : Matches(table, item)}
  ELSE queue

-----------------------------------------------------------------------------
Init ==
  /\ pending = [s \in Signatures |-> NoEntry]
  /\ order = {}
  /\ sent = [s \in Signatures |-> NeverSent]
  /\ sent_order = {}
  /\ next_revision = 0
  /\ lock = "free"
  /\ exporter = "idle"
  /\ batch = {}
  /\ draining = FALSE
  /\ now = 0
  /\ worst = [s \in Signatures |-> Clean]
  /\ settled = [s \in Signatures |-> Clean]

-----------------------------------------------------------------------------
(* The analysis worker: push_batch.                                        *)

LockForPush ==
  /\ lock = "free"
  /\ ~ draining
  /\ lock' = "push"
  /\ UNCHANGED <<buffer, exporter, batch, draining, now, history>>

Enqueue(s, sev) ==
  LET revision == next_revision + 1 IN
  /\ next_revision' = revision
  /\ pending' = [pending EXCEPT ![s] = [sev |-> sev, rev |-> revision]]
  /\ order' = order \union {Item(s, revision)}

(* Slip: the new revision of a worse repeat is not queued. *)
MergePendingUnqueued(s, sev) ==
  /\ pending[s].rev # 0
  /\ IF sev < pending[s].sev
     THEN /\ next_revision' = next_revision + 1
          /\ pending' = [pending EXCEPT ![s] = [sev |-> sev, rev |-> next_revision']]
     ELSE UNCHANGED <<pending, next_revision>>
  /\ UNCHANGED <<order, sent, sent_order>>

(* A repeat of a pending finding takes a new revision only when it is      *)
(* worse: an equal one in flight must still be cleared by its answer.      *)
MergePending(s, sev) ==
  /\ pending[s].rev # 0
  /\ IF sev < pending[s].sev
     THEN Enqueue(s, sev)
     ELSE UNCHANGED <<pending, order, next_revision>>
  /\ UNCHANGED <<sent, sent_order>>

SuppressedByRecentSend(s, sev) ==
  /\ sent[s].rev # 0
  /\ now - sent[s].at < RefreshInterval
  /\ sev >= sent[s].sev

InsertPending(s, sev) ==
  /\ pending[s].rev = 0
  /\ ~ SuppressedByRecentSend(s, sev)
  /\ Enqueue(s, sev)
  /\ sent' = [sent EXCEPT ![s] = NeverSent]
  /\ UNCHANGED sent_order

SkipSuppressed(s, sev) ==
  /\ pending[s].rev = 0
  /\ SuppressedByRecentSend(s, sev)
  /\ UNCHANGED buffer

PushFinding(s, sev) ==
  /\ lock = "push"
  /\ next_revision < MaxRevision
  /\ \/ MergePending(s, sev)
     \/ InsertPending(s, sev)
     \/ SkipSuppressed(s, sev)
  /\ worst' = [worst EXCEPT ![s] = Worse(@, sev)]
  /\ UNCHANGED <<lock, exporter, batch, draining, now, settled>>

(* evict_overflow closes the batch; what it drops is counted as lost.      *)
EvictOverflow ==
  /\ lock = "push"
  /\ \E cut \in {0} \union {item.rev : item \in order} :
       LET popped == Front(order, cut) IN
       /\ StopsAt(pending, NoEntry, order, cut)
       /\ pending' = Without(pending, NoEntry, popped)
       /\ order' = Compact(pending', order \ popped)
       /\ worst' = [s \in Signatures |->
                      IF pending'[s] # pending[s] THEN Clean ELSE worst[s]]
  /\ lock' = "free"
  /\ UNCHANGED <<sent, sent_order, next_revision, exporter, batch, draining,
                 now, settled>>

-----------------------------------------------------------------------------
(* The exporter task.                                                      *)

PendingItems ==
  {[sig |-> item.sig, rev |-> item.rev, sev |-> pending[item.sig].sev] :
     item \in {i \in order : Matches(pending, i)}}

(* snapshot_by_order, shortened to the prefix whose body fits the cap: the *)
(* oldest findings that are still pending, at most a batch of them.        *)
Snapshot ==
  /\ exporter = "idle"
  /\ lock = "free"
  /\ \E b \in SUBSET PendingItems :
       /\ b # {}
       /\ Cardinality(b) <= BatchSize
       /\ \A x \in b, y \in PendingItems \ b : x.rev < y.rev
       /\ batch' = b
  /\ exporter' = "posting"
  /\ UNCHANGED <<buffer, lock, draining, now, history>>

(* A round that finds nothing to send ends the task once it is draining.   *)
Drained ==
  /\ exporter = "idle"
  /\ lock = "free"
  /\ draining
  /\ PendingItems = {}
  /\ exporter' = "stopped"
  /\ UNCHANGED <<buffer, lock, batch, draining, now, history>>

(* The revision acknowledge gives a sent record: one of its own each, in   *)
(* batch order.                                                            *)
SentRevision(item) == next_revision + Cardinality({x \in batch : x.rev <= item.rev})
ItemOf(s) == CHOOSE item \in batch : item.sig = s
InBatch(s) == \E item \in batch : item.sig = s

RecordSent ==
  [s \in Signatures |->
     IF InBatch(s)
     THEN [sev |-> ItemOf(s).sev, rev |-> SentRevision(ItemOf(s)), at |-> now]
     ELSE sent[s]]

(* The history acknowledge leaves, the same for each of its forms.         *)
Settle ==
  /\ settled' = [s \in Signatures |->
                   IF InBatch(s) THEN Worse(settled[s], ItemOf(s).sev) ELSE settled[s]]
  /\ UNCHANGED worst

(* Slip: the entry is removed even when its revision moved on. *)
RemoveAcknowledgedBlindly ==
  pending' = [s \in Signatures |-> IF InBatch(s) THEN NoEntry ELSE pending[s]]

RemoveAcknowledged ==
  pending' = [s \in Signatures |->
                IF InBatch(s) /\ pending[s].rev = ItemOf(s).rev
                THEN NoEntry ELSE pending[s]]

(* Slip: the sent records take revisions without consuming them. *)
AdvanceRevisionNot == next_revision' = next_revision

AdvanceRevision == next_revision' = next_revision + Cardinality(batch)

(* acknowledge: what was sent leaves the table unless it changed since,    *)
(* and is remembered either way.                                           *)
Acknowledge ==
  /\ RemoveAcknowledged
  /\ AdvanceRevision
  /\ LET queue == sent_order \union {Item(x.sig, SentRevision(x)) : x \in batch} IN
     \E cut \in {0} \union {item.rev : item \in queue} :
       LET popped == Front(queue, cut) IN
       /\ StopsAt(RecordSent, NeverSent, queue, cut)
       /\ sent' = Without(RecordSent, NeverSent, popped)
       /\ sent_order' = Compact(sent', queue \ popped)
  /\ Settle
  /\ UNCHANGED order

(* The Hub answers 2xx, or a 4xx no retry can change: both acknowledge.    *)
(* So does a finding whose body alone is over the cap.                     *)
Finish(outcome) ==
  /\ exporter = "posting"
  /\ lock = "free"
  /\ outcome = "Oversized" => Cardinality(batch) = 1
  /\ Acknowledge
  /\ exporter' = "idle"
  /\ batch' = {}
  /\ UNCHANGED <<lock, draining, now>>

Accepted == Finish("Accepted")
Rejected == Finish("Rejected")
Oversized == Finish("Oversized")

(* Slip: a failed request ends the task. *)
BusyOrRetryStops ==
  /\ exporter = "posting"
  /\ exporter' = "stopped"
  /\ batch' = {}
  /\ UNCHANGED <<buffer, lock, draining, now, history>>

(* A 503, another 5xx, a lost request or a lost answer: the batch stays.   *)
BusyOrRetry ==
  /\ exporter = "posting"
  /\ exporter' = "idle"
  /\ batch' = {}
  /\ UNCHANGED <<buffer, lock, draining, now, history>>

(* HubExporter::shutdown, after the worker ended: the task drains, within  *)
(* a budget that ends in an abort.                                         *)
Shutdown ==
  /\ lock = "free"
  /\ ~ draining
  /\ draining' = TRUE
  /\ UNCHANGED <<buffer, lock, exporter, batch, now, history>>

Abort ==
  /\ draining
  /\ exporter \in {"idle", "posting"}
  /\ exporter' = "aborted"
  /\ batch' = {}
  /\ UNCHANGED <<buffer, lock, draining, now, history>>

Tick ==
  /\ now < MaxTime
  /\ now' = now + 1
  /\ UNCHANGED <<buffer, lock, exporter, batch, draining, history>>

Next ==
  \/ LockForPush
  \/ \E s \in Signatures, sev \in Severity : PushFinding(s, sev)
  \/ EvictOverflow
  \/ Snapshot
  \/ Drained
  \/ Accepted
  \/ Rejected
  \/ Oversized
  \/ BusyOrRetry
  \/ Shutdown
  \/ Abort
  \/ Tick

Spec == Init /\ [][Next]_vars

(***************************************************************************)
(* The worker leaves its critical section, the exporter task is scheduled  *)
(* and gets the mutex although the worker keeps coming back for it, and a  *)
(* Hub that is asked again and again sometimes takes a batch.  The retry   *)
(* policy promises no more than that; nothing says findings keep coming,   *)
(* that time passes, or that the daemon is ever shut down.                 *)
(***************************************************************************)
Fairness ==
  /\ WF_vars(EvictOverflow)
  /\ SF_vars(Snapshot)
  /\ SF_vars(Drained)
  /\ WF_vars(BusyOrRetry)
  /\ SF_vars(Accepted)

FairSpec == Spec /\ Fairness

-----------------------------------------------------------------------------
(* Properties.                                                             *)

Entry == [sev : Severity \union {Clean}, rev : 0..next_revision]
SentRecord == [sev : Severity \union {Clean}, rev : 0..next_revision, at : 0..now]
QueueItem == [sig : Signatures, rev : 1..next_revision]
BatchItem == [sig : Signatures, rev : 1..next_revision, sev : Severity]

(* Types: and no revision or stamp lies ahead of the counter or the clock  *)
(* that hands it out.                                                      *)
TypeOK ==
  /\ next_revision \in Nat
  /\ now \in Nat
  /\ pending \in [Signatures -> Entry]
  /\ sent \in [Signatures -> SentRecord]
  /\ order \in SUBSET QueueItem
  /\ sent_order \in SUBSET QueueItem
  /\ lock \in {"push", "free"}
  /\ exporter \in {"idle", "posting", "stopped", "aborted"}
  /\ batch \in SUBSET BatchItem
  /\ draining \in BOOLEAN
  /\ worst \in [Signatures -> Severity \union {Clean}]
  /\ settled \in [Signatures -> Severity \union {Clean}]

(* Every entry has the queue item that carries its revision, in both       *)
(* tables.  An entry without one would never be sent, never be evicted,    *)
(* and would end the eviction loops before the table fits.                 *)
QueueCovers(table, queue) ==
  \A s \in Keys(table) : Item(s, table[s].rev) \in queue
QueuesCoverTables == QueueCovers(pending, order) /\ QueueCovers(sent, sent_order)

(* Between two critical sections neither table holds more than max_pending *)
(* entries nor its queue more than twice that, whatever was pushed, merged *)
(* and acknowledged in between.                                            *)
BuffersBounded ==
  lock = "free" =>
    /\ Cardinality(Keys(pending)) <= MaxPending
    /\ Cardinality(Keys(sent)) <= MaxPending
    /\ Cardinality(order) <= 2 * MaxPending
    /\ Cardinality(sent_order) <= 2 * MaxPending

(* A severity worse than any the exporter is done with is still pending:   *)
(* neither the hourly suppression nor the answer to a batch taken before   *)
(* the finding got worse makes it disappear.  Only a counted eviction does. *)
EscalationNeverForgotten ==
  \A s \in Signatures :
    worst[s] < settled[s] => pending[s].rev # 0 /\ pending[s].sev <= worst[s]

(* A task that returned from its drain left nothing behind.                *)
DrainLeavesNothing == exporter = "stopped" => Keys(pending) = {}

(* What keeps the invariants above: the batch on the wire holds one item   *)
(* per finding and, where the entry has not moved on, its very severity;   *)
(* and the record that suppresses a repeat is no worse than what was       *)
(* settled.  Sets are finite.                                              *)
BatchMatchesTable ==
  /\ \A x, y \in batch : x.sig = y.sig => x = y
  /\ \A x \in batch : pending[x.sig].rev = x.rev => pending[x.sig].sev = x.sev

EntriesAreFindings == \A s \in Keys(pending) : pending[s].sev # Clean

SuppressionIsSettled ==
  \A s \in Keys(sent) : settled[s] <= sent[s].sev

SentBounded ==
  /\ Cardinality(Keys(sent)) <= MaxPending
  /\ Cardinality(sent_order) <= 2 * MaxPending

AllFinite == IsFiniteSet(order) /\ IsFiniteSet(sent_order) /\ IsFiniteSet(batch)

DrainedFacts == exporter = "stopped" => draining
PushingNotDraining == lock = "push" => ~ draining

IInv ==
  /\ TypeOK
  /\ QueuesCoverTables
  /\ BuffersBounded
  /\ EscalationNeverForgotten
  /\ DrainLeavesNothing
  /\ BatchMatchesTable
  /\ EntriesAreFindings
  /\ SuppressionIsSettled
  /\ SentBounded
  /\ AllFinite
  /\ DrainedFacts
  /\ PushingNotDraining

(* A severity the exporter is not done with is settled, or evicted, or the *)
(* drain budget of a shutdown ran out.                                     *)
EscalationSettles ==
  \A s \in Signatures, v \in Severity :
    worst[s] = v ~> (settled[s] <= v \/ worst[s] # v \/ exporter = "aborted")
=============================================================================
