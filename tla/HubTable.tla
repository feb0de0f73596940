------------------------------ MODULE HubTable ------------------------------
(***************************************************************************)
(* The latest-value table of the Hub exporter's incident half              *)
(* (daemon/hub_table.rs): the newest state of each value that waits for    *)
(* one Hub route, bounded, with a revision per change so that a late       *)
(* answer never removes a newer state.  Every operation runs under the     *)
(* table's mutex; a table is a record here and an operation a function of  *)
(* it.  The queue is the set of its items: an item is pushed with a new    *)
(* revision, so the revisions give their order, and a front of the queue   *)
(* is what it holds up to a revision.                                      *)
(***************************************************************************)
EXTENDS Naturals, Sequences, FiniteSets, FiniteSetsExt, Functions

CONSTANT MaxPending     \* max_pending: entries the table keeps

ASSUME PendingAssumption == MaxPending \in Nat \ {0}

\* A table of values under these keys.
IsTable(table, Keys, Values) ==
    /\ DOMAIN table = {"entries", "order", "revision", "supported"}
    /\ DOMAIN table.entries \subseteq Keys
    /\ \A k \in DOMAIN table.entries :
          table.entries[k] \in [value : Values, revision : 1..table.revision]
    /\ table.order \subseteq [key : Keys, revision : 1..table.revision]
    /\ table.revision \in Nat
    /\ table.supported \in BOOLEAN

NoEntries == [k \in {} |-> 0]

NewTable ==
    [entries |-> NoEntries, order |-> {}, revision |-> 0, supported |-> TRUE]

Pending(table) == DOMAIN table.entries

\* The queue item of a pending entry; any other of its key is superseded.
ItemOf(entries, k) == [key |-> k, revision |-> entries[k].revision]

IsLatest(entries, item) ==
    item.key \in DOMAIN entries /\ item = ItemOf(entries, item.key)

\* The front of a queue, or of a batch, up to a revision.
UpTo(items, cut) == {item \in items : item.revision <= cut}

\* What is left pending when the front of the queue is popped.
Left(table, cut) ==
    {k \in Pending(table) : ItemOf(table.entries, k) \notin UpTo(table.order, cut)}

\* Where the loop of evict_by_order stops: as soon as what is left fits, or
\* at the end of the queue.
StopOf(table) ==
    Min({cut \in {0} \cup {item.revision : item \in table.order} :
            Cardinality(Left(table, cut)) <= MaxPending}
        \cup {table.revision})

\* Mutant: the compaction of the queue never happens.
NeverCompacted(entries, order) == order

Compacted(entries, order) ==
    IF Cardinality(order) > 2 * MaxPending
    THEN {item \in order : IsLatest(entries, item)}
    ELSE order

\* evict_by_order: the least recently changed entries leave until the rest
\* fits.
EvictByOrder(table) ==
    LET cut == StopOf(table)
        entries == Restrict(table.entries, Left(table, cut))
    IN  [table EXCEPT !.entries = entries,
                      !.order = Compacted(entries, @ \ UpTo(@, cut))]

\* Mutant: a value that is pending keeps its place in the queue.
PushInPlace(table, key, value) ==
    IF ~table.supported THEN table
    ELSE LET revision == table.revision + 1
             entry == [value |-> value, revision |-> revision]
         IN  EvictByOrder(
               [table EXCEPT
                  !.entries = [k \in DOMAIN @ \cup {key} |->
                                  IF k = key THEN entry ELSE @[k]],
                  !.order = IF key \in Pending(table) THEN @
                            ELSE @ \cup {[key |-> key, revision |-> revision]},
                  !.revision = revision])

\* Queues the value's current state over an older one still pending.
Push(table, key, value) ==
    IF ~table.supported THEN table
    ELSE LET revision == table.revision + 1
             entry == [value |-> value, revision |-> revision]
         IN  EvictByOrder(
               [table EXCEPT
                  !.entries = [k \in DOMAIN @ \cup {key} |->
                                  IF k = key THEN entry ELSE @[k]],
                  !.order = @ \cup {[key |-> key, revision |-> revision]},
                  !.revision = revision])

\* What is pending, each at its latest place in the queue.
SnapshotOf(table) ==
    {[key |-> item.key, value |-> table.entries[item.key].value, revision |-> item.revision] :
        item \in {i \in table.order : IsLatest(table.entries, i)}}

\* Mutant: an answer removes what it names, whatever its revision.
AcknowledgeByKey(table, sent) ==
    [table EXCEPT !.entries = Restrict(@, DOMAIN @ \ {item.key : item \in sent})]

\* Removes what the Hub accepted, unless it changed again meanwhile.
Acknowledge(table, sent) ==
    [table EXCEPT !.entries =
        Restrict(@, {k \in DOMAIN @ : \A item \in sent :
                        item.key = k => item.revision # @[k].revision})]

\* The Hub has no such route: nothing is queued until the daemon restarts.
MarkUnsupported(table) ==
    [table EXCEPT !.entries = NoEntries, !.order = {}, !.supported = FALSE]

-----------------------------------------------------------------------------
\* Every entry has its own place in the queue, from which a batch or an
\* eviction can take it.
InQueue(table) ==
    \A k \in Pending(table) : ItemOf(table.entries, k) \in table.order

\* Nothing waits for a route the Hub does not have.
EmptyWithoutRoute(table) ==
    ~table.supported => Pending(table) = {} /\ table.order = {}

\* Stale items never outgrow the table.
Bounded(table) ==
    /\ Cardinality(Pending(table)) <= MaxPending
    /\ Cardinality(table.order) <= 2 * MaxPending
=============================================================================
