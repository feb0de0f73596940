----------------------------- MODULE Incidents ------------------------------
(***************************************************************************)
(* The incidents the operator's alerting posts to the daemon               *)
(* (daemon/incidents.rs and their handlers in daemon/query_api/mod.rs): a  *)
(* bounded ring of records, each with the findings that were live, an      *)
(* append-only archive written by one thread behind a channel, the settle  *)
(* pass that looks again once the traces of that moment are analysed, and  *)
(* the table of the Hub exporter (HubTable).                               *)
(*                                                                         *)
(* A handler is one delivery of alerts on one HTTPS connection, whose task *)
(* (daemon/tls.rs) outlives the listener.  Every change of the ring is     *)
(* announced to the table and to the channel under the ring's lock, so it  *)
(* is one step; between two of them a handler runs beside the others.  The *)
(* findings store is not modelled here: a freeze returns any of the        *)
(* findings, and since nothing else depends on when it reads them it is    *)
(* part of the change it precedes.  Refused alerts, which change nothing,  *)
(* are left out, and so are the size limit of the reload and               *)
(* oldest_finding_ms.                                                      *)
(***************************************************************************)
EXTENDS HubTable, SequencesExt

CONSTANTS Ids,          \* incidents, Incident::compute_id
          Findings,
          Ends,         \* ended_at_ms of resolved alerts
          NoEnd,        \* ended_at_ms absent
          Conns,        \* client connections
          Permits,      \* settle passes in flight, MAX_SETTLES_IN_FLIGHT
          Idle,         \* a connection or a permit with nothing to do
          Torn,         \* bytes that are no record
          Configs,      \* configurations: which of "hub" and "archive"
          Sizes,        \* capacities of the ring, max_retained
          Capacity,     \* ARCHIVE_CHANNEL_CAPACITY
          MaxBatch,     \* incidents per Hub request
          MaxAlerts,    \* alerts per delivery, MAX_ALERTS_PER_DELIVERY
          Received,     \* bound: alerts in all
          MaxStarts     \* bound: starts of the daemon

ASSUME IncidentsAssumption ==
    /\ NoEnd \notin Ends
    /\ Torn \notin [id : Ids, ended : Ends \cup {NoEnd}, found : SUBSET Findings]
    /\ Configs \subseteq SUBSET {"hub", "archive"}
    /\ Sizes \subseteq Nat \ {0}
    /\ Capacity \in Nat \ {0}
    /\ {MaxBatch, MaxAlerts, Received} \subseteq Nat
    /\ MaxStarts \in Nat \ {0}

VARIABLES ring,      \* the records, newest last
          channel,   \* records on their way to the archive writer
          file,      \* the archive's lines: records or Torn
          unended,   \* the last line has no newline yet
          open,      \* connections a client keeps
          handler,   \* per connection: its delivery
          settle,    \* per permit: its settle pass
          phase,     \* "serving", "flushing" the exporter, "joining" the
                     \* writer, "stopped" or "crashed"
          table,     \* the exporter's incident table
          batch,     \* the request it has in flight
          hub,       \* the Hub's record of each incident
          sinks,     \* the configuration: where changes are handed to,
          retained,  \* and how many records the ring keeps
          received, starts,
          gap,       \* history: since the start, a record missed the file
          waived     \* history: incidents whose newest record left the
                     \* table unsent, or was reloaded and never queued

storeVars == <<ring, received>>
archiveVars == <<channel, file, unended, gap>>
requestVars == <<open, handler, settle>>
exportVars == <<table, batch, hub, waived>>
lifeVars == <<phase, sinks, retained, starts>>
vars == <<storeVars, archiveVars, requestVars, exportVars, lifeVars>>

Running == {"serving", "flushing", "joining"}

Records == [id : Ids, ended : Ends \cup {NoEnd}, found : SUBSET Findings]

Alerts == [id : Ids, ended : Ends \cup {NoEnd}]

Deliveries == UNION {[1..n -> Alerts] : n \in 1..MaxAlerts}

\* What is left of a delivery: its alerts from the one in hand on, and the
\* incidents it recorded.
Handling == [alerts : Seq(Alerts), fresh : Seq(Ids),
             step : {"look", "record", "close", "schedule"}]

IdsOf(seq) == {seq[i].id : i \in DOMAIN seq}

-----------------------------------------------------------------------------
(* The ring and its replay.                                                *)

\* The oldest records leave past max.
Newest(records, max) ==
    SubSeq(records, Max({1, Len(records) - max + 1}), Len(records))

\* The record of its id, in place.
Updated(records, r) ==
    [i \in DOMAIN records |-> IF records[i].id = r.id THEN r ELSE records[i]]

\* A line of a retained id updates it, any other is an arrival.
ApplyLine(records, line, max) ==
    IF line = Torn THEN records
    ELSE IF line.id \in IdsOf(records) THEN Updated(records, line)
    ELSE Newest(Append(records, line), max)

\* load_archive_tail: the ring after each line, and after the last.
Replayed(lines, max) ==
    LET replayed[n \in 0..Len(lines)] ==
            IF n = 0 THEN <<>> ELSE ApplyLine(replayed[n - 1], lines[n], max)
    IN  replayed

Replay(lines, max) == Replayed(lines, max)[Len(lines)]

RecordOf(id) == ring[CHOOSE i \in DOMAIN ring : ring[i].id = id]

HandToHub(r) ==
    /\ table' = Push(table, r.id, r)
    /\ waived' = (waived \ {r.id})
                    \cup ((Pending(table) \cup {r.id}) \ Pending(table'))

HandToArchive(r) ==
    \/ Len(channel) < Capacity /\ channel' = Append(channel, r) /\ UNCHANGED gap
    \/ Len(channel) >= Capacity /\ gap' = TRUE /\ UNCHANGED channel

\* on_incident_change: the hand-offs there are, neither of which waits.
Announce(r) ==
    /\ IF "hub" \in sinks THEN HandToHub(r) ELSE UNCHANGED <<table, waived>>
    /\ IF "archive" \in sinks THEN HandToArchive(r) ELSE UNCHANGED <<channel, gap>>
    /\ UNCHANGED <<batch, hub, file, unended>>

-----------------------------------------------------------------------------
Init ==
    /\ ring = <<>>
    /\ channel = <<>>
    /\ file = <<>>
    /\ unended = FALSE
    /\ open = {}
    /\ handler = [c \in Conns |-> Idle]
    /\ settle = [p \in Permits |-> Idle]
    /\ phase = "serving"
    /\ sinks \in Configs
    /\ retained \in Sizes
    /\ table = NewTable
    /\ batch = {}
    /\ hub = [i \in {} |-> 0]
    /\ received = 0
    /\ starts = 1
    /\ gap = FALSE
    /\ waived = {}

-----------------------------------------------------------------------------
(* A connection and its deliveries (handle_post_incidents).                *)

\* A delivery, on a new connection while the listener takes one.
Deliver(c, alerts) ==
    /\ phase \in Running
    /\ c \in open \/ phase = "serving"
    /\ open' = open \cup {c}
    /\ handler[c] = Idle
    /\ received + Len(alerts) <= Received
    /\ received' = received + Len(alerts)
    /\ handler' = [handler EXCEPT ![c] =
                      [alerts |-> alerts, step |-> "look", fresh |-> <<>>]]
    /\ UNCHANGED <<settle, ring, archiveVars, exportVars, lifeVars>>

At(c, step) == handler[c] # Idle /\ handler[c].step = step

Alert(c) == Head(handler[c].alerts)

\* On to the next alert, or to the settle pass of the delivery.
Proceed(c, fresh) ==
    handler' = [handler EXCEPT ![c] =
        [alerts |-> Tail(@.alerts),
         step   |-> IF Len(@.alerts) = 1 THEN "schedule" ELSE "look",
         fresh  |-> fresh]]

Look(c) ==
    /\ At(c, "look")
    /\ handler' = [handler EXCEPT ![c].step =
                      IF Alert(c).id \in IdsOf(ring) THEN "close" ELSE "record"]
    /\ UNCHANGED <<open, settle, storeVars, archiveVars, exportVars, lifeVars>>

\* Mutant: the lookup before the freeze is trusted.
RefusesNothing(id) == FALSE

\* The gate two deliveries of one new alert race for.
Refuses(id) == retained = 0 \/ id \in IdsOf(ring)

\* freeze_window and record_then.
Record(c, capture) ==
    LET r == [id |-> Alert(c).id, ended |-> Alert(c).ended,
              found |-> capture]
    IN  /\ At(c, "record")
        /\ ~Refuses(r.id)
        /\ ring' = Newest(Append(ring, r), retained)
        /\ Announce(r)
        /\ Proceed(c, Append(handler[c].fresh, r.id))
        /\ UNCHANGED <<open, settle, received, lifeVars>>

RecordRefused(c) ==
    /\ At(c, "record")
    /\ Refuses(Alert(c).id)
    /\ handler' = [handler EXCEPT ![c].step = "close"]
    /\ UNCHANGED <<open, settle, storeVars, archiveVars, exportVars, lifeVars>>

\* Whether the alert ends a retained incident that had no end.
Closes(alert) ==
    /\ alert.ended # NoEnd
    /\ alert.id \in IdsOf(ring)
    /\ RecordOf(alert.id).ended = NoEnd

\* close_then.
Close(c) ==
    LET r == [RecordOf(Alert(c).id) EXCEPT !.ended = Alert(c).ended]
    IN  /\ At(c, "close")
        /\ Closes(Alert(c))
        /\ ring' = Updated(ring, r)
        /\ Announce(r)
        /\ Proceed(c, handler[c].fresh)
        /\ UNCHANGED <<open, settle, received, lifeVars>>

NothingToClose(c) ==
    /\ At(c, "close")
    /\ ~Closes(Alert(c))
    /\ Proceed(c, handler[c].fresh)
    /\ UNCHANGED <<open, settle, storeVars, archiveVars, exportVars, lifeVars>>

\* schedule_settle, and the answer: without a permit the new incidents keep
\* their first capture.
Schedule(c) ==
    /\ At(c, "schedule")
    /\ \/ /\ handler[c].fresh # <<>>
          /\ \E p \in Permits :
                /\ settle[p] = Idle
                /\ settle' = [settle EXCEPT ![p] = handler[c].fresh]
       \/ /\ handler[c].fresh = <<>> \/ Idle \notin Range(settle)
          /\ UNCHANGED settle
    /\ handler' = [handler EXCEPT ![c] = Idle]
    /\ UNCHANGED <<open, storeVars, archiveVars, exportVars, lifeVars>>

\* TimeoutLayer drops the handler where it waits; from the last change of a
\* delivery to its answer nothing waits.
Timeout(c) ==
    /\ handler[c] # Idle
    /\ handler[c].step # "schedule"
    /\ handler' = [handler EXCEPT ![c] = Idle]
    /\ UNCHANGED <<open, settle, storeVars, archiveVars, exportVars, lifeVars>>

\* The client leaves: the connection's task ends, and its handler with it.
Hangup(c) ==
    /\ phase \in Running
    /\ c \in open
    /\ ~At(c, "schedule")
    /\ open' = open \ {c}
    /\ handler' = [handler EXCEPT ![c] = Idle]
    /\ UNCHANGED <<settle, storeVars, archiveVars, exportVars, lifeVars>>

-----------------------------------------------------------------------------
(* The settle pass of a delivery, after its sleep.                         *)

\* Mutant: the later capture replaces the record.
MergedOver(r, capture) == [r EXCEPT !.found = capture]

\* The later capture only adds rows (merge_folded).
Merged(r, capture) == [r EXCEPT !.found = @ \cup capture]

\* On to the next incident, or to the end of the task.
SettleNext(p) ==
    settle' = [settle EXCEPT ![p] = IF Len(@) = 1 THEN Idle ELSE Tail(@)]

\* freeze_window and merge_then.
SettleMerge(p, capture) ==
    /\ settle[p] # Idle
    /\ Head(settle[p]) \in IdsOf(ring)
    /\ LET r == Merged(RecordOf(Head(settle[p])), capture)
       IN  ring' = Updated(ring, r) /\ Announce(r)
    /\ SettleNext(p)
    /\ UNCHANGED <<open, handler, received, lifeVars>>

\* The incident has left the ring, by the lookup or by the merge.
SettleSkip(p) ==
    /\ settle[p] # Idle
    /\ Head(settle[p]) \notin IdsOf(ring)
    /\ SettleNext(p)
    /\ UNCHANGED <<open, handler, storeVars, archiveVars, exportVars, lifeVars>>

-----------------------------------------------------------------------------
(* The archive writer (run_writer).                                        *)

\* The archive's lines after bytes are appended: on a line that has not
\* ended they make it one that does not parse.
Appended(bytes) ==
    IF unended THEN Append(Front(file), Torn) ELSE Append(file, bytes)

WriteRecord ==
    /\ phase \in Running
    /\ channel # <<>>
    /\ file' = Appended(Head(channel))
    /\ unended' = FALSE
    /\ channel' = Tail(channel)
    /\ UNCHANGED <<gap, storeVars, requestVars, exportVars, lifeVars>>

\* What a write that did not complete leaves of a record: nothing, some of
\* it, or all of it but the newline.
Leftovers(r) ==
    \/ UNCHANGED file
    \/ file' = Appended(Torn)
    \/ file' = Appended(r)

\* The write fails, and terminate_incomplete_line may fail after it.
WriteFails ==
    /\ phase \in Running
    /\ channel # <<>>
    /\ Leftovers(Head(channel))
    /\ unended' \in {FALSE, unended \/ file' # file}
    /\ channel' = Tail(channel)
    /\ gap' = TRUE
    /\ UNCHANGED <<storeVars, requestVars, exportVars, lifeVars>>

-----------------------------------------------------------------------------
(* The exporter's incident half (RouteExport::round) and the Hub.          *)

\* A request carries a prefix of what is pending (bounded_body).
Snapshot ==
    /\ phase \in {"serving", "flushing"}
    /\ batch = {}
    /\ \E last \in SnapshotOf(table) :
          /\ batch' = UpTo(SnapshotOf(table), last.revision)
          /\ Cardinality(batch') <= MaxBatch
    /\ UNCHANGED <<table, hub, waived, storeVars, archiveVars, requestVars, lifeVars>>

\* The Hub keeps the last record it was sent of each incident.
HubTakes ==
    hub' = [k \in DOMAIN hub \cup {item.key : item \in batch} |->
               IF \E item \in batch : item.key = k
               THEN (CHOOSE item \in batch : item.key = k).value
               ELSE hub[k]]

Accepted ==
    /\ batch # {}
    /\ HubTakes
    /\ table' = Acknowledge(table, batch)
    /\ batch' = {}
    /\ UNCHANGED <<waived, storeVars, archiveVars, requestVars, lifeVars>>

\* Answers no retry can change drop the batch.
Rejected ==
    /\ batch # {}
    /\ table' = Acknowledge(table, batch)
    /\ waived' = waived \cup (Pending(table) \ Pending(table'))
    /\ batch' = {}
    /\ UNCHANGED <<hub, storeVars, archiveVars, requestVars, lifeVars>>

\* The oldest value alone is over the body cap: it is dropped, unsent.
Oversized ==
    /\ phase \in {"serving", "flushing"}
    /\ batch = {}
    /\ \E oldest \in SnapshotOf(table) :
          /\ UpTo(SnapshotOf(table), oldest.revision) = {oldest}
          /\ table' = Acknowledge(table, {oldest})
    /\ waived' = waived \cup (Pending(table) \ Pending(table'))
    /\ UNCHANGED <<batch, hub, storeVars, archiveVars, requestVars, lifeVars>>

\* 404 or 405: a Hub that predates the route.
Missing ==
    /\ batch # {}
    /\ table' = MarkUnsupported(table)
    /\ batch' = {}
    /\ UNCHANGED <<hub, waived, storeVars, archiveVars, requestVars, lifeVars>>

\* Busy, an error or no answer: the values stay.  The Hub may have taken
\* them.
Retry ==
    /\ batch # {}
    /\ HubTakes \/ UNCHANGED hub
    /\ batch' = {}
    /\ UNCHANGED <<table, waived, storeVars, archiveVars, requestVars, lifeVars>>

-----------------------------------------------------------------------------
(* The daemon's stop, its crash and its next start.                        *)

\* The loop has ended: the listeners are gone, their connections are not.
Stop ==
    /\ phase = "serving"
    /\ phase' = "flushing"
    /\ UNCHANGED <<sinks, retained, starts, storeVars, archiveVars, requestVars, exportVars>>

\* The drain found nothing to send.
ExporterEnds ==
    /\ phase = "flushing"
    /\ batch = {}
    /\ Pending(table) = {}
    /\ phase' = "joining"
    /\ UNCHANGED <<sinks, retained, starts, storeVars, archiveVars, requestVars, exportVars>>

\* Its budget is over: a request in flight is abandoned.
ExporterAborted ==
    /\ phase = "flushing"
    /\ batch # {} \/ Pending(table) # {}
    /\ HubTakes \/ UNCHANGED hub
    /\ batch' = {}
    /\ phase' = "joining"
    /\ UNCHANGED <<table, waived, sinks, retained, starts, storeVars, archiveVars, requestVars>>

\* Mutant: the end of the writer is not waited for.
NoSenderLeft ==
    /\ open = {}
    /\ settle = [p \in Permits |-> Idle]

\* The writer ends when nothing holds a sender and the channel is empty.
WriterDone ==
    /\ open = {}
    /\ settle = [p \in Permits |-> Idle]
    /\ channel = <<>>

\* The process ends, and what tasks there are with it.
Join ==
    /\ phase = "joining"
    /\ "archive" \in sinks => WriterDone
    /\ phase' = "stopped"
    /\ open' = {}
    /\ handler' = [c \in Conns |-> Idle]
    /\ settle' = [p \in Permits |-> Idle]
    /\ UNCHANGED <<sinks, retained, starts, storeVars, archiveVars, exportVars>>

\* What lives in memory is lost; the line being written may be cut.
Crash ==
    /\ phase \in Running
    /\ phase' = "crashed"
    /\ \/ UNCHANGED <<file, unended>>
       \/ /\ channel # <<>>
          /\ Leftovers(Head(channel))
          /\ unended' = (unended \/ file' # file)
    /\ HubTakes \/ UNCHANGED hub
    /\ ring' = <<>>
    /\ channel' = <<>>
    /\ open' = {}
    /\ handler' = [c \in Conns |-> Idle]
    /\ settle' = [p \in Permits |-> Idle]
    /\ table' = NewTable
    /\ batch' = {}
    /\ UNCHANGED <<gap, waived, received, sinks, retained, starts>>

\* Mutant: the archive is opened as it is.
Unsealed == unended' = unended

\* open_archive ends an incomplete last line.
Sealed == unended' = FALSE

\* open_incident_archive and load_incident_store, with another max_retained
\* perhaps; the table starts empty, what was reloaded is not queued again.
Restart ==
    /\ phase \in {"stopped", "crashed"}
    /\ starts < MaxStarts
    /\ starts' = starts + 1
    /\ phase' = "serving"
    /\ Sealed
    /\ retained' \in Sizes
    /\ ring' = Replay(file, retained')
    /\ channel' = <<>>
    /\ gap' = FALSE
    /\ table' = NewTable
    /\ waived' = Ids
    /\ UNCHANGED <<file, received, sinks, requestVars, batch, hub>>

-----------------------------------------------------------------------------
HandlerStep(c) ==
    \/ Look(c)
    \/ \E capture \in SUBSET Findings : Record(c, capture)
    \/ RecordRefused(c)
    \/ Close(c)
    \/ NothingToClose(c)
    \/ Schedule(c)

SettleStep(p) ==
    \/ \E capture \in SUBSET Findings : SettleMerge(p, capture)
    \/ SettleSkip(p)

Answer ==
    \/ Accepted
    \/ Rejected
    \/ Missing
    \/ Retry

Next ==
    \/ \E c \in Conns :
          \/ \E alerts \in Deliveries : Deliver(c, alerts)
          \/ HandlerStep(c)
          \/ Timeout(c)
          \/ Hangup(c)
    \/ \E p \in Permits : SettleStep(p)
    \/ WriteRecord
    \/ WriteFails
    \/ Snapshot
    \/ Answer
    \/ Oversized
    \/ Stop
    \/ ExporterEnds
    \/ ExporterAborted
    \/ Join
    \/ Crash
    \/ Restart

Spec == Init /\ [][Next]_vars

\* The daemon's own tasks run; clients, the Hub and the operator owe
\* nothing.
DaemonRuns ==
    /\ \A c \in Conns : WF_vars(HandlerStep(c))
    /\ \A p \in Permits : WF_vars(SettleStep(p))
    /\ WF_vars(WriteRecord)
    /\ WF_vars(ExporterEnds)
    /\ WF_vars(ExporterAborted)
    /\ WF_vars(Join)

FairSpec == Spec /\ DaemonRuns
-----------------------------------------------------------------------------
(* Properties.                                                             *)

\* Each variable has its type; the ring and the table keep to their caps
\* (with_incidents, record_then, evict_by_order), the channel to its own.
TypeOK ==
    /\ ring \in Seq(Records) /\ Len(ring) <= retained
    /\ channel \in Seq(Records) /\ Len(channel) <= Capacity
    /\ file \in Seq(Records \cup {Torn})
    /\ unended \in BOOLEAN /\ gap \in BOOLEAN
    /\ open \subseteq Conns
    /\ handler \in [Conns -> Handling \cup {Idle}]
    /\ \A c \in Conns : handler[c] # Idle => c \in open
    /\ settle \in [Permits -> (Seq(Ids) \ {<<>>}) \cup {Idle}]
    /\ phase \in Running \cup {"stopped", "crashed"}
    /\ sinks \in Configs
    /\ retained \in Sizes
    /\ IsTable(table, Ids, Records)
    /\ Bounded(table)
    /\ DOMAIN hub \subseteq Ids
    /\ received \in 0..Received /\ starts \in 0..MaxStarts
    /\ waived \subseteq Ids

\* Two deliveries of one new alert, whichever way their lookups, freezes
\* and records interleave, leave one record: the gate in record_then decides.
RecordedOnce ==
    \A i, j \in DOMAIN ring : ring[i].id = ring[j].id => i = j

\* As long as no record missed the file, the archive and what is on its way
\* to it reload as the ring the daemon has: the same records in the same
\* order (load_archive: "into the ring the daemon had"), whatever was cut by
\* an earlier crash.
ReloadGivesRing ==
    "archive" \in sinks /\ phase \in Running /\ ~gap =>
        Replay(file \o channel, retained) = ring

\* A retained incident is either at the Hub as the ring has it, or still
\* pending as the ring has it, unless its newest record was dropped or
\* reloaded: no late answer, no lost one and no eviction of another makes the
\* exporter forget a change (LatestTable::acknowledge).
HubNeverBehind ==
    "hub" \in sinks /\ table.supported =>
        \A i \in DOMAIN ring :
            LET r == ring[i]
            IN  \/ r.id \in waived
                \/ r.id \in DOMAIN hub /\ hub[r.id] = r
                \/ r.id \in Pending(table) /\ table.entries[r.id].value = r

\* Every pending incident has its own place in the queue: one without would
\* neither be sent nor be evicted (snapshot_by_order, evict_by_order).  Once
\* the Hub turned out to have no route the table stays empty, although
\* changes keep coming (mark_unsupported).
PendingInQueue == InQueue(table) /\ EmptyWithoutRoute(table)

\* While a record is retained, its rows are never lost and its end, once set,
\* never changes: neither a repost, a close nor a later capture degrades the
\* first one (record_then, close_then, merge_then).
FirstCaptureKept ==
    [][\A i \in DOMAIN ring, j \in DOMAIN ring' :
          starts' = starts /\ ring[i].id = ring'[j].id =>
              /\ ring[i].found \subseteq ring'[j].found
              /\ ring[i].ended # NoEnd => ring'[j].ended = ring[i].ended]_vars

\* A stop that joined the writer leaves nothing behind: what was handed over
\* is in the file, and the file reloads as the last ring
\* (open_incident_archive: "a record handed over is owed to the file").
StopLeavesNothing ==
    phase = "stopped" =>
        /\ channel = <<>>
        /\ "archive" \in sinks /\ ~gap => Replay(file, retained) = ring

\* The daemon's stop ends: the wait for the incident archive is for "a local
\* write that will not" expire (run, after the event loop).
ShutdownEnds == phase = "flushing" ~> phase \in {"stopped", "crashed"}
=============================================================================
