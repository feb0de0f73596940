---------------------------- MODULE FindingsStore ----------------------------
(***************************************************************************)
(* The ring of recent findings (daemon/findings_store.rs): every detection *)
(* of every trace, oldest out first, folded by signature when it is read,  *)
(* and the fold of one window that an incident freezes and later merges    *)
(* (freeze_window in daemon/query_api/mod.rs, merge_then in                *)
(* daemon/incidents.rs).  The ring is a sequence of findings with the time *)
(* they were stored; a fold is a function from signatures to rows.         *)
(*                                                                         *)
(* A finding's signature is its type, its service and its template: the    *)
(* endpoint is fixed by these here.  Severities are ranks, 1 the worst.    *)
(* The cap of the listing (MAX_FINDINGS_LIMIT) is left out.                *)
(***************************************************************************)
EXTENDS Naturals, Sequences, SequencesExt, FiniteSets, FiniteSetsExt, Functions

CONSTANT MaxRetainedFindings   \* [daemon] max_retained_findings

ASSUME FindingsAssumption == MaxRetainedFindings \in Nat

Signature(f) == [type |-> f.type, service |-> f.service, template |-> f.template]

\* The last n entries of a ring.
Newest(ring, n) ==
    SubSeq(ring, IF Len(ring) > n THEN Len(ring) - n + 1 ELSE 1, Len(ring))

\* push_batch: a batch under one stamp, then the oldest out.
PushBatch(ring, findings, now) ==
    IF MaxRetainedFindings = 0 THEN ring
    ELSE LET stored == [i \in DOMAIN findings |-> [finding |-> findings[i], at |-> now]]
         IN  Newest(ring \o stored, MaxRetainedFindings)

\* The stamp of the front, 0 of an empty ring.
OldestStamp(ring) == IF ring = <<>> THEN 0 ELSE ring[1].at

NoRows == [sig \in {} |-> 0]

\* The instance a row stands for: the worst, the newest of these.
Representative(ring, group) ==
    LET worst == Min({ring[i].finding.severity : i \in group})
    IN  ring[Max({i \in group : ring[i].finding.severity = worst})].finding

\* query_coalesced over a window [from, to] of a service: both bounds screen
\* the instances before the fold.
Coalesce(ring, service, from, to) ==
    LET inWindow == {i \in DOMAIN ring :
                       ring[i].at \in from..to /\ ring[i].finding.service = service}
        Group(sig) == {i \in inWindow : Signature(ring[i].finding) = sig}
    IN  [sig \in {Signature(ring[i].finding) : i \in inWindow} |->
            [rep |-> Representative(ring, Group(sig)),
             seen |-> Cardinality(Group(sig)),
             first |-> Min({ring[i].at : i \in Group(sig)}),
             last |-> Max({ring[i].at : i \in Group(sig)})]]

\* What a row gains from a later one of its signature.
MergeRow(row, later) ==
    [rep |-> IF later.rep.severity < row.rep.severity THEN later.rep ELSE row.rep,
     seen |-> Max({row.seen, later.seen}),
     first |-> Min({row.first, later.first}),
     last |-> Max({row.last, later.last})]

\* Mutant: the later fold replaces the earlier one.
LaterFold(into, later) == later

\* merge_folded: a row the later fold lost is kept, one it alone has is added.
MergeFolded(into, later) ==
    [sig \in DOMAIN into \cup DOMAIN later |->
        CASE sig \notin DOMAIN later -> into[sig]
          [] sig \notin DOMAIN into  -> later[sig]
          [] OTHER -> MergeRow(into[sig], later[sig])]

\* freeze_window: the fold and the ring's oldest stamp, in one read.
FreezeWindow(ring, service, from, to) ==
    [service |-> service, from |-> from, to |-> to,
     oldest |-> OldestStamp(ring), rows |-> Coalesce(ring, service, from, to)]

\* merge_then, with what a later freeze of the same window returned.
MergeCapture(capture, later) ==
    [capture EXCEPT !.rows = MergeFolded(@, later.rows),
                    !.oldest = IF @ = 0 \/ later.oldest = 0 THEN Max({@, later.oldest})
                               ELSE Min({@, later.oldest})]

--------------------------------------------------------------------------
(* What a capture promises.  stored is every finding ever stored, oldest   *)
(* first; kept are the lengths it had when the capture was frozen, and     *)
(* merged.                                                                 *)

\* What the ring held when stored had this length.
RingAt(stored, length) == Newest(SubSeq(stored, 1, length), MaxRetainedFindings)

InWindow(capture, entry) ==
    entry.at \in capture.from..capture.to /\ entry.finding.service = capture.service

\* Everything of the window that the ring held at either read.
Witnessed(capture, stored, kept) ==
    UNION {{e \in Range(RingAt(stored, n)) : InWindow(capture, e)} : n \in kept}

\* The capture has a row for everything it witnessed, as bad as the worst of
\* it, and dated by it; and if the ring still reached below the window when it
\* was frozen, that is everything stored for the window until then.
CaptureIsTrue(capture, stored, kept) ==
    LET seen == Witnessed(capture, stored, kept)
        Of(sig) == {e \in seen : Signature(e.finding) = sig}
    IN  /\ DOMAIN capture.rows = {Signature(e.finding) : e \in seen}
        /\ \A sig \in DOMAIN capture.rows :
              LET row == capture.rows[sig]
              IN  /\ row.rep.severity = Min({e.finding.severity : e \in Of(sig)})
                  /\ row.rep \in {e.finding : e \in Of(sig)}
                  /\ row.first = Min({e.at : e \in Of(sig)})
                  /\ row.last = Max({e.at : e \in Of(sig)})
        /\ capture.oldest # 0 /\ capture.oldest < capture.from =>
              {e \in Range(SubSeq(stored, 1, Min(kept))) : InWindow(capture, e)} \subseteq seen
=============================================================================
