------------------------------- MODULE Rollup -------------------------------
(***************************************************************************)
(* The daily rollups beside the window archive (daemon/rollup_writer.rs,   *)
(* report/periodic/rollup.rs): the writer folds every window into the day  *)
(* it falls on, closes a day as one chained line of that month's file,     *)
(* keeps the days the directory refuses, and overwrites a snapshot of the  *)
(* open day every few windows so that a crash costs no more than those.    *)
(* Everything runs on the archive's writer thread; the writer and its      *)
(* files are one record here and an operation is a function of it.  At the *)
(* end, what the disclosure reader makes of the lines                      *)
(* (report/periodic/aggregator.rs).                                        *)
(*                                                                         *)
(* A window is its timestamp, a day the set of the windows folded into it: *)
(* its ts and last_ts are the least and the greatest of them.  A line's    *)
(* hash is the set it folds.  An append that fails may leave a part of its *)
(* line, or all of it, or a part cut inside a character, which is no text. *)
(* A part that is text is ended by the next append and skipped by every    *)
(* reader: no more than the file it made is kept.                          *)
(***************************************************************************)
EXTENDS Naturals, Sequences, SequencesExt, FiniteSets, FiniteSetsExt, Functions

CONSTANTS SnapshotEvery,   \* SNAPSHOT_EVERY
          MaxPendingDays,  \* MAX_PENDING
          RetentionDays,   \* rollup_retention_days
          DayLength        \* bound: timestamps of a day; a month is one day

ASSUME RollupAssumption ==
    /\ SnapshotEvery \in Nat \ {0}
    /\ MaxPendingDays \in Nat \ {0}
    /\ RetentionDays \in Nat \ {0}
    /\ DayLength \in Nat \ {0}

DayOf(ts) == (ts - 1) \div DayLength

\* The windows of a set all fall on one day.
DayOfSet(day) == DayOf(Min(day))
MonthOf(day)  == day
LastDay(month) == month

Chain0 == [prev |-> {}, seq |-> 0]   \* ARCHIVE_CHAIN_SEED

NoMonths == [m \in {} |-> <<>>]

\* The writer, and its files: the months, in those that hold a line that is no
\* text how many lines precede it, and the snapshot.  History: appends that
\* failed and left their whole line, together with starts that resumed before
\* the last line; and the windows of those lines.
NewRollup ==
    [open |-> {}, since |-> 0, pending |-> <<>>, chain |-> Chain0,
     months |-> NoMonths, torn |-> NoMonths, partial |-> {},
     faults |-> 0, left |-> {}]

\* What a process that ends leaves: its files.
Forget(r) == [r EXCEPT !.open = {}, !.since = 0, !.pending = <<>>, !.chain = Chain0]

IsDay(day, Stamps) ==
    day # {} /\ day \subseteq Stamps /\ \A ts \in day : DayOf(ts) = DayOfSet(day)

IsRollup(r, Stamps) ==
    /\ r.open = {} \/ IsDay(r.open, Stamps)
    /\ r.partial = {} \/ IsDay(r.partial, Stamps)
    /\ r.since \in 0..(SnapshotEvery - 1)
    /\ Len(r.pending) <= MaxPendingDays
    /\ \A i \in DOMAIN r.pending : IsDay(r.pending[i], Stamps)
    /\ \A m \in DOMAIN r.months : \A i \in DOMAIN r.months[m] :
          /\ IsDay(r.months[m][i].windows, Stamps)
          /\ r.months[m][i].seq \in Nat /\ r.months[m][i].drops \in Nat
    /\ DOMAIN r.torn \subseteq DOMAIN r.months
    /\ \A m \in DOMAIN r.torn : r.torn[m] \in 0..Len(r.months[m])
    /\ r.faults \in Nat
    /\ r.left \subseteq Stamps

\* What the files of the months before n hold, in the order of their names,
\* which is the order of the months.
Reading(months, n) ==
    LET read[m \in 0..n] ==
            IF m = 0 THEN <<>>
            ELSE IF m - 1 \in DOMAIN months THEN read[m - 1] \o months[m - 1]
            ELSE read[m - 1]
    IN  read

Span(months) == Max({0} \cup DOMAIN months) + 1

Lines(months) == Reading(months, Span(months))[Span(months)]

-----------------------------------------------------------------------------
(* Appending.                                                              *)

\* Mutant: a line goes to the file of its own month.
OwnMonth(months, day) == MonthOf(day)

\* target_path: never behind the newest month on disk.
TargetMonth(months, day) == Max({MonthOf(day)} \cup DOMAIN months)

LinesIn(months, month) == IF month \in DOMAIN months THEN months[month] ELSE <<>>

\* open_append creates the file when there is none.
OpenMonth(months, month) ==
    [m \in DOMAIN months \cup {month} |-> LinesIn(months, m)]

FileFor(r, day) == TargetMonth(r.months, DayOfSet(day))

WriteLine(r, day, drops) ==
    LET month == FileFor(r, day)
        line  == [windows |-> day, prev |-> r.chain.prev, seq |-> r.chain.seq,
                  drops |-> drops]
    IN  [r EXCEPT !.months = [m \in DOMAIN @ \cup {month} |->
                                 IF m = month THEN Append(LinesIn(@, m), line)
                                 ELSE @[m]]]

AppendLine(r, day, drops) ==
    [WriteLine(r, day, drops) EXCEPT
        !.chain = [prev |-> day, seq |-> r.chain.seq + 1]]

\* Nothing is read past the first line that is no text.
Tear(r, month) ==
    [r EXCEPT !.months = OpenMonth(@, month),
              !.torn = IF month \in DOMAIN @ THEN @
                       ELSE [m \in DOMAIN @ \cup {month} |->
                                IF m = month THEN Len(LinesIn(r.months, m)) ELSE @[m]]]

\* write_sealed fails: the directory does not open the file, or what landed is
\* cut back, or, when that fails too, sealed, a whole line as well as a part.
\* The chain stays where it was, for the day to be appended again.
FailAppend(r, day, drops, left) ==
    CASE left = "fragment" -> [r EXCEPT !.months = OpenMonth(@, FileFor(r, day))]
      [] left = "torn"     -> Tear(r, FileFor(r, day))
      [] left = "line"     -> [WriteLine(r, day, drops) EXCEPT
                                  !.faults = @ + 1, !.left = @ \cup day]
      [] OTHER             -> r

\* How a call's appends go, `take`: so many lines are written, and if there
\* was one more, that append fails and leaves something.
Leftover == {"nothing", "fragment", "torn", "line"}
Takes(rooms, leftover) == [room : rooms, left : leftover]

\* The days that wait go out in order, until an append fails.
Flushing(r, drops) ==
    LET flushed[n \in 0..Len(r.pending)] ==
            IF n = 0 THEN r ELSE AppendLine(flushed[n - 1], r.pending[n], drops)
    IN  flushed

Flushed(r, drops, n) ==
    [r EXCEPT !.months = Flushing(r, drops)[n].months,
              !.chain = Flushing(r, drops)[n].chain,
              !.pending = SubSeq(@, n + 1, Len(@))]

FlushPending(r, drops, take) ==
    IF take.room >= Len(r.pending) THEN Flushed(r, drops, Len(r.pending))
    ELSE FailAppend(Flushed(r, drops, take.room), r.pending[take.room + 1],
                    drops, take.left)

\* The pending days and one more, which behind a refused day waits too.
AppendDay(r, day, drops, take) ==
    LET flushed == FlushPending(r, drops, take)
    IN  CASE take.room > Len(r.pending) -> AppendLine(flushed, day, drops)
          [] take.room = Len(r.pending) -> FailAppend(flushed, day, drops, take.left)
          [] OTHER                      -> flushed

\* Two months of days, then the oldest goes.
KeepPending(r, day) ==
    [r EXCEPT !.pending =
        Append(IF Len(@) >= MaxPendingDays THEN Tail(@) ELSE @, day)]

\* A month leaves when its last day is past retention.
Prune(r, reference) ==
    LET stays(m) == LastDay(m) + RetentionDays >= reference
    IN  [r EXCEPT !.months = Restrict(@, {m \in DOMAIN @ : stays(m)}),
                  !.torn = Restrict(@, {m \in DOMAIN @ : stays(m)})]

Close(r, day, drops, take, today) ==
    LET appended == AppendDay(r, day, drops, take)
    IN  Prune(IF take.room > Len(r.pending) THEN appended
              ELSE KeepPending(appended, day),
              Min({DayOfSet(day), today}))

-----------------------------------------------------------------------------
(* The writer's calls.                                                     *)

Closes(r, ts) == r.open # {} /\ DayOfSet(r.open) # DayOf(ts)

\* DayAccumulator::observe and close: a window of another day, earlier or
\* later, closes the open one.
FoldWindow(r, ts, drops, take) ==
    IF Closes(r, ts)
    THEN Close([r EXCEPT !.open = {ts}], r.open, drops, take, DayOf(ts))
    ELSE [r EXCEPT !.open = @ \cup {ts}]

\* Mutant: one window more.
SnapshotLate(r, saved) ==
    IF r.since < SnapshotEvery THEN [r EXCEPT !.since = @ + 1]
    ELSE [r EXCEPT !.since = 0, !.partial = IF saved THEN r.open ELSE @]

\* A temporary file renamed over the old snapshot: the whole or nothing.
Snapshot(r, saved) ==
    IF r.since + 1 < SnapshotEvery THEN [r EXCEPT !.since = @ + 1]
    ELSE [r EXCEPT !.since = 0, !.partial = IF saved THEN r.open ELSE @]

Observe(r, ts, drops, take, saved) ==
    Snapshot(FoldWindow(r, ts, drops, take), saved)

AppendOpen(r, drops, take) ==
    IF r.open = {} THEN FlushPending(r, drops, take)
    ELSE AppendDay(r, r.open, drops, take)

\* A graceful stop: the day so far becomes a line and the snapshot goes; a
\* day the directory refuses becomes the snapshot.
Shutdown(r, drops, take, saved) ==
    LET appended == AppendOpen(r, drops, take)
        refused  == r.open # {} /\ take.room <= Len(r.pending)
        closed   == IF r.open = {} \/ refused THEN appended
                    ELSE Prune(appended, DayOfSet(r.open))
        partial  == IF refused THEN r.open ELSE {}
    IN  Forget(IF saved THEN [closed EXCEPT !.partial = partial] ELSE closed)

\* Of each file, what precedes the first line that is no text.
Legible(r) ==
    [m \in DOMAIN r.months |-> IF m \in DOMAIN r.torn
                               THEN SubSeq(r.months[m], 1, r.torn[m])
                               ELSE r.months[m]]

ChainAfter(lines) ==
    IF lines = <<>> THEN Chain0
    ELSE [prev |-> Last(lines).windows, seq |-> Last(lines).seq + 1]

\* resume: the last line that is read, whichever month holds it.
ResumeChain(r) == ChainAfter(Lines(Legible(r)))

\* Mutant: a snapshot is taken for the only copy of its windows.
SnapshotAnew(r) == r.partial # {}

\* A snapshot whose first window begins a line is in that line.
SnapshotIsOnlyCopy(r) ==
    /\ r.partial # {}
    /\ \A i \in DOMAIN Lines(Legible(r)) :
          Min(Lines(Legible(r))[i].windows) # Min(r.partial)

Resumed(r) ==
    [Forget(r) EXCEPT
        !.chain = ResumeChain(r),
        !.faults = @ + (IF ResumeChain(r) = ChainAfter(Lines(r.months)) THEN 0 ELSE 1)]

\* open: the snapshot is appended, or kept to retry when that fails, or
\* dropped when a line holds it already.
Open(r, drops, take, saved) ==
    LET resumed == Resumed(r)
        removed(q) == IF saved THEN [q EXCEPT !.partial = {}] ELSE q
    IN  IF ~SnapshotIsOnlyCopy(r) THEN removed(resumed)
        ELSE IF take.room > 0 THEN removed(AppendLine(resumed, r.partial, drops))
        ELSE KeepPending(FailAppend(resumed, r.partial, drops, take.left), r.partial)

-----------------------------------------------------------------------------
(* The disclosure reader.                                                  *)

\* The chain runs across the months; the oldest line left is a start.
BreaksIn(lines) ==
    {i \in 2..Len(lines) : \/ lines[i].prev # lines[i - 1].windows
                           \/ lines[i].seq # lines[i - 1].seq + 1}

RollupBreaks(months) == Cardinality(BreaksIn(Lines(months)))

LinesOfDays(months, days) ==
    SelectSeq(Lines(months), LAMBDA line : DayOfSet(line.windows) \in days)

\* A window between the first and the last window of a line that was read.
Covers(line, ts) == Min(line.windows) <= ts /\ ts <= Max(line.windows)
Covered(lines, ts) == \E i \in DOMAIN lines : Covers(lines[i], ts)

\* Mutant: a restart's count is taken for the loss of both lives.
FoldDropsTwice(state, drops) ==
    [last |-> drops,
     loss |-> state.loss + (IF drops < state.last THEN drops + state.last
                            ELSE drops - state.last)]

\* fold_drops: the difference between two lines is the loss between them; a
\* smaller count is a restart and counts from nothing.
FoldDrops(state, drops) ==
    [last |-> drops,
     loss |-> state.loss + (IF drops < state.last THEN drops ELSE drops - state.last)]

\* The lines of one family, one after the other; the first is the baseline.
Losing(counts) ==
    LET state[n \in 0..Len(counts)] ==
            IF n = 0 THEN [last |-> Head(counts), loss |-> 0]
            ELSE FoldDrops(state[n - 1], counts[n])
    IN  state

\* The loss that they publish.
ReportedLoss(counts) ==
    IF counts = <<>> THEN 0 ELSE Losing(counts)[Len(counts)].loss
=============================================================================
