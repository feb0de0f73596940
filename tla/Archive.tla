------------------------------ MODULE Archive -------------------------------
(***************************************************************************)
(* The window archive (daemon/archive.rs): the analysis side offers each   *)
(* window to a bounded channel; one writer thread folds it into the daily  *)
(* rollups (Rollup) and appends it to a file as a line chained to its      *)
(* predecessor by hash and sequence number, rotates the file when it is    *)
(* full and prunes old rotations.  Writes fail half-way, rotation fails at *)
(* each of its steps, the directory refuses rollups, the process stops or  *)
(* dies and starts again on what it left.  At the end, the disclosure      *)
(* reader's verdict on the files (report/periodic/aggregator.rs).          *)
(*                                                                         *)
(* A window is its timestamp and a line's hash the timestamp of its        *)
(* window.  A file is the sequence of the pieces written to it, each a     *)
(* whole line or a part of one; a piece that has not ended runs into the   *)
(* next.  Sizes are counted in pieces.                                     *)
(***************************************************************************)
EXTENDS Rollup

CONSTANTS ChannelCapacity,
          CapLines,      \* cap_bytes; rotation is on
          MaxFiles,      \* rotated files kept
          Setups,        \* what may fail, what an append to the rollups that
                         \* fails may leave, and [daemon.archive] windows;
                         \* bounds: days a behaviour lasts, windows produced
          MaxStarts      \* bound: starts of the daemon

\* The write of a window fails, and cutting the file back after it, and sealing
\* the part; renaming the full file, creating the next, listing the directory
\* for pruning; "torn": a line is cut inside a character of several bytes; the
\* snapshot of the rollups is refused; "clock": it steps back.
FaultKinds == {"write", "truncate", "seal", "rename", "create", "prune", "torn",
               "snapshot", "clock"}

ASSUME ArchiveAssumption ==
    /\ ChannelCapacity \in Nat \ {0}
    /\ CapLines \in Nat \ {0}
    /\ MaxFiles \in Nat
    /\ \A s \in Setups : /\ s.faults \subseteq FaultKinds
                          /\ s.rollups \subseteq Leftover
                          /\ s.windows \in BOOLEAN
                          /\ s.days \in Nat \ {0} /\ s.most \in Nat
    /\ MaxStarts \in Nat \ {0}

VARIABLES setup,     \* one of the Setups
          produced,  \* windows the analysis side has offered
          channel,   \* windows on their way to the writer
          disk,      \* every file ever created, in order of creation
          pruned,    \* those the daemon has deleted
          atPath,    \* the file at the archive's path, NoFile after a rotation
                     \* that could not create it
          fd,        \* the file the writer has open
          readable,  \* it was opened for reading as well, as a start does and
                     \* a rotation does not
          counted,   \* bytes_written
          prev, seq, \* the chain head
          rollup,    \* the rollup writer and its files
          drops,     \* archive_drops_total of this process
          running,
          starts,
          lost,      \* history: the drops counted by every process
          written,   \* history: windows whose write succeeded, each with the
                     \* file it went to
          damaged    \* history: files with a fault the writer did not mend: a
                     \* rotation that failed after it opened them, a failed
                     \* line neither cut back nor sealed, or left whole, or
                     \* torn

vars == <<setup, produced, channel, disk, pruned, atPath, fd, readable, counted,
          prev, seq, rollup, drops, running, starts, lost, written, damaged>>

files == <<disk, pruned, atPath, fd, readable, counted, prev, seq, written, damaged>>

CanFail(kind) == kind \in setup.faults

-----------------------------------------------------------------------------
Seed   == 0   \* ARCHIVE_CHAIN_SEED
NoFile == 0

Part == [what |-> "part", ended |-> FALSE]
Torn == [what |-> "torn", ended |-> FALSE]
Unended(w) == [what |-> "line", window |-> w, prev |-> prev, seq |-> seq,
               drops |-> drops, ended |-> FALSE]

Ended(piece) == [piece EXCEPT !.ended = TRUE]

\* A line of its own: nothing runs into it, and it runs into nothing.
Stands(pieces, i) ==
    /\ pieces[i].what = "line"
    /\ i > 1 => pieces[i - 1].ended
    /\ i < Len(pieces) => pieces[i].ended

\* The lines among the first pieces of a file, however many.  A torn piece is
\* none of them; whether a reader gets past it is the reader's affair.
Gathering(pieces) ==
    LET gathered[n \in 0..Len(pieces)] ==
            IF n = 0 THEN <<>>
            ELSE IF Stands(pieces, n) THEN Append(gathered[n - 1], pieces[n])
            ELSE gathered[n - 1]
    IN  gathered

LinesUpTo(pieces, n) == Gathering(pieces)[n]

LinesOf(pieces) == LinesUpTo(pieces, Len(pieces))

Head0 == [prev |-> Seed, seq |-> 0]

HeadAfter(lines) ==
    IF lines = <<>> THEN Head0
    ELSE [prev |-> Last(lines).window, seq |-> Last(lines).seq + 1]

\* Mutant: every start opens a fresh chain.
ResumeFromSeed(pieces) == Head0

\* resume_chain: the last chained line is the head, but nothing is read past
\* the first line that is not UTF-8.
Resume(pieces) ==
    LET torn == {i \in DOMAIN pieces : pieces[i].what = "torn"}
    IN HeadAfter(LinesUpTo(pieces, IF torn = {} THEN Len(pieces)
                                   ELSE Min(torn) - 1))

Init ==
    /\ setup \in Setups
    /\ produced = {}
    /\ channel = <<>>
    /\ disk = << <<>> >>
    /\ pruned = {}
    /\ atPath = 1 /\ fd = 1 /\ readable = TRUE
    /\ counted = 0
    /\ prev = Seed /\ seq = 0
    /\ rollup = NewRollup
    /\ drops = 0 /\ lost = 0
    /\ running = TRUE
    /\ starts = 1
    /\ written = {}
    /\ damaged = {}

Stamps == 1..(DayLength * setup.days)

\* The clock at the next window: a moment later, after midnight, or, when it
\* steps back, earlier.
NextStamps ==
    LET now == Max(produced \cup {0})
    IN  (Stamps \cap {now + 1, DayLength * (DayOf(now + DayLength)) + 1})
            \cup (IF CanFail("clock") THEN (1..now) \ produced ELSE {})

\* try_send: a full channel drops the window.
Produce ==
    /\ running
    /\ Cardinality(produced) < setup.most
    /\ \E ts \in NextStamps :
          /\ produced' = produced \cup {ts}
          /\ IF Len(channel) < ChannelCapacity
             THEN channel' = Append(channel, ts) /\ UNCHANGED <<drops, lost>>
             ELSE /\ drops' = drops + 1 /\ lost' = lost + 1
                  /\ UNCHANGED channel
    /\ UNCHANGED <<setup, files, rollup, running, starts>>

-----------------------------------------------------------------------------
(* Rotation, on the files the write has just left.                         *)

\* Mutant: the oldest files stay and the active one is not skipped.
SurplusNewest(now, active) ==
    LET older(f) == {g \in (1..Len(now) + 1) \ pruned : g < f}
    IN {f \in (1..Len(now) + 1) \ pruned : Cardinality(older(f)) > MaxFiles}

\* The newest rotations stay.
Surplus(now, active) ==
    LET rotations == (1..Len(now)) \ (pruned \cup {active})
        newer(f)  == {g \in rotations : g > f}
    IN {f \in rotations : Cardinality(newer(f)) >= MaxFiles}

\* Err: "continuing on current file".
KeepHead(w) ==
    /\ counted' = counted + 1
    /\ prev' = w
    /\ seq' = seq + 1

\* A file not at the path cannot be renamed away from it.
RenameFails(now, w) ==
    /\ atPath = NoFile \/ CanFail("rename")
    /\ disk' = now
    /\ UNCHANGED <<atPath, fd, readable, pruned, damaged>>
    /\ KeepHead(w)

\* The file has its new name and the path stays empty; the writer still has
\* the renamed file open.
CreateFails(now, w) ==
    /\ atPath # NoFile /\ CanFail("create")
    /\ disk' = now
    /\ atPath' = NoFile
    /\ UNCHANGED <<fd, readable, pruned, damaged>>
    /\ KeepHead(w)

OpenFresh(now) ==
    /\ atPath # NoFile
    /\ disk' = Append(now, <<>>)
    /\ atPath' = Len(now) + 1
    /\ fd' = Len(now) + 1
    /\ readable' = FALSE

\* The fresh file is in place when listing the directory fails.
PruneFails(now, w) ==
    /\ CanFail("prune")
    /\ OpenFresh(now)
    /\ damaged' = damaged \cup {fd'}
    /\ UNCHANGED pruned
    /\ KeepHead(w)

Rotates(now, w) ==
    /\ OpenFresh(now)
    /\ pruned' = pruned \cup Surplus(now, Len(now) + 1)
    /\ UNCHANGED damaged
    /\ counted' = 0
    /\ prev' = Seed
    /\ seq' = 0

-----------------------------------------------------------------------------
(* The writer.                                                             *)

\* How a call's appends to the rollups go, and whether a snapshot is saved.
Appends ==
    LET all == Len(rollup.pending) + 1
    IN  Takes({all}, {"nothing"}) \cup Takes(0..(all - 1), setup.rollups)
Saved == IF CanFail("snapshot") THEN BOOLEAN ELSE {TRUE}

RollupsObserve(ts) ==
    \E take \in Appends, saved \in Saved :
        rollup' = Observe(rollup, ts, drops, take, saved)

\* The rollups see the window first, and without windows nothing else does.
RollUpOnly ==
    /\ running /\ ~setup.windows
    /\ channel # <<>>
    /\ RollupsObserve(Head(channel))
    /\ channel' = Tail(channel)
    /\ UNCHANGED <<setup, produced, files, drops, running, starts, lost>>

WriteWindow ==
    /\ running /\ setup.windows
    /\ channel # <<>>
    /\ RollupsObserve(Head(channel))
    /\ channel' = Tail(channel)
    /\ LET w   == Head(channel)
           now == [disk EXCEPT ![fd] = Append(@, Ended(Unended(w)))]
       IN /\ written' = written \cup {<<w, fd>>}
          /\ IF counted + 1 < CapLines
             THEN /\ disk' = now
                  /\ KeepHead(w)
                  /\ UNCHANGED <<atPath, fd, readable, pruned, damaged>>
             ELSE \/ RenameFails(now, w)
                  \/ CreateFails(now, w)
                  \/ PruneFails(now, w)
                  \/ Rotates(now, w)
    /\ UNCHANGED <<setup, produced, drops, running, starts, lost>>

\* What a line that was not written to its end leaves.
Leftovers(w) ==
    {<<>>, <<Part>>, <<Unended(w)>>}
        \cup (IF CanFail("torn") THEN {<<Torn>>} ELSE {})

\* set_len: a count past the end fills the file up with zeroes.
CutTo(pieces, n) ==
    IF n <= Len(pieces) THEN SubSeq(pieces, 1, n)
    ELSE pieces \o [i \in 1..(n - Len(pieces)) |-> Part]

\* terminate_incomplete_line.
Terminated(pieces) ==
    IF pieces = <<>> THEN pieces
    ELSE Append(Front(pieces), Ended(Last(pieces)))

\* Mutant: the count stays at the last complete window.
KeepCount(pieces) == counted

\* After a truncation that failed the count is what the file holds.
Recount(pieces) == Len(pieces)

CutBack(pieces) ==
    /\ disk' = [disk EXCEPT ![fd] = CutTo(pieces, counted)]
    /\ UNCHANGED <<counted, damaged>>

\* Sealing reads the last byte first, which the handle of a rotation refuses.
SealInstead(pieces, left) ==
    /\ CanFail("truncate")
    /\ \E sealed \in BOOLEAN :
          /\ IF sealed THEN readable ELSE ~readable \/ CanFail("seal")
          /\ disk' = [disk EXCEPT ![fd] = IF sealed THEN Terminated(pieces) ELSE pieces]
          /\ damaged' = IF left = <<>> \/ (sealed /\ left = <<Part>>)
                        THEN damaged ELSE damaged \cup {fd}
    /\ counted' = Recount(pieces)

\* The window is dropped and the file cut back to the last complete one, or,
\* when that fails too, what is left of the line sealed.
WriteFails ==
    /\ running /\ setup.windows
    /\ channel # <<>>
    /\ CanFail("write")
    /\ RollupsObserve(Head(channel))
    /\ channel' = Tail(channel)
    /\ drops' = drops + 1 /\ lost' = lost + 1
    /\ \E left \in Leftovers(Head(channel)) :
          \/ CutBack(disk[fd] \o left)
          \/ SealInstead(disk[fd] \o left, left)
    /\ UNCHANGED <<setup, produced, pruned, atPath, fd, readable, prev, seq,
                   running, starts, written>>

\* Every sender is gone and the channel drained: the rollups close the day.
Stop ==
    /\ running
    /\ channel = <<>>
    /\ running' = FALSE
    /\ \E take \in Appends, saved \in Saved :
          rollup' = Shutdown(rollup, drops, take, saved)
    /\ drops' = 0
    /\ UNCHANGED <<setup, produced, channel, files, starts, lost>>

\* Between two appends of a call, or in the middle of one.
CutShort ==
    Takes(0..Len(rollup.pending) + 1,
          {"nothing", "fragment"} \cup (setup.rollups \cap {"torn"}))

\* Between two windows, or while the rollups close the day for a window or for
\* the stop, or after that, with the snapshot not taken yet.
DiesInRollups ==
    /\ \/ rollup' = Forget(rollup)
       \/ /\ channel # <<>> => Closes(rollup, Head(channel))
          /\ \E take \in CutShort :
                rollup' = Forget(AppendOpen(rollup, drops, take))
       \/ /\ channel # <<>>
          /\ \E take \in Appends :
                rollup' = Forget(FoldWindow(rollup, Head(channel), drops, take))
    /\ UNCHANGED <<disk, damaged>>

\* After the rollups, maybe in the middle of the line.
DiesInWrite ==
    /\ channel # <<>>
    /\ \E take \in Appends, saved \in Saved :
          rollup' = Forget(Observe(rollup, Head(channel), drops, take, saved))
    /\ \E left \in IF setup.windows THEN Leftovers(Head(channel)) ELSE {<<>>} :
          /\ disk' = [disk EXCEPT ![fd] = @ \o left]
          /\ damaged' = IF left = <<Torn>> THEN damaged \cup {fd} ELSE damaged

Crash ==
    /\ running
    /\ running' = FALSE
    /\ channel' = <<>>
    /\ drops' = 0
    /\ DiesInRollups \/ DiesInWrite
    /\ UNCHANGED <<setup, produced, pruned, atPath, fd, readable, counted, prev,
                   seq, starts, lost, written>>

\* spawn: the file at the path, created when there is none, its last line
\* terminated, the chain resumed from what it holds; then the rollups.
Restart ==
    /\ ~running
    /\ starts < MaxStarts
    /\ starts' = starts + 1
    /\ running' = TRUE
    /\ \E take \in Appends, saved \in Saved :
          rollup' = Open(rollup, drops, take, saved)
    /\ IF setup.windows
       THEN /\ disk' = IF atPath = NoFile THEN Append(disk, <<>>)
                       ELSE [disk EXCEPT ![atPath] = Terminated(@)]
            /\ atPath' = IF atPath = NoFile THEN Len(disk) + 1 ELSE atPath
            /\ fd' = atPath' /\ readable' = TRUE
            /\ counted' = Len(disk'[fd'])
            /\ prev' = Resume(disk'[fd']).prev
            /\ seq' = Resume(disk'[fd']).seq
            /\ UNCHANGED <<pruned, written, damaged>>
       ELSE UNCHANGED files
    /\ UNCHANGED <<setup, produced, channel, drops, lost>>

Next == \/ Produce \/ RollUpOnly \/ WriteWindow \/ WriteFails
        \/ Stop \/ Crash \/ Restart

Spec == Init /\ [][Next]_vars

-----------------------------------------------------------------------------
(* The reader.                                                             *)

\* A line that is no text ends the reading of its file, and the disclosure
\* with it.
IsText(pieces) == \A i \in DOMAIN pieces : pieces[i].what # "torn"

\* aggregate_from_paths returns what it read: no file it was given stops it.
Discloses ==
    /\ \A f \in DOMAIN disk \ pruned : IsText(disk[f])
    /\ DOMAIN rollup.torn = {}

\* walk_chain_line on a line the daemon wrote: it is held against the anchor,
\* and either way becomes the next one.  What is no JSON is passed over.
WalkLine(state, line) ==
    [prev   |-> line.window,
     seq    |-> line.seq + 1,
     breaks |-> state.breaks
                  + (IF line.prev = state.prev /\ line.seq = state.seq
                     THEN 0 ELSE 1)]

\* process_file: the walk starts from the seed.
Walking(lines) ==
    LET walked[n \in 0..Len(lines)] ==
            IF n = 0 THEN [prev |-> Seed, seq |-> 0, breaks |-> 0]
            ELSE WalkLine(walked[n - 1], lines[n])
    IN  walked

Breaks(pieces) ==
    LET lines == LinesOf(pieces) IN Walking(lines)[Len(lines)].breaks

-----------------------------------------------------------------------------
(* Properties.                                                             *)

Pieces ==
    [what : {"line"}, window : Stamps, prev : Stamps \cup {Seed},
     seq : 0..setup.most, drops : 0..setup.most, ended : BOOLEAN]
        \cup [what : {"part", "torn"}, ended : BOOLEAN]

TypeOK ==
    /\ setup \in Setups
    /\ produced \subseteq Stamps /\ Cardinality(produced) <= setup.most
    /\ channel \in Seq(Stamps) /\ Len(channel) <= ChannelCapacity
    /\ disk \in Seq(Seq(Pieces))
    /\ pruned \subseteq DOMAIN disk
    /\ atPath \in {NoFile} \cup DOMAIN disk
    /\ fd \in DOMAIN disk \ pruned
    /\ readable \in BOOLEAN
    /\ counted \in Nat
    /\ prev \in Stamps \cup {Seed} /\ seq \in 0..setup.most
    /\ IsRollup(rollup, Stamps)
    /\ drops \in 0..setup.most /\ lost \in drops..setup.most
    /\ running \in BOOLEAN
    /\ starts \in 1..MaxStarts
    /\ written \subseteq Stamps \X DOMAIN disk
    /\ damaged \subseteq DOMAIN disk

\* Where a window can be read.
PlacesOf(w) ==
    UNION {{<<f, i>> : i \in {j \in DOMAIN disk[f] : /\ Stands(disk[f], j)
                                                   /\ disk[f][j].window = w}} :
             f \in DOMAIN disk}

\* No I/O error, crash or restart is published as tampering: every file the
\* daemon leaves reads to its end without a break, whatever failed and was
\* mended.
NoFalseBreak ==
    \A f \in DOMAIN disk \ damaged : IsText(disk[f]) /\ Breaks(disk[f]) = 0

\* Cutting back after a failed write never reaches into a complete window:
\* every window written stays in exactly one place of one file, whatever
\* failed and was mended since.
WindowsKept ==
    \A w \in Stamps, f \in DOMAIN disk \ damaged :
        <<w, f>> \in written => /\ Cardinality(PlacesOf(w)) = 1
                              /\ \A place \in PlacesOf(w) : place[1] = f

\* What the first n files hold when all of them can be read, in the order of
\* their names, the active one last.
ReadingFiles ==
    LET read[n \in 0..Len(disk)] ==
            IF n = 0 THEN <<>>
            ELSE IF n \in pruned THEN read[n - 1]
            ELSE read[n - 1] \o LinesOf(disk[n])
    IN  read

WindowLines == ReadingFiles[Len(disk)]

DropsOf(lines) == [i \in DOMAIN lines |-> lines[i].drops]

Periods == LET all == 0..(setup.days - 1) IN {all} \cup {{day} : day \in all}

\* How often a disclosure of these days counts a window: once per rollup line
\* that folds it, and once per window line that no rollup line covers.
TimesCounted(ts, windows, rollups) ==
    Cardinality({i \in DOMAIN rollups : ts \in rollups[i].windows})
        + (IF Covered(rollups, ts) THEN 0
           ELSE Cardinality({i \in DOMAIN windows : windows[i].window = ts}))

\* "so no window counts twice" (Builder::rollup_spans), and none that is on
\* disk is left out: whatever crashed, was refused, retried, appended from a
\* snapshot, rotated or pruned, a disclosure of a day or of all of them, when it
\* can be made, counts every window that a line holds exactly once, but for the
\* windows of a rollup line that a failed append left whole, which are appended
\* again.  The clock does not step back.
CountedOnce ==
    ~CanFail("clock") /\ Discloses =>
        LET windows == WindowLines
            rollups == Lines(rollup.months)
            onDisk  == {windows[i].window : i \in DOMAIN windows}
                         \cup UNION {rollups[i].windows : i \in DOMAIN rollups}
        IN  \A days \in Periods :
               LET read     == LinesOfDays(rollup.months, days)
                   times(ts) == TimesCounted(ts, windows, read)
               IN  \A ts \in onDisk : DayOf(ts) \in days =>
                      /\ times(ts) >= 1
                      /\ ts \notin rollup.left => times(ts) = 1

\* Closed days that wait for the directory: in memory only.
Refused == UNION Range(rollup.pending)

\* The windows folded that no rollup line and no snapshot holds.
AtRisk ==
    LET rollups == Lines(rollup.months)
    IN  (rollup.open \cup Refused)
            \ (rollup.partial \cup UNION {rollups[i].windows : i \in DOMAIN rollups})

\* "a partial snapshot so a crash costs at most SNAPSHOT_EVERY windows"
\* (rollup_writer): while the directory takes the snapshots, a crash takes
\* fewer than those from the rollups, and the refused days besides; and only
\* those while it takes the lines too.
CrashCostsLittle ==
    ~CanFail("snapshot") =>
        /\ Cardinality(AtRisk \ Refused) < SnapshotEvery
        /\ setup.rollups = {} => Cardinality(AtRisk) < SnapshotEvery

\* The rollup files read in the order of their names, across months, restarts,
\* refusals, retention and a clock that steps back: each break the reader
\* finds comes of an append that failed and left its whole line, to be written
\* again with the same predecessor, or of a start that resumed before the last
\* line, at one that is no text; none of anything else, and none more.
RollupBreaksAreFaults == RollupBreaks(rollup.months) <= rollup.faults

\* What a family of lines publishes as its loss is a lower bound of the
\* windows dropped, across queues, rotations and restarts.
LossNotOverstated ==
    Discloses =>
        /\ ReportedLoss(DropsOf(WindowLines)) <= lost
        /\ ReportedLoss(DropsOf(Lines(rollup.months))) <= lost

\* "A rotated file opens a fresh chain: the reader treats a seed-rooted first
\* line as a start, not as a break" (WindowSink::write): every file the
\* writer opens reads without a break.
FreshChainPerFile == \A f \in DOMAIN disk : Breaks(disk[f]) = 0

\* "so a restarted daemon continues instead of opening a break at every
\* restart" (resume_chain): the writer chains to the last line on disk.
RestartContinuesChain ==
    running => [prev |-> prev, seq |-> seq] = HeadAfter(LinesOf(disk[fd]))

\* "a partial snapshot so a crash costs at most SNAPSHOT_EVERY windows"
\* (rollup_writer.rs:3): all the windows folded but for so many are in
\* a line or in the snapshot.
CrashKeepsDays == ~CanFail("snapshot") => Cardinality(AtRisk) <= SnapshotEvery
==============================================================================
