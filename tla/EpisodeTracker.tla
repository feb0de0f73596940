--------------------------- MODULE EpisodeTracker ---------------------------
(***************************************************************************)
(* The episodes of correlated pairs the daemon sends to a hub              *)
(* (EpisodeTracker in daemon/hub_correlation_export.rs).  It is fed what   *)
(* the correlator reports as active each time the exporter comes round,    *)
(* opens an episode for a pair that is active, closes it when the pair has *)
(* been quiet for the gap, and remembers a closed pair so that a returning *)
(* one starts a new episode.  The tracker is a function from pairs to      *)
(* tracks here; a copy is an episode as it is queued for the hub.          *)
(***************************************************************************)
EXTENDS Correlator

CONSTANTS MaxEpisodeGap,   \* MAX_EPISODE_GAP_MS
          RequeueAfter     \* REQUEUE_AFTER_MS

ASSUME EpisodeAssumption == MaxEpisodeGap \in Nat /\ RequeueAfter \in Nat

EpisodeGap == Min({CorrelationWindow, MaxEpisodeGap})

NotClosed == 0   \* time starts at 1
NewTracks == [pair \in {} |-> 0]

IsOpen(track) == track.open # <<>>

TrackOf(tracks, pair) ==
    IF pair \in DOMAIN tracks THEN tracks[pair] ELSE [open |-> <<>>, closed |-> NotClosed]

Copy(pair, episode, ended) ==
    [pair |-> pair, start |-> episode.start, seen |-> episode.seen, ended |-> ended]

\* Whether a row beats the confidence an episode has peaked at.
Tops(row, peak) == row.co * peak.total > peak.co * row.total

\* update: nothing until the pair is seen again; queued when a peak rose, or
\* once it was seen long enough after the copy last queued.
UpdateEpisode(episode, row) ==
    LET peaked == Tops(row, episode.confidence) \/ row.co > episode.most
        seen == [episode EXCEPT !.seen = row.last, !.most = Max({@, row.co}),
                    !.confidence = IF Tops(row, @) THEN [co |-> row.co, total |-> row.total] ELSE @]
    IN  IF row.last <= episode.seen THEN episode
        ELSE IF ~ peaked /\ row.last - episode.queued < RequeueAfter THEN seen
        ELSE [seen EXCEPT !.queued = row.last]

\* Mutant: a pair's episode starts when the pair was first seen, met before or not.
FirstSeenAgain(track, row, now) == row.first

\* A pair that was closed starts again now; one never met when it was first
\* seen, but not before the window its counts cover.
EpisodeStart(track, row, now) ==
    IF track.closed # NotClosed THEN row.last
    ELSE Min({row.last, Max({row.first,
                IF now > CorrelationWindow THEN now - CorrelationWindow ELSE 0})})

\* Active is being seen again: not quiet for the gap, not what was closed.
OpensEpisode(track, row, now) ==
    /\ ~ IsOpen(track)
    /\ now - row.last < EpisodeGap
    /\ row.last > track.closed

OpenEpisode(track, row, now) ==
    [start |-> EpisodeStart(track, row, now), seen |-> row.last, queued |-> row.last,
     most |-> row.co, confidence |-> [co |-> row.co, total |-> row.total]]

\* step, for every row of a snapshot: the tracks after it.  A pair that opened
\* nothing and never did is not kept.
StepRows(tracks, rows, now) ==
    LET RowOf(pair) == CHOOSE row \in rows : row.pair = pair
        pairs == {row.pair : row \in rows}
        Stepped(pair) ==
            LET track == TrackOf(tracks, pair)
            IN  IF pair \notin pairs THEN track
                ELSE IF IsOpen(track)
                THEN [track EXCEPT !.open = <<UpdateEpisode(track.open[1], RowOf(pair))>>]
                ELSE IF OpensEpisode(track, RowOf(pair), now)
                THEN [track EXCEPT !.open = <<OpenEpisode(track, RowOf(pair), now)>>]
                ELSE track
        all == [pair \in DOMAIN tracks \cup pairs |-> Stepped(pair)]
    IN  Restrict(all, {pair \in DOMAIN all : IsOpen(all[pair]) \/ all[pair].closed # NotClosed})

\* The copies of the episodes a step opened or queued again.
QueuedCopies(before, after) ==
    {Copy(pair, after[pair].open[1], FALSE) :
        pair \in {p \in DOMAIN after :
                    /\ IsOpen(after[p])
                    /\ IsOpen(TrackOf(before, p)) =>
                          before[p].open[1].queued # after[p].open[1].queued}}

\* Track::close, of these pairs, and the copies it queues.
CloseTracks(tracks, pairs) ==
    [pair \in DOMAIN tracks |->
        IF pair \in pairs THEN [open |-> <<>>, closed |-> tracks[pair].open[1].seen]
        ELSE tracks[pair]]

ClosingCopies(tracks, pairs) == {Copy(pair, tracks[pair].open[1], TRUE) : pair \in pairs}

OpenPairs(tracks) == {pair \in DOMAIN tracks : IsOpen(tracks[pair])}

\* forget_oldest_closed: as many closed pairs as the correlator has room for,
\* ties in the order of the pairs.
ForgetOldestClosed(tracks) ==
    LET closed == DOMAIN tracks \ OpenPairs(tracks)
        excess == IF Cardinality(closed) > MaxTrackedPairs
                  THEN Cardinality(closed) - MaxTrackedPairs ELSE 0
        Order == Arranged(closed, {p \in closed \X closed : tracks[p[1]].closed < tracks[p[2]].closed})
    IN  Restrict(tracks, DOMAIN tracks \ {Order[i] : i \in 1..excess})

\* observe: the tracks after a snapshot, and the copies to queue.
ObserveRows(tracks, rows, now) ==
    LET stepped == StepRows(tracks, rows, now)
        quiet == {pair \in OpenPairs(stepped) : now - stepped[pair].open[1].seen >= EpisodeGap}
    IN  [tracks |-> ForgetOldestClosed(CloseTracks(stepped, quiet)),
         copies |-> QueuedCopies(tracks, stepped) \cup ClosingCopies(stepped, quiet)]

--------------------------------------------------------------------------
(* What a hub can tell from the copies it was sent.                        *)

\* The episodes of a pair do not overlap: a later one starts after everything
\* any copy of an earlier one says, and only once that one was closed; what
\* closes an episode is its last word.
EpisodesApart(copies) ==
    \A a, b \in copies : a.pair = b.pair =>
        /\ a.start < b.start =>
              /\ a.seen < b.start
              /\ \E c \in copies : c.pair = a.pair /\ c.start = a.start /\ c.ended
        /\ a.start = b.start /\ a.ended => b.seen <= a.seen /\ (b.ended => b = a)
        /\ a.start <= a.seen
=============================================================================
