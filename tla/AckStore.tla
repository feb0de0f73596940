------------------------------ MODULE AckStore ------------------------------
(***************************************************************************)
(* The daemon's acknowledgment store (daemon/ack.rs): an append-only file  *)
(* of ack and unack lines, and the map of active acks the queries read.    *)
(* A request holds the file mutex from its check to the swap of the map;   *)
(* the line is written and synced in between.  A start replays the file    *)
(* into the map and rewrites it with what survived.                        *)
(*                                                                         *)
(* An ack is its signature and its expiry; who acked, why and when do not  *)
(* change what the store does.  The size caps of lines are left out, that  *)
(* of the file is a number of lines.                                       *)
(***************************************************************************)
EXTENDS Naturals, Sequences, SequencesExt, FiniteSets, Functions

CONSTANTS Clients,       \* request handlers that may run at once
          Signatures,
          Expiries,      \* expiry times requests ask for
          Never,         \* expires_at absent: later than any time
          MaxActiveAcks,
          MaxFileLines,  \* MAX_ACKS_FILE_BYTES
          Faults,        \* what a failed or interrupted append may leave,
                         \* "kept" the line, "cut" its first bytes; and
                         \* "disconnect": clients may go away
          NoClient,
          MaxTime        \* bound: clock steps

ASSUME AckAssumption ==
    /\ Expiries \subseteq Nat
    /\ Never \in Expiries /\ Never > MaxTime
    /\ MaxActiveAcks \in Nat
    /\ MaxFileLines \in Nat
    /\ MaxTime \in Nat
    /\ Faults \subseteq {"kept", "cut", "disconnect"}
    /\ NoClient \notin Clients

VARIABLES file,     \* the lines on disk
          active,   \* the map: signature |-> expiry
          lock,     \* holder of the file mutex
          pc,       \* per client: "idle", "waiting", "writing", "swapping"
          request,  \* per client: its request, while it has one
          draft,    \* per client: the copy of the map it will swap in
          now,
          phase,    \* "up", "down", or "refused": the start failed
          doubt     \* history: signatures a failed or abandoned append was
                    \* about, since the last start

vars == <<file, active, lock, pc, request, draft, now, phase, doubt>>

-----------------------------------------------------------------------------
Requests == [op : {"ack"}, signature : Signatures, expires : Expiries]
              \cup [op : {"unack"}, signature : Signatures, expires : {Never}]

CutLine == [op |-> "cut"]

NoRequest == [op |-> "none"]

Maps == UNION {[S -> Expiries] : S \in SUBSET Signatures}

Empty == [s \in {} |-> Never]

IsExpired(expires) == expires < now

Full(map) == Cardinality(DOMAIN map) >= MaxActiveAcks

With(map, s, expires) == [t \in DOMAIN map \cup {s} |->
                             IF t = s THEN expires ELSE map[t]]

Without(map, s) == Restrict(map, DOMAIN map \ {s})

\* What a request makes of the map.
Applied(map, r) ==
    IF r.op = "ack" THEN With(map, r.signature, r.expires)
                    ELSE Without(map, r.signature)

\* Mutant: a revocation is not replayed.
ApplyAcksOnly(map, line) ==
    IF line.op = "ack" /\ ~IsExpired(line.expires) /\ ~Full(map)
    THEN With(map, line.signature, line.expires)
    ELSE map

\* apply_replay_entry.
ApplyLine(map, line) ==
    IF line.op = "unack" THEN Without(map, line.signature)
    ELSE IF IsExpired(line.expires) \/ Full(map) THEN map
    ELSE With(map, line.signature, line.expires)

\* A cut line, or one that continues a cut line, is no JSON.
Parses(lines) == CutLine \notin ToSet(lines)

\* The map after each line of the file, and after all.
Replaying(lines) ==
    LET replayed[n \in 0..Len(lines)] ==
            IF n = 0 THEN Empty ELSE ApplyLine(replayed[n - 1], lines[n])
    IN  replayed

Replay(lines) == Replaying(lines)[Len(lines)]

\* What is appended after a cut line runs into it.
Appended(lines, line) ==
    IF lines # <<>> /\ Last(lines) = CutLine
    THEN lines
    ELSE Append(lines, line)

\* The rewritten file: one line per surviving ack.  The code orders them by
\* their time, which is not modelled.
Compactions(map) ==
    {[i \in DOMAIN order |->
        [op |-> "ack", signature |-> order[i], expires |-> map[order[i]]]] :
            order \in SetToSeqs(DOMAIN map)}

-----------------------------------------------------------------------------
Init ==
    /\ file = <<>>
    /\ active = Empty
    /\ lock = NoClient
    /\ pc = [c \in Clients |-> "idle"]
    /\ request = [c \in Clients |-> NoRequest]
    /\ draft = [c \in Clients |-> Empty]
    /\ now = 0
    /\ phase = "up"
    /\ doubt = {}

Submit(c, r) ==
    /\ phase = "up"
    /\ pc[c] = "idle"
    /\ request' = [request EXCEPT ![c] = r]
    /\ pc' = [pc EXCEPT ![c] = "waiting"]
    /\ UNCHANGED <<file, active, lock, draft, now, phase, doubt>>

\* The handler is done with its request.
Answer(c) ==
    /\ pc' = [pc EXCEPT ![c] = "idle"]
    /\ request' = [request EXCEPT ![c] = NoRequest]
    /\ draft' = [draft EXCEPT ![c] = Empty]

\* Mutant: the cap is checked one entry late.
RefusesLate(r) ==
    IF r.op = "ack"
    THEN r.signature \in DOMAIN active \/ Cardinality(DOMAIN active) > MaxActiveAcks
    ELSE r.signature \notin DOMAIN active

\* AlreadyAcked, LimitReached or NotAcked.  An expired ack that is still in
\* the map counts for all three.
Refuses(r) ==
    IF r.op = "ack" THEN r.signature \in DOMAIN active \/ Full(active)
                    ELSE r.signature \notin DOMAIN active

\* Mutant: the request is checked and the map copied without the mutex.
NotWaited == TRUE

MutexFree == lock = NoClient

\* The file mutex is taken, the request checked, the map copied.
Lock(c) ==
    /\ pc[c] = "waiting"
    /\ MutexFree
    /\ \/ /\ Refuses(request[c])
          /\ Answer(c)
          /\ UNCHANGED lock
       \/ /\ ~Refuses(request[c])
          /\ lock' = c
          /\ pc' = [pc EXCEPT ![c] = "writing"]
          /\ draft' = [draft EXCEPT ![c] = Applied(active, request[c])]
          /\ UNCHANGED request
    /\ UNCHANGED <<file, active, now, phase, doubt>>

AppendLine(c) ==
    /\ pc[c] = "writing"
    /\ Len(file) < MaxFileLines
    /\ file' = Appended(file, request[c])
    /\ pc' = [pc EXCEPT ![c] = "swapping"]
    /\ UNCHANGED <<active, lock, request, draft, now, phase, doubt>>

\* What the disk may hold of a line whose append did not return.
Leftovers(line) ==
    {file} \cup (IF "kept" \in Faults THEN {Appended(file, line)} ELSE {})
           \cup (IF "cut" \in Faults THEN {Appended(file, CutLine)} ELSE {})

\* FileTooLarge, or an I/O error of the write, the flush or the sync: the
\* request answers with it and the map stays as it is.
AppendFails(c) ==
    /\ pc[c] = "writing"
    /\ \/ /\ Len(file) >= MaxFileLines
          /\ UNCHANGED <<file, doubt>>
       \/ /\ Len(file) < MaxFileLines
          /\ file' \in Leftovers(request[c])
          /\ doubt' = doubt \cup {request[c].signature}
    /\ Answer(c)
    /\ lock' = NoClient
    /\ UNCHANGED <<active, now, phase>>

\* The answer is 201 or 204.
Swap(c) ==
    /\ pc[c] = "swapping"
    /\ active' = draft[c]
    /\ Answer(c)
    /\ lock' = NoClient
    /\ UNCHANGED <<file, now, phase, doubt>>

\* The client goes away and its handler is dropped where it waits, with the
\* mutex.  A write that was handed over is still made.
Disconnect(c) ==
    /\ "disconnect" \in Faults
    /\ \/ /\ pc[c] = "waiting"
          /\ UNCHANGED <<file, lock, doubt>>
       \/ /\ pc[c] \in {"writing", "swapping"}
          /\ \/ UNCHANGED file
             \/ /\ pc[c] = "writing" /\ Len(file) < MaxFileLines
                /\ file' = Appended(file, request[c])
          /\ lock' = NoClient
          /\ doubt' = doubt \cup {request[c].signature}
    /\ Answer(c)
    /\ UNCHANGED <<active, now, phase>>

\* The process dies; a write that was under way ends anywhere.
Crash ==
    /\ phase = "up"
    /\ phase' = "down"
    /\ file' \in {file} \cup UNION {Leftovers(request[c]) :
                        c \in {d \in Clients : pc[d] = "writing"
                                               /\ Len(file) < MaxFileLines}}
    /\ active' = Empty
    /\ lock' = NoClient
    /\ pc' = [c \in Clients |-> "idle"]
    /\ request' = [c \in Clients |-> NoRequest]
    /\ draft' = [c \in Clients |-> Empty]
    /\ doubt' = {}
    /\ UNCHANGED now

\* AckStore::new.  The rewrite goes through a temporary file and a rename, so
\* dying in it changes nothing.
Restart ==
    /\ phase = "down"
    /\ IF Parses(file)
       THEN /\ phase' = "up"
            /\ active' = Replay(file)
            /\ file' \in Compactions(Replay(file))
       ELSE /\ phase' = "refused"
            /\ UNCHANGED <<active, file>>
    /\ UNCHANGED <<lock, pc, request, draft, now, doubt>>

Advance ==
    /\ now < MaxTime
    /\ now' = now + 1
    /\ UNCHANGED <<file, active, lock, pc, request, draft, phase, doubt>>

Next ==
    \/ \E c \in Clients :
          \/ \E r \in Requests : Submit(c, r)
          \/ Lock(c)
          \/ AppendLine(c)
          \/ AppendFails(c)
          \/ Swap(c)
          \/ Disconnect(c)
    \/ Crash
    \/ Restart
    \/ Advance

Spec == Init /\ [][Next]_vars

-----------------------------------------------------------------------------
(* Properties.                                                             *)

TypeOK ==
    /\ file \in Seq(Requests \cup {CutLine}) /\ Len(file) <= MaxFileLines
    /\ active \in Maps
    /\ Cardinality(DOMAIN active) <= MaxActiveAcks
    /\ lock \in Clients \cup {NoClient}
    /\ pc \in [Clients -> {"idle", "waiting", "writing", "swapping"}]
    /\ request \in [Clients -> Requests \cup {NoRequest}]
    /\ draft \in [Clients -> Maps]
    /\ now \in 0..MaxTime
    /\ phase \in {"up", "down", "refused"}
    /\ doubt \subseteq Signatures

Unexpired(map) == Restrict(map, {s \in DOMAIN map : ~IsExpired(map[s])})

Agree(m1, m2, s) ==
    /\ s \in DOMAIN m1 <=> s \in DOMAIN m2
    /\ s \in DOMAIN m1 => m1[s] = m2[s]

\* Between requests a restart would bring back exactly the acks in force:
\* whatever interleaving of requests, expiries and earlier restarts wrote the
\* file, whether or not the map is at its cap.  Only signatures whose append
\* failed or was abandoned may differ, and their lines may fill the cap before another's.
MapMatchesFile ==
    phase = "up" /\ lock = NoClient /\ Parses(file) =>
        \A s \in Signatures \ doubt :
            \/ Agree(Unexpired(active), Replay(file), s)
            \/ /\ doubt # {}
               /\ s \notin DOMAIN Replay(file)
               /\ \E n \in DOMAIN file : Full(Replay(SubSeq(file, 1, n)))

\* No request undoes another: an ack leaves the map only through a revocation
\* of its own signature or a crash, and nothing changes it in place.
NoLostUpdate ==
    [][phase = "up" /\ phase' = "up" =>
         \A s \in DOMAIN active :
            \/ s \in DOMAIN active' /\ active'[s] = active[s]
            \/ \E c \in Clients : /\ pc[c] = "swapping" /\ pc'[c] = "idle"
                                  /\ request[c].op = "unack"
                                  /\ request[c].signature = s]_vars

\* "The mutex is held for the entire write + map-update so a failed disk
\* write never leaves the map ahead of the persisted state"
\* (docs/design/06-INGESTION-AND-DAEMON.md, Daemon ack store).
MapNeverAhead ==
    phase = "up" /\ lock = NoClient =>
        DOMAIN Unexpired(active) \subseteq
            IF Parses(file) THEN DOMAIN Replay(file) ELSE {}
==============================================================================
