--------------------------- MODULE AckStoreProofs ---------------------------
(***************************************************************************)
(* Proofs about the ack store, for any clients, signatures, caps and       *)
(* faults: the file mutex really serialises the writers, so the map a      *)
(* request swaps in is the current map with that one request applied; and  *)
(* the file tells the story of the map, so a restart brings it back.       *)
(***************************************************************************)
EXTENDS AckStore, Induction, FiniteSetTheorems, TLAPS

Working(c) == pc[c] \in {"writing", "swapping"}

PcInv ==
    /\ pc \in [Clients -> {"idle", "waiting", "writing", "swapping"}]
    /\ phase \in {"up", "down", "refused"}
    /\ phase # "up" => \A c \in Clients : pc[c] = "idle"

RequestInv ==
    /\ request \in [Clients -> Requests \cup {NoRequest}]
    /\ \A c \in Clients : pc[c] # "idle" => request[c] \in Requests

\* Whoever works on the file holds the mutex.
MutexInv == \A c \in Clients : Working(c) => lock = c

\* What it is about to swap in is the map as it stands plus its request.
DraftInv ==
    /\ draft = [c \in Clients |-> draft[c]]
    /\ \A c \in Clients : Working(c) =>
          /\ draft[c] = Applied(active, request[c])
          /\ request[c].op = "ack" => request[c].signature \notin DOMAIN active

Inv == PcInv /\ RequestInv /\ MutexInv /\ DraftInv

\* Initially nobody works on the file.
LEMMA InitEstablishesInv == Init => Inv
  BY DEF Init, Inv, PcInv, RequestInv, MutexInv, DraftInv, Working, Empty

(* Steps that touch neither the map nor a working client.                  *)
LEMMA AnswerPreservesInv ==
    ASSUME Inv, NEW c \in Clients, Answer(c), UNCHANGED phase,
           pc[c] # "idle", \A d \in Clients \ {c} : ~Working(d),
           lock' = NoClient \/ UNCHANGED lock
    PROVE  Inv'
<1>0. /\ pc' = [pc EXCEPT ![c] = "idle"]
      /\ request' = [request EXCEPT ![c] = NoRequest]
      /\ draft' = [draft EXCEPT ![c] = Empty]
  BY DEF Answer
<1>1. \A d \in Clients : ~Working(d)'
  BY <1>0 DEF Inv, PcInv, Working
<1>2. PcInv'
  BY <1>0 DEF Inv, PcInv
<1>3. RequestInv'
  <2>1. request' \in [Clients -> Requests \cup {NoRequest}]
    BY <1>0 DEF Inv, RequestInv
  <2>2. ASSUME NEW d \in Clients, pc'[d] # "idle" PROVE request'[d] \in Requests
    BY <2>2, <1>0 DEF Inv, PcInv, RequestInv
  <2>. QED BY <2>1, <2>2 DEF RequestInv
<1>4. draft' = [d \in Clients |-> draft'[d]]
  BY <1>0 DEF Inv, DraftInv
<1>. QED BY <1>1, <1>2, <1>3, <1>4 DEF Inv, MutexInv, DraftInv

(* At most one client works, so none does while another one starts to or   *)
(* while the mutex is free.                                                *)
LEMMA OneWorker ==
    ASSUME Inv, NEW c \in Clients, lock = c \/ lock = NoClient
    PROVE  \A d \in Clients \ {c} : ~Working(d)
  BY AckAssumption DEF Inv, MutexInv

(* A client that gives up while it waits disturbs nobody.                  *)
LEMMA LeavesQueue ==
    ASSUME Inv, NEW c \in Clients, Answer(c), pc[c] = "waiting",
           UNCHANGED <<active, phase, lock>>
    PROVE  Inv'
<1>0. /\ pc' = [pc EXCEPT ![c] = "idle"]
      /\ request' = [request EXCEPT ![c] = NoRequest]
      /\ draft' = [draft EXCEPT ![c] = Empty]
  BY DEF Answer
<1>1. \A d \in Clients : Working(d)' =>
          Working(d) /\ request'[d] = request[d] /\ draft'[d] = draft[d]
  BY <1>0 DEF Inv, PcInv, RequestInv, DraftInv, Working
<1>2. PcInv'
  BY <1>0 DEF Inv, PcInv
<1>3. RequestInv'
  <2>1. request' \in [Clients -> Requests \cup {NoRequest}]
    BY <1>0 DEF Inv, RequestInv
  <2>2. ASSUME NEW d \in Clients, pc'[d] # "idle" PROVE request'[d] \in Requests
    BY <2>2, <1>0 DEF Inv, PcInv, RequestInv
  <2>. QED BY <2>1, <2>2 DEF RequestInv
<1>4. MutexInv'
  BY <1>1 DEF Inv, MutexInv
<1>5. DraftInv'
  <2>1. draft' = [d \in Clients |-> draft'[d]]
    BY <1>0 DEF Inv, DraftInv
  <2>. QED BY <2>1, <1>1 DEF Inv, DraftInv
<1>. QED BY <1>2, <1>3, <1>4, <1>5 DEF Inv

\* The lock is taken by a client whose draft is the map with its request.
LEMMA LockPreservesInv ==
    ASSUME Inv, NEW c \in Clients, Lock(c)
    PROVE  Inv'
<1>1. /\ pc[c] = "waiting" /\ lock = NoClient
      /\ UNCHANGED <<active, phase>>
  BY DEF Lock, MutexFree
<1>2. \A d \in Clients \ {c} : ~Working(d)
  BY <1>1, OneWorker
<1>3. CASE Refuses(request[c]) /\ Answer(c) /\ UNCHANGED lock
  BY <1>1, <1>2, <1>3, AnswerPreservesInv
<1>4. CASE /\ ~Refuses(request[c])
           /\ lock' = c
           /\ pc' = [pc EXCEPT ![c] = "writing"]
           /\ draft' = [draft EXCEPT ![c] = Applied(active, request[c])]
           /\ UNCHANGED request
  <2>1. \A d \in Clients : Working(d)' => d = c
    BY <1>2, <1>4 DEF Inv, PcInv, Working
  <2>2. PcInv'
    BY <1>1, <1>4 DEF Inv, PcInv
  <2>3. RequestInv'
    BY <1>1, <1>4 DEF Inv, PcInv, RequestInv
  <2>4. MutexInv'
    BY <2>1, <1>4 DEF MutexInv
  <2>5. DraftInv'
    <3>1. draft' = [d \in Clients |-> draft'[d]]
      BY <1>4 DEF Inv, DraftInv
    <3>2. draft'[c] = Applied(active', request'[c])
      BY <1>1, <1>4 DEF Inv, DraftInv
    <3>3. request'[c].op = "ack" => request'[c].signature \notin DOMAIN active'
      BY <1>1, <1>4 DEF Refuses
    <3>. QED BY <2>1, <3>1, <3>2, <3>3 DEF DraftInv
  <2>. QED BY <2>2, <2>3, <2>4, <2>5 DEF Inv
<1>. QED BY <1>3, <1>4 DEF Lock

\* Every step keeps the mutex to one client and its draft current.
LEMMA StepPreservesInv == Inv /\ [Next]_vars => Inv'
<1>. SUFFICES ASSUME Inv, [Next]_vars PROVE Inv'
  OBVIOUS
<1>1. ASSUME NEW c \in Clients, NEW r \in Requests, Submit(c, r) PROVE Inv'
  <2>0. /\ pc[c] = "idle" /\ phase = "up" /\ phase' = "up"
        /\ request' = [request EXCEPT ![c] = r]
        /\ pc' = [pc EXCEPT ![c] = "waiting"]
        /\ UNCHANGED <<active, lock, draft>>
    BY <1>1 DEF Submit
  <2>1. PcInv'
    BY <2>0 DEF Inv, PcInv
  <2>2. RequestInv'
    BY <2>0 DEF Inv, PcInv, RequestInv
  <2>3. \A d \in Clients : Working(d)' =>
            d # c /\ Working(d) /\ request'[d] = request[d]
    BY <2>0 DEF Inv, PcInv, RequestInv, Working
  <2>. QED BY <2>0, <2>1, <2>2, <2>3 DEF Inv, MutexInv, DraftInv
<1>2. ASSUME NEW c \in Clients, Lock(c) PROVE Inv'
  BY <1>2, LockPreservesInv
<1>3. ASSUME NEW c \in Clients, AppendLine(c) PROVE Inv'
  <2>0. /\ pc[c] = "writing"
        /\ pc' = [pc EXCEPT ![c] = "swapping"]
        /\ UNCHANGED <<active, lock, request, draft, phase>>
    BY <1>3 DEF AppendLine
  <2>1. PcInv'
    BY <2>0 DEF Inv, PcInv
  <2>2. RequestInv'
    BY <2>0 DEF Inv, PcInv, RequestInv
  <2>3. \A d \in Clients : Working(d)' => Working(d)
    BY <2>0 DEF Inv, PcInv, Working
  <2>. QED BY <2>0, <2>1, <2>2, <2>3 DEF Inv, MutexInv, DraftInv
<1>4. ASSUME NEW c \in Clients, AppendFails(c) PROVE Inv'
  <2>1. /\ pc[c] = "writing" /\ Answer(c) /\ lock' = NoClient
        /\ UNCHANGED <<active, phase>>
    BY <1>4 DEF AppendFails
  <2>2. \A d \in Clients \ {c} : ~Working(d)
    BY <2>1, OneWorker DEF Inv, MutexInv, Working
  <2>. QED BY <2>1, <2>2, AnswerPreservesInv
<1>5. ASSUME NEW c \in Clients, Swap(c) PROVE Inv'
  <2>1. /\ pc[c] = "swapping" /\ Answer(c) /\ lock' = NoClient
        /\ UNCHANGED phase
    BY <1>5 DEF Swap
  <2>2. \A d \in Clients \ {c} : ~Working(d)
    BY <2>1, OneWorker DEF Inv, MutexInv, Working
  <2>. QED BY <2>1, <2>2, AnswerPreservesInv
<1>6. CASE Crash
  <2>0. /\ phase' = "down"
        /\ pc' = [c \in Clients |-> "idle"]
        /\ request' = [c \in Clients |-> NoRequest]
        /\ draft' = [c \in Clients |-> Empty]
    BY <1>6 DEF Crash
  <2>. QED BY <2>0 DEF Inv, PcInv, RequestInv, MutexInv, DraftInv, Working
<1>7. CASE Restart
  <2>0. /\ phase = "down" /\ phase' \in {"up", "refused"}
        /\ UNCHANGED <<lock, pc, request, draft>>
    BY <1>7 DEF Restart
  <2>. QED BY <2>0 DEF Inv, PcInv, RequestInv, MutexInv, DraftInv, Working
<1>8. CASE Advance \/ UNCHANGED vars
  BY <1>8 DEF Advance, vars, Inv, PcInv, RequestInv, MutexInv, DraftInv, Working
<1>9. ASSUME NEW c \in Clients, Disconnect(c) PROVE Inv'
  <2>0. Answer(c) /\ UNCHANGED <<active, phase>>
    BY <1>9 DEF Disconnect
  <2>1. CASE pc[c] = "waiting" /\ UNCHANGED lock
    BY <2>0, <2>1, LeavesQueue
  <2>2. CASE Working(c) /\ lock' = NoClient
    <3>1. \A d \in Clients \ {c} : ~Working(d)
      BY <2>2, OneWorker DEF Inv, MutexInv
    <3>. QED BY <2>0, <2>2, <3>1, AnswerPreservesInv DEF Working
  <2>. QED BY <1>9, <2>1, <2>2 DEF Disconnect, Working
<1>. QED BY <1>1, <1>2, <1>3, <1>4, <1>5, <1>6, <1>7, <1>8, <1>9 DEF Next

(* One swap changes one signature: it adds it, or removes the one it is    *)
(* about.                                                                  *)
LEMMA SwapIsOneRequest ==
    ASSUME Inv, NEW c \in Clients, Swap(c), NEW s \in DOMAIN active
    PROVE  \/ s \in DOMAIN active' /\ active'[s] = active[s]
           \/ request[c].op = "unack" /\ request[c].signature = s
<1>1. /\ pc[c] = "swapping"
      /\ active' = Applied(active, request[c])
      /\ request[c].op = "ack" => request[c].signature \notin DOMAIN active
  BY DEF Swap, Inv, DraftInv, Working
<1>2. request[c] \in Requests
  BY <1>1 DEF Inv, RequestInv
<1>3. CASE request[c].op = "ack"
  BY <1>1, <1>3 DEF Applied, With
<1>4. CASE request[c].op = "unack"
  BY <1>1, <1>4 DEF Applied, Without, Restrict
<1>. QED BY <1>2, <1>3, <1>4 DEF Requests

(* No request undoes another (the action property NoLostUpdate).           *)
THEOREM NoUpdateIsLost == Spec => NoLostUpdate
<1> DEFINE Kept ==
      phase = "up" /\ phase' = "up" =>
         \A s \in DOMAIN active :
            \/ s \in DOMAIN active' /\ active'[s] = active[s]
            \/ \E c \in Clients : /\ pc[c] = "swapping" /\ pc'[c] = "idle"
                                  /\ request[c].op = "unack"
                                  /\ request[c].signature = s
<1>1. Inv /\ [Next]_vars => [Kept]_vars
  <2>. SUFFICES ASSUME Inv, Next, phase = "up", phase' = "up",
                       NEW s \in DOMAIN active
                PROVE  \/ s \in DOMAIN active' /\ active'[s] = active[s]
                       \/ \E c \in Clients : /\ pc[c] = "swapping" /\ pc'[c] = "idle"
                                             /\ request[c].op = "unack"
                                             /\ request[c].signature = s
    OBVIOUS
  <2>1. CASE \E c \in Clients : Swap(c)
    <3>1. PICK c \in Clients : Swap(c)
      BY <2>1
    <3>2. pc[c] = "swapping" /\ pc'[c] = "idle"
      BY <3>1 DEF Swap, Answer, Inv, PcInv
    <3>. QED BY <3>1, <3>2, SwapIsOneRequest
  <2>2. CASE active' = active
    BY <2>2
  <2>3. \/ \E c \in Clients : Swap(c)
        \/ active' = active
    BY DEF Next, Submit, Lock, AppendLine, AppendFails, Disconnect, Crash, Restart, Advance
  <2>. QED BY <2>1, <2>2, <2>3
<1>. QED BY <1>1, InitEstablishesInv, StepPreservesInv, PTL DEF Spec, NoLostUpdate

-----------------------------------------------------------------------------
(* Maps and what a line makes of them.                                     *)

\* The maps a process can hold.
FiniteMaps == {map \in Maps : IsFiniteSet(DOMAIN map)}

\* One more ack in a map.
LEMMA WithFacts ==
  ASSUME NEW map \in FiniteMaps, NEW s \in Signatures, NEW expires \in Expiries
  PROVE  /\ With(map, s, expires) \in FiniteMaps
         /\ DOMAIN With(map, s, expires) = DOMAIN map \cup {s}
         /\ With(map, s, expires)[s] = expires
         /\ \A t \in DOMAIN map \ {s} : With(map, s, expires)[t] = map[t]
<1>1. PICK S \in SUBSET Signatures : map \in [S -> Expiries]
  BY DEF FiniteMaps, Maps
<1>2. IsFiniteSet(S \cup {s})
  BY <1>1, FS_AddElement DEF FiniteMaps
<1>3. With(map, s, expires) \in [S \cup {s} -> Expiries]
  BY <1>1 DEF With
<1>4. With(map, s, expires) \in Maps
  BY <1>1, <1>3 DEF Maps
<1> QED
  BY <1>1, <1>2, <1>3, <1>4 DEF With, FiniteMaps

\* One ack less in a map.
LEMMA WithoutFacts ==
  ASSUME NEW map \in FiniteMaps, NEW s
  PROVE  /\ Without(map, s) \in FiniteMaps
         /\ DOMAIN Without(map, s) = DOMAIN map \ {s}
         /\ \A t \in DOMAIN map \ {s} : Without(map, s)[t] = map[t]
<1>1. PICK S \in SUBSET Signatures : map \in [S -> Expiries]
  BY DEF FiniteMaps, Maps
<1>2. IsFiniteSet(S \ {s})
  BY <1>1, FS_RemoveElement DEF FiniteMaps
<1>3. Without(map, s) \in [S \ {s} -> Expiries]
  BY <1>1 DEF Without, Restrict
<1>4. Without(map, s) \in Maps
  BY <1>1, <1>3 DEF Maps
<1> QED
  BY <1>1, <1>2, <1>3, <1>4 DEF Without, Restrict, FiniteMaps

\* A request is an ack with an expiry, or an unack.
LEMMA RequestFacts ==
  ASSUME NEW r \in Requests
  PROVE  /\ r.op \in {"ack", "unack"}
         /\ r.signature \in Signatures
         /\ r.expires \in Expiries
         /\ r # CutLine
<1>1. r.op \in {"ack", "unack"} /\ r.signature \in Signatures /\ r.expires \in Expiries
  BY AckAssumption DEF Requests
<1>2. CutLine.op = "cut"
  BY DEF CutLine
<1> QED
  BY <1>1, <1>2

\* What a request makes of a map differs in its own signature only.
LEMMA AppliedFacts ==
  ASSUME NEW map \in FiniteMaps, NEW r \in Requests
  PROVE  /\ Applied(map, r) \in FiniteMaps
         /\ \A t : t # r.signature => Agree(Applied(map, r), map, t)
         /\ r.op = "ack" => /\ r.signature \in DOMAIN Applied(map, r)
                            /\ Applied(map, r)[r.signature] = r.expires
         /\ r.op = "unack" => r.signature \notin DOMAIN Applied(map, r)
<1>1. /\ r.op \in {"ack", "unack"}
      /\ r.signature \in Signatures /\ r.expires \in Expiries
  BY RequestFacts
<1>2. CASE r.op = "ack"
  <2>1. PICK m, s, e : m = With(map, s, e) /\ s = r.signature /\ e = r.expires
    OBVIOUS
  <2>2. s \in Signatures /\ e \in Expiries
    BY <1>1, <2>1
  <2>3. /\ m \in FiniteMaps
        /\ DOMAIN m = DOMAIN map \cup {s}
        /\ m[s] = e
        /\ \A t \in DOMAIN map \ {s} : m[t] = map[t]
    BY <2>1, <2>2, WithFacts
  <2>4. /\ m \in FiniteMaps
        /\ DOMAIN m = DOMAIN map \cup {r.signature}
        /\ m[r.signature] = r.expires
        /\ \A t \in DOMAIN map \ {r.signature} : m[t] = map[t]
    BY <2>1, <2>3
  <2>5. Applied(map, r) = m
    BY <1>2, <2>1 DEF Applied
  <2>6. \A t : t # r.signature => Agree(m, map, t)
    BY <2>4 DEF Agree
  <2> QED
    BY <1>2, <2>4, <2>5, <2>6
<1>3. CASE r.op = "unack"
  <2>1. PICK m : m = Without(map, r.signature)
    OBVIOUS
  <2>2. /\ m \in FiniteMaps
        /\ DOMAIN m = DOMAIN map \ {r.signature}
        /\ \A t \in DOMAIN map \ {r.signature} : m[t] = map[t]
    BY <2>1, WithoutFacts
  <2>3. Applied(map, r) = m
    BY <1>3, <2>1 DEF Applied
  <2>4. \A t : t # r.signature => Agree(m, map, t)
    BY <2>2 DEF Agree
  <2> QED
    BY <1>3, <2>2, <2>3, <2>4
<1> QED
  BY <1>1, <1>2, <1>3

\* Its map grows by one ack at most.
LEMMA AppliedSize ==
  ASSUME NEW map \in FiniteMaps, NEW r \in Requests
  PROVE  /\ Cardinality(DOMAIN map) \in Nat
         /\ Cardinality(DOMAIN Applied(map, r)) \in Nat
         /\ Cardinality(DOMAIN Applied(map, r)) <= Cardinality(DOMAIN map) + 1
         /\ r.op = "unack" =>
               Cardinality(DOMAIN Applied(map, r)) <= Cardinality(DOMAIN map)
<1>1. Cardinality(DOMAIN map) \in Nat
  BY FS_CardinalityType DEF FiniteMaps
<1>2. CASE r.op = "ack"
  <2>1. ASSUME NEW s \in Signatures, NEW e \in Expiries
        PROVE  DOMAIN With(map, s, e) = DOMAIN map \cup {s}
    BY WithFacts
  <2>2. DOMAIN Applied(map, r) = DOMAIN map \cup {r.signature}
    BY <1>2, <2>1, RequestFacts DEF Applied
  <2>3. IsFiniteSet(DOMAIN map)
    BY DEF FiniteMaps
  <2>4. Cardinality(DOMAIN map \cup {r.signature}) =
          IF r.signature \in DOMAIN map THEN Cardinality(DOMAIN map)
                                        ELSE Cardinality(DOMAIN map) + 1
    BY <2>3, FS_AddElement
  <2> QED
    BY <1>1, <1>2, <2>2, <2>4
<1>3. CASE r.op = "unack"
  <2>1. DOMAIN Applied(map, r) = DOMAIN map \ {r.signature}
    BY <1>3, WithoutFacts, RequestFacts DEF Applied
  <2>2. /\ Cardinality(DOMAIN map \ {r.signature}) \in Nat
        /\ Cardinality(DOMAIN map \ {r.signature}) <= Cardinality(DOMAIN map)
    BY FS_RemoveElement, FS_Subset, FS_CardinalityType DEF FiniteMaps
  <2> QED
    BY <1>1, <1>3, <2>1, <2>2
<1> QED
  BY <1>2, <1>3, RequestFacts

\* A replayed line does what its request did, or nothing.
LEMMA ApplyLineIs ==
  ASSUME NEW map \in FiniteMaps, NEW r \in Requests
  PROVE  /\ r.op = "unack" => ApplyLine(map, r) = Applied(map, r)
         /\ r.op = "ack" /\ (IsExpired(r.expires) \/ Full(map)) => ApplyLine(map, r) = map
         /\ r.op = "ack" /\ ~IsExpired(r.expires) /\ ~Full(map) =>
               ApplyLine(map, r) = Applied(map, r)
BY RequestFacts DEF ApplyLine, Applied

\* So the replayed map stays finite and within the cap.
LEMMA ApplyLineFacts ==
  ASSUME NEW map \in FiniteMaps, NEW r \in Requests
  PROVE  /\ ApplyLine(map, r) \in FiniteMaps
         /\ \A t : t # r.signature => Agree(ApplyLine(map, r), map, t)
         /\ Cardinality(DOMAIN ApplyLine(map, r)) <= Cardinality(DOMAIN map) + 1
         /\ Cardinality(DOMAIN map) <= MaxActiveAcks =>
               Cardinality(DOMAIN ApplyLine(map, r)) <= MaxActiveAcks
<1> USE RequestFacts
<1>1. CASE r.op = "unack"
  BY <1>1, ApplyLineIs, AppliedFacts, AppliedSize, AckAssumption
<1>2. CASE r.op = "ack" /\ (IsExpired(r.expires) \/ Full(map))
  BY <1>2, ApplyLineIs, AppliedSize DEF Agree
<1>3. CASE r.op = "ack" /\ ~IsExpired(r.expires) /\ ~Full(map)
  BY <1>3, ApplyLineIs, AppliedFacts, AppliedSize, AckAssumption DEF Full
<1> QED
  BY <1>1, <1>2, <1>3

\* No acks are a map.
LEMMA EmptyFacts ==
  /\ Empty \in FiniteMaps
  /\ DOMAIN Empty = {}
  /\ Cardinality(DOMAIN Empty) = 0
<1>1. Empty \in [{} -> Expiries] /\ DOMAIN Empty = {}
  BY DEF Empty
<1>2. IsFiniteSet({}) /\ Cardinality({}) = 0
  BY FS_EmptySet
<1>3. Empty \in Maps
  BY <1>1 DEF Maps
<1> QED
  BY <1>1, <1>2, <1>3 DEF FiniteMaps

-----------------------------------------------------------------------------
(* The replay of a file.                                                   *)

\* The replay is a fold of ApplyLine.
LEMMA ReplayIsFold ==
  LET step == [s \in FiniteMaps \X Requests |-> ApplyLine(s[1], s[2])]
  IN  \A lines \in Seq(Requests) :
         /\ Replaying(lines) \in [0..Len(lines) -> FiniteMaps]
         /\ IsFold(Replaying(lines), step, Empty, lines)
<1> DEFINE step == [s \in FiniteMaps \X Requests |-> ApplyLine(s[1], s[2])]
<1>1. /\ step \in [FiniteMaps \X Requests -> FiniteMaps]
      /\ \A a \in FiniteMaps, b \in Requests : step[<<a, b>>] = ApplyLine(a, b)
  BY ApplyLineFacts
<1> HIDE DEF step
<1> SUFFICES ASSUME NEW lines \in Seq(Requests)
             PROVE  /\ Replaying(lines) \in [0..Len(lines) -> FiniteMaps]
                    /\ IsFold(Replaying(lines), step, Empty, lines)
  BY DEF step
<1> DEFINE Recursive(g) ==
      g = [n \in 0..Len(lines) |-> IF n = 0 THEN Empty ELSE ApplyLine(g[n - 1], lines[n])]
<1>2. PICK g \in [0..Len(lines) -> FiniteMaps] : IsFold(g, step, Empty, lines)
  BY <1>1, EmptyFacts, FoldExists
<1>3. Recursive(g)
  <2>1. ASSUME NEW n \in 0..Len(lines), n # 0
        PROVE  ApplyLine(g[n - 1], lines[n]) = step[<<g[n - 1], lines[n]>>]
    <3>1. g[n - 1] \in FiniteMaps /\ lines[n] \in Requests
      BY <2>1
    <3> QED
      BY <3>1, <1>1
  <2> QED
    BY <1>2, <2>1 DEF IsFold
<1>4. ASSUME NEW h, Recursive(h) PROVE h = g
  <2>1. Len(lines) \in Nat
    OBVIOUS
  <2>2. ASSUME NEW n \in 1..Len(lines), h[n - 1] = g[n - 1] PROVE h[n] = g[n]
    <3>1. n \in 0..Len(lines) /\ n # 0
      OBVIOUS
    <3>2. h[n] = ApplyLine(h[n - 1], lines[n])
      BY <3>1, <1>4
    <3>3. g[n] = ApplyLine(g[n - 1], lines[n])
      BY <3>1, <1>3
    <3> QED
      BY <2>2, <3>2, <3>3
  <2>3. h[0] = g[0]
    BY <2>1, <1>3, <1>4
  <2>4. AgreeStepwise(h, g, Len(lines))
    BY <2>1, <2>2, <2>3 DEF AgreeStepwise
  <2>5. \A n \in 0..Len(lines) : h[n] = g[n]
    BY <2>4, RecursionsAgree
  <2> QED
    BY <2>5, <1>3, <1>4
<1>5. Recursive(Replaying(lines))
  BY <1>3 DEF Replaying
<1>6. Replaying(lines) = g
  BY <1>4, <1>5
<1> QED
  BY <1>2, <1>6

\* Line by line, from no acks.
LEMMA ReplayingSteps ==
  ASSUME NEW lines \in Seq(Requests)
  PROVE  /\ Replaying(lines) \in [0..Len(lines) -> FiniteMaps]
         /\ Replaying(lines)[0] = Empty
         /\ \A n \in 1..Len(lines) :
               Replaying(lines)[n] = ApplyLine(Replaying(lines)[n - 1], lines[n])
<1> DEFINE step == [s \in FiniteMaps \X Requests |-> ApplyLine(s[1], s[2])]
<1>1. \A a \in FiniteMaps, b \in Requests : step[<<a, b>>] = ApplyLine(a, b)
  OBVIOUS
<1>2. PICK g : g = Replaying(lines)
  OBVIOUS
<1>3. g \in [0..Len(lines) -> FiniteMaps] /\ IsFold(g, step, Empty, lines)
  BY <1>2, ReplayIsFold
<1> HIDE DEF step
<1>4. g[0] = Empty
  BY <1>3 DEF IsFold
<1>5. ASSUME NEW n \in 1..Len(lines) PROVE g[n] = ApplyLine(g[n - 1], lines[n])
  <2>1. n \in 0..Len(lines) /\ n # 0 /\ n - 1 \in 0..Len(lines) /\ lines[n] \in Requests
    OBVIOUS
  <2>2. g[n] = step[<<g[n - 1], lines[n]>>]
    BY <1>3, <2>1 DEF IsFold
  <2> QED
    BY <1>1, <1>3, <2>1, <2>2
<1> QED
  BY <1>2, <1>3, <1>4, <1>5

\* It never holds more acks than its cap, nor than it has read lines.
LEMMA ReplayingSize ==
  ASSUME NEW lines \in Seq(Requests)
  PROVE  \A n \in 0..Len(lines) :
            /\ Cardinality(DOMAIN Replaying(lines)[n]) \in Nat
            /\ Cardinality(DOMAIN Replaying(lines)[n]) <= MaxActiveAcks
            /\ Cardinality(DOMAIN Replaying(lines)[n]) <= n
<1>1. PICK g : g = Replaying(lines)
  OBVIOUS
<1>2. /\ g \in [0..Len(lines) -> FiniteMaps]
      /\ g[0] = Empty
      /\ \A n \in 1..Len(lines) : g[n] = ApplyLine(g[n - 1], lines[n])
  BY <1>1, ReplayingSteps
<1> DEFINE size(n) == Cardinality(DOMAIN g[n])
           S == {n \in Nat : /\ size(n) \in Nat
                             /\ size(n) <= MaxActiveAcks
                             /\ size(n) <= n}
<1>3. 0 \in S
  BY <1>2, EmptyFacts, AckAssumption
<1>4. ASSUME NEW n \in 0..(Len(lines) - 1), n \in S PROVE n + 1 \in S
  <2>1. n + 1 \in 1..Len(lines) /\ (n + 1) - 1 = n /\ n \in 0..Len(lines) /\ n \in Nat
    OBVIOUS
  <2>2. g[n] \in FiniteMaps /\ lines[n + 1] \in Requests /\ g[n + 1] \in FiniteMaps
    BY <1>2, <2>1
  <2>3. g[n + 1] = ApplyLine(g[n], lines[n + 1])
    BY <1>2, <2>1
  <2>4. size(n + 1) \in Nat
    BY <2>2, FS_CardinalityType DEF FiniteMaps
  <2>5. size(n + 1) <= size(n) + 1 /\ (size(n) <= MaxActiveAcks => size(n + 1) <= MaxActiveAcks)
    BY <2>2, <2>3, ApplyLineFacts
  <2>6. size(n) \in Nat /\ size(n) <= MaxActiveAcks /\ size(n) <= n
    BY <1>4
  <2> QED
    BY <2>1, <2>4, <2>5, <2>6
<1>5. 0..Len(lines) \subseteq S
  <2> HIDE DEF S
  <2> QED
    BY <1>3, <1>4, BoundedInduction
<1> QED
  BY <1>1, <1>5

\* The replay of the file's first lines is what the replay goes through.
LEMMA ReplayOfPrefix ==
  ASSUME NEW lines \in Seq(Requests), NEW k \in 0..Len(lines)
  PROVE  Replay(SubSeq(lines, 1, k)) = Replaying(lines)[k]
<1> DEFINE other == SubSeq(lines, 1, k)
<1>1. /\ other \in Seq(Requests) /\ Len(other) = k /\ k \in Nat
      /\ \A i \in 1..k : i \in 1..Len(lines) /\ other[i] = lines[i]
  OBVIOUS
<1> HIDE DEF other
<1>2. PICK f, g : f = Replaying(other) /\ g = Replaying(lines)
  OBVIOUS
<1>3. f[0] = Empty /\ g[0] = Empty
  BY <1>1, <1>2, ReplayingSteps
<1>4. /\ \A n \in 1..Len(other) : f[n] = ApplyLine(f[n - 1], other[n])
      /\ \A n \in 1..Len(lines) : g[n] = ApplyLine(g[n - 1], lines[n])
  BY <1>1, <1>2, ReplayingSteps
<1>5. \A n \in 1..k : f[n - 1] = g[n - 1] => f[n] = g[n]
  BY <1>1, <1>4
<1>6. AgreeStepwise(f, g, k)
  BY <1>1, <1>3, <1>5 DEF AgreeStepwise
<1>7. \A n \in 0..k : f[n] = g[n]
  BY <1>6, RecursionsAgree
<1>8. Replay(other) = f[k]
  BY <1>1, <1>2 DEF Replay
<1> QED
  BY <1>1, <1>2, <1>7, <1>8 DEF other

-----------------------------------------------------------------------------
(* The story a file tells: the maps that the requests in it made, one after *)
(* the other.  An ack in it was new and under the cap, as far as the        *)
(* signatures in doubt leave that known, and the story ends with map.       *)

Story(lines, unsure, map) ==
    \E told \in [0..Len(lines) -> FiniteMaps] :
        /\ told[0] = Empty
        /\ \A n \in 1..Len(lines) :
              /\ told[n] = Applied(told[n - 1], lines[n])
              /\ lines[n].op = "ack" /\ lines[n].signature \notin unsure =>
                    lines[n].signature \notin DOMAIN told[n - 1]
              /\ lines[n].op = "ack" /\ unsure = {} => ~Full(told[n - 1])
        /\ \A s \in Signatures \ unsure : Agree(told[Len(lines)], map, s)

\* A story told with more doubt, of a map that differs where there is doubt.
LEMMA StoryWeakens ==
  ASSUME NEW lines, NEW unsure, NEW map, Story(lines, unsure, map),
         NEW more, unsure \subseteq more, NEW other,
         \A s \in Signatures \ more : Agree(map, other, s)
  PROVE  Story(lines, more, other)
<1>1. PICK told \in [0..Len(lines) -> FiniteMaps] :
        /\ told[0] = Empty
        /\ \A n \in 1..Len(lines) :
              /\ told[n] = Applied(told[n - 1], lines[n])
              /\ lines[n].op = "ack" /\ lines[n].signature \notin unsure =>
                    lines[n].signature \notin DOMAIN told[n - 1]
              /\ lines[n].op = "ack" /\ unsure = {} => ~Full(told[n - 1])
        /\ \A s \in Signatures \ unsure : Agree(told[Len(lines)], map, s)
  BY DEF Story
<1>2. \A n \in 1..Len(lines) :
         /\ lines[n].op = "ack" /\ lines[n].signature \notin more =>
               lines[n].signature \notin DOMAIN told[n - 1]
         /\ lines[n].op = "ack" /\ more = {} => ~Full(told[n - 1])
  BY <1>1
<1>3. ASSUME NEW s \in Signatures \ more PROVE Agree(told[Len(lines)], other, s)
  BY <1>1 DEF Agree
<1> QED
  BY <1>1, <1>2, <1>3 DEF Story

\* A map that agrees everywhere with one has its domain.
LEMMA AgreeEverywhere ==
  ASSUME NEW m1 \in FiniteMaps, NEW m2 \in FiniteMaps,
         \A s \in Signatures : Agree(m1, m2, s)
  PROVE  DOMAIN m1 = DOMAIN m2
<1>1. DOMAIN m1 \subseteq Signatures /\ DOMAIN m2 \subseteq Signatures
  BY DEF FiniteMaps, Maps
<1> QED
  BY <1>1 DEF Agree

\* The line of a request that was not refused continues the story.
LEMMA StoryContinues ==
  ASSUME NEW lines \in Seq(Requests), NEW unsure, NEW map \in FiniteMaps,
         Story(lines, unsure, map), NEW r \in Requests,
         r.op = "ack" => r.signature \notin DOMAIN map /\ ~Full(map)
  PROVE  Story(Append(lines, r), unsure, Applied(map, r))
<1>1. PICK told \in [0..Len(lines) -> FiniteMaps] :
        /\ told[0] = Empty
        /\ \A n \in 1..Len(lines) :
              /\ told[n] = Applied(told[n - 1], lines[n])
              /\ lines[n].op = "ack" /\ lines[n].signature \notin unsure =>
                    lines[n].signature \notin DOMAIN told[n - 1]
              /\ lines[n].op = "ack" /\ unsure = {} => ~Full(told[n - 1])
        /\ \A s \in Signatures \ unsure : Agree(told[Len(lines)], map, s)
  BY DEF Story
<1>2. PICK N \in Nat : N = Len(lines)
  OBVIOUS
<1>3. PICK more : more = Append(lines, r)
  OBVIOUS
<1>4. /\ Len(more) = N + 1
      /\ more[N + 1] = r
      /\ \A n \in 1..N : more[n] = lines[n]
  BY <1>2, <1>3
<1>5. PICK last : last = told[N]
  OBVIOUS
<1>6. last \in FiniteMaps /\ \A s \in Signatures \ unsure : Agree(last, map, s)
  BY <1>1, <1>2, <1>5
<1>7. PICK then : then = Applied(last, r)
  OBVIOUS
<1>8. then \in FiniteMaps /\ \A t : t # r.signature => Agree(then, last, t)
  BY <1>6, <1>7, AppliedFacts
<1> DEFINE tale == [n \in 0..(N + 1) |-> IF n = N + 1 THEN then ELSE told[n]]
<1>9. /\ tale \in [0..(N + 1) -> FiniteMaps]
      /\ \A n \in 0..N : tale[n] = told[n]
      /\ tale[N + 1] = then
  BY <1>1, <1>2, <1>8
<1> HIDE DEF tale
<1>10. tale[0] = Empty
  BY <1>1, <1>9
<1>11. r.op = "ack" /\ r.signature \notin unsure => r.signature \notin DOMAIN last
  BY <1>6, RequestFacts DEF Agree
<1>12. r.op = "ack" /\ unsure = {} => ~Full(last)
  BY <1>6, AgreeEverywhere DEF Full
<1>13. ASSUME NEW n \in 1..(N + 1)
       PROVE  /\ tale[n] = Applied(tale[n - 1], more[n])
              /\ more[n].op = "ack" /\ more[n].signature \notin unsure =>
                    more[n].signature \notin DOMAIN tale[n - 1]
              /\ more[n].op = "ack" /\ unsure = {} => ~Full(tale[n - 1])
  <2>1. CASE n = N + 1
    <3>1. tale[n] = then /\ tale[n - 1] = last /\ more[n] = r
      BY <2>1, <1>4, <1>5, <1>9
    <3> QED
      BY <3>1, <1>7, <1>11, <1>12
  <2>2. CASE n # N + 1
    <3>1. n \in 1..Len(lines) /\ more[n] = lines[n] /\ tale[n] = told[n] /\ tale[n - 1] = told[n - 1]
      BY <2>2, <1>2, <1>4, <1>9
    <3> QED
      BY <3>1, <1>1
  <2> QED
    BY <2>1, <2>2
<1>14. ASSUME NEW s \in Signatures \ unsure PROVE Agree(then, Applied(map, r), s)
  <2>1. PICK m : m = Applied(map, r)
    OBVIOUS
  <2>2. \A t : t # r.signature => Agree(m, map, t)
    BY <2>1, AppliedFacts
  <2>3. CASE s # r.signature
    <3>1. Agree(then, last, s) /\ Agree(last, map, s) /\ Agree(m, map, s)
      BY <2>2, <2>3, <1>6, <1>8
    <3> QED
      BY <2>1, <3>1 DEF Agree
  <2>4. CASE s = r.signature
    <3>1. /\ r.op = "ack" => /\ s \in DOMAIN m /\ m[s] = r.expires
                             /\ s \in DOMAIN then /\ then[s] = r.expires
          /\ r.op = "unack" => s \notin DOMAIN m /\ s \notin DOMAIN then
      BY <2>1, <2>4, <1>6, <1>7, AppliedFacts
    <3>2. r.op = "ack" \/ r.op = "unack"
      BY RequestFacts
    <3> QED
      BY <2>1, <3>1, <3>2 DEF Agree
  <2> QED
    BY <2>3, <2>4
<1>15. Story(more, unsure, Applied(map, r))
  BY <1>4, <1>9, <1>10, <1>13, <1>14 DEF Story
<1> QED
  BY <1>3, <1>15

\* A rewritten file tells the story of the map it was written from.
LEMMA StoryOfCompaction ==
  ASSUME NEW map \in FiniteMaps, Cardinality(DOMAIN map) <= MaxActiveAcks,
         NEW lines \in Compactions(map)
  PROVE  /\ lines \in Seq(Requests)
         /\ Len(lines) = Cardinality(DOMAIN map)
         /\ Story(lines, {}, map)
<1> DEFINE N == Cardinality(DOMAIN map)
<1>1. /\ N \in Nat
      /\ IsFiniteSet(DOMAIN map)
      /\ DOMAIN map \subseteq Signatures
      /\ map \in [DOMAIN map -> Expiries]
  BY FS_CardinalityType DEF FiniteMaps, Maps
<1> HIDE DEF N
<1>2. PICK order \in [1..N -> DOMAIN map] :
        /\ \A i, j \in 1..N : i # j => order[i] # order[j]
        /\ lines = [i \in 1..N |-> [op |-> "ack", signature |-> order[i],
                                    expires |-> map[order[i]]]]
  BY DEF Compactions, SetToSeqs, N
<1>3. /\ DOMAIN lines = 1..N
      /\ \A i \in 1..N : /\ lines[i] \in Requests
                         /\ lines[i].op = "ack"
                         /\ lines[i].signature = order[i]
                         /\ lines[i].expires = map[order[i]]
  BY <1>1, <1>2 DEF Requests
<1>4. lines \in Seq(Requests) /\ Len(lines) = N
  <2>1. lines \in [1..N -> Requests]
    BY <1>2, <1>3
  <2> QED
    BY <2>1, <1>1
<1> DEFINE Seen(n) == {order[i] : i \in 1..n}
           told == [n \in 0..N |-> [s \in Seen(n) |-> map[s]]]
<1>5. ASSUME NEW n \in 0..N PROVE Seen(n) \subseteq DOMAIN map
  BY <1>1, <1>2
<1>6. ASSUME NEW n \in 0..N PROVE [s \in Seen(n) |-> map[s]] \in FiniteMaps
  <2>1. PICK S : S = Seen(n)
    OBVIOUS
  <2>2. S \subseteq DOMAIN map
    BY <2>1, <1>5
  <2>3. IsFiniteSet(S)
    BY <2>2, <1>1, FS_Subset
  <2>4. [s \in S |-> map[s]] \in [S -> Expiries]
    BY <2>2, <1>1
  <2>5. [s \in S |-> map[s]] \in Maps
    BY <2>2, <2>4, <1>1 DEF Maps
  <2>6. [s \in S |-> map[s]] \in FiniteMaps
    BY <2>3, <2>5 DEF FiniteMaps
  <2> QED
    BY <2>1, <2>6
<1>7. told \in [0..N -> FiniteMaps]
  BY <1>6
<1>8. \A n \in 0..N : told[n] = [s \in Seen(n) |-> map[s]]
  OBVIOUS
<1> HIDE DEF told
<1>9. told[0] = Empty
  <2>1. 0 \in 0..N
    BY <1>1
  <2>2. Seen(0) = {}
    OBVIOUS
  <2> QED
    BY <2>1, <2>2, <1>8 DEF Empty
<1>10. ASSUME NEW n \in 1..N
       PROVE  /\ told[n] = Applied(told[n - 1], lines[n])
              /\ lines[n].signature \notin DOMAIN told[n - 1]
              /\ ~Full(told[n - 1])
  <2>1. n - 1 \in 0..N /\ n \in 0..N /\ n \in 1..N
    BY <1>1
  <2>2. PICK before, after, s :
          before = Seen(n - 1) /\ after = Seen(n) /\ s = order[n]
    OBVIOUS
  <2>3. after = before \cup {s}
    <3>1. 1..n = 1..(n - 1) \cup {n}
      BY <1>1
    <3> QED
      BY <3>1, <2>2
  <2>4. s \notin before
    <3>1. \A i \in 1..(n - 1) : i \in 1..N /\ i # n
      BY <1>1
    <3> QED
      BY <3>1, <2>1, <2>2, <1>2
  <2>5. s \in DOMAIN map /\ before \subseteq DOMAIN map
    BY <2>1, <2>2, <1>2, <1>5
  <2>6. told[n - 1] = [t \in before |-> map[t]] /\ told[n] = [t \in after |-> map[t]]
    BY <2>1, <2>2, <1>8
  <2>7. lines[n].op = "ack" /\ lines[n].signature = s /\ lines[n].expires = map[s]
    BY <1>3, <2>2
  <2>8. Applied(told[n - 1], lines[n]) = With([t \in before |-> map[t]], s, map[s])
    BY <2>6, <2>7 DEF Applied
  <2>9. With([t \in before |-> map[t]], s, map[s]) = [t \in after |-> map[t]]
    BY <2>3, <2>4 DEF With
  <2>10. ~Full(told[n - 1])
    <3>1. /\ Cardinality(before) <= N
          /\ Cardinality(before) # N
      BY <2>4, <2>5, <1>1, FS_Subset DEF N
    <3>2. Cardinality(before) \in Nat
      BY <2>5, <1>1, FS_Subset, FS_CardinalityType
    <3>3. Cardinality(before) < MaxActiveAcks
      BY <3>1, <3>2, <1>1, AckAssumption DEF N
    <3> QED
      BY <3>2, <3>3, <2>6, AckAssumption DEF Full
  <2> QED
    BY <2>4, <2>6, <2>7, <2>8, <2>9, <2>10
<1>11. told[N] = map
  <2>1. order \in Injection(1..N, DOMAIN map)
    BY <1>2 DEF Injection, IsInjective
  <2>2. IsFiniteSet(1..N) /\ Cardinality(1..N) = N
    BY <1>1, FS_Interval
  <2>3. order \in Surjection(1..N, DOMAIN map)
    BY <2>1, <2>2, <1>1, FS_Injection DEF N
  <2>4. Seen(N) = DOMAIN map
    BY <2>3, <1>2 DEF Surjection
  <2>5. N \in 0..N
    BY <1>1
  <2>6. told[N] = [s \in DOMAIN map |-> map[s]]
    BY <2>4, <2>5, <1>8
  <2> QED
    BY <2>6, <1>1
<1>12. Story(lines, {}, map)
  <2>1. \A s \in Signatures \ {} : Agree(told[N], map, s)
    BY <1>11 DEF Agree
  <2> QED
    BY <2>1, <1>4, <1>7, <1>9, <1>10 DEF Story
<1> QED
  BY <1>4, <1>12 DEF N

-----------------------------------------------------------------------------
(* What a restart brings back of a story.                                  *)

\* After n lines: an ack that was replayed is the one told, in force; one told
\* and in force that was not replayed found the replayed map at its cap, which
\* needs a doubt.
ToldAt(told, replayed, unsure, n) ==
    \A s \in Signatures \ unsure :
        /\ s \in DOMAIN replayed[n] =>
              /\ s \in DOMAIN told[n]
              /\ told[n][s] = replayed[n][s]
              /\ ~IsExpired(replayed[n][s])
        /\ s \in DOMAIN told[n] /\ ~IsExpired(told[n][s]) /\ s \notin DOMAIN replayed[n] =>
              unsure # {} /\ \E k \in 1..n : Full(replayed[k])

\* One line keeps that.
LEMMA ToldStep ==
  ASSUME NEW n \in Nat \ {0}, NEW told, NEW replayed, NEW unsure, NEW r \in Requests,
         told[n - 1] \in FiniteMaps, replayed[n - 1] \in FiniteMaps,
         told[n] = Applied(told[n - 1], r),
         replayed[n] = ApplyLine(replayed[n - 1], r),
         r.op = "ack" /\ r.signature \notin unsure => r.signature \notin DOMAIN told[n - 1],
         r.op = "ack" /\ unsure = {} => ~Full(told[n - 1]),
         ToldAt(told, replayed, unsure, n - 1)
  PROVE  ToldAt(told, replayed, unsure, n)
<1>1. PICK t1, t2, r1, r2 : /\ t1 = told[n - 1] /\ t2 = told[n]
                            /\ r1 = replayed[n - 1] /\ r2 = replayed[n]
  OBVIOUS
<1>2. \A k \in 1..(n - 1) : k \in 1..n
  OBVIOUS
<1>3. ASSUME NEW s \in Signatures \ unsure
      PROVE  /\ s \in DOMAIN r1 => /\ s \in DOMAIN t1
                                   /\ t1[s] = r1[s]
                                   /\ ~IsExpired(r1[s])
             /\ s \in DOMAIN t1 /\ ~IsExpired(t1[s]) /\ s \notin DOMAIN r1 =>
                   unsure # {} /\ \E k \in 1..n : Full(replayed[k])
  BY <1>1, <1>2 DEF ToldAt
<1>4. /\ t1 \in FiniteMaps /\ r1 \in FiniteMaps
      /\ t2 = Applied(t1, r) /\ r2 = ApplyLine(r1, r)
  BY <1>1
<1>5. /\ \A t : t # r.signature => Agree(t2, t1, t)
      /\ r.op = "ack" => r.signature \in DOMAIN t2 /\ t2[r.signature] = r.expires
      /\ r.op = "unack" => r.signature \notin DOMAIN t2
  BY <1>4, AppliedFacts
<1>6. \A t : t # r.signature => Agree(r2, r1, t)
  BY <1>4, ApplyLineFacts
<1>7. ASSUME NEW s \in Signatures \ unsure
      PROVE  /\ s \in DOMAIN r2 => /\ s \in DOMAIN t2
                                   /\ t2[s] = r2[s]
                                   /\ ~IsExpired(r2[s])
             /\ s \in DOMAIN t2 /\ ~IsExpired(t2[s]) /\ s \notin DOMAIN r2 =>
                   unsure # {} /\ \E k \in 1..n : Full(replayed[k])
  <2>1. CASE s # r.signature
    <3>1. Agree(t2, t1, s) /\ Agree(r2, r1, s)
      BY <2>1, <1>5, <1>6
    <3> QED
      BY <3>1, <1>3 DEF Agree
  <2>2. CASE s = r.signature /\ r.op = "unack"
    <3>1. r2 = Applied(r1, r)
      BY <2>2, <1>4, ApplyLineIs
    <3>2. s \notin DOMAIN r2 /\ s \notin DOMAIN t2
      BY <2>2, <3>1, <1>4, <1>5, AppliedFacts
    <3> QED
      BY <3>2
  <2>3. CASE s = r.signature /\ r.op = "ack"
    <3>1. s \notin DOMAIN t1 /\ s \notin DOMAIN r1
      BY <2>3, <1>1, <1>3
    <3>2. s \in DOMAIN t2 /\ t2[s] = r.expires
      BY <2>3, <1>5
    <3>3. CASE IsExpired(r.expires)
      <4>1. r2 = r1
        BY <2>3, <3>3, <1>4, ApplyLineIs
      <4> QED
        BY <4>1, <3>1, <3>2, <3>3
    <3>4. CASE Full(r1)
      <4>1. r2 = r1
        BY <2>3, <3>4, <1>4, ApplyLineIs
      <4>2. n \in 1..n /\ Full(replayed[n])
        BY <4>1, <3>4, <1>1
      <4>3. unsure # {}
        <5> SUFFICES ASSUME unsure = {} PROVE FALSE
          OBVIOUS
        <5>1. ~Full(t1)
          BY <2>3, <1>1
        <5>2. DOMAIN r1 \subseteq Signatures /\ IsFiniteSet(DOMAIN t1)
          BY <1>4 DEF FiniteMaps, Maps
        <5>3. DOMAIN r1 \subseteq DOMAIN t1
          BY <5>2, <1>3
        <5>4. /\ Cardinality(DOMAIN r1) <= Cardinality(DOMAIN t1)
              /\ Cardinality(DOMAIN r1) \in Nat /\ Cardinality(DOMAIN t1) \in Nat
          BY <5>2, <5>3, FS_Subset, FS_CardinalityType
        <5> QED
          BY <5>1, <5>4, <3>4, AckAssumption DEF Full
      <4> QED
        BY <4>1, <4>2, <4>3, <3>1
    <3>5. CASE ~IsExpired(r.expires) /\ ~Full(r1)
      <4>1. r2 = Applied(r1, r)
        BY <2>3, <3>5, <1>4, ApplyLineIs
      <4>2. s \in DOMAIN r2 /\ r2[s] = r.expires
        BY <4>1, <2>3, <1>4, AppliedFacts
      <4> QED
        BY <4>2, <3>2, <3>5
    <3> QED
      BY <3>3, <3>4, <3>5
  <2> QED
    BY <2>1, <2>2, <2>3, RequestFacts
<1> QED
  BY <1>1, <1>7 DEF ToldAt

\* After all of them, with the replays of the file's beginnings for the maps
\* the replay goes through.
LEMMA StoryReplayed ==
  ASSUME NEW lines \in Seq(Requests), NEW unsure, NEW map, Story(lines, unsure, map)
  PROVE  \A s \in Signatures \ unsure :
            /\ s \in DOMAIN Replay(lines) =>
                  /\ s \in DOMAIN map
                  /\ map[s] = Replay(lines)[s]
                  /\ ~IsExpired(map[s])
            /\ s \in DOMAIN map /\ ~IsExpired(map[s]) /\ s \notin DOMAIN Replay(lines) =>
                  /\ unsure # {}
                  /\ \E n \in DOMAIN lines : Full(Replay(SubSeq(lines, 1, n)))
<1>1. PICK told \in [0..Len(lines) -> FiniteMaps] :
        /\ told[0] = Empty
        /\ \A n \in 1..Len(lines) :
              /\ told[n] = Applied(told[n - 1], lines[n])
              /\ lines[n].op = "ack" /\ lines[n].signature \notin unsure =>
                    lines[n].signature \notin DOMAIN told[n - 1]
              /\ lines[n].op = "ack" /\ unsure = {} => ~Full(told[n - 1])
        /\ \A s \in Signatures \ unsure : Agree(told[Len(lines)], map, s)
  BY DEF Story
<1>2. PICK replayed : replayed = Replaying(lines)
  OBVIOUS
<1>3. /\ replayed \in [0..Len(lines) -> FiniteMaps]
      /\ replayed[0] = Empty
      /\ \A n \in 1..Len(lines) : replayed[n] = ApplyLine(replayed[n - 1], lines[n])
  BY <1>2, ReplayingSteps
<1> DEFINE S == {n \in Nat : ToldAt(told, replayed, unsure, n)}
<1>4. 0 \in S
  BY <1>1, <1>3, EmptyFacts DEF ToldAt
<1>5. ASSUME NEW n \in 0..(Len(lines) - 1), n \in S PROVE n + 1 \in S
  <2>1. PICK m : m = n + 1
    OBVIOUS
  <2>2. m \in Nat \ {0} /\ m \in 1..Len(lines) /\ m - 1 = n /\ n \in 0..Len(lines)
    BY <2>1
  <2>3. lines[m] \in Requests
    BY <2>2
  <2>4. told[m - 1] \in FiniteMaps /\ replayed[m - 1] \in FiniteMaps
    BY <2>2, <1>1, <1>3
  <2>5. /\ told[m] = Applied(told[m - 1], lines[m])
        /\ replayed[m] = ApplyLine(replayed[m - 1], lines[m])
        /\ lines[m].op = "ack" /\ lines[m].signature \notin unsure =>
              lines[m].signature \notin DOMAIN told[m - 1]
        /\ lines[m].op = "ack" /\ unsure = {} => ~Full(told[m - 1])
    BY <2>2, <1>1, <1>3
  <2>6. ToldAt(told, replayed, unsure, m - 1)
    BY <2>2, <1>5
  <2>7. ToldAt(told, replayed, unsure, m)
    BY <2>2, <2>3, <2>4, <2>5, <2>6, ToldStep
  <2> QED
    BY <2>1, <2>2, <2>7
<1> HIDE DEF S
<1>6. PICK N \in Nat : N = Len(lines)
  OBVIOUS
<1>7. 0..N \subseteq S
  BY <1>4, <1>5, <1>6, BoundedInduction
<1>8. ToldAt(told, replayed, unsure, N)
  BY <1>7 DEF S
<1>9. Replay(lines) = replayed[N]
  BY <1>2, <1>6 DEF Replay
<1>10. \A n \in 1..N : n \in DOMAIN lines /\ Replay(SubSeq(lines, 1, n)) = replayed[n]
  BY <1>2, <1>6, ReplayOfPrefix
<1>11. ASSUME NEW s \in Signatures \ unsure
       PROVE  /\ s \in DOMAIN replayed[N] =>
                    s \in DOMAIN map /\ map[s] = replayed[N][s] /\ ~IsExpired(map[s])
              /\ s \in DOMAIN map /\ ~IsExpired(map[s]) /\ s \notin DOMAIN replayed[N] =>
                    /\ unsure # {}
                    /\ \E n \in DOMAIN lines : Full(Replay(SubSeq(lines, 1, n)))
  <2>1. Agree(told[N], map, s)
    BY <1>1, <1>6
  <2>2. /\ s \in DOMAIN replayed[N] => /\ s \in DOMAIN told[N]
                                       /\ told[N][s] = replayed[N][s]
                                       /\ ~IsExpired(replayed[N][s])
        /\ s \in DOMAIN told[N] /\ ~IsExpired(told[N][s]) /\ s \notin DOMAIN replayed[N] =>
              unsure # {} /\ \E k \in 1..N : Full(replayed[k])
    BY <1>8 DEF ToldAt
  <2>3. (\E k \in 1..N : Full(replayed[k])) =>
           \E n \in DOMAIN lines : Full(Replay(SubSeq(lines, 1, n)))
    BY <1>10
  <2> QED
    BY <2>1, <2>2, <2>3 DEF Agree
<1> QED
  BY <1>9, <1>11

-----------------------------------------------------------------------------
(* The invariant: the file tells the story of the map, a request that was   *)
(* written but not swapped in included.                                     *)

\* The map the file is about.
Written == IF lock \in Clients /\ pc[lock] = "swapping" THEN draft[lock] ELSE active

StoryInv == phase = "up" /\ Parses(file) => Story(file, doubt, Written)

\* There is room for an ack that was accepted, and a stopped process has no
\* doubts.
RoomInv ==
    /\ \A c \in Clients : Working(c) /\ request[c].op = "ack" => ~Full(active)
    /\ phase = "down" => doubt = {}

Ranges ==
    /\ file \in Seq(Requests \cup {CutLine}) /\ Len(file) <= MaxFileLines
    /\ active \in FiniteMaps /\ Cardinality(DOMAIN active) <= MaxActiveAcks
    /\ lock \in Clients \cup {NoClient}
    /\ draft \in [Clients -> FiniteMaps]
    /\ now \in 0..MaxTime
    /\ doubt \subseteq Signatures

StoreInv == Inv /\ Ranges /\ RoomInv /\ StoryInv

\* A file that parses is one of requests.
LEMMA ParsedFile ==
  ASSUME NEW lines \in Seq(Requests \cup {CutLine}), Parses(lines)
  PROVE  lines \in Seq(Requests)
<1>1. \A i \in 1..Len(lines) : lines[i] # CutLine
  BY DEF Parses, ToSet
<1>2. \A i \in 1..Len(lines) : lines[i] \in Requests
  BY <1>1
<1> QED
  BY <1>2

\* A line is appended to a file that parses, and none makes one that does not
\* parse do so again.
LEMMA AppendedFacts ==
  ASSUME NEW lines \in Seq(Requests \cup {CutLine}), NEW line \in Requests \cup {CutLine}
  PROVE  /\ Appended(lines, line) \in Seq(Requests \cup {CutLine})
         /\ Len(Appended(lines, line)) <= Len(lines) + 1
         /\ Parses(Appended(lines, line)) =>
               /\ Parses(lines)
               /\ line # CutLine
               /\ Appended(lines, line) = Append(lines, line)
<1>1. CASE lines # <<>> /\ Last(lines) = CutLine
  <2>1. Appended(lines, line) = lines
    BY <1>1 DEF Appended
  <2>2. Len(lines) \in DOMAIN lines
    BY <1>1
  <2>3. ~Parses(lines)
    BY <1>1, <2>2 DEF Last, Parses, ToSet
  <2> QED
    BY <2>1, <2>3
<1>2. CASE ~(lines # <<>> /\ Last(lines) = CutLine)
  <2>1. PICK more : more = Append(lines, line)
    OBVIOUS
  <2>2. Appended(lines, line) = more
    BY <1>2, <2>1 DEF Appended
  <2>3. /\ more \in Seq(Requests \cup {CutLine})
        /\ Len(more) = Len(lines) + 1
        /\ more[Len(lines) + 1] = line
        /\ \A i \in 1..Len(lines) : more[i] = lines[i]
    BY <2>1
  <2>4. CutLine \in ToSet(lines) \cup {line} => CutLine \in ToSet(more)
    <3>1. \A i \in DOMAIN lines : i \in DOMAIN more /\ more[i] = lines[i]
      BY <2>3
    <3>2. Len(lines) + 1 \in DOMAIN more
      BY <2>3
    <3> QED
      BY <3>1, <3>2, <2>3 DEF ToSet
  <2> QED
    BY <2>1, <2>2, <2>3, <2>4 DEF Parses
<1> QED
  BY <1>1, <1>2

\* What an append leaves behind, whether or not it returned, tells the story of
\* the map with the request or, in doubt about it, of the map without.
LEMMA StoryAppended ==
  ASSUME NEW c \in Clients, Working(c), StoreInv, phase = "up",
         pc[c] = "writing",
         NEW line \in {request[c], CutLine}, NEW lines, lines = Appended(file, line),
         Parses(lines)
  PROVE  /\ Story(lines, doubt, draft[c])
         /\ Story(lines, doubt \cup {request[c].signature}, active)
<1>1. PICK r, sig : r = request[c] /\ sig = r.signature
  OBVIOUS
<1>2. r \in Requests /\ draft[c] = Applied(active, r) /\ lock = c
  BY <1>1 DEF StoreInv, Inv, RequestInv, MutexInv, DraftInv, Working
<1>3. file \in Seq(Requests \cup {CutLine}) /\ active \in FiniteMaps
  BY DEF StoreInv, Ranges
<1>4. Parses(file) /\ line # CutLine /\ lines = Append(file, line)
  BY <1>1, <1>2, <1>3, AppendedFacts
<1>5. line = r
  BY <1>1, <1>4
<1>6. file \in Seq(Requests)
  BY <1>3, <1>4, ParsedFile
<1>7. Story(file, doubt, active)
  BY <1>2, <1>4 DEF StoreInv, StoryInv, Written
<1>8. r.op = "ack" => sig \notin DOMAIN active /\ ~Full(active)
  BY <1>1 DEF StoreInv, Inv, DraftInv, RoomInv
<1>9. PICK then : then = Applied(active, r)
  OBVIOUS
<1>10. Story(lines, doubt, then)
  BY <1>1, <1>2, <1>3, <1>4, <1>5, <1>6, <1>7, <1>8, <1>9, StoryContinues
<1>11. \A t : t # sig => Agree(then, active, t)
  BY <1>1, <1>2, <1>3, <1>9, AppliedFacts
<1>12. Story(lines, doubt \cup {sig}, active)
  <2>1. PICK more : more = doubt \cup {sig}
    OBVIOUS
  <2>2. doubt \subseteq more /\ \A s \in Signatures \ more : Agree(then, active, s)
    BY <2>1, <1>11
  <2>3. Story(lines, more, active)
    BY <2>2, <1>10, StoryWeakens
  <2> QED
    BY <2>1, <2>3
<1> QED
  BY <1>1, <1>2, <1>9, <1>10, <1>12

\* A file nothing was written to tells the story of the map without a request
\* that is given up, in doubt about it.
LEMMA StoryAbandoned ==
  ASSUME NEW c \in Clients, Working(c), StoreInv, phase = "up", Parses(file)
  PROVE  Story(file, doubt \cup {request[c].signature}, active)
<1>1. PICK r, sig, more : r = request[c] /\ sig = r.signature /\ more = doubt \cup {sig}
  OBVIOUS
<1>2. r \in Requests /\ draft[c] = Applied(active, r) /\ lock = c
  BY <1>1 DEF StoreInv, Inv, RequestInv, MutexInv, DraftInv, Working
<1>3. active \in FiniteMaps
  BY DEF StoreInv, Ranges
<1>4. PICK then : then = Applied(active, r)
  OBVIOUS
<1>5. \A t : t # sig => Agree(then, active, t)
  BY <1>1, <1>2, <1>3, <1>4, AppliedFacts
<1>6. doubt \subseteq more
  BY <1>1
<1>7. CASE Story(file, doubt, then)
  <2>1. \A s \in Signatures \ more : Agree(then, active, s)
    BY <1>1, <1>5
  <2>2. Story(file, more, active)
    BY <1>6, <1>7, <2>1, StoryWeakens
  <2> QED
    BY <1>1, <2>2
<1>8. CASE Story(file, doubt, active)
  <2>1. \A s \in Signatures \ more : Agree(active, active, s)
    BY DEF Agree
  <2>2. Story(file, more, active)
    BY <1>6, <1>8, <2>1, StoryWeakens
  <2> QED
    BY <1>1, <2>2
<1> QED
  BY <1>2, <1>4, <1>7, <1>8 DEF StoreInv, StoryInv, Written

-----------------------------------------------------------------------------
(* Every step keeps it.                                                    *)

\* A client that answers lets go of its draft.
LEMMA AnswerDrafts ==
  ASSUME Ranges, NEW c \in Clients, Answer(c)
  PROVE  draft' \in [Clients -> FiniteMaps]
BY EmptyFacts DEF Ranges, Answer

\* What an append that failed may leave is a file.
LEMMA LeftoversAreFiles ==
  ASSUME Ranges, NEW line \in Requests, Len(file) < MaxFileLines,
         NEW lines \in Leftovers(line)
  PROVE  lines \in Seq(Requests \cup {CutLine}) /\ Len(lines) <= MaxFileLines
<1>1. file \in Seq(Requests \cup {CutLine}) /\ Len(file) \in Nat
  BY DEF Ranges
<1>2. lines = file \/ lines = Appended(file, line) \/ lines = Appended(file, CutLine)
  BY DEF Leftovers
<1>3. ASSUME NEW end \in {line, CutLine}, lines = Appended(file, end)
      PROVE  lines \in Seq(Requests \cup {CutLine}) /\ Len(lines) <= MaxFileLines
  <2>1. /\ lines \in Seq(Requests \cup {CutLine})
        /\ Len(lines) <= Len(file) + 1
    BY <1>1, <1>3, AppendedFacts
  <2>2. Len(lines) \in Nat
    BY <2>1
  <2> QED
    BY <1>1, <2>1, <2>2, AckAssumption
<1> QED
  BY <1>1, <1>2, <1>3 DEF Ranges

\* The variables keep their ranges: a start within the cap, an append within
\* the file's, a swap within the cap the request was checked against.
LEMMA StepKeepsRanges == StoreInv /\ [Next]_vars => Ranges'
<1> SUFFICES ASSUME StoreInv, [Next]_vars PROVE Ranges'
  OBVIOUS
<1>0. /\ Ranges /\ Inv
      /\ file \in Seq(Requests \cup {CutLine}) /\ Len(file) \in Nat
  BY DEF StoreInv, Ranges
<1>1. ASSUME NEW c \in Clients, NEW r \in Requests, Submit(c, r) PROVE Ranges'
  BY <1>0, <1>1 DEF Submit, Ranges
<1>2. ASSUME NEW c \in Clients, Lock(c) PROVE Ranges'
  <2>1. CASE Answer(c) /\ UNCHANGED lock
    BY <1>0, <1>2, <2>1, AnswerDrafts DEF Lock, Ranges
  <2>2. CASE /\ lock' = c
             /\ draft' = [draft EXCEPT ![c] = Applied(active, request[c])]
    <3>1. request[c] \in Requests
      BY <1>0, <1>2 DEF Lock, Inv, RequestInv
    <3>2. Applied(active, request[c]) \in FiniteMaps
      BY <1>0, <3>1, AppliedFacts DEF Ranges
    <3>3. draft' \in [Clients -> FiniteMaps]
      BY <1>0, <2>2, <3>2 DEF Ranges
    <3>4. lock' \in Clients \cup {NoClient}
      BY <2>2
    <3> QED
      BY <1>0, <1>2, <3>3, <3>4 DEF Lock, Ranges
  <2> QED
    BY <1>2, <2>1, <2>2 DEF Lock
<1>3. ASSUME NEW c \in Clients, AppendLine(c) PROVE Ranges'
  <2>1. request[c] \in Requests
    BY <1>0, <1>3 DEF AppendLine, Inv, RequestInv
  <2>2. file' = Appended(file, request[c]) /\ Len(file) < MaxFileLines
    BY <1>3 DEF AppendLine
  <2>3. /\ file' \in Seq(Requests \cup {CutLine})
        /\ Len(file') <= Len(file) + 1
    BY <1>0, <2>1, <2>2, AppendedFacts
  <2>4. Len(file') \in Nat
    BY <2>3
  <2>5. Len(file') <= MaxFileLines
    BY <1>0, <2>2, <2>3, <2>4, AckAssumption
  <2> QED
    BY <1>0, <1>3, <2>3, <2>5 DEF AppendLine, Ranges
<1>4. ASSUME NEW c \in Clients, AppendFails(c) PROVE Ranges'
  <2>1. request[c] \in Requests /\ request[c].signature \in Signatures
    BY <1>0, <1>4, RequestFacts DEF AppendFails, Inv, RequestInv
  <2>2. file' \in Seq(Requests \cup {CutLine}) /\ Len(file') <= MaxFileLines
    <3>1. CASE UNCHANGED file
      BY <1>0, <3>1 DEF Ranges
    <3>2. CASE Len(file) < MaxFileLines /\ file' \in Leftovers(request[c])
      BY <1>0, <3>2, <2>1, LeftoversAreFiles
    <3> QED
      BY <1>4, <3>1, <3>2 DEF AppendFails
  <2>3. doubt' \subseteq Signatures
    BY <1>0, <1>4, <2>1 DEF AppendFails, Ranges
  <2>4. draft' \in [Clients -> FiniteMaps]
    BY <1>0, <1>4, AnswerDrafts DEF AppendFails
  <2> QED
    BY <1>0, <1>4, <2>2, <2>3, <2>4 DEF AppendFails, Ranges
<1>5. ASSUME NEW c \in Clients, Swap(c) PROVE Ranges'
  <2>1. Working(c) /\ request[c] \in Requests
    BY <1>0, <1>5 DEF Swap, Working, Inv, RequestInv
  <2>2. draft[c] = Applied(active, request[c])
    BY <1>0, <2>1 DEF Inv, DraftInv
  <2>3. request[c].op = "ack" => ~Full(active)
    BY <2>1 DEF StoreInv, RoomInv
  <2>4. active \in FiniteMaps /\ Cardinality(DOMAIN active) <= MaxActiveAcks
    BY <1>0 DEF Ranges
  <2>5. PICK then : then = Applied(active, request[c])
    OBVIOUS
  <2>6. then \in FiniteMaps
    BY <2>1, <2>4, <2>5, AppliedFacts
  <2>7. /\ Cardinality(DOMAIN active) \in Nat
        /\ Cardinality(DOMAIN then) \in Nat
        /\ Cardinality(DOMAIN then) <= Cardinality(DOMAIN active) + 1
        /\ request[c].op = "unack" => Cardinality(DOMAIN then) <= Cardinality(DOMAIN active)
    BY <2>1, <2>4, <2>5, AppliedSize
  <2>8. request[c].op = "ack" \/ request[c].op = "unack"
    BY <2>1, RequestFacts
  <2>9. Cardinality(DOMAIN then) <= MaxActiveAcks
    BY <2>3, <2>4, <2>7, <2>8, AckAssumption DEF Full
  <2>10. active' = then
    BY <1>5, <2>2, <2>5 DEF Swap
  <2>11. draft' \in [Clients -> FiniteMaps]
    BY <1>0, <1>5, AnswerDrafts DEF Swap
  <2> QED
    BY <1>0, <1>5, <2>6, <2>9, <2>10, <2>11 DEF Swap, Ranges
<1>6. ASSUME NEW c \in Clients, Disconnect(c) PROVE Ranges'
  <2>1. draft' \in [Clients -> FiniteMaps]
    BY <1>0, <1>6, AnswerDrafts DEF Disconnect
  <2>2. pc[c] # "idle"
    BY <1>6 DEF Disconnect
  <2>3. request[c] \in Requests /\ request[c].signature \in Signatures
    BY <1>0, <2>2, RequestFacts DEF Inv, RequestInv
  <2>4. file' \in Seq(Requests \cup {CutLine}) /\ Len(file') <= MaxFileLines
    <3>1. CASE UNCHANGED file
      BY <1>0, <3>1 DEF Ranges
    <3>2. CASE Len(file) < MaxFileLines /\ file' = Appended(file, request[c])
      <4>1. /\ file' \in Seq(Requests \cup {CutLine})
            /\ Len(file') <= Len(file) + 1
        BY <1>0, <2>3, <3>2, AppendedFacts
      <4>2. Len(file') \in Nat
        BY <4>1
      <4> QED
        BY <1>0, <3>2, <4>1, <4>2, AckAssumption
    <3> QED
      BY <1>6, <3>1, <3>2 DEF Disconnect
  <2>5. lock' \in Clients \cup {NoClient} /\ doubt' \subseteq Signatures
    BY <1>0, <1>6, <2>3 DEF Disconnect, Ranges
  <2> QED
    BY <1>0, <1>6, <2>1, <2>4, <2>5 DEF Disconnect, Ranges
<1>7. CASE Crash
  <2>1. file' \in Seq(Requests \cup {CutLine}) /\ Len(file') <= MaxFileLines
    <3>1. CASE file' = file
      BY <1>0, <3>1 DEF Ranges
    <3>2. ASSUME NEW c \in Clients, pc[c] = "writing", Len(file) < MaxFileLines,
                 file' \in Leftovers(request[c])
          PROVE  file' \in Seq(Requests \cup {CutLine}) /\ Len(file') <= MaxFileLines
      <4>1. request[c] \in Requests
        BY <1>0, <3>2 DEF Inv, RequestInv
      <4> QED
        BY <1>0, <3>2, <4>1, LeftoversAreFiles
    <3> QED
      BY <1>7, <3>1, <3>2 DEF Crash
  <2>2. /\ active' \in FiniteMaps /\ Cardinality(DOMAIN active') <= MaxActiveAcks
        /\ draft' \in [Clients -> FiniteMaps]
    BY <1>7, EmptyFacts, AckAssumption DEF Crash
  <2> QED
    BY <1>0, <1>7, <2>1, <2>2 DEF Crash, Ranges
<1>8. CASE Restart
  <2>1. CASE ~Parses(file)
    BY <1>0, <1>8, <2>1 DEF Restart, Ranges
  <2>2. CASE Parses(file)
    <3>1. file \in Seq(Requests)
      BY <1>0, <2>2, ParsedFile
    <3>2. PICK map : map = Replay(file)
      OBVIOUS
    <3>3. PICK n \in 0..Len(file) : n = Len(file)
      BY <1>0
    <3>4. map = Replaying(file)[n]
      BY <3>2, <3>3 DEF Replay
    <3>5. map \in FiniteMaps
      BY <3>1, <3>3, <3>4, ReplayingSteps
    <3>6. /\ Cardinality(DOMAIN map) \in Nat
          /\ Cardinality(DOMAIN map) <= MaxActiveAcks
          /\ Cardinality(DOMAIN map) <= n
      BY <3>1, <3>3, <3>4, ReplayingSize
    <3>7. active' = map /\ file' \in Compactions(map)
      BY <1>8, <2>2, <3>2 DEF Restart
    <3>8. file' \in Seq(Requests) /\ Len(file') = Cardinality(DOMAIN map)
      BY <3>5, <3>6, <3>7, StoryOfCompaction
    <3>9. file' \in Seq(Requests \cup {CutLine})
      BY <3>8
    <3>10. Len(file) <= MaxFileLines
      BY <1>0 DEF Ranges
    <3>11. Len(file') <= MaxFileLines
      BY <1>0, <3>3, <3>6, <3>8, <3>10, AckAssumption
    <3> QED
      BY <1>0, <1>8, <3>5, <3>6, <3>7, <3>9, <3>11 DEF Restart, Ranges
  <2> QED
    BY <2>1, <2>2
<1>9. CASE Advance
  BY <1>0, <1>9, AckAssumption DEF Advance, Ranges
<1>10. CASE UNCHANGED vars
  BY <1>0, <1>10 DEF vars, Ranges
<1> QED
  BY <1>1, <1>2, <1>3, <1>4, <1>5, <1>6, <1>7, <1>8, <1>9, <1>10 DEF Next

\* An accepted ack keeps its room: nothing but a swap adds an ack, and the mutex
\* keeps other swaps away.
LEMMA StepKeepsRoom == StoreInv /\ [Next]_vars => RoomInv'
<1> SUFFICES ASSUME StoreInv, [Next]_vars PROVE RoomInv'
  OBVIOUS
<1>0. /\ Inv /\ RoomInv /\ pc \in [Clients -> {"idle", "waiting", "writing", "swapping"}]
      /\ request \in [Clients -> Requests \cup {NoRequest}]
  BY DEF StoreInv, Inv, PcInv, RequestInv
<1>1. ASSUME NEW c \in Clients, NEW r \in Requests, Submit(c, r) PROVE RoomInv'
  <2>1. /\ \A d \in Clients : Working(d)' => Working(d) /\ request'[d] = request[d]
        /\ UNCHANGED <<active, phase, doubt>>
    BY <1>0, <1>1 DEF Submit, Working
  <2> QED
    BY <1>0, <2>1 DEF RoomInv, Full
<1>2. ASSUME NEW c \in Clients, Lock(c) PROVE RoomInv'
  <2>1. UNCHANGED <<active, phase, doubt>>
    BY <1>2 DEF Lock
  <2>2. CASE Answer(c)
    <3>1. \A d \in Clients : Working(d)' => Working(d) /\ request'[d] = request[d]
      BY <1>0, <2>2 DEF Answer, Working
    <3> QED
      BY <1>0, <2>1, <3>1 DEF RoomInv, Full
  <2>3. CASE /\ ~Refuses(request[c])
             /\ pc' = [pc EXCEPT ![c] = "writing"]
             /\ UNCHANGED request
    <3>1. request[c].op = "ack" => ~Full(active)
      BY <2>3 DEF Refuses
    <3>2. \A d \in Clients : Working(d)' => d = c \/ Working(d)
      BY <1>0, <2>3 DEF Working
    <3> QED
      BY <1>0, <2>1, <2>3, <3>1, <3>2 DEF RoomInv, Full
  <2> QED
    BY <1>2, <2>2, <2>3 DEF Lock
<1>3. ASSUME NEW c \in Clients, AppendLine(c) PROVE RoomInv'
  <2>1. /\ \A d \in Clients : Working(d)' => Working(d)
        /\ UNCHANGED <<active, request, phase, doubt>>
    BY <1>0, <1>3 DEF AppendLine, Working
  <2> QED
    BY <1>0, <2>1 DEF RoomInv, Full
<1>4. ASSUME NEW c \in Clients, Working(c), Answer(c), phase' = phase PROVE RoomInv'
  <2>1. lock = c /\ phase = "up"
    BY <1>0, <1>4 DEF Inv, PcInv, MutexInv, Working
  <2>2. \A d \in Clients \ {c} : ~Working(d)
    BY <1>0, <2>1, OneWorker
  <2>3. \A d \in Clients : ~Working(d)'
    BY <1>0, <1>4, <2>2 DEF Answer, Working
  <2> QED
    BY <1>4, <2>1, <2>3 DEF RoomInv
<1>5. ASSUME NEW c \in Clients, AppendFails(c) \/ Swap(c) PROVE RoomInv'
  <2>1. Working(c) /\ Answer(c) /\ phase' = phase
    BY <1>5 DEF AppendFails, Swap, Working
  <2> QED
    BY <2>1, <1>4
<1>6. ASSUME NEW c \in Clients, Disconnect(c) PROVE RoomInv'
  <2>1. Answer(c) /\ UNCHANGED <<active, phase>>
    BY <1>6 DEF Disconnect
  <2>2. CASE Working(c)
    BY <2>1, <2>2, <1>4
  <2>3. CASE pc[c] = "waiting" /\ UNCHANGED doubt
    <3>1. \A d \in Clients : Working(d)' => Working(d) /\ request'[d] = request[d]
      BY <1>0, <2>1 DEF Answer, Working
    <3> QED
      BY <1>0, <2>1, <2>3, <3>1 DEF RoomInv, Full
  <2> QED
    BY <1>6, <2>2, <2>3 DEF Disconnect, Working
<1>7. CASE Crash
  BY <1>7 DEF Crash, RoomInv, Working
<1>8. CASE Restart
  <2>1. \A c \in Clients : pc'[c] = "idle"
    BY <1>0, <1>8 DEF Restart, Inv, PcInv
  <2>2. phase' # "down"
    BY <1>8 DEF Restart
  <2> QED
    BY <2>1, <2>2 DEF RoomInv, Working
<1>9. CASE Advance \/ UNCHANGED vars
  <2>1. UNCHANGED <<pc, request, active, phase, doubt>>
    BY <1>9 DEF Advance, vars
  <2> QED
    BY <1>0, <2>1 DEF RoomInv, Full, Working
<1> QED
  BY <1>1, <1>2, <1>3, <1>5, <1>6, <1>7, <1>8, <1>9 DEF Next

\* The file goes on telling the story of the map.
LEMMA StepKeepsStory == StoreInv /\ [Next]_vars => StoryInv'
<1> SUFFICES ASSUME StoreInv, [Next]_vars PROVE StoryInv'
  OBVIOUS
<1>0. /\ Inv /\ Ranges /\ RoomInv /\ StoryInv
      /\ pc \in [Clients -> {"idle", "waiting", "writing", "swapping"}]
      /\ draft \in [Clients -> FiniteMaps]
      /\ file \in Seq(Requests \cup {CutLine})
      /\ NoClient \notin Clients
  BY AckAssumption DEF StoreInv, Inv, PcInv, Ranges
<1>1. ASSUME UNCHANGED <<file, phase, doubt>>, Written' = Written PROVE StoryInv'
  BY <1>0, <1>1 DEF StoryInv
<1>2. ASSUME NEW c \in Clients, Working(c)
      PROVE  /\ lock = c /\ phase = "up"
             /\ Written = IF pc[c] = "swapping" THEN draft[c] ELSE active
  BY <1>0, <1>2 DEF Inv, PcInv, MutexInv, Written, Working
<1>3. ASSUME NEW c \in Clients, NEW r \in Requests, Submit(c, r) PROVE StoryInv'
  <2>1. \A d \in Clients : pc'[d] = "swapping" <=> pc[d] = "swapping"
    BY <1>0, <1>3 DEF Submit
  <2>2. UNCHANGED <<file, active, lock, draft, phase, doubt>>
    BY <1>3 DEF Submit
  <2>3. Written' = Written
    BY <2>1, <2>2 DEF Written
  <2> QED
    BY <2>2, <2>3, <1>1
<1>4. ASSUME NEW c \in Clients, Lock(c) PROVE StoryInv'
  <2>1. lock = NoClient /\ UNCHANGED <<file, active, phase, doubt>>
    BY <1>4 DEF Lock, MutexFree
  <2>2. Written = active
    BY <2>1, <1>0 DEF Written
  <2>3. Written' = active'
    <3>1. CASE UNCHANGED lock
      BY <2>1, <3>1, <1>0 DEF Written
    <3>2. CASE lock' = c /\ pc' = [pc EXCEPT ![c] = "writing"]
      BY <3>2, <1>0 DEF Written
    <3> QED
      BY <1>4, <3>1, <3>2 DEF Lock
  <2> QED
    BY <2>1, <2>2, <2>3, <1>1
<1>5. ASSUME NEW c \in Clients, AppendLine(c) PROVE StoryInv'
  <2>1. /\ pc[c] = "writing" /\ Working(c)
        /\ file' = Appended(file, request[c])
        /\ pc' = [pc EXCEPT ![c] = "swapping"]
        /\ UNCHANGED <<active, lock, draft, phase, doubt>>
    BY <1>5 DEF AppendLine, Working
  <2>2. lock = c /\ phase = "up"
    BY <2>1, <1>2
  <2>3. Written' = draft[c]
    BY <2>1, <2>2, <1>0 DEF Written
  <2>4. ASSUME NEW lines, lines = Appended(file, request[c]), Parses(lines)
        PROVE  Story(lines, doubt, draft[c])
    BY <2>1, <2>2, <2>4, StoryAppended
  <2> QED
    BY <2>1, <2>3, <2>4 DEF StoryInv
<1>6. ASSUME NEW c \in Clients, Working(c), lock' = NoClient, active' = active,
             doubt' = doubt \cup {request[c].signature},
             \/ file' = file
             \/ pc[c] = "writing" /\ \E line \in {request[c], CutLine} :
                                        file' = Appended(file, line)
      PROVE  StoryInv'
  <2>1. phase = "up"
    BY <1>6, <1>2
  <2>2. Written' = active
    BY <1>6, <1>0 DEF Written
  <2>3. PICK lines, more : lines = file' /\ more = doubt \cup {request[c].signature}
    OBVIOUS
  <2>4. ASSUME Parses(lines) PROVE Story(lines, more, active)
    <3>1. CASE lines = file
      BY <1>6, <2>1, <2>3, <2>4, <3>1, StoryAbandoned
    <3>2. ASSUME pc[c] = "writing", NEW line \in {request[c], CutLine},
                 lines = Appended(file, line)
          PROVE  Story(lines, more, active)
      BY <1>6, <2>1, <2>3, <2>4, <3>2, StoryAppended
    <3> QED
      BY <1>6, <2>3, <3>1, <3>2
  <2> QED
    BY <1>6, <2>2, <2>3, <2>4 DEF StoryInv
<1>7. ASSUME NEW c \in Clients, AppendFails(c) PROVE StoryInv'
  <2>1. /\ pc[c] = "writing" /\ Working(c) /\ lock' = NoClient
        /\ UNCHANGED <<active, phase>>
    BY <1>7 DEF AppendFails, Working
  <2>2. CASE UNCHANGED <<file, doubt>>
    <3>1. Written = active /\ Written' = active
      BY <2>1, <1>0, <1>2 DEF Written
    <3> QED
      BY <2>1, <2>2, <3>1, <1>1
  <2>3. CASE file' \in Leftovers(request[c]) /\ doubt' = doubt \cup {request[c].signature}
    <3>1. file' = file \/ \E line \in {request[c], CutLine} : file' = Appended(file, line)
      BY <2>3 DEF Leftovers
    <3> QED
      BY <2>1, <2>3, <3>1, <1>6
  <2> QED
    BY <1>7, <2>2, <2>3 DEF AppendFails
<1>8. ASSUME NEW c \in Clients, Swap(c) PROVE StoryInv'
  <2>1. /\ pc[c] = "swapping" /\ Working(c) /\ lock' = NoClient
        /\ active' = draft[c]
        /\ UNCHANGED <<file, phase, doubt>>
    BY <1>8 DEF Swap, Working
  <2>2. Written = draft[c] /\ Written' = active'
    BY <2>1, <1>0, <1>2 DEF Written
  <2> QED
    BY <2>1, <2>2, <1>1
<1>9. ASSUME NEW c \in Clients, Disconnect(c) PROVE StoryInv'
  <2>1. Answer(c) /\ UNCHANGED <<active, phase>>
    BY <1>9 DEF Disconnect
  <2>2. CASE pc[c] = "waiting" /\ UNCHANGED <<file, lock, doubt>>
    <3>1. \A d \in Clients : pc'[d] = "swapping" <=> pc[d] = "swapping"
      BY <2>1, <2>2, <1>0 DEF Answer
    <3>2. \A d \in Clients : pc[d] = "swapping" => draft'[d] = draft[d]
      BY <2>1, <2>2, <1>0 DEF Answer
    <3>3. Written' = Written
      BY <2>1, <2>2, <3>1, <3>2 DEF Written
    <3> QED
      BY <2>1, <2>2, <3>3, <1>1
  <2>3. CASE /\ Working(c) /\ lock' = NoClient
             /\ doubt' = doubt \cup {request[c].signature}
             /\ \/ UNCHANGED file
                \/ pc[c] = "writing" /\ file' = Appended(file, request[c])
    <3>1. active' = active
      BY <2>1
    <3>2. \/ file' = file
          \/ pc[c] = "writing" /\ \E line \in {request[c], CutLine} :
                                     file' = Appended(file, line)
      BY <2>3
    <3> QED
      BY <2>3, <3>1, <3>2, <1>6
  <2> QED
    BY <1>9, <2>2, <2>3 DEF Disconnect, Working
<1>10. CASE Crash
  BY <1>10 DEF Crash, StoryInv
<1>11. CASE Restart
  <2>1. CASE ~Parses(file)
    BY <1>11, <2>1 DEF Restart, StoryInv
  <2>2. CASE Parses(file)
    <3>1. file \in Seq(Requests)
      BY <1>0, <2>2, ParsedFile
    <3>2. PICK map : map = Replay(file)
      OBVIOUS
    <3>3. PICK n \in 0..Len(file) : n = Len(file)
      BY <3>1
    <3>4. map = Replaying(file)[n]
      BY <3>2, <3>3 DEF Replay
    <3>5. map \in FiniteMaps /\ Cardinality(DOMAIN map) <= MaxActiveAcks
      BY <3>1, <3>3, <3>4, ReplayingSteps, ReplayingSize
    <3>6. active' = map /\ file' \in Compactions(map)
      BY <1>11, <2>2, <3>2 DEF Restart
    <3>7. ASSUME NEW lines \in Compactions(map) PROVE Story(lines, {}, map)
      BY <3>5, StoryOfCompaction
    <3>8. doubt' = {}
      BY <1>0, <1>11 DEF Restart, RoomInv
    <3>9. Written' = active'
      <4>1. \A c \in Clients : pc'[c] = "idle"
        BY <1>0, <1>11 DEF Restart, Inv, PcInv
      <4> QED
        BY <4>1 DEF Written
    <3> QED
      BY <3>6, <3>7, <3>8, <3>9 DEF StoryInv
  <2> QED
    BY <2>1, <2>2
<1>12. CASE Advance \/ UNCHANGED vars
  <2>1. UNCHANGED <<file, active, lock, pc, draft, phase, doubt>>
    BY <1>12 DEF Advance, vars
  <2>2. Written' = Written
    BY <2>1 DEF Written
  <2> QED
    BY <2>1, <2>2, <1>1
<1> QED
  BY <1>3, <1>4, <1>5, <1>7, <1>8, <1>9, <1>10, <1>11, <1>12 DEF Next

\* An empty file tells the story of an empty map.
LEMMA InitEstablishesStore == Init => StoreInv
<1> SUFFICES ASSUME Init PROVE StoreInv
  OBVIOUS
<1>1. /\ file = <<>> /\ active = Empty /\ lock = NoClient /\ doubt = {} /\ now = 0
      /\ pc = [c \in Clients |-> "idle"] /\ draft = [c \in Clients |-> Empty]
      /\ phase = "up"
  BY DEF Init
<1>2. Ranges
  BY <1>1, EmptyFacts, AckAssumption DEF Ranges
<1>3. RoomInv
  BY <1>1 DEF RoomInv, Working
<1>4. Written = Empty
  BY <1>1, AckAssumption DEF Written
<1>5. Story(<<>>, {}, Empty)
  <2>1. PICK N : N = Len(<<>>)
    OBVIOUS
  <2>2. N = 0
    BY <2>1
  <2> DEFINE told == [n \in 0..0 |-> Empty]
  <2>3. told \in [0..0 -> FiniteMaps] /\ told[0] = Empty
    BY EmptyFacts
  <2> HIDE DEF told
  <2>4. \A s \in Signatures \ {} : Agree(told[0], Empty, s)
    BY <2>3 DEF Agree
  <2> QED
    BY <2>1, <2>2, <2>3, <2>4 DEF Story
<1>6. StoryInv
  BY <1>1, <1>4, <1>5 DEF StoryInv
<1> QED
  BY <1>2, <1>3, <1>6, InitEstablishesInv DEF StoreInv

\* Nothing else changes it.
LEMMA StepPreservesStore == StoreInv /\ [Next]_vars => StoreInv'
<1>1. StoreInv => Inv
  BY DEF StoreInv
<1> QED
  BY <1>1, StepPreservesInv, StepKeepsRanges, StepKeepsRoom, StepKeepsStory DEF StoreInv

(* Every variable of the store has its type; the file and the map keep to  *)
(* their caps (TypeOK).                                                    *)
THEOREM StoreTypes == Spec => []TypeOK
<1>1. StoreInv => TypeOK
  BY DEF StoreInv, Inv, PcInv, RequestInv, Ranges, TypeOK, FiniteMaps
<1> QED
  BY <1>1, InitEstablishesStore, StepPreservesStore, PTL DEF Spec

(* A restart between requests would bring back exactly the acks in force,  *)
(* whatever was written before, but for what a failed or abandoned append  *)
(* leaves open (MapMatchesFile).                                           *)
THEOREM RestartGivesMap == Spec => []MapMatchesFile
<1>1. ASSUME StoreInv PROVE MapMatchesFile
  <2> SUFFICES ASSUME phase = "up", lock = NoClient, Parses(file),
                      NEW s \in Signatures \ doubt
               PROVE  \/ Agree(Unexpired(active), Replay(file), s)
                      \/ /\ doubt # {}
                         /\ s \notin DOMAIN Replay(file)
                         /\ \E n \in DOMAIN file : Full(Replay(SubSeq(file, 1, n)))
    BY DEF MapMatchesFile
  <2>1. Story(file, doubt, active)
    BY <1>1, AckAssumption DEF StoreInv, StoryInv, Written
  <2>2. file \in Seq(Requests)
    BY <1>1, ParsedFile DEF StoreInv, Ranges
  <2>3. PICK map : map = Replay(file)
    OBVIOUS
  <2>4. /\ s \in DOMAIN map => /\ s \in DOMAIN active
                               /\ active[s] = map[s]
                               /\ ~IsExpired(active[s])
        /\ s \in DOMAIN active /\ ~IsExpired(active[s]) /\ s \notin DOMAIN map =>
              /\ doubt # {}
              /\ \E n \in DOMAIN file : Full(Replay(SubSeq(file, 1, n)))
    BY <2>1, <2>2, <2>3, StoryReplayed
  <2>5. /\ s \in DOMAIN Unexpired(active) <=> s \in DOMAIN active /\ ~IsExpired(active[s])
        /\ s \in DOMAIN Unexpired(active) => Unexpired(active)[s] = active[s]
    BY DEF Unexpired, Restrict
  <2> QED
    BY <2>3, <2>4, <2>5 DEF Agree
<1> QED
  BY <1>1, InitEstablishesStore, StepPreservesStore, PTL DEF Spec
=============================================================================
