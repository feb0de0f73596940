-------------------------- MODULE IncidentsProofs --------------------------
(***************************************************************************)
(* Proofs about the incidents, for any incidents, connections, capacities  *)
(* and configurations.                                                     *)
(*                                                                         *)
(* Every change of the ring is one line applied to it as the reload of the *)
(* archive applies it (ApplyLine): so the archive, with what is on its way *)
(* to it, reloads as the ring, and the table's record of a retained        *)
(* incident is the ring's.  The exporter's answers go by the revisions the *)
(* batch carries, and each removes a value the Hub has or history notes as *)
(* waived.                                                                 *)
(***************************************************************************)
EXTENDS Incidents, FiniteSetTheorems, FunctionTheorems, SequenceTheorems, Induction, TLAPS

-----------------------------------------------------------------------------
(* The ring.                                                               *)

Lines == Records \cup {Torn}

\* A ring of at most max records, one per incident.
Rings(max) ==
    {records \in Seq(Records) :
        /\ Len(records) <= max
        /\ \A i, j \in DOMAIN records : records[i].id = records[j].id => i = j}

\* The larger of two.
LEMMA MaxOfTwo ==
  ASSUME NEW a \in Int, NEW b \in Int
  PROVE  Max({a, b}) = IF a >= b THEN a ELSE b
BY DEF Max

\* An arrival leaves a ring of the newest records.
LEMMA NewestOfAppend ==
  ASSUME NEW max \in Nat \ {0}, NEW records \in Rings(max), NEW r \in Records,
         r.id \notin IdsOf(records)
  PROVE  LET kept == Newest(Append(records, r), max)
         IN  /\ kept \in Rings(max)
             /\ \A j \in DOMAIN kept : kept[j] = r \/ \E i \in DOMAIN records : kept[j] = records[i]
<1> DEFINE all == Append(records, r)
           first == IF 1 >= Len(all) - max + 1 THEN 1 ELSE Len(all) - max + 1
           kept == SubSeq(all, first, Len(all))
<1>1. /\ records \in Seq(Records) /\ Len(records) \in Nat /\ Len(records) <= max
      /\ DOMAIN records = 1..Len(records)
      /\ \A i, j \in DOMAIN records : records[i].id = records[j].id => i = j
  BY DEF Rings
<1>2. /\ all \in Seq(Records) /\ Len(all) = Len(records) + 1
      /\ \A i \in 1..Len(records) : all[i] = records[i]
      /\ all[Len(records) + 1] = r
  BY <1>1
<1>3. first \in 1..Len(all) /\ Len(all) - first + 1 <= max
  BY <1>1, <1>2
<1>4. \A i \in 1..Len(records) : records[i].id # r.id
  BY <1>1 DEF IdsOf
<1>5. \A i, j \in 1..Len(all) : all[i].id = all[j].id => i = j
  BY <1>1, <1>2, <1>4
<1> HIDE DEF all, first
<1>6. /\ kept \in Seq(Records) /\ Len(kept) = Len(all) - first + 1
      /\ \A j \in 1..Len(kept) : kept[j] = all[first + j - 1] /\ first + j - 1 \in 1..Len(all)
      /\ DOMAIN kept = 1..Len(kept)
  BY <1>2, <1>3
<1> HIDE DEF kept
<1>7. kept \in Rings(max)
  <2>1. ASSUME NEW i \in 1..Len(kept), NEW j \in 1..Len(kept), kept[i].id = kept[j].id
        PROVE  i = j
    <3> DEFINE a == first + i - 1
               b == first + j - 1
    <3>1. /\ kept[i] = all[a] /\ a \in 1..Len(all)
          /\ kept[j] = all[b] /\ b \in 1..Len(all)
      BY <1>6
    <3>2. a = b => i = j
      BY <1>2, <1>3
    <3> HIDE DEF a, b
    <3> QED
      BY <2>1, <1>5, <3>1, <3>2
  <2>2. Len(kept) <= max
    BY <1>3, <1>6
  <2> QED
    BY <2>1, <2>2, <1>6 DEF Rings
<1>8. ASSUME NEW j \in DOMAIN kept
      PROVE  kept[j] = r \/ \E i \in DOMAIN records : kept[j] = records[i]
  <2>1. kept[j] = all[first + j - 1] /\ first + j - 1 \in 1..Len(all)
    BY <1>6
  <2>2. CASE first + j - 1 = Len(all)
    BY <2>1, <2>2, <1>2
  <2>3. CASE first + j - 1 # Len(all)
    <3>1. first + j - 1 \in 1..Len(records)
      BY <2>1, <2>3, <1>1, <1>2, <1>3
    <3> QED
      BY <3>1, <2>1, <1>1, <1>2
  <2> QED
    BY <2>2, <2>3
<1>9. Newest(Append(records, r), max) = kept
  <2>1. Max({1, Len(all) - max + 1}) = first
    BY <1>1, <1>2, MaxOfTwo DEF first
  <2> QED
    BY <2>1 DEF Newest, kept, all
<1> QED
  BY <1>7, <1>8, <1>9

\* An update leaves every other record, and the order, as it was.
LEMMA UpdatedRing ==
  ASSUME NEW max \in Nat, NEW records \in Rings(max), NEW r \in Records
  PROVE  /\ Updated(records, r) \in Rings(max)
         /\ DOMAIN Updated(records, r) = DOMAIN records
         /\ \A i \in DOMAIN records :
               Updated(records, r)[i] = IF records[i].id = r.id THEN r ELSE records[i]
         /\ IdsOf(Updated(records, r)) = IdsOf(records)
<1> DEFINE updated == Updated(records, r)
<1>1. /\ records \in Seq(Records) /\ Len(records) \in Nat /\ Len(records) <= max
      /\ DOMAIN records = 1..Len(records)
      /\ \A i, j \in DOMAIN records : records[i].id = records[j].id => i = j
  BY DEF Rings
<1>2. /\ DOMAIN updated = 1..Len(records)
      /\ \A i \in 1..Len(records) : updated[i] = IF records[i].id = r.id THEN r ELSE records[i]
  BY <1>1 DEF Updated
<1>3. updated \in [1..Len(records) -> Records]
  BY <1>1 DEF Updated
<1>4. updated \in Seq(Records) /\ Len(updated) = Len(records)
  BY <1>1, <1>3
<1>5. \A i \in 1..Len(records) : updated[i].id = records[i].id
  BY <1>2
<1> HIDE DEF updated
<1>6. updated \in Rings(max)
  BY <1>1, <1>2, <1>4, <1>5 DEF Rings
<1>7. IdsOf(updated) = IdsOf(records)
  BY <1>1, <1>2, <1>5 DEF IdsOf
<1> QED
  BY <1>1, <1>2, <1>6, <1>7 DEF updated

-----------------------------------------------------------------------------
(* The replay of the archive.                                              *)

\* No records are a ring of any capacity.
LEMMA EmptyRing == \A max \in Nat : <<>> \in Rings(max)
BY DEF Rings

\* A line of the archive makes a ring of a ring.
LEMMA ApplyLineStays ==
  ASSUME NEW max \in Nat \ {0}, NEW records \in Rings(max), NEW line \in Lines
  PROVE  ApplyLine(records, line, max) \in Rings(max)
<1>1. CASE line = Torn
  BY <1>1 DEF ApplyLine
<1>2. CASE line # Torn /\ line.id \in IdsOf(records)
  BY <1>2, UpdatedRing DEF ApplyLine, Lines
<1>3. CASE line # Torn /\ line.id \notin IdsOf(records)
  BY <1>3, NewestOfAppend DEF ApplyLine, Lines
<1> QED
  BY <1>1, <1>2, <1>3

\* The replay is a fold of ApplyLine.
LEMMA ReplayIsFold ==
  ASSUME NEW max \in Nat \ {0}
  PROVE  LET step == [s \in Rings(max) \X Lines |-> ApplyLine(s[1], s[2], max)]
         IN  \A lines \in Seq(Lines) :
                /\ Replayed(lines, max) \in [0..Len(lines) -> Rings(max)]
                /\ IsFold(Replayed(lines, max), step, <<>>, lines)
<1> DEFINE step == [s \in Rings(max) \X Lines |-> ApplyLine(s[1], s[2], max)]
<1>1. /\ step \in [Rings(max) \X Lines -> Rings(max)]
      /\ \A a \in Rings(max), b \in Lines : step[<<a, b>>] = ApplyLine(a, b, max)
  BY ApplyLineStays
<1> HIDE DEF step
<1> SUFFICES ASSUME NEW lines \in Seq(Lines)
             PROVE  /\ Replayed(lines, max) \in [0..Len(lines) -> Rings(max)]
                    /\ IsFold(Replayed(lines, max), step, <<>>, lines)
  BY DEF step
<1> DEFINE Recursive(g) ==
      g = [n \in 0..Len(lines) |-> IF n = 0 THEN <<>> ELSE ApplyLine(g[n - 1], lines[n], max)]
<1>2. PICK g \in [0..Len(lines) -> Rings(max)] : IsFold(g, step, <<>>, lines)
  BY <1>1, EmptyRing, FoldExists
<1>3. \A h : h \in [0..Len(lines) -> Rings(max)] =>
         (Recursive(h) <=> IsFold(h, step, <<>>, lines))
  <2> SUFFICES ASSUME NEW h \in [0..Len(lines) -> Rings(max)]
               PROVE  Recursive(h) <=> IsFold(h, step, <<>>, lines)
    OBVIOUS
  <2>1. ASSUME NEW n \in 0..Len(lines), n # 0
        PROVE  ApplyLine(h[n - 1], lines[n], max) = step[<<h[n - 1], lines[n]>>]
    <3>1. h[n - 1] \in Rings(max) /\ lines[n] \in Lines
      BY <2>1
    <3> QED
      BY <3>1, <1>1
  <2> QED
    BY <2>1 DEF IsFold
<1>4. Recursive(g)
  BY <1>2, <1>3
<1>5. ASSUME NEW h, Recursive(h) PROVE h = g
  <2> DEFINE S == {n \in Nat : n <= Len(lines) => h[n] = g[n]}
  <2>1. Len(lines) \in Nat
    OBVIOUS
  <2>2. 0 \in S
    BY <1>4, <1>5, <2>1
  <2>3. ASSUME NEW n \in 0..(Len(lines) - 1), n \in S PROVE n + 1 \in S
    <3>1. h[n] = g[n] /\ n + 1 \in 0..Len(lines) /\ n + 1 # 0 /\ (n + 1) - 1 = n
      BY <2>3, <2>1
    <3>2. h[n + 1] = ApplyLine(h[n], lines[n + 1], max)
      BY <3>1, <1>5
    <3>3. g[n + 1] = ApplyLine(g[n], lines[n + 1], max)
      BY <3>1, <1>4
    <3> QED
      BY <3>1, <3>2, <3>3
  <2> HIDE DEF S
  <2>4. 0..Len(lines) \subseteq S
    BY <2>1, <2>2, <2>3, BoundedInduction
  <2>5. \A n \in 0..Len(lines) : h[n] = g[n]
    BY <2>4, <2>1 DEF S
  <2> QED
    BY <2>5, <1>4, <1>5
<1>6. Recursive(Replayed(lines, max))
  BY <1>4 DEF Replayed
<1>7. Replayed(lines, max) = g
  BY <1>5, <1>6
<1> QED
  BY <1>2, <1>7

\* What the archive reloads as is a ring of the capacity it is reloaded into.
LEMMA ReplayStays ==
  ASSUME NEW max \in Nat \ {0}, NEW lines \in Seq(Lines)
  PROVE  Replay(lines, max) \in Rings(max)
<1>1. Len(lines) \in 0..Len(lines)
  OBVIOUS
<1> QED
  BY <1>1, ReplayIsFold DEF Replay

\* An empty archive reloads as an empty ring.
LEMMA ReplayOfNothing ==
  ASSUME NEW max \in Nat \ {0}
  PROVE  Replay(<<>>, max) = <<>>
<1>1. Replay(<<>>, max) = Replayed(<<>>, max)[0]
  BY DEF Replay
<1>2. <<>> \in Seq(Lines) /\ 0 \in 0..Len(<<>>)
  OBVIOUS
<1> QED
  BY <1>1, <1>2, ReplayIsFold DEF IsFold

\* A line at the end of the archive is one more change of the ring.
LEMMA ReplayOfAppend ==
  ASSUME NEW max \in Nat \ {0}, NEW lines \in Seq(Lines), NEW line \in Lines
  PROVE  Replay(Append(lines, line), max) = ApplyLine(Replay(lines, max), line, max)
<1> DEFINE step == [s \in Rings(max) \X Lines |-> ApplyLine(s[1], s[2], max)]
           more == Append(lines, line)
<1>1. more \in Seq(Lines) /\ Len(more) = Len(lines) + 1
  OBVIOUS
<1>2. IsFold(Replayed(lines, max), step, <<>>, lines) /\ IsFold(Replayed(more, max), step, <<>>, more)
  BY <1>1, ReplayIsFold
<1>3. Replay(lines, max) \in Rings(max)
  BY ReplayStays
<1>4. step[<<Replay(lines, max), line>>] = ApplyLine(Replay(lines, max), line, max)
  BY <1>3
<1> HIDE DEF step
<1>5. Replayed(more, max)[Len(lines) + 1] = step[<<Replayed(lines, max)[Len(lines)], line>>]
  BY <1>2, FoldOfAppend
<1> HIDE DEF more
<1>6. Replay(more, max) = step[<<Replay(lines, max), line>>]
  BY <1>1, <1>5 DEF Replay
<1> QED
  BY <1>4, <1>6 DEF more

-----------------------------------------------------------------------------
(* The exporter's table.                                                   *)

\* The table is of a ring's records, finite, and keeps to its caps.
TableFacts(t) ==
    /\ IsTable(t, Ids, Records)
    /\ IsFiniteSet(t.order) /\ IsFiniteSet(Pending(t))
    /\ Bounded(t) /\ InQueue(t) /\ EmptyWithoutRoute(t)

\* The least of natural numbers.
LEMMA MinIsLeast ==
  ASSUME NEW S \in SUBSET Nat, S # {}
  PROVE  Min(S) \in S /\ \A n \in S : Min(S) <= n
<1>1. \E m \in S : \A n \in S : m <= n
  BY LeastNatural
<1> QED
  BY <1>1 DEF Min

\* Where the eviction loop stops, what is left fits the cap: an entry that is
\* still there has its item behind the stop.
LEMMA LeftFits ==
  ASSUME NEW t, IsTable(t, Ids, Records), IsFiniteSet(t.order), InQueue(t)
  PROVE  Cardinality(Left(t, StopOf(t))) <= MaxPending
<1> DEFINE fits == {cut \in {0} \cup {item.revision : item \in t.order} :
                       Cardinality(Left(t, cut)) <= MaxPending}
<1>1. fits \cup {t.revision} \subseteq Nat
  BY DEF IsTable
<1>2. StopOf(t) \in fits \cup {t.revision}
  <2> HIDE DEF fits
  <2>1. Min(fits \cup {t.revision}) \in fits \cup {t.revision}
    BY <1>1, MinIsLeast
  <2> QED
    BY <2>1 DEF StopOf, fits
<1>3. CASE StopOf(t) \in fits
  BY <1>3
<1>4. CASE StopOf(t) = t.revision
  <2>1. Left(t, t.revision) = {}
    BY DEF Left, UpTo, InQueue, Pending, IsTable
  <2> QED
    BY <1>4, <2>1, FS_EmptySet, PendingAssumption
<1> QED
  BY <1>2, <1>3, <1>4

\* Items that are their entries' are as many as these, at most.
LEMMA LatestItemsBounded ==
  ASSUME NEW entries, IsFiniteSet(DOMAIN entries), NEW order
  PROVE  LET latest == {item \in order : IsLatest(entries, item)}
         IN  IsFiniteSet(latest) /\ Cardinality(latest) <= Cardinality(DOMAIN entries)
<1> DEFINE latest == {item \in order : IsLatest(entries, item)}
           f == [item \in latest |-> item.key]
<1>1. f \in [latest -> DOMAIN entries]
  BY DEF IsLatest
<1>2. ASSUME NEW x \in latest, NEW y \in latest, f[x] = f[y] PROVE x = y
  BY <1>2 DEF IsLatest
<1>3. f \in Injection(latest, DOMAIN entries)
  BY <1>1, <1>2, Fun_IsInj
<1> QED
  BY <1>3, FS_Injection

\* After the eviction the table and its queue keep to their caps, each entry
\* still has its item, and what is left is as it was.
LEMMA Eviction ==
  ASSUME NEW t, IsTable(t, Ids, Records), IsFiniteSet(t.order), IsFiniteSet(Pending(t)),
         InQueue(t), t.supported
  PROVE  LET left == EvictByOrder(t)
         IN  /\ TableFacts(left)
             /\ left.revision = t.revision /\ left.supported
             /\ Pending(left) \subseteq Pending(t)
             /\ \A k \in Pending(left) : left.entries[k] = t.entries[k]
<1> DEFINE cut == StopOf(t)
           kept == Left(t, cut)
           entries == Restrict(t.entries, kept)
           rest == t.order \ UpTo(t.order, cut)
           order == Compacted(entries, rest)
           left == EvictByOrder(t)
<1>1. kept \subseteq Pending(t) /\ DOMAIN entries = kept /\ \A k \in kept : entries[k] = t.entries[k]
  BY DEF Left, Pending, Restrict
<1>2. order \subseteq rest /\ rest \subseteq t.order
  BY DEF Compacted
<1>3. /\ left = [t EXCEPT !.entries = entries, !.order = order]
      /\ DOMAIN left = {"entries", "order", "revision", "supported"}
      /\ left.entries = entries /\ left.order = order
      /\ left.revision = t.revision /\ left.supported = t.supported
  BY DEF EvictByOrder, IsTable
<1>4. Cardinality(kept) <= MaxPending
  BY LeftFits
<1>5. IsFiniteSet(kept) /\ IsFiniteSet(order) /\ IsFiniteSet(rest)
  BY <1>1, <1>2, FS_Subset
<1>6. \A k \in kept : ItemOf(entries, k) \in order
  <2> SUFFICES ASSUME NEW k \in kept PROVE ItemOf(entries, k) \in order
    OBVIOUS
  <2>1. ItemOf(entries, k) = ItemOf(t.entries, k)
    BY <1>1 DEF ItemOf
  <2>2. ItemOf(t.entries, k) \in rest
    BY <1>1 DEF Left, InQueue, Pending
  <2>3. IsLatest(entries, ItemOf(entries, k))
    BY <1>1 DEF IsLatest, ItemOf
  <2> QED
    BY <2>1, <2>2, <2>3 DEF Compacted
<1>7. Cardinality(order) <= 2 * MaxPending
  <2>1. CASE Cardinality(rest) > 2 * MaxPending
    <3>1. order = {item \in rest : IsLatest(entries, item)}
      BY <2>1 DEF Compacted
    <3>2. Cardinality(order) <= Cardinality(kept)
      BY <3>1, <1>1, <1>5, LatestItemsBounded
    <3> QED
      BY <3>2, <1>4, <1>5, FS_CardinalityType, PendingAssumption
  <2>2. CASE ~ (Cardinality(rest) > 2 * MaxPending)
    <3>1. order = rest
      BY <2>2 DEF Compacted
    <3> HIDE DEF rest, order
    <3>2. Cardinality(rest) \in Nat
      BY <1>5, FS_CardinalityType
    <3>3. Cardinality(rest) <= 2 * MaxPending
      BY <3>2, <2>2, PendingAssumption
    <3> QED
      BY <3>1, <3>3
  <2> QED
    BY <2>1, <2>2
<1> HIDE DEF cut, kept, entries, rest, order, left
<1>8. Pending(left) = kept
  BY <1>1, <1>3 DEF Pending
<1>9. IsTable(left, Ids, Records)
  <2>1. \A k \in kept : entries[k] \in [value : Records, revision : 1..t.revision]
    BY <1>1 DEF IsTable, Pending
  <2>2. kept \subseteq Ids /\ order \subseteq [key : Ids, revision : 1..t.revision]
    BY <1>1, <1>2 DEF IsTable, Pending
  <2> QED
    BY <1>1, <1>3, <2>1, <2>2 DEF IsTable
<1>10. TableFacts(left)
  BY <1>1, <1>3, <1>4, <1>5, <1>6, <1>7, <1>8, <1>9
     DEF TableFacts, Bounded, InQueue, EmptyWithoutRoute
<1> QED
  BY <1>1, <1>3, <1>8, <1>10 DEF left

\* A change is pending with its value under a new revision; others are left
\* as they are, or evicted.
LEMMA PushFacts ==
  ASSUME NEW t, TableFacts(t), t.supported, NEW key \in Ids, NEW value \in Records
  PROVE  LET pushed == Push(t, key, value)
         IN  /\ TableFacts(pushed)
             /\ pushed.revision = t.revision + 1 /\ pushed.supported
             /\ Pending(pushed) \subseteq Pending(t) \cup {key}
             /\ \A k \in Pending(pushed) :
                   pushed.entries[k] = IF k = key THEN [value |-> value, revision |-> t.revision + 1]
                                       ELSE t.entries[k]
<1> DEFINE revision == t.revision + 1
           entry == [value |-> value, revision |-> revision]
           entries == [k \in DOMAIN t.entries \cup {key} |-> IF k = key THEN entry ELSE t.entries[k]]
           order == t.order \cup {[key |-> key, revision |-> revision]}
           queued == [t EXCEPT !.entries = entries, !.order = order, !.revision = revision]
<1>1. Push(t, key, value) = EvictByOrder(queued)
  BY DEF Push
<1>2. t.revision \in Nat /\ DOMAIN t = {"entries", "order", "revision", "supported"}
  BY DEF TableFacts, IsTable
<1>3. /\ DOMAIN queued = {"entries", "order", "revision", "supported"}
      /\ queued.entries = entries /\ queued.order = order
      /\ queued.revision = revision /\ queued.supported
  BY <1>2
<1>4. /\ DOMAIN entries = Pending(t) \cup {key}
      /\ \A k \in DOMAIN entries : entries[k] = IF k = key THEN entry ELSE t.entries[k]
  BY DEF Pending
<1>5. IsFiniteSet(order) /\ IsFiniteSet(DOMAIN entries)
  BY <1>4, FS_AddElement DEF TableFacts
<1>6. \A k \in DOMAIN entries : entries[k] \in [value : Records, revision : 1..revision]
  BY <1>2, <1>4 DEF TableFacts, IsTable, Pending
<1>7. DOMAIN entries \subseteq Ids /\ order \subseteq [key : Ids, revision : 1..revision]
  BY <1>2, <1>4 DEF TableFacts, IsTable, Pending
<1>8. \A k \in DOMAIN entries : ItemOf(entries, k) \in order
  BY <1>4 DEF TableFacts, InQueue, ItemOf
<1> HIDE DEF entries, order, queued
<1>9. IsTable(queued, Ids, Records) /\ IsFiniteSet(queued.order) /\ IsFiniteSet(Pending(queued))
      /\ InQueue(queued)
  BY <1>2, <1>3, <1>5, <1>6, <1>7, <1>8 DEF IsTable, Pending, InQueue
<1>10. Pending(queued) = Pending(t) \cup {key}
  BY <1>3, <1>4 DEF Pending
<1> QED
  BY <1>1, <1>3, <1>4, <1>9, <1>10, Eviction

\* Entries leave only for an item of their own revision.
LEMMA AcknowledgeFacts ==
  ASSUME NEW t, TableFacts(t), NEW sent
  PROVE  LET left == Acknowledge(t, sent)
         IN  /\ TableFacts(left)
             /\ left.revision = t.revision /\ left.supported = t.supported
             /\ Pending(left) \subseteq Pending(t)
             /\ \A k \in Pending(left) : left.entries[k] = t.entries[k]
             /\ \A k \in Pending(t) \ Pending(left) :
                   \E item \in sent : item.key = k /\ item.revision = t.entries[k].revision
<1> DEFINE kept == {k \in DOMAIN t.entries : \A item \in sent :
                        item.key = k => item.revision # t.entries[k].revision}
           entries == Restrict(t.entries, kept)
           left == Acknowledge(t, sent)
<1>1. /\ left = [t EXCEPT !.entries = entries]
      /\ DOMAIN left = {"entries", "order", "revision", "supported"}
      /\ left.entries = entries /\ left.order = t.order
      /\ left.revision = t.revision /\ left.supported = t.supported
  BY DEF Acknowledge, TableFacts, IsTable
<1>2. DOMAIN entries = kept /\ kept \subseteq Pending(t) /\ \A k \in kept : entries[k] = t.entries[k]
  BY DEF Restrict, Pending
<1>3. \A k \in Pending(t) \ kept :
         \E item \in sent : item.key = k /\ item.revision = t.entries[k].revision
  BY DEF Pending
<1> HIDE DEF kept, entries, left
<1>4. Pending(left) = kept
  BY <1>1, <1>2 DEF Pending
<1>5. IsFiniteSet(kept) /\ Cardinality(kept) <= Cardinality(Pending(t))
      /\ Cardinality(kept) \in Nat /\ Cardinality(Pending(t)) \in Nat
  BY <1>2, FS_Subset, FS_CardinalityType DEF TableFacts
<1>6. IsTable(left, Ids, Records)
  BY <1>1, <1>2 DEF TableFacts, IsTable, Pending
<1>7. TableFacts(left)
  BY <1>1, <1>2, <1>4, <1>5, <1>6, PendingAssumption
     DEF TableFacts, Bounded, InQueue, EmptyWithoutRoute, ItemOf
<1> QED
  BY <1>1, <1>2, <1>3, <1>4, <1>7 DEF left

\* A new table and the table of a route the Hub does not have hold nothing.
LEMMA EmptyTables ==
  /\ TableFacts(NewTable) /\ Pending(NewTable) = {} /\ NewTable.supported
  /\ \A t : TableFacts(t) =>
        /\ TableFacts(MarkUnsupported(t)) /\ Pending(MarkUnsupported(t)) = {}
        /\ ~ MarkUnsupported(t).supported
<1>1. DOMAIN NoEntries = {}
  BY DEF NoEntries
<1>2. IsFiniteSet({}) /\ Cardinality({}) = 0
  BY FS_EmptySet
<1>3. /\ DOMAIN NewTable = {"entries", "order", "revision", "supported"}
      /\ NewTable.entries = NoEntries /\ NewTable.order = {} /\ NewTable.revision = 0
      /\ NewTable.supported
  BY DEF NewTable
<1>4. TableFacts(NewTable)
  BY <1>1, <1>2, <1>3, PendingAssumption
     DEF TableFacts, IsTable, Bounded, InQueue, EmptyWithoutRoute, Pending
<1>5. ASSUME NEW t, TableFacts(t)
      PROVE  /\ TableFacts(MarkUnsupported(t)) /\ Pending(MarkUnsupported(t)) = {}
             /\ ~ MarkUnsupported(t).supported
  <2> DEFINE cleared == MarkUnsupported(t)
  <2>1. /\ DOMAIN cleared = {"entries", "order", "revision", "supported"}
        /\ cleared.entries = NoEntries /\ cleared.order = {} /\ cleared.revision = t.revision
        /\ cleared.supported = FALSE
    BY <1>5 DEF MarkUnsupported, TableFacts, IsTable
  <2> HIDE DEF cleared
  <2>2. Pending(cleared) = {} /\ ~ cleared.supported
    BY <1>1, <2>1 DEF Pending
  <2>3. IsTable(cleared, Ids, Records)
    BY <1>1, <1>5, <2>1 DEF TableFacts, IsTable
  <2>4. Bounded(cleared)
    BY <1>2, <2>1, <2>2, PendingAssumption DEF Bounded
  <2>5. TableFacts(cleared)
    BY <1>2, <2>1, <2>2, <2>3, <2>4 DEF TableFacts, InQueue, EmptyWithoutRoute
  <2> QED
    BY <2>2, <2>5 DEF cleared
<1> QED
  BY <1>1, <1>3, <1>4, <1>5 DEF Pending

-----------------------------------------------------------------------------
(* The inductive invariant, one part per variable group.                   *)

\* Deliveries and settle passes are typed, and a delivery has an alert in hand
\* until its last step.
RequestInv ==
    /\ open \subseteq Conns
    /\ handler \in [Conns -> Handling \cup {Idle}]
    /\ \A c \in Conns : handler[c] # Idle =>
          c \in open /\ (handler[c].step # "schedule" => handler[c].alerts # <<>>)
    /\ settle \in [Permits -> (Seq(Ids) \ {<<>>}) \cup {Idle}]
    /\ received \in 0..Received

\* The ring holds one record per incident.
RingInv ==
    /\ ring \in Rings(retained)
    /\ retained \in Sizes /\ sinks \in Configs /\ starts \in 0..MaxStarts
    /\ phase \in Running \cup {"stopped", "crashed"}

\* A line is left open only when the record it was of is lost, and the archive
\* still reloads as the ring once the daemon has stopped.
ArchiveInv ==
    /\ channel \in Seq(Records) /\ Len(channel) <= Capacity
    /\ file \in Seq(Lines)
    /\ unended \in BOOLEAN /\ gap \in BOOLEAN
    /\ unended => file # <<>> /\ (gap \/ phase = "crashed")
    /\ "archive" \notin sinks => channel = <<>>
    /\ "archive" \in sinks /\ phase # "crashed" /\ ~ gap =>
          Replay(file \o channel, retained) = ring

\* The batch in flight holds one value per incident, none newer than the
\* table, and what it names is still pending unless it was waived.
BatchFacts ==
    /\ batch \subseteq [key : Ids, value : Records, revision : 1..table.revision]
    /\ \A item \in batch :
          /\ item.key \in Pending(table) \cup waived
          /\ item.key \in Pending(table) /\ table.entries[item.key].revision = item.revision
                => table.entries[item.key].value = item.value
    /\ \A one, other \in batch : one.key = other.key => one = other

\* What is pending of a retained incident is the ring's record.
PendingIsRing ==
    /\ \A i \in DOMAIN ring : ring[i].id \in Pending(table) =>
          table.entries[ring[i].id].value = ring[i]
    /\ "hub" \notin sinks => Pending(table) = {} /\ batch = {}

HubInv ==
    /\ TableFacts(table) /\ BatchFacts /\ PendingIsRing /\ HubNeverBehind
    /\ DOMAIN hub \subseteq Ids /\ waived \subseteq Ids

\* Nothing runs in a daemon that has ended, and the exporter ends before it.
EndedInv ==
    /\ phase \in {"stopped", "crashed"} =>
          open = {} /\ settle = [p \in Permits |-> Idle] /\ channel = <<>>
    /\ phase \notin {"serving", "flushing"} => batch = {}

IInv == RequestInv /\ RingInv /\ ArchiveInv /\ HubInv /\ EndedInv

\* The inductive invariant implies every invariant of the runs.
LEMMA InvImplies ==
  ASSUME IInv
  PROVE  /\ TypeOK /\ RecordedOnce /\ ReloadGivesRing /\ HubNeverBehind
         /\ PendingInQueue /\ StopLeavesNothing
<1> USE DEF IInv
<1>1. /\ ring \in Seq(Records) /\ Len(ring) <= retained
      /\ \A i, j \in DOMAIN ring : ring[i].id = ring[j].id => i = j
  BY DEF RingInv, Rings
<1>2. TypeOK
  BY <1>1 DEF TypeOK, RequestInv, RingInv, ArchiveInv, HubInv, TableFacts, Lines
<1>3. RecordedOnce
  BY <1>1 DEF RecordedOnce
<1>4. HubNeverBehind /\ PendingInQueue
  BY DEF HubInv, TableFacts, PendingInQueue
<1>5. ReloadGivesRing
  BY DEF ReloadGivesRing, ArchiveInv, Running
<1>6. StopLeavesNothing
  <2>1. file \in Seq(Lines)
    BY DEF ArchiveInv
  <2>2. file \o <<>> = file
    BY <2>1
  <2> QED
    BY <2>2 DEF StopLeavesNothing, ArchiveInv, EndedInv
<1> QED
  BY <1>2, <1>3, <1>4, <1>5, <1>6

\* At the first start the archive is empty, as the ring is.
LEMMA InitEstablishesInv == Init => IInv
<1> SUFFICES ASSUME Init PROVE IInv
  OBVIOUS
<1> USE IncidentsAssumption DEF Init
<1>1. retained \in Nat \ {0}
  OBVIOUS
<1>2. RequestInv
  BY DEF RequestInv
<1>3. RingInv
  BY <1>1, EmptyRing DEF RingInv, Running
<1>4. ArchiveInv
  <2>1. file \o channel = <<>> /\ Len(channel) = 0
    OBVIOUS
  <2>2. Replay(file \o channel, retained) = ring
    BY <1>1, <2>1, ReplayOfNothing
  <2>3. channel \in Seq(Records) /\ file \in Seq(Lines) /\ Len(channel) <= Capacity
    BY <2>1
  <2> QED
    BY <2>2, <2>3 DEF ArchiveInv
<1>5. HubInv
  <2>1. TableFacts(table) /\ Pending(table) = {}
    BY EmptyTables
  <2> QED
    BY <2>1 DEF HubInv, BatchFacts, PendingIsRing, HubNeverBehind
<1>6. EndedInv
  BY DEF EndedInv
<1> QED
  BY <1>2, <1>3, <1>4, <1>5, <1>6 DEF IInv

\* The facts about constants and typed values that most steps use.
LEMMA Basics ==
  ASSUME IInv
  PROVE  /\ retained \in Nat \ {0} /\ Capacity \in Nat \ {0} /\ Torn \notin Records
         /\ ring \in Seq(Records) /\ Len(ring) \in Nat /\ DOMAIN ring = 1..Len(ring)
         /\ \A i \in DOMAIN ring : ring[i] \in Records /\ ring[i].id \in Ids
<1>1. retained \in Nat \ {0} /\ Capacity \in Nat \ {0} /\ Torn \notin Records
  BY IncidentsAssumption DEF IInv, RingInv, Records
<1>2. ring \in Seq(Records)
  BY DEF IInv, RingInv, Rings
<1>3. \A r \in Records : r.id \in Ids
  BY DEF Records
<1>4. Len(ring) \in Nat /\ DOMAIN ring = 1..Len(ring) /\ \A i \in DOMAIN ring : ring[i] \in Records
  BY <1>2
<1> QED
  BY <1>1, <1>2, <1>3, <1>4

\* What a change makes of the ring: the record it announces, and others as
\* they were.
LEMMA ChangedRing ==
  ASSUME IInv, NEW r \in Records, ring' = ApplyLine(ring, r, retained)
  PROVE  /\ ring' \in Rings(retained)
         /\ \A j \in DOMAIN ring' :
               ring'[j] = r \/ \E i \in DOMAIN ring : ring'[j] = ring[i] /\ ring[i].id # r.id
<1> USE Basics
<1>1. ring \in Rings(retained) /\ r # Torn /\ r \in Lines
  BY DEF IInv, RingInv, Lines
<1>2. ring' \in Rings(retained)
  BY <1>1, ApplyLineStays
<1>3. CASE r.id \in IdsOf(ring)
  <2>1. ring' = Updated(ring, r)
    BY <1>1, <1>3 DEF ApplyLine
  <2>2. DOMAIN ring' = DOMAIN ring
        /\ \A i \in DOMAIN ring : ring'[i] = IF ring[i].id = r.id THEN r ELSE ring[i]
    BY <1>1, <2>1, UpdatedRing
  <2> QED
    BY <1>2, <2>2
<1>4. CASE r.id \notin IdsOf(ring)
  <2>1. ring' = Newest(Append(ring, r), retained)
    BY <1>1, <1>4 DEF ApplyLine
  <2>2. \A j \in DOMAIN ring' : ring'[j] = r \/ \E i \in DOMAIN ring : ring'[j] = ring[i]
    BY <1>1, <1>4, <2>1, NewestOfAppend
  <2>3. \A i \in DOMAIN ring : ring[i].id # r.id
    BY <1>4 DEF IdsOf
  <2> QED
    BY <1>2, <2>2, <2>3
<1> QED
  BY <1>3, <1>4

\* The record of a retained incident is one of the ring.
LEMMA RecordOfFacts ==
  ASSUME IInv, NEW id \in IdsOf(ring)
  PROVE  /\ RecordOf(id) \in Records /\ RecordOf(id).id = id
         /\ \E i \in DOMAIN ring : ring[i] = RecordOf(id)
<1>1. \E i \in DOMAIN ring : ring[i].id = id
  BY DEF IdsOf
<1>2. PICK i \in DOMAIN ring : i = CHOOSE k \in DOMAIN ring : ring[k].id = id
  BY <1>1
<1>3. ring[i].id = id /\ RecordOf(id) = ring[i]
  BY <1>1, <1>2 DEF RecordOf
<1> QED
  BY <1>3, Basics

\* A change keeps the exporter's table and the archive in step with the ring.
LEMMA ChangeKeepsArchive ==
  ASSUME IInv, NEW r \in Records, ring' = ApplyLine(ring, r, retained), Announce(r),
         phase \notin {"stopped", "crashed"}, UNCHANGED lifeVars
  PROVE  ArchiveInv'
<1> USE Basics DEF IInv
<1>1. CASE "archive" \in sinks
  <2>1. UNCHANGED <<file, unended, sinks, phase, retained>> /\ HandToArchive(r)
    BY <1>1 DEF Announce, lifeVars
  <2>2. CASE Len(channel) < Capacity /\ channel' = Append(channel, r) /\ UNCHANGED gap
    <3>1. channel' \in Seq(Records) /\ Len(channel') <= Capacity
      BY <2>2 DEF ArchiveInv
    <3>2. Replay(file' \o channel', retained') = ApplyLine(Replay(file \o channel, retained), r, retained)
      <4>1. file \in Seq(Lines) /\ channel \in Seq(Lines) /\ r \in Lines
        BY DEF ArchiveInv, Lines
      <4>2. file \o Append(channel, r) = Append(file \o channel, r) /\ file \o channel \in Seq(Lines)
        BY <4>1
      <4> QED
        BY <2>1, <2>2, <4>1, <4>2, ReplayOfAppend
    <3> QED
      BY <1>1, <2>1, <2>2, <3>1, <3>2 DEF ArchiveInv
  <2>3. CASE gap' = TRUE /\ UNCHANGED channel
    BY <1>1, <2>1, <2>3 DEF ArchiveInv
  <2> QED
    BY <2>1, <2>2, <2>3 DEF HandToArchive
<1>2. CASE "archive" \notin sinks
  <2>1. UNCHANGED <<channel, gap, file, unended, sinks, phase>>
    BY <1>2 DEF Announce, lifeVars
  <2> QED
    BY <1>2, <2>1 DEF ArchiveInv
<1> QED
  BY <1>1, <1>2

\* A change is pending as the ring has it, or waived, and the others' records
\* are where they were or waived by the eviction.
LEMMA ChangeKeepsHub ==
  ASSUME IInv, NEW r \in Records, ring' = ApplyLine(ring, r, retained), Announce(r),
         UNCHANGED lifeVars
  PROVE  HubInv'
<1> USE DEF IInv
<1>1. UNCHANGED <<batch, hub, sinks>> /\ r.id \in Ids
  BY DEF Announce, lifeVars, Records
<1>2. \A j \in DOMAIN ring' :
         ring'[j] = r \/ \E i \in DOMAIN ring : ring'[j] = ring[i] /\ ring[i].id # r.id
  BY ChangedRing
<1>3. CASE "hub" \notin sinks
  <2>1. UNCHANGED <<table, waived>>
    BY <1>3 DEF Announce
  <2> QED
    BY <1>1, <1>3, <2>1 DEF HubInv, BatchFacts, PendingIsRing, HubNeverBehind, Pending
<1>4. CASE "hub" \in sinks /\ ~ table.supported
  <2>1. table' = table /\ waived' = (waived \ {r.id}) \cup ((Pending(table) \cup {r.id}) \ Pending(table))
    BY <1>4 DEF Announce, HandToHub, Push
  <2>2. Pending(table) = {}
    BY <1>4 DEF HubInv, TableFacts, EmptyWithoutRoute
  <2>3. waived' = waived \cup {r.id} /\ Pending(table') = {}
    BY <2>1, <2>2
  <2>4. BatchFacts'
    BY <1>1, <2>1, <2>2, <2>3 DEF HubInv, BatchFacts
  <2> QED
    BY <1>1, <1>4, <2>1, <2>2, <2>3, <2>4 DEF HubInv, PendingIsRing, HubNeverBehind
<1>5. CASE "hub" \in sinks /\ table.supported
  <2>1. /\ table' = Push(table, r.id, r)
        /\ waived' = (waived \ {r.id}) \cup ((Pending(table) \cup {r.id}) \ Pending(table'))
    BY <1>5 DEF Announce, HandToHub
  <2>2. /\ TableFacts(table') /\ table'.revision = table.revision + 1 /\ table'.supported
        /\ Pending(table') \subseteq Pending(table) \cup {r.id}
        /\ \A k \in Pending(table') :
              table'.entries[k] = IF k = r.id THEN [value |-> r, revision |-> table.revision + 1]
                                  ELSE table.entries[k]
    BY <1>1, <1>5, <2>1, PushFacts DEF HubInv
  <2>3. waived' \subseteq Ids /\ table.revision \in Nat
    BY <1>1, <2>1 DEF HubInv, TableFacts, IsTable, Pending
  <2>4. BatchFacts'
    <3>1. batch' \subseteq [key : Ids, value : Records, revision : 1..table'.revision]
      BY <1>1, <2>2, <2>3 DEF HubInv, BatchFacts
    <3>2. ASSUME NEW item \in batch
          PROVE  /\ item.key \in Pending(table') \cup waived'
                 /\ item.key \in Pending(table') /\ table'.entries[item.key].revision = item.revision
                       => table'.entries[item.key].value = item.value
      <4>1. item.key \in Pending(table) \cup waived /\ item.revision <= table.revision
        BY <2>3 DEF HubInv, BatchFacts
      <4>2. CASE item.key = r.id
        BY <2>1, <2>2, <2>3, <4>1, <4>2 DEF HubInv, BatchFacts
      <4>3. CASE item.key # r.id
        BY <2>1, <2>2, <4>1, <4>3 DEF HubInv, BatchFacts
      <4> QED
        BY <4>2, <4>3
    <3> QED
      BY <1>1, <3>1, <3>2 DEF HubInv, BatchFacts
  <2>5. ASSUME NEW j \in DOMAIN ring', ring'[j].id \in Pending(table')
        PROVE  table'.entries[ring'[j].id].value = ring'[j]
    <3>1. CASE ring'[j] = r
      BY <2>2, <2>5, <3>1
    <3>2. ASSUME NEW i \in DOMAIN ring, ring'[j] = ring[i], ring[i].id # r.id
          PROVE  table'.entries[ring'[j].id].value = ring'[j]
      BY <2>2, <2>5, <3>2 DEF HubInv, PendingIsRing
    <3> QED
      BY <1>2, <3>1, <3>2
  <2>6. ASSUME NEW j \in DOMAIN ring'
        PROVE  \/ ring'[j].id \in waived'
               \/ ring'[j].id \in DOMAIN hub /\ hub[ring'[j].id] = ring'[j]
               \/ ring'[j].id \in Pending(table') /\ table'.entries[ring'[j].id].value = ring'[j]
    <3>1. CASE ring'[j] = r
      BY <2>1, <2>5, <3>1
    <3>2. ASSUME NEW i \in DOMAIN ring, ring'[j] = ring[i], ring[i].id # r.id
          PROVE  \/ ring'[j].id \in waived'
                 \/ ring'[j].id \in DOMAIN hub /\ hub[ring'[j].id] = ring'[j]
                 \/ ring'[j].id \in Pending(table') /\ table'.entries[ring'[j].id].value = ring'[j]
      <4>1. \/ ring[i].id \in waived
            \/ ring[i].id \in DOMAIN hub /\ hub[ring[i].id] = ring[i]
            \/ ring[i].id \in Pending(table)
        BY <1>5 DEF HubInv, HubNeverBehind
      <4> QED
        BY <2>1, <2>5, <3>2, <4>1
    <3> QED
      BY <1>2, <3>1, <3>2
  <2> QED
    BY <1>1, <1>5, <2>2, <2>3, <2>4, <2>5, <2>6 DEF HubInv, PendingIsRing, HubNeverBehind
<1> QED
  BY <1>3, <1>4, <1>5

\* A sequence of more than one element goes on after its first.
LEMMA TailFacts ==
  ASSUME NEW S, NEW s \in Seq(S), s # <<>>
  PROVE  Tail(s) \in Seq(S) /\ (Len(s) # 1 => Tail(s) # <<>>)
<1>1. Tail(s) \in Seq(S) /\ Len(Tail(s)) = Len(s) - 1 /\ Len(s) \in Nat
  BY HeadTailProperties
<1> DEFINE rest == Tail(s)
<1> HIDE DEF rest
<1>2. rest = <<>> => Len(rest) = 0
  OBVIOUS
<1> QED
  BY <1>1, <1>2 DEF rest

\* A delivery goes on typed, with an alert in hand until its last step.
LEMMA ProceedFacts ==
  ASSUME IInv, NEW c \in Conns, handler[c] # Idle, handler[c].step # "schedule",
         NEW fresh \in Seq(Ids), Proceed(c, fresh), UNCHANGED <<open, settle, received>>
  PROVE  RequestInv'
<1> DEFINE h == handler[c]
<1>1. h \in Handling /\ h.alerts \in Seq(Alerts) /\ h.alerts # <<>>
  BY DEF IInv, RequestInv, Handling
<1>2. /\ Tail(h.alerts) \in Seq(Alerts)
      /\ Len(h.alerts) # 1 => Tail(h.alerts) # <<>>
  BY <1>1, TailFacts
<1> DEFINE next == [alerts |-> Tail(h.alerts),
                    step |-> IF Len(h.alerts) = 1 THEN "schedule" ELSE "look",
                    fresh |-> fresh]
<1>3. handler' = [handler EXCEPT ![c] = next]
  BY DEF Proceed
<1>4. next \in Handling /\ (next.step # "schedule" => next.alerts # <<>>)
  BY <1>2 DEF Handling
<1> HIDE DEF next, h
<1> QED
  BY <1>3, <1>4 DEF IInv, RequestInv, h

\* The steps of a connection that change neither the ring nor its hand-offs.
LEMMA RequestSteps ==
  ASSUME IInv, NEW c \in Conns,
         \/ \E alerts \in Deliveries : Deliver(c, alerts)
         \/ Look(c) \/ RecordRefused(c) \/ NothingToClose(c) \/ Schedule(c)
         \/ Timeout(c) \/ Hangup(c)
  PROVE  IInv'
<1> USE DEF IInv
<1>1. UNCHANGED <<ring, archiveVars, exportVars, lifeVars>>
  BY DEF Deliver, Look, RecordRefused, NothingToClose, Schedule, Timeout, Hangup, storeVars
<1>2. RingInv' /\ ArchiveInv'
  BY <1>1 DEF RingInv, ArchiveInv, archiveVars, lifeVars
<1>3. HubInv'
  BY <1>1 DEF HubInv, BatchFacts, PendingIsRing, HubNeverBehind, exportVars, lifeVars
<1>4. phase \notin {"stopped", "crashed"}
  BY DEF Deliver, Look, RecordRefused, NothingToClose, Schedule, Timeout, Hangup, At, Running,
     EndedInv, RequestInv
<1>5. EndedInv'
  BY <1>1, <1>4 DEF EndedInv, lifeVars, exportVars
<1>6. RequestInv'
  <2>1. ASSUME NEW alerts \in Deliveries, Deliver(c, alerts) PROVE RequestInv'
    <3>1. alerts \in Seq(Alerts) /\ alerts # <<>> /\ Len(alerts) \in Nat
      <4>1. PICK n \in 1..MaxAlerts : alerts \in [1..n -> Alerts]
        BY DEF Deliveries
      <4>2. n \in Nat /\ n # 0
        BY <4>1, IncidentsAssumption
      <4> QED
        BY <4>1, <4>2
    <3> DEFINE first == [alerts |-> alerts, step |-> "look", fresh |-> <<>>]
    <3>2. first \in Handling /\ first.alerts # <<>>
      BY <3>1 DEF Handling
    <3>3. received' \in 0..Received
      BY <2>1, <3>1, IncidentsAssumption DEF Deliver, RequestInv
    <3>4. handler' = [handler EXCEPT ![c] = first] /\ open' = open \cup {c} /\ settle' = settle
      BY <2>1 DEF Deliver
    <3> HIDE DEF first
    <3> QED
      BY <3>2, <3>3, <3>4 DEF RequestInv
  <2>2. CASE Look(c)
    <3>1. /\ handler[c] \in Handling /\ handler[c] # Idle /\ handler[c].alerts # <<>>
      BY <2>2 DEF Look, At, RequestInv
    <3>2. PICK s \in {"close", "record"} : handler' = [handler EXCEPT ![c].step = s]
      BY <2>2 DEF Look
    <3> DEFINE next == [handler[c] EXCEPT !.step = s]
    <3>3. next \in Handling /\ next.alerts # <<>>
      BY <3>1 DEF Handling
    <3>4. handler' = [handler EXCEPT ![c] = next]
      BY <3>2
    <3> HIDE DEF next
    <3> QED
      BY <2>2, <3>1, <3>3, <3>4 DEF Look, RequestInv, storeVars
  <2>3. CASE RecordRefused(c)
    <3>1. /\ handler[c] \in Handling /\ handler[c] # Idle /\ handler[c].alerts # <<>>
      BY <2>3 DEF RecordRefused, At, RequestInv
    <3> DEFINE next == [handler[c] EXCEPT !.step = "close"]
    <3>3. next \in Handling /\ next.alerts # <<>>
      BY <3>1 DEF Handling
    <3>4. handler' = [handler EXCEPT ![c] = next]
      BY <2>3 DEF RecordRefused
    <3> HIDE DEF next
    <3> QED
      BY <2>3, <3>1, <3>3, <3>4 DEF RecordRefused, RequestInv, storeVars
  <2>4. CASE NothingToClose(c)
    <3>1. handler[c] # Idle /\ handler[c].step # "schedule" /\ handler[c].fresh \in Seq(Ids)
      BY <2>4 DEF NothingToClose, At, RequestInv, Handling
    <3> QED
      BY <2>4, <3>1, ProceedFacts DEF NothingToClose, storeVars
  <2>5. CASE Schedule(c)
    <3>1. handler[c] \in Handling /\ handler[c].fresh \in Seq(Ids)
      BY <2>5 DEF Schedule, At, RequestInv, Handling
    <3>2. settle' \in [Permits -> (Seq(Ids) \ {<<>>}) \cup {Idle}]
      BY <2>5, <3>1 DEF Schedule, RequestInv
    <3> QED
      BY <2>5, <3>2 DEF Schedule, RequestInv, storeVars
  <2>6. CASE Timeout(c)
    BY <2>6 DEF Timeout, RequestInv, storeVars
  <2>7. CASE Hangup(c)
    BY <2>7 DEF Hangup, RequestInv, storeVars
  <2> QED
    BY <2>1, <2>2, <2>3, <2>4, <2>5, <2>6, <2>7
<1> QED
  BY <1>2, <1>3, <1>5, <1>6

\* A change of the ring, from where the handler or the settle pass goes on.
LEMMA ChangeSteps ==
  ASSUME IInv, NEW r \in Records, ring' = ApplyLine(ring, r, retained), Announce(r),
         phase \notin {"stopped", "crashed"}, UNCHANGED lifeVars, RequestInv'
  PROVE  IInv'
<1>1. ArchiveInv' /\ HubInv'
  BY ChangeKeepsArchive, ChangeKeepsHub
<1>2. RingInv'
  BY ChangedRing DEF IInv, RingInv, lifeVars
<1>3. EndedInv'
  BY DEF IInv, EndedInv, Announce, lifeVars
<1> QED
  BY <1>1, <1>2, <1>3 DEF IInv

\* A delivery before its last step has an alert in hand, in a daemon that
\* runs.
LEMMA AlertInHand ==
  ASSUME IInv, NEW c \in Conns, handler[c] # Idle, handler[c].step # "schedule"
  PROVE  /\ Alert(c) \in Alerts /\ Alert(c).id \in Ids /\ Alert(c).ended \in Ends \cup {NoEnd}
         /\ handler[c].fresh \in Seq(Ids) /\ phase \notin {"stopped", "crashed"}
<1>1. handler[c] \in Handling /\ handler[c].alerts # <<>> /\ c \in open
  BY DEF IInv, RequestInv
<1>2. Head(handler[c].alerts) \in Alerts
  BY <1>1 DEF Handling
<1> QED
  BY <1>1, <1>2 DEF Alert, Alerts, Handling, IInv, EndedInv

\* What record_then, close_then and merge_then make of the ring is what the
\* replay of the line they write would.
LEMMA RecordIsLine ==
  ASSUME IInv, NEW c \in Conns, NEW capture \in SUBSET Findings, Record(c, capture)
  PROVE  LET r == [id |-> Alert(c).id, ended |-> Alert(c).ended, found |-> capture]
         IN  r \in Records /\ ring' = ApplyLine(ring, r, retained) /\ Announce(r)
                /\ r.id \notin IdsOf(ring)
<1> DEFINE r == [id |-> Alert(c).id, ended |-> Alert(c).ended, found |-> capture]
<1>1. r \in Records
  BY AlertInHand DEF Record, At, Records
<1>2. r # Torn
  BY <1>1, Basics
<1>3. r.id \notin IdsOf(ring) /\ ring' = Newest(Append(ring, r), retained) /\ Announce(r)
  BY DEF Record, Refuses
<1> HIDE DEF r
<1>4. ring' = ApplyLine(ring, r, retained)
  BY <1>2, <1>3 DEF ApplyLine
<1> QED
  BY <1>1, <1>3, <1>4 DEF r

\* An end that is set is the replay of the line it writes.
LEMMA CloseIsLine ==
  ASSUME IInv, NEW c \in Conns, Close(c)
  PROVE  LET r == [RecordOf(Alert(c).id) EXCEPT !.ended = Alert(c).ended]
         IN  r \in Records /\ ring' = ApplyLine(ring, r, retained) /\ Announce(r)
<1> DEFINE r == [RecordOf(Alert(c).id) EXCEPT !.ended = Alert(c).ended]
<1>1. Alert(c).id \in IdsOf(ring) /\ Alert(c).ended \in Ends \cup {NoEnd}
  BY AlertInHand DEF Close, At, Closes
<1>2. r \in Records /\ r.id = Alert(c).id
  BY <1>1, RecordOfFacts DEF Records
<1>3. r # Torn
  BY <1>2, Basics
<1>4. ring' = Updated(ring, r) /\ Announce(r)
  BY DEF Close
<1> HIDE DEF r
<1>5. ring' = ApplyLine(ring, r, retained)
  BY <1>1, <1>2, <1>3, <1>4 DEF ApplyLine
<1> QED
  BY <1>2, <1>4, <1>5 DEF r

\* A later capture is the replay of the line it writes.
LEMMA MergeIsLine ==
  ASSUME IInv, NEW p \in Permits, NEW capture \in SUBSET Findings, SettleMerge(p, capture)
  PROVE  LET r == Merged(RecordOf(Head(settle[p])), capture)
         IN  r \in Records /\ ring' = ApplyLine(ring, r, retained) /\ Announce(r)
<1> DEFINE old == RecordOf(Head(settle[p]))
           r == Merged(old, capture)
<1>1. Head(settle[p]) \in IdsOf(ring)
  BY DEF SettleMerge
<1>2. old \in Records /\ old.id = Head(settle[p])
  BY <1>1, RecordOfFacts
<1>3. ring' = Updated(ring, r) /\ Announce(r)
  BY DEF SettleMerge
<1> HIDE DEF old
<1>4. r \in Records /\ r.id = old.id
  BY <1>2 DEF Merged, Records
<1>5. r # Torn
  BY <1>4, Basics
<1> HIDE DEF r
<1>6. ring' = ApplyLine(ring, r, retained)
  BY <1>1, <1>2, <1>3, <1>4, <1>5 DEF ApplyLine
<1> QED
  BY <1>3, <1>4, <1>6 DEF r, old

\* The settle pass goes on to the next incident, typed.
LEMMA SettleNextFacts ==
  ASSUME IInv, NEW p \in Permits, settle[p] # Idle, SettleNext(p),
         UNCHANGED <<open, handler, received>>
  PROVE  RequestInv' /\ phase \notin {"stopped", "crashed"}
<1> DEFINE left == IF Len(settle[p]) = 1 THEN Idle ELSE Tail(settle[p])
<1>1. settle[p] \in Seq(Ids) /\ settle[p] # <<>>
  BY DEF IInv, RequestInv
<1>2. left \in (Seq(Ids) \ {<<>>}) \cup {Idle}
  BY <1>1, TailFacts
<1>3. settle' = [settle EXCEPT ![p] = left]
  BY DEF SettleNext
<1> HIDE DEF left
<1>4. RequestInv'
  BY <1>2, <1>3 DEF IInv, RequestInv
<1> QED
  BY <1>4 DEF IInv, EndedInv

\* The steps that change the ring, and the settle pass that finds nothing.
LEMMA HandlerAndSettleSteps ==
  ASSUME IInv,
         \/ \E c \in Conns : Close(c) \/ \E capture \in SUBSET Findings : Record(c, capture)
         \/ \E p \in Permits : SettleStep(p)
  PROVE  IInv'
<1>1. ASSUME NEW c \in Conns, NEW capture \in SUBSET Findings, Record(c, capture)
      PROVE  IInv'
  <2>1. handler[c] # Idle /\ handler[c].step # "schedule"
    BY <1>1 DEF Record, At
  <2>2. Append(handler[c].fresh, Alert(c).id) \in Seq(Ids)
    BY <2>1, AlertInHand
  <2>3. RequestInv'
    BY <1>1, <2>1, <2>2, ProceedFacts DEF Record
  <2>4. UNCHANGED lifeVars
    BY <1>1 DEF Record
  <2> QED
    BY <1>1, <2>1, <2>3, <2>4, RecordIsLine, AlertInHand, ChangeSteps
<1>2. ASSUME NEW c \in Conns, Close(c) PROVE IInv'
  <2>1. handler[c] # Idle /\ handler[c].step # "schedule"
    BY <1>2 DEF Close, At
  <2>2. handler[c].fresh \in Seq(Ids)
    BY <2>1, AlertInHand
  <2>3. RequestInv'
    BY <1>2, <2>1, <2>2, ProceedFacts DEF Close
  <2>4. UNCHANGED lifeVars
    BY <1>2 DEF Close
  <2> QED
    BY <1>2, <2>1, <2>3, <2>4, CloseIsLine, AlertInHand, ChangeSteps
<1>3. ASSUME NEW p \in Permits, NEW capture \in SUBSET Findings, SettleMerge(p, capture)
      PROVE  IInv'
  <2>1. RequestInv' /\ phase \notin {"stopped", "crashed"} /\ UNCHANGED lifeVars
    BY <1>3, SettleNextFacts DEF SettleMerge
  <2> QED
    BY <1>3, <2>1, MergeIsLine, ChangeSteps
<1>4. ASSUME NEW p \in Permits, SettleSkip(p) PROVE IInv'
  <2>1. /\ RequestInv' /\ phase \notin {"stopped", "crashed"}
        /\ UNCHANGED <<ring, archiveVars, exportVars, lifeVars>>
    BY <1>4, SettleNextFacts DEF SettleSkip, storeVars
  <2>2. RingInv' /\ ArchiveInv'
    BY <2>1 DEF IInv, RingInv, ArchiveInv, archiveVars, lifeVars
  <2>3. HubInv'
    BY <2>1 DEF IInv, HubInv, BatchFacts, PendingIsRing, HubNeverBehind, exportVars, lifeVars
  <2>4. EndedInv'
    BY <2>1 DEF IInv, EndedInv, lifeVars, exportVars
  <2> QED
    BY <2>1, <2>2, <2>3, <2>4 DEF IInv
<1> QED
  BY <1>1, <1>2, <1>3, <1>4 DEF SettleStep

-----------------------------------------------------------------------------
(* The archive writer.                                                     *)

\* Bytes at the end of the archive leave it typed and not empty.
LEMMA AppendedFacts ==
  ASSUME IInv, NEW bytes \in Lines
  PROVE  Appended(bytes) \in Seq(Lines) /\ Appended(bytes) # <<>>
<1>1. file \in Seq(Lines) /\ Torn \in Lines
  BY DEF IInv, ArchiveInv, Lines
<1>2. Append(file, bytes) \in Seq(Lines) /\ Append(file, bytes) # <<>>
  BY <1>1, AppendProperties
<1>3. unended => file # <<>>
  BY DEF IInv, ArchiveInv
<1>4. ASSUME unended
      PROVE  Append(Front(file), Torn) \in Seq(Lines) /\ Append(Front(file), Torn) # <<>>
  <2>1. Front(file) \in Seq(Lines)
    BY <1>1, <1>3, <1>4 DEF Front
  <2> QED
    BY <1>1, <2>1, AppendProperties
<1> QED
  BY <1>2, <1>4 DEF Appended

\* A record that leaves the channel for the file leaves both together as they
\* were.
LEMMA HeadMoves ==
  ASSUME NEW S, NEW one \in Seq(S), NEW other \in Seq(S), other # <<>>
  PROVE  Append(one, Head(other)) \o Tail(other) = one \o other
<1> DEFINE h == Head(other)
           rest == Tail(other)
           left == Append(one, h)
<1>1. /\ h \in S /\ h = other[1] /\ rest \in Seq(S) /\ Len(rest) = Len(other) - 1
      /\ \A i \in 1..Len(rest) : rest[i] = other[i + 1]
  BY HeadTailProperties
<1>2. Len(one) \in Nat /\ Len(other) \in Nat \ {0}
  BY EmptySeq
<1> HIDE DEF h, rest
<1>3. /\ left \in Seq(S) /\ Len(left) = Len(one) + 1
      /\ \A i \in 1..Len(one) : left[i] = one[i]
      /\ left[Len(one) + 1] = h
  BY <1>1, AppendProperties
<1> HIDE DEF left
<1>4. /\ left \o rest \in Seq(S) /\ Len(left \o rest) = Len(one) + Len(other)
      /\ \A i \in 1..Len(one) + Len(other) : (left \o rest)[i] =
            IF i <= Len(left) THEN left[i] ELSE rest[i - Len(left)]
  <2>1. Len(left) + Len(rest) = Len(one) + Len(other)
    BY <1>1, <1>2, <1>3
  <2>2. /\ left \o rest \in Seq(S) /\ Len(left \o rest) = Len(left) + Len(rest)
        /\ \A i \in 1..Len(left) + Len(rest) : (left \o rest)[i] =
              IF i <= Len(left) THEN left[i] ELSE rest[i - Len(left)]
    BY <1>1, <1>3, ConcatProperties
  <2> QED
    BY <2>1, <2>2
<1>5. /\ one \o other \in Seq(S) /\ Len(one \o other) = Len(one) + Len(other)
      /\ \A i \in 1..Len(one) + Len(other) : (one \o other)[i] =
            IF i <= Len(one) THEN one[i] ELSE other[i - Len(one)]
  BY ConcatProperties
<1>6. ASSUME NEW i \in 1..Len(one) + Len(other)
      PROVE  (left \o rest)[i] = (one \o other)[i]
  <2>0. i \in Int
    BY <1>2
  <2>1. CASE i <= Len(one)
    BY <1>2, <1>3, <1>4, <1>5, <2>1
  <2>2. CASE i = Len(one) + 1
    BY <1>1, <1>2, <1>3, <1>4, <1>5, <2>2
  <2>3. CASE i > Len(one) + 1
    <3>1. i - Len(left) \in 1..Len(rest) /\ (i - Len(left)) + 1 = i - Len(one)
      BY <1>1, <1>2, <1>3, <2>3
    <3>2. rest[i - Len(left)] = other[i - Len(one)]
      BY <1>1, <3>1
    <3>3. (left \o rest)[i] = rest[i - Len(left)] /\ (one \o other)[i] = other[i - Len(one)]
      BY <1>2, <1>3, <1>4, <1>5, <2>3
    <3> QED
      BY <3>2, <3>3
  <2>4. i <= Len(one) \/ i = Len(one) + 1 \/ i > Len(one) + 1
    BY <1>2, <2>0
  <2> QED
    BY <2>1, <2>2, <2>3, <2>4
<1> QED
  BY <1>4, <1>5, <1>6, SeqEqual DEF left, rest, h

\* A record leaves the channel for the file, or is lost and leaves the gap
\* noted.
LEMMA WriterSteps ==
  ASSUME IInv, WriteRecord \/ WriteFails
  PROVE  IInv'
<1>1. /\ UNCHANGED <<ring, received, open, handler, settle, table, batch, hub, waived,
                     phase, sinks, retained, starts>>
      /\ phase \in Running /\ channel # <<>> /\ channel' = Tail(channel)
  BY DEF WriteRecord, WriteFails, storeVars, requestVars, exportVars, lifeVars
<1>2. RequestInv' /\ RingInv' /\ EndedInv'
  BY <1>1 DEF IInv, RequestInv, RingInv, EndedInv, Running
<1>3. HubInv'
  BY <1>1 DEF IInv, HubInv, BatchFacts, PendingIsRing, HubNeverBehind
<1>4. /\ channel \in Seq(Records) /\ Len(channel) <= Capacity /\ channel \in Seq(Lines)
      /\ file \in Seq(Lines) /\ "archive" \in sinks
  BY <1>1 DEF IInv, ArchiveInv, Lines
<1>5. /\ Head(channel) \in Lines /\ Torn \in Lines
      /\ channel' \in Seq(Records) /\ Len(channel') <= Capacity
  <2>1. Head(channel) \in Lines
    BY <1>1, <1>4, HeadTailProperties
  <2>2. Tail(channel) \in Seq(Records) /\ Len(Tail(channel)) = Len(channel) - 1
    BY <1>1, <1>4, HeadTailProperties
  <2>3. Len(channel) \in Nat /\ Capacity \in Nat
    BY <1>4, Basics
  <2> QED
    BY <1>1, <1>4, <2>1, <2>2, <2>3 DEF Lines
<1>6. CASE WriteRecord
  <2>1. file' = Appended(Head(channel)) /\ unended' = FALSE /\ gap' = gap
    BY <1>6 DEF WriteRecord
  <2>2. file' \in Seq(Lines)
    BY <1>5, <2>1, AppendedFacts
  <2>3. ASSUME ~ gap
        PROVE  Replay(file' \o channel', retained) = ring
    <3>1. ~ unended
      BY <1>1, <2>3 DEF IInv, ArchiveInv, Running
    <3>2. file' = Append(file, Head(channel))
      BY <2>1, <3>1 DEF Appended
    <3>3. file' \o channel' = file \o channel
      BY <1>1, <1>4, <3>2, HeadMoves
    <3>4. Replay(file \o channel, retained) = ring
      BY <1>1, <1>4, <2>3 DEF IInv, ArchiveInv, Running
    <3> QED
      BY <3>3, <3>4
  <2>4. ArchiveInv'
    BY <1>1, <1>4, <1>5, <2>1, <2>2, <2>3 DEF IInv, ArchiveInv
  <2> QED
    BY <1>2, <1>3, <2>4 DEF IInv
<1>7. CASE WriteFails
  <2>1. /\ gap' = TRUE /\ Leftovers(Head(channel))
        /\ unended' \in {FALSE, unended \/ file' # file}
    BY <1>7 DEF WriteFails
  <2>2. file' = file \/ (file' \in Seq(Lines) /\ file' # <<>>)
    BY <1>5, <2>1, AppendedFacts DEF Leftovers
  <2>3. file' \in Seq(Lines) /\ unended' \in BOOLEAN /\ (unended' => file' # <<>>)
    BY <1>4, <2>1, <2>2 DEF IInv, ArchiveInv
  <2>4. ArchiveInv'
    BY <1>1, <1>4, <1>5, <2>1, <2>3 DEF ArchiveInv
  <2> QED
    BY <1>2, <1>3, <2>4 DEF IInv
<1> QED
  BY <1>6, <1>7

-----------------------------------------------------------------------------
(* The exporter.                                                           *)

\* The Hub has the batch's values, and of others what it had.
LEMMA HubTakesFacts ==
  ASSUME IInv, HubTakes
  PROVE  /\ DOMAIN hub' \subseteq Ids
         /\ \A item \in batch : item.key \in DOMAIN hub' /\ hub'[item.key] = item.value
         /\ \A k \in DOMAIN hub :
               (\A item \in batch : item.key # k) => k \in DOMAIN hub' /\ hub'[k] = hub[k]
<1>1. /\ \A item \in batch : item.key \in Ids
      /\ \A one, other \in batch : one.key = other.key => one = other
      /\ DOMAIN hub \subseteq Ids
  BY DEF IInv, HubInv, BatchFacts
<1>2. DOMAIN hub' = DOMAIN hub \cup {item.key : item \in batch}
  BY DEF HubTakes
<1>3. ASSUME NEW item \in batch PROVE hub'[item.key] = item.value
  <2>1. (CHOOSE i \in batch : i.key = item.key) = item
    BY <1>1
  <2> QED
    BY <2>1, <1>2 DEF HubTakes
<1>4. ASSUME NEW k \in DOMAIN hub, \A item \in batch : item.key # k
      PROVE  hub'[k] = hub[k]
  BY <1>2, <1>4 DEF HubTakes
<1> QED
  BY <1>1, <1>2, <1>3, <1>4

\* What an answer that keeps the values leaves behind is as it was: the Hub
\* may have taken the batch, whose records are still pending or waived.
LEMMA HubMayTake ==
  ASSUME IInv, HubTakes \/ UNCHANGED hub, UNCHANGED <<ring, table, waived, sinks>>
  PROVE  DOMAIN hub' \subseteq Ids /\ HubNeverBehind'
<1>1. CASE UNCHANGED hub
  BY <1>1 DEF IInv, HubInv, HubNeverBehind
<1>2. CASE HubTakes
  <2>1. /\ DOMAIN hub' \subseteq Ids
        /\ \A k \in DOMAIN hub :
              (\A item \in batch : item.key # k) => k \in DOMAIN hub' /\ hub'[k] = hub[k]
    BY <1>2, HubTakesFacts
  <2>2. ASSUME "hub" \in sinks, table.supported, NEW i \in DOMAIN ring
        PROVE  \/ ring[i].id \in waived
               \/ ring[i].id \in DOMAIN hub' /\ hub'[ring[i].id] = ring[i]
               \/ ring[i].id \in Pending(table) /\ table.entries[ring[i].id].value = ring[i]
    <3>1. CASE \E item \in batch : item.key = ring[i].id
      BY <3>1 DEF IInv, HubInv, BatchFacts, PendingIsRing
    <3>2. CASE \A item \in batch : item.key # ring[i].id
      BY <2>1, <2>2, <3>2 DEF IInv, HubInv, HubNeverBehind
    <3> QED
      BY <3>1, <3>2
  <2> QED
    BY <2>1, <2>2 DEF HubNeverBehind
<1> QED
  BY <1>1, <1>2

\* Acknowledged entries leave the others in step with the ring.
LEMMA AcknowledgedKeeps ==
  ASSUME IInv, NEW sent, table' = Acknowledge(table, sent), batch' = {},
         UNCHANGED <<ring, sinks>>
  PROVE  TableFacts(table') /\ BatchFacts' /\ PendingIsRing'
<1>1. /\ TableFacts(table') /\ Pending(table') \subseteq Pending(table)
      /\ \A k \in Pending(table') : table'.entries[k] = table.entries[k]
  BY AcknowledgeFacts DEF IInv, HubInv
<1>2. BatchFacts'
  BY DEF BatchFacts
<1>3. PendingIsRing'
  BY <1>1 DEF IInv, HubInv, PendingIsRing
<1> QED
  BY <1>1, <1>2, <1>3

\* A batch the Hub took goes by the revisions it carries.
LEMMA AcceptedKeepsHub ==
  ASSUME IInv, Accepted
  PROVE  HubInv'
<1>1. /\ HubTakes /\ table' = Acknowledge(table, batch) /\ batch' = {}
      /\ UNCHANGED <<ring, sinks, waived>>
  BY DEF Accepted, storeVars, lifeVars
<1>2. /\ table'.supported = table.supported
      /\ \A k \in Pending(table') : table'.entries[k] = table.entries[k]
      /\ \A k \in Pending(table) \ Pending(table') :
            \E item \in batch : item.key = k /\ item.revision = table.entries[k].revision
  BY <1>1, AcknowledgeFacts DEF IInv, HubInv
<1>3. TableFacts(table') /\ BatchFacts' /\ PendingIsRing'
  BY <1>1, AcknowledgedKeeps
<1>4. ASSUME "hub" \in sinks, table.supported, NEW i \in DOMAIN ring, ring[i].id \notin waived
      PROVE  \/ ring[i].id \in DOMAIN hub' /\ hub'[ring[i].id] = ring[i]
             \/ ring[i].id \in Pending(table') /\ table'.entries[ring[i].id].value = ring[i]
  <2>1. CASE ring[i].id \in Pending(table')
    BY <1>1, <1>3, <2>1 DEF PendingIsRing
  <2>2. CASE ring[i].id \in Pending(table) \ Pending(table')
    <3>1. PICK item \in batch :
             item.key = ring[i].id /\ item.revision = table.entries[ring[i].id].revision
      BY <1>2, <2>2
    <3>2. item.value = table.entries[ring[i].id].value
      BY <2>2, <3>1 DEF IInv, HubInv, BatchFacts
    <3>3. item.value = ring[i]
      BY <2>2, <3>2 DEF IInv, HubInv, PendingIsRing
    <3> QED
      BY <1>1, <3>1, <3>3, HubTakesFacts
  <2>3. CASE ring[i].id \notin Pending(table)
    <3>1. ring[i].id \in DOMAIN hub /\ hub[ring[i].id] = ring[i]
      BY <1>4, <2>3 DEF IInv, HubInv, HubNeverBehind
    <3>2. \A item \in batch : item.key # ring[i].id
      BY <1>4, <2>3 DEF IInv, HubInv, BatchFacts
    <3> QED
      BY <1>1, <3>1, <3>2, HubTakesFacts
  <2> QED
    BY <2>1, <2>2, <2>3
<1>5. HubNeverBehind'
  BY <1>1, <1>2, <1>4 DEF HubNeverBehind
<1>6. DOMAIN hub' \subseteq Ids /\ waived' \subseteq Ids
  BY <1>1, HubTakesFacts DEF IInv, HubInv
<1> QED
  BY <1>3, <1>5, <1>6 DEF HubInv

\* Every step of the exporter, whatever the Hub answers.
LEMMA ExportSteps ==
  ASSUME IInv, Snapshot \/ Answer \/ Oversized
  PROVE  IInv'
<1>1. /\ UNCHANGED <<storeVars, archiveVars, requestVars, lifeVars>>
      /\ batch' # {} => phase \in {"serving", "flushing"}
  BY DEF Snapshot, Answer, Accepted, Rejected, Missing, Retry, Oversized
<1>2. /\ RequestInv' /\ RingInv' /\ ArchiveInv' /\ EndedInv'
      /\ UNCHANGED <<ring, sinks>>
  BY <1>1 DEF IInv, RequestInv, RingInv, ArchiveInv, EndedInv, storeVars, archiveVars,
              requestVars, lifeVars
<1>3. ASSUME Snapshot PROVE HubInv'
  <2>1. UNCHANGED <<table, hub, waived>> /\ SnapshotOf(table) # {}
        /\ batch' \subseteq SnapshotOf(table)
    BY <1>3 DEF Snapshot, UpTo
  <2>2. ASSUME NEW item \in SnapshotOf(table)
        PROVE  /\ item.key \in Pending(table) /\ item.key \in Ids
               /\ item.revision = table.entries[item.key].revision
               /\ item.value = table.entries[item.key].value
               /\ item = [key |-> item.key, value |-> table.entries[item.key].value,
                          revision |-> table.entries[item.key].revision]
               /\ item \in [key : Ids, value : Records, revision : 1..table.revision]
    <3>1. PICK i \in table.order :
             /\ IsLatest(table.entries, i)
             /\ item = [key |-> i.key, value |-> table.entries[i.key].value,
                        revision |-> i.revision]
      BY <2>2 DEF SnapshotOf
    <3>2. i.key \in DOMAIN table.entries /\ i.revision = table.entries[i.key].revision
      BY <3>1 DEF IsLatest, ItemOf
    <3>3. /\ i.key \in Ids
          /\ table.entries[i.key] \in [value : Records, revision : 1..table.revision]
      BY <3>2 DEF IInv, HubInv, TableFacts, IsTable
    <3> QED
      BY <3>1, <3>2, <3>3 DEF Pending
  <2>3. BatchFacts'
    <3>1. \A one, other \in batch' : one.key = other.key => one = other
      BY <2>1, <2>2
    <3>2. batch' \subseteq [key : Ids, value : Records, revision : 1..table'.revision]
      BY <2>1, <2>2
    <3>3. \A item \in batch' :
             item.key \in Pending(table') /\ table'.entries[item.key].value = item.value
      BY <2>1, <2>2
    <3> QED
      BY <3>1, <3>2, <3>3 DEF BatchFacts
  <2>4. "hub" \in sinks
    BY <2>1, <2>2 DEF IInv, HubInv, PendingIsRing
  <2> QED
    BY <1>2, <2>1, <2>3, <2>4 DEF IInv, HubInv, PendingIsRing, HubNeverBehind
<1>4. ASSUME Accepted PROVE HubInv'
  BY <1>4, AcceptedKeepsHub
<1>5. ASSUME NEW sent, table' = Acknowledge(table, sent), batch' = {}, UNCHANGED hub,
             waived' = waived \cup (Pending(table) \ Pending(table'))
      PROVE  HubInv'
  <2>1. TableFacts(table') /\ BatchFacts' /\ PendingIsRing'
    BY <1>2, <1>5, AcknowledgedKeeps
  <2>2. /\ table'.supported = table.supported
        /\ \A k \in Pending(table') : table'.entries[k] = table.entries[k]
    BY <1>5, AcknowledgeFacts DEF IInv, HubInv
  <2>3. Pending(table) \subseteq Ids /\ DOMAIN hub' \subseteq Ids
    BY <1>5 DEF IInv, HubInv, TableFacts, IsTable, Pending
  <2>4. waived' \subseteq Ids
    BY <1>5, <2>3 DEF IInv, HubInv
  <2>5. HubNeverBehind'
    BY <1>2, <1>5, <2>2 DEF IInv, HubInv, HubNeverBehind
  <2> QED
    BY <2>1, <2>3, <2>4, <2>5 DEF HubInv
<1>6. ASSUME Rejected PROVE HubInv'
  BY <1>5, <1>6 DEF Rejected
<1>7. ASSUME Oversized PROVE HubInv'
  BY <1>5, <1>7 DEF Oversized
<1>8. ASSUME Missing PROVE HubInv'
  <2>1. table' = MarkUnsupported(table) /\ batch' = {} /\ UNCHANGED <<hub, waived>>
    BY <1>8 DEF Missing
  <2>2. TableFacts(table') /\ Pending(table') = {} /\ ~ table'.supported
    BY <2>1, EmptyTables DEF IInv, HubInv
  <2> QED
    BY <1>2, <2>1, <2>2 DEF IInv, HubInv, BatchFacts, PendingIsRing, HubNeverBehind
<1>9. ASSUME Retry PROVE HubInv'
  <2>1. (HubTakes \/ UNCHANGED hub) /\ batch' = {} /\ UNCHANGED <<table, waived>>
    BY <1>9 DEF Retry
  <2>2. DOMAIN hub' \subseteq Ids /\ HubNeverBehind'
    BY <1>2, <2>1, HubMayTake
  <2> QED
    BY <1>2, <2>1, <2>2 DEF IInv, HubInv, BatchFacts, PendingIsRing
<1>10. HubInv'
  BY <1>3, <1>4, <1>6, <1>7, <1>8, <1>9 DEF Answer
<1> QED
  BY <1>2, <1>10 DEF IInv

-----------------------------------------------------------------------------
(* The life of the daemon.                                                 *)

\* The stop, up to the end of the process.
LEMMA StopSteps ==
  ASSUME IInv, Stop \/ ExporterEnds \/ ExporterAborted \/ Join
  PROVE  IInv'
<1>1. /\ UNCHANGED <<ring, received, channel, file, unended, gap, sinks, retained, starts,
                     table, waived>>
      /\ phase # "crashed" /\ phase' \in {"flushing", "joining", "stopped"}
  BY DEF Stop, ExporterEnds, ExporterAborted, Join, storeVars, archiveVars, exportVars
<1>2. RequestInv'
  BY <1>1 DEF Stop, ExporterEnds, ExporterAborted, Join, requestVars, IInv, RequestInv
<1>3. RingInv'
  BY <1>1 DEF IInv, RingInv, Running
<1>4. ArchiveInv'
  BY <1>1 DEF IInv, ArchiveInv
<1>5. HubInv'
  <2>1. batch' \in {batch, {}} /\ (HubTakes \/ UNCHANGED hub)
    BY DEF Stop, ExporterEnds, ExporterAborted, Join, exportVars
  <2>2. DOMAIN hub' \subseteq Ids /\ HubNeverBehind'
    BY <1>1, <2>1, HubMayTake
  <2> QED
    BY <1>1, <2>1, <2>2 DEF IInv, HubInv, BatchFacts, PendingIsRing
<1>6. EndedInv'
  <2>1. CASE Stop
    BY <2>1 DEF Stop, EndedInv
  <2>2. CASE ExporterEnds \/ ExporterAborted
    BY <2>2 DEF ExporterEnds, ExporterAborted, EndedInv, exportVars
  <2>3. CASE Join
    <3>1. channel = <<>>
      BY <2>3 DEF Join, WriterDone, IInv, ArchiveInv
    <3> QED
      BY <1>1, <2>3, <3>1 DEF Join, EndedInv, IInv, exportVars
  <2> QED
    BY <2>1, <2>2, <2>3
<1> QED
  BY <1>2, <1>3, <1>4, <1>5, <1>6 DEF IInv

\* A crash loses what was in memory and may cut the line being written.
LEMMA CrashStep ==
  ASSUME IInv, Crash
  PROVE  IInv'
<1>1. /\ ring' = <<>> /\ channel' = <<>> /\ open' = {}
      /\ handler' = [c \in Conns |-> Idle] /\ settle' = [p \in Permits |-> Idle]
      /\ table' = NewTable /\ batch' = {} /\ phase' = "crashed"
      /\ UNCHANGED <<gap, waived, received, sinks, retained, starts>>
  BY DEF Crash
<1>2. RequestInv' /\ EndedInv'
  BY <1>1 DEF IInv, RequestInv, EndedInv
<1>3. RingInv'
  BY <1>1, EmptyRing, Basics DEF IInv, RingInv
<1>4. ArchiveInv'
  <2>1. /\ file \in Seq(Lines) /\ unended \in BOOLEAN /\ gap \in BOOLEAN
        /\ unended => file # <<>>
    BY DEF IInv, ArchiveInv
  <2>2. file' \in Seq(Lines) /\ unended' \in BOOLEAN /\ (unended' => file' # <<>>)
    <3>1. CASE UNCHANGED <<file, unended>>
      BY <2>1, <3>1
    <3>2. ASSUME channel # <<>>, Leftovers(Head(channel)), unended' = (unended \/ file' # file)
          PROVE  file' \in Seq(Lines) /\ unended' \in BOOLEAN /\ (unended' => file' # <<>>)
      <4>1. Head(channel) \in Lines /\ Torn \in Lines
        BY <3>2, HeadTailProperties DEF IInv, ArchiveInv, Lines
      <4>2. file' = file \/ (file' \in Seq(Lines) /\ file' # <<>>)
        BY <3>2, <4>1, AppendedFacts DEF Leftovers
      <4> QED
        BY <2>1, <3>2, <4>2
    <3> QED
      BY <3>1, <3>2 DEF Crash
  <2>3. channel' \in Seq(Records) /\ Len(channel') <= Capacity
    <3>1. Len(<<>>) = 0 /\ <<>> \in Seq(Records) /\ Capacity \in Nat
      BY EmptySeq, Basics
    <3> QED
      BY <1>1, <3>1
  <2> QED
    BY <1>1, <2>1, <2>2, <2>3 DEF ArchiveInv
<1>5. HubInv'
  <2>1. TableFacts(table') /\ Pending(table') = {}
    BY <1>1, EmptyTables
  <2>2. DOMAIN hub' \subseteq Ids
    BY HubTakesFacts DEF Crash, IInv, HubInv
  <2>3. DOMAIN ring' = {}
    BY <1>1
  <2> QED
    BY <1>1, <2>1, <2>2, <2>3
       DEF IInv, HubInv, BatchFacts, PendingIsRing, HubNeverBehind
<1> QED
  BY <1>2, <1>3, <1>4, <1>5 DEF IInv

\* The next start reloads the archive, whose last line it ends first.
LEMMA RestartStep ==
  ASSUME IInv, Restart
  PROVE  IInv'
<1>1. /\ phase \in {"stopped", "crashed"} /\ phase' = "serving"
      /\ unended' = FALSE /\ retained' \in Sizes /\ ring' = Replay(file, retained')
      /\ channel' = <<>> /\ gap' = FALSE /\ table' = NewTable /\ waived' = Ids
      /\ UNCHANGED <<file, received, sinks, open, handler, settle, batch, hub>>
      /\ starts < MaxStarts /\ starts' = starts + 1
  BY DEF Restart, Sealed, requestVars
<1>2. retained' \in Nat \ {0} /\ file \in Seq(Lines)
  BY <1>1, IncidentsAssumption DEF IInv, ArchiveInv
<1>3. RequestInv' /\ EndedInv'
  BY <1>1 DEF IInv, RequestInv, EndedInv
<1>4. RingInv'
  <2>1. ring' \in Rings(retained')
    BY <1>1, <1>2, ReplayStays
  <2>2. starts' \in 0..MaxStarts
    BY <1>1, IncidentsAssumption DEF IInv, RingInv
  <2> QED
    BY <1>1, <2>1, <2>2 DEF IInv, RingInv, Running
<1>5. ArchiveInv'
  <2>1. file' \o channel' = file
    BY <1>1, <1>2, ConcatEmptySeq
  <2>2. Replay(file' \o channel', retained') = ring'
    BY <1>1, <2>1
  <2>3. channel' \in Seq(Records) /\ Len(channel') <= Capacity
    <3>1. Len(<<>>) = 0 /\ <<>> \in Seq(Records) /\ Capacity \in Nat
      BY EmptySeq, Basics
    <3> QED
      BY <1>1, <3>1
  <2> QED
    BY <1>1, <1>2, <2>2, <2>3 DEF ArchiveInv
<1>6. HubInv'
  <2>1. TableFacts(table') /\ Pending(table') = {} /\ batch' = {}
    BY <1>1, EmptyTables DEF IInv, EndedInv
  <2>2. \A i \in DOMAIN ring' : ring'[i].id \in waived'
    <3>1. ring' \in Seq(Records)
      BY <1>1, <1>2, ReplayStays DEF Rings
    <3>2. \A r \in Records : r.id \in Ids
      BY DEF Records
    <3> QED
      BY <1>1, <3>1, <3>2
  <2> QED
    BY <1>1, <2>1, <2>2 DEF IInv, HubInv, BatchFacts, PendingIsRing, HubNeverBehind
<1> QED
  BY <1>3, <1>4, <1>5, <1>6 DEF IInv

-----------------------------------------------------------------------------
(* The invariant, and what follows from it.                                *)

\* Every step keeps the invariant.
LEMMA StepKeepsInv == IInv /\ [Next]_vars => IInv'
<1> SUFFICES ASSUME IInv, [Next]_vars PROVE IInv'
  OBVIOUS
<1>1. CASE UNCHANGED vars
  <2>1. UNCHANGED <<ring, received, channel, file, unended, gap, open, handler, settle,
                    table, batch, hub, waived, phase, sinks, retained, starts>>
    BY <1>1 DEF vars, storeVars, archiveVars, requestVars, exportVars, lifeVars
  <2>2. RequestInv' /\ RingInv' /\ ArchiveInv' /\ EndedInv'
    BY <2>1 DEF IInv, RequestInv, RingInv, ArchiveInv, EndedInv
  <2>3. HubInv'
    BY <2>1 DEF IInv, HubInv, BatchFacts, PendingIsRing, HubNeverBehind
  <2> QED
    BY <2>2, <2>3 DEF IInv
<1>2. ASSUME NEW c \in Conns,
             \/ \E alerts \in Deliveries : Deliver(c, alerts)
             \/ HandlerStep(c)
             \/ Timeout(c)
             \/ Hangup(c)
      PROVE  IInv'
  BY <1>2, RequestSteps, HandlerAndSettleSteps DEF HandlerStep
<1>3. ASSUME NEW p \in Permits, SettleStep(p) PROVE IInv'
  BY <1>3, HandlerAndSettleSteps
<1>4. CASE WriteRecord \/ WriteFails
  BY <1>4, WriterSteps
<1>5. CASE Snapshot \/ Answer \/ Oversized
  BY <1>5, ExportSteps
<1>6. CASE Stop \/ ExporterEnds \/ ExporterAborted \/ Join
  BY <1>6, StopSteps
<1>7. CASE Crash
  BY <1>7, CrashStep
<1>8. CASE Restart
  BY <1>8, RestartStep
<1> QED
  BY <1>1, <1>2, <1>3, <1>4, <1>5, <1>6, <1>7, <1>8 DEF Next

\* The inductive invariant holds of every reachable state.
THEOREM InvHolds == Spec => []IInv
BY InitEstablishesInv, StepKeepsInv, PTL DEF Spec

\* Every reachable state is typed, and the ring, the channel and the exporter's
\* table keep to their caps.
THEOREM Typed == Spec => []TypeOK
BY InvHolds, InvImplies, PTL

\* Whatever way the deliveries of one alert interleave, it has one record.
THEOREM OneRecordPerIncident == Spec => []RecordedOnce
BY InvHolds, InvImplies, PTL

\* While no record missed it, the archive with what is on its way to it
\* reloads as the ring.
THEOREM ArchiveReloads == Spec => []ReloadGivesRing
BY InvHolds, InvImplies, PTL

\* The exporter never forgets a change of a retained incident.
THEOREM HubCatchesUp == Spec => []HubNeverBehind
BY InvHolds, InvImplies, PTL

\* Every pending incident can be sent and can be evicted.
THEOREM PendingIsQueued == Spec => []PendingInQueue
BY InvHolds, InvImplies, PTL

\* A stop that waited for the writer leaves the ring in the archive.
THEOREM NothingLeftBehind == Spec => []StopLeavesNothing
BY InvHolds, InvImplies, PTL

-----------------------------------------------------------------------------
(* A retained record only gains.                                           *)

\* What FirstCaptureKept says of one step.
Kept ==
    \A i \in DOMAIN ring, j \in DOMAIN ring' :
       starts' = starts /\ ring[i].id = ring'[j].id =>
           /\ ring[i].found \subseteq ring'[j].found
           /\ ring[i].ended # NoEnd => ring'[j].ended = ring[i].ended

\* One change keeps what is there if the record it announces does.
LEMMA ChangeKeeps ==
  ASSUME IInv, NEW r \in Records, ring' = ApplyLine(ring, r, retained),
         \A i \in DOMAIN ring : ring[i].id = r.id =>
             /\ ring[i].found \subseteq r.found
             /\ ring[i].ended # NoEnd => r.ended = ring[i].ended
  PROVE  Kept
<1>1. \A j \in DOMAIN ring' :
         ring'[j] = r \/ \E i \in DOMAIN ring : ring'[j] = ring[i] /\ ring[i].id # r.id
  BY ChangedRing
<1>2. \A i, j \in DOMAIN ring : ring[i].id = ring[j].id => i = j
  BY DEF IInv, RingInv, Rings
<1> QED
  BY <1>1, <1>2 DEF Kept

\* A step changes the ring by one announced record, empties it, reloads it or
\* leaves it alone.
LEMMA RingSteps ==
  ASSUME IInv, Next
  PROVE  \/ UNCHANGED ring
         \/ ring' = <<>>
         \/ starts' # starts
         \/ \E c \in Conns, capture \in SUBSET Findings : Record(c, capture)
         \/ \E c \in Conns : Close(c)
         \/ \E p \in Permits, capture \in SUBSET Findings : SettleMerge(p, capture)
<1>1. Restart => starts' # starts
  BY DEF Restart, IInv, RingInv
<1> QED
  BY <1>1 DEF Next, HandlerStep, SettleStep, Answer, Deliver, Look, RecordRefused,
     NothingToClose, Schedule, Timeout, Hangup, SettleSkip, WriteRecord, WriteFails, Snapshot,
     Accepted, Rejected, Missing, Retry, Oversized, Stop, ExporterEnds, ExporterAborted, Join,
     Crash, storeVars

\* Neither a repost, a close nor a later capture takes anything away.
LEMMA StepKeeps ==
  ASSUME IInv, [Next]_vars
  PROVE  Kept
<1>1. CASE UNCHANGED ring
  <2>1. \A i, j \in DOMAIN ring : ring[i].id = ring[j].id => i = j
    BY DEF IInv, RingInv, Rings
  <2> QED
    BY <1>1, <2>1 DEF Kept
<1>2. CASE ring' = <<>>
  <2>1. DOMAIN ring' = {}
    BY <1>2
  <2> QED
    BY <2>1 DEF Kept
<1>3. CASE starts' # starts
  BY <1>3 DEF Kept
<1>4. ASSUME NEW c \in Conns, NEW capture \in SUBSET Findings, Record(c, capture)
      PROVE  Kept
  <2> DEFINE r == [id |-> Alert(c).id, ended |-> Alert(c).ended, found |-> capture]
  <2>1. r \in Records /\ ring' = ApplyLine(ring, r, retained) /\ r.id \notin IdsOf(ring)
    BY <1>4, RecordIsLine
  <2> HIDE DEF r
  <2>2. \A i \in DOMAIN ring : ring[i].id # r.id
    BY <2>1 DEF IdsOf
  <2> QED
    BY <2>1, <2>2, ChangeKeeps
<1>5. ASSUME NEW c \in Conns, Close(c) PROVE Kept
  <2> DEFINE old == RecordOf(Alert(c).id)
             r == [old EXCEPT !.ended = Alert(c).ended]
  <2>1. r \in Records /\ ring' = ApplyLine(ring, r, retained)
    BY <1>5, CloseIsLine
  <2>2. Alert(c).id \in IdsOf(ring) /\ old.ended = NoEnd
    BY <1>5 DEF Close, Closes
  <2>3. /\ old \in Records /\ \E i \in DOMAIN ring : ring[i] = old
    BY <2>2, RecordOfFacts
  <2> HIDE DEF old
  <2>4. r.id = old.id /\ r.found = old.found
    BY <2>3 DEF Records
  <2> HIDE DEF r
  <2>5. \A i \in DOMAIN ring : ring[i].id = r.id => ring[i] = old
    BY <2>3, <2>4 DEF IInv, RingInv, Rings
  <2> QED
    BY <2>1, <2>2, <2>4, <2>5, ChangeKeeps
<1>6. ASSUME NEW p \in Permits, NEW capture \in SUBSET Findings, SettleMerge(p, capture)
      PROVE  Kept
  <2> DEFINE old == RecordOf(Head(settle[p]))
             r == Merged(old, capture)
  <2>1. r \in Records /\ ring' = ApplyLine(ring, r, retained)
    BY <1>6, MergeIsLine
  <2>2. Head(settle[p]) \in IdsOf(ring)
    BY <1>6 DEF SettleMerge
  <2>3. /\ old \in Records /\ \E i \in DOMAIN ring : ring[i] = old
    BY <2>2, RecordOfFacts
  <2> HIDE DEF old
  <2>4. r.id = old.id /\ old.found \subseteq r.found /\ r.ended = old.ended
    BY <2>3 DEF Records, Merged
  <2> HIDE DEF r
  <2>5. \A i \in DOMAIN ring : ring[i].id = r.id => ring[i] = old
    BY <2>3, <2>4 DEF IInv, RingInv, Rings
  <2> QED
    BY <2>1, <2>4, <2>5, ChangeKeeps
<1> QED
  BY <1>1, <1>2, <1>3, <1>4, <1>5, <1>6, RingSteps DEF vars, storeVars

\* While a record is retained, its rows are never lost and its end never
\* changes.
THEOREM NothingDegrades == Spec => FirstCaptureKept
<1>1. IInv /\ [Next]_vars => [Kept]_vars
  BY StepKeeps
<1> QED
  BY <1>1, InvHolds, PTL DEF Spec, FirstCaptureKept, Kept
=============================================================================
