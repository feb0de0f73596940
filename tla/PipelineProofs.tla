--------------------------- MODULE PipelineProofs ---------------------------
(***************************************************************************)
(* Proofs about the trace window, what one batch, one sweep and the last   *)
(* drain make of the events in it, and about the pipeline: for any         *)
(* window, any channel capacities and any number of events.                *)
(***************************************************************************)
EXTENDS Pipeline, Induction, FiniteSetTheorems, TLAPS

-----------------------------------------------------------------------------
(* Sequences picked from sequences.                                        *)

\* All that is picked of the first n elements of seq is at an index asked for,
\* in the order of these, and nothing else of them is.
PicksOf(picked, seq, indices, n) ==
    /\ Len(picked) <= n
    /\ (\E i \in 1..n : i \notin indices) => Len(picked) < n
    /\ \A k \in 1..Len(picked) :
          \E i \in 1..n : i \in indices /\ picked[k] = seq[i]
    /\ \A j, k \in 1..Len(picked) : j < k =>
          \E h, i \in 1..n : /\ h < i /\ h \in indices /\ i \in indices
                             /\ picked[j] = seq[h] /\ picked[k] = seq[i]
    /\ \A i \in 1..n : i \in indices => \E k \in 1..Len(picked) : picked[k] = seq[i]

\* One more element is picked, or not.
LEMMA PicksGrow ==
  ASSUME NEW A, NEW seq \in Seq(A), NEW indices, NEW n \in 1..Len(seq),
         NEW picked \in Seq(A), PicksOf(picked, seq, indices, n - 1)
  PROVE  PicksOf(IF n \in indices THEN Append(picked, seq[n]) ELSE picked, seq, indices, n)
<1> DEFINE len == Len(picked)
<1>1. len \in Nat /\ n \in Nat /\ n > 0 /\ seq[n] \in A
  OBVIOUS
<1>2. \A i \in 1..n : i \in 1..(n - 1) \/ i = n
  BY <1>1
<1>3. CASE n \notin indices
  BY <1>1, <1>2, <1>3 DEF PicksOf
<1>4. CASE n \in indices
  <2> DEFINE all == Append(picked, seq[n])
  <2>1. /\ Len(all) = len + 1 /\ all[len + 1] = seq[n]
        /\ \A k \in 1..len : all[k] = picked[k]
        /\ \A k \in 1..(len + 1) : k \in 1..len \/ k = len + 1
    BY <1>1
  <2> HIDE DEF all
  <2>2. Len(all) <= n /\ ((\E i \in 1..n : i \notin indices) => Len(all) < n)
    BY <1>1, <1>2, <1>4, <2>1 DEF PicksOf
  <2>3. ASSUME NEW k \in 1..(len + 1)
        PROVE  \E i \in 1..n : i \in indices /\ all[k] = seq[i]
    <3>1. CASE k = len + 1
      <4>1. n \in 1..n
        BY <1>1
      <4> QED
        BY <1>4, <2>1, <3>1, <4>1
    <3>2. CASE k \in 1..len
      <4>1. PICK i \in 1..(n - 1) : i \in indices /\ picked[k] = seq[i]
        BY <3>2 DEF PicksOf
      <4>2. i \in 1..n
        BY <1>1
      <4> QED
        BY <2>1, <3>2, <4>1, <4>2
    <3> QED
      BY <2>1, <3>1, <3>2
  <2>4. ASSUME NEW j \in 1..(len + 1), NEW k \in 1..(len + 1), j < k
        PROVE  \E h, i \in 1..n : /\ h < i /\ h \in indices /\ i \in indices
                                  /\ all[j] = seq[h] /\ all[k] = seq[i]
    <3>1. j \in 1..len
      BY <1>1, <2>4
    <3>2. PICK h \in 1..(n - 1) : h \in indices /\ picked[j] = seq[h]
      BY <3>1 DEF PicksOf
    <3>3. CASE k = len + 1
      <4>1. h \in 1..n /\ n \in 1..n /\ h < n
        BY <1>1, <3>2
      <4> QED
        BY <1>4, <2>1, <3>1, <3>2, <3>3, <4>1
    <3>4. CASE k \in 1..len
      <4>1. PICK a \in 1..(n - 1), b \in 1..(n - 1) :
               a < b /\ a \in indices /\ b \in indices /\ picked[j] = seq[a] /\ picked[k] = seq[b]
        BY <2>4, <3>1, <3>4 DEF PicksOf
      <4>2. a \in 1..n /\ b \in 1..n
        BY <1>1
      <4> QED
        BY <2>1, <3>1, <3>4, <4>1, <4>2
    <3> QED
      BY <2>1, <3>3, <3>4
  <2>5. ASSUME NEW i \in 1..n, i \in indices PROVE \E k \in 1..(len + 1) : all[k] = seq[i]
    <3>1. CASE i = n
      BY <1>1, <2>1, <3>1
    <3>2. CASE i \in 1..(n - 1)
      <4>1. PICK k \in 1..len : picked[k] = seq[i]
        BY <2>5, <3>2 DEF PicksOf
      <4>2. k \in 1..(len + 1)
        BY <1>1
      <4> QED
        BY <2>1, <4>1, <4>2
    <3> QED
      BY <1>2, <3>1, <3>2
  <2>6. PicksOf(all, seq, indices, n)
    BY <2>1, <2>2, <2>3, <2>4, <2>5 DEF PicksOf
  <2> QED
    BY <1>4, <2>6 DEF all
<1> QED
  BY <1>3, <1>4

\* What is picked are the elements at the indices, in order.
LEMMA PickedFacts ==
  ASSUME NEW A, NEW seq \in Seq(A), NEW indices
  PROVE  /\ Picked(seq, indices) \in Seq(A)
         /\ PicksOf(Picked(seq, indices), seq, indices, Len(seq))
<1>0. PICK N : N = Len(seq)
  OBVIOUS
<1> DEFINE family == [n \in 0..N |-> {p \in Seq(A) : PicksOf(p, seq, indices, n)}]
           Pick(p, n) == IF n \in indices THEN Append(p, seq[n]) ELSE p
           next == [s \in Seq(A) \X (1..N) |-> Pick(s[1], s[2])]
           Recursive(g) == g = [n \in 0..N |->
                                  IF n = 0 THEN <<>>
                                  ELSE IF n \in indices THEN Append(g[n - 1], seq[n])
                                  ELSE g[n - 1]]
<1>1. N \in Nat /\ \A n \in 1..N : seq[n] \in A /\ n - 1 \in 0..N /\ n \in 0..N /\ n # 0
  BY <1>0
<1>2. family \in [0..N -> SUBSET Seq(A)] /\ <<>> \in family[0]
  <2>1. <<>> \in Seq(A) /\ Len(<<>>) = 0
    OBVIOUS
  <2>2. PicksOf(<<>>, seq, indices, 0)
    BY <2>1 DEF PicksOf
  <2> QED
    BY <2>1, <2>2, <1>1
<1>3. \A n \in 0..N : \A p : p \in family[n] <=> p \in Seq(A) /\ PicksOf(p, seq, indices, n)
  OBVIOUS
<1>4. \A n \in 1..N, p \in Seq(A) : next[<<p, n>>] = Pick(p, n) /\ Pick(p, n) \in Seq(A)
  BY <1>1
<1> HIDE DEF family, next
<1>5. ASSUME NEW n \in 1..N, NEW p \in family[n - 1] PROVE next[<<p, n>>] \in family[n]
  <2>1. p \in Seq(A) /\ PicksOf(p, seq, indices, n - 1)
    BY <1>1, <1>3
  <2>2. PicksOf(Pick(p, n), seq, indices, n)
    BY <1>0, <2>1, PicksGrow
  <2> HIDE DEF Pick
  <2> QED
    BY <1>1, <1>3, <1>4, <2>1, <2>2
<1> DEFINE U == Seq(A)
           base == <<>>
<1> HIDE DEF U
<1>6. PICK f :
         /\ f \in [0..N -> U]
         /\ f[0] = base
         /\ \A n \in 1..N : f[n] = next[<<f[n - 1], n>>]
         /\ \A n \in 0..N : f[n] \in family[n]
  <2>1. family \in [0..N -> SUBSET U] /\ base \in family[0] /\ N \in Nat
    BY <1>1, <1>2 DEF U
  <2> HIDE DEF base
  <2>2. Recursion(N, U, family, base, next)
    BY <1>5, <2>1 DEF Recursion
  <2>3. PICK f : Results(f, N, U, family, base, next)
    BY <2>2, RecursionExists
  <2> QED
    BY <2>3 DEF Results
<1>7. \A n \in 1..N : f[n] = Pick(f[n - 1], n)
  BY <1>1, <1>4, <1>6 DEF U
<1>8. Recursive(f)
  <2>1. \A n \in 0..N : n = 0 \/ n \in 1..N
    BY <1>1
  <2>2. \A n \in 0..N : f[n] = IF n = 0 THEN <<>>
                               ELSE IF n \in indices THEN Append(f[n - 1], seq[n])
                               ELSE f[n - 1]
    BY <1>1, <1>6, <1>7, <2>1
  <2> QED
    BY <1>6, <2>2
<1>9. Recursive(Pickings(seq, indices))
  BY <1>0, <1>8 DEF Pickings
<1>10. ASSUME NEW g, Recursive(g) PROVE \A n \in 0..N : f[n] = g[n]
  <2>1. 0 \in 0..N
    BY <1>1
  <2>2. g[0] = <<>>
    BY <1>10, <2>1
  <2>3. \A n \in 1..N : g[n] = Pick(g[n - 1], n)
    BY <1>1, <1>10
  <2>4. f[0] = g[0]
    BY <1>6, <2>2
  <2>5. \A n \in 1..N : f[n - 1] = g[n - 1] => f[n] = g[n]
    BY <1>7, <2>3
  <2>6. N \in Nat
    BY <1>1
  <2>7. AgreeStepwise(f, g, N)
    BY <2>4, <2>5, <2>6 DEF AgreeStepwise
  <2> QED
    BY <2>7, RecursionsAgree
<1>11. \A n \in 0..N : f[n] = Pickings(seq, indices)[n]
  BY <1>9, <1>10
<1>12. Picked(seq, indices) = f[N] /\ N \in 0..N
  BY <1>0, <1>1, <1>11 DEF Picked
<1> QED
  BY <1>0, <1>3, <1>6, <1>12

-----------------------------------------------------------------------------
(* Events and fragments in order.                                          *)

\* Of two events of one trace the one in A was sent before the one in B.
Before(A, B) == \A e \in A, f \in B : e.trace = f.trace => e.id < f.id

\* The events of each trace are in the order they were sent in.
InOrder(events) ==
    \A i, j \in 1..Len(events) :
        i < j /\ events[i].trace = events[j].trace => events[i].id < events[j].id

\* A fragment holds events of its own trace, in order, and the context of its
\* trace if one of them came with context.
Good(f) ==
    /\ f \in Fragments
    /\ InOrder(f.events)
    /\ \A e \in ToSet(f.events) : e.trace = f.trace /\ (e.informed => f.context)

Sorted(fragments) ==
    /\ fragments \in Seq(Fragments)
    /\ \A i \in 1..Len(fragments) : Good(fragments[i])
    /\ \A i, j \in 1..Len(fragments) :
          i < j => Before(ToSet(fragments[i].events), ToSet(fragments[j].events))

\* A window, or some of its buffers: one for a trace, none over its capacity.
Buffers(fragments) ==
    /\ fragments \in Seq(Fragments)
    /\ \A i \in 1..Len(fragments) :
          Good(fragments[i]) /\ Len(fragments[i].events) <= MaxEventsPerTrace
    /\ \A i, j \in 1..Len(fragments) :
          fragments[i].trace = fragments[j].trace => i = j

\* What a sequence holds.
LEMMA InSequence ==
  ASSUME NEW A, NEW seq \in Seq(A)
  PROVE  /\ Len(seq) \in Nat /\ DOMAIN seq = 1..Len(seq)
         /\ ToSet(seq) \subseteq A
         /\ \A i \in 1..Len(seq) : seq[i] \in A /\ seq[i] \in ToSet(seq)
         /\ \A x \in ToSet(seq) : \E i \in 1..Len(seq) : x = seq[i]
  BY DEF ToSet

\* What is in fragments is in one of them.
LEMMA InFragments ==
  ASSUME NEW fs \in Seq(Fragments)
  PROVE  /\ EventsIn(fs) \subseteq Event
         /\ \A i \in 1..Len(fs) : /\ fs[i] \in Fragments
                                  /\ fs[i].events \in Seq(Event)
                                  /\ ToSet(fs[i].events) \subseteq EventsIn(fs)
         /\ \A e \in EventsIn(fs) : \E i \in 1..Len(fs) : e \in ToSet(fs[i].events)
<1>1. DOMAIN fs = 1..Len(fs)
  OBVIOUS
<1>2. \A i \in 1..Len(fs) : fs[i] \in Fragments /\ fs[i].events \in Seq(Event)
  <2>1. \A i \in 1..Len(fs) : fs[i] \in Fragments
    OBVIOUS
  <2>2. \A f \in Fragments : f.events \in Seq(Event)
    BY DEF Fragments
  <2> QED
    BY <2>1, <2>2
<1>3. \A i \in 1..Len(fs) : ToSet(fs[i].events) \subseteq Event
  BY <1>2, InSequence
<1> QED
  BY <1>1, <1>2, <1>3 DEF EventsIn

\* No event is before itself.
LEMMA BeforeIsStrict ==
  ASSUME NEW A \in SUBSET Event, NEW B, Before(A, B)
  PROVE  A \cap B = {}
  BY DEF Before, Event, EventIds

\* Buffers of different traces are in order in whichever order they are.
LEMMA BuffersAreSorted ==
  ASSUME NEW fs, Buffers(fs)
  PROVE  Sorted(fs)
<1>1. ASSUME NEW i \in 1..Len(fs), NEW j \in 1..Len(fs), i < j
      PROVE  Before(ToSet(fs[i].events), ToSet(fs[j].events))
  <2>1. fs[i].trace # fs[j].trace
    BY <1>1 DEF Buffers
  <2> QED
    BY <2>1 DEF Buffers, Before, Good
<1> QED
  BY <1>1 DEF Buffers, Sorted

\* One sorted sequence of fragments after another.
LEMMA SortedConcat ==
  ASSUME NEW a, NEW b, Sorted(a), Sorted(b), Before(EventsIn(a), EventsIn(b))
  PROVE  /\ Sorted(a \o b)
         /\ EventsIn(a \o b) = EventsIn(a) \cup EventsIn(b)
<1> DEFINE c == a \o b
<1>1. a \in Seq(Fragments) /\ b \in Seq(Fragments)
  BY DEF Sorted
<1>2. Len(a) \in Nat /\ Len(b) \in Nat
  BY <1>1
<1>3. /\ c \in Seq(Fragments)
      /\ Len(c) = Len(a) + Len(b)
      /\ \A i \in 1..Len(a) : c[i] = a[i]
      /\ \A i \in 1..Len(b) : c[Len(a) + i] = b[i]
  BY <1>1
<1> HIDE DEF c
<1>4. ASSUME NEW i \in 1..Len(c)
      PROVE  (i \in 1..Len(a) /\ c[i] = a[i])
             \/ (i - Len(a) \in 1..Len(b) /\ c[i] = b[i - Len(a)])
  <2>1. CASE i \in 1..Len(a)
    BY <1>3, <2>1
  <2>2. CASE i \notin 1..Len(a)
    <3>1. i - Len(a) \in 1..Len(b) /\ Len(a) + (i - Len(a)) = i
      BY <1>2, <1>3, <2>2
    <3> QED
      BY <1>3, <3>1
  <2> QED
    BY <2>1, <2>2
<1>5. \A i \in 1..Len(c) : Good(c[i])
  BY <1>4 DEF Sorted
<1>6. ASSUME NEW i \in 1..Len(c), NEW j \in 1..Len(c), i < j
      PROVE  Before(ToSet(c[i].events), ToSet(c[j].events))
  <2>1. CASE j \in 1..Len(a)
    <3>1. i \in 1..Len(a)
      BY <1>2, <1>6, <2>1
    <3> QED
      BY <1>3, <1>6, <2>1, <3>1 DEF Sorted
  <2>2. CASE i \in 1..Len(a) /\ j \notin 1..Len(a)
    <3>1. j - Len(a) \in 1..Len(b) /\ c[j] = b[j - Len(a)]
      BY <1>4, <2>2
    <3>2. /\ ToSet(c[i].events) \subseteq EventsIn(a)
          /\ ToSet(c[j].events) \subseteq EventsIn(b)
      BY <1>1, <1>3, <2>2, <3>1, InFragments
    <3> QED
      BY <3>2 DEF Before
  <2>3. CASE i \notin 1..Len(a) /\ j \notin 1..Len(a)
    <3>1. /\ i - Len(a) \in 1..Len(b) /\ c[i] = b[i - Len(a)]
          /\ j - Len(a) \in 1..Len(b) /\ c[j] = b[j - Len(a)]
      BY <1>4, <2>3
    <3>2. i - Len(a) < j - Len(a)
      BY <1>2, <1>6
    <3> QED
      BY <3>1, <3>2 DEF Sorted
  <2>4. ~ (i \notin 1..Len(a) /\ j \in 1..Len(a))
    BY <1>2, <1>6
  <2> QED
    BY <2>1, <2>2, <2>3
<1>7. EventsIn(c) = EventsIn(a) \cup EventsIn(b)
  <2>1. ASSUME NEW e \in EventsIn(c) PROVE e \in EventsIn(a) \cup EventsIn(b)
    <3>1. PICK i \in 1..Len(c) : e \in ToSet(c[i].events)
      BY <1>3, InFragments
    <3> QED
      BY <1>1, <1>4, <3>1, InFragments
  <2>2. ASSUME NEW e \in EventsIn(a) PROVE e \in EventsIn(c)
    <3>1. PICK i \in 1..Len(a) : e \in ToSet(a[i].events)
      BY <1>1, InFragments
    <3>2. i \in 1..Len(c) /\ c[i] = a[i]
      BY <1>2, <1>3
    <3> QED
      BY <1>3, <3>1, <3>2, InFragments
  <2>3. ASSUME NEW e \in EventsIn(b) PROVE e \in EventsIn(c)
    <3>1. PICK i \in 1..Len(b) : e \in ToSet(b[i].events)
      BY <1>1, InFragments
    <3>2. Len(a) + i \in 1..Len(c) /\ c[Len(a) + i] = b[i]
      BY <1>2, <1>3
    <3> QED
      BY <1>3, <3>1, <3>2, InFragments
  <2> QED
    BY <2>1, <2>2, <2>3
<1>8. Sorted(c)
  BY <1>3, <1>5, <1>6 DEF Sorted
<1> QED
  BY <1>7, <1>8 DEF c

\* Nothing at all is sorted.
LEMMA NothingSorted == Sorted(<<>>) /\ Buffers(<<>>) /\ EventsIn(<<>>) = {}
<1>1. <<>> \in Seq(Fragments) /\ Len(<<>>) = 0 /\ DOMAIN <<>> = {}
  OBVIOUS
<1>2. \A i : i \notin 1..0
  OBVIOUS
<1> QED
  BY <1>1, <1>2 DEF Sorted, Buffers, EventsIn

-----------------------------------------------------------------------------
(* Picking fragments.                                                      *)

\* Fragments picked from sorted fragments are sorted.
LEMMA PickedSorted ==
  ASSUME NEW fs, Sorted(fs), NEW indices
  PROVE  Sorted(Picked(fs, indices))
<1> DEFINE p == Picked(fs, indices)
<1>1. fs \in Seq(Fragments)
  BY DEF Sorted
<1>2. p \in Seq(Fragments) /\ PicksOf(p, fs, indices, Len(fs))
  BY <1>1, PickedFacts
<1> HIDE DEF p
<1>3. \A k \in 1..Len(p) : Good(p[k])
  BY <1>2 DEF PicksOf, Sorted
<1>4. ASSUME NEW j \in 1..Len(p), NEW k \in 1..Len(p), j < k
      PROVE  Before(ToSet(p[j].events), ToSet(p[k].events))
  <2>1. PICK h \in 1..Len(fs), i \in 1..Len(fs) : h < i /\ p[j] = fs[h] /\ p[k] = fs[i]
    BY <1>2, <1>4 DEF PicksOf
  <2> QED
    BY <2>1 DEF Sorted
<1>5. Sorted(p)
  BY <1>2, <1>3, <1>4 DEF Sorted
<1> QED
  BY <1>5 DEF p

\* Buffers that are those of a window at some of its indices, and no others.
BuffersAt(p, fs, indices) ==
    /\ Buffers(p)
    /\ Len(p) <= Len(fs)
    /\ (\E i \in 1..Len(fs) : i \notin indices) => Len(p) < Len(fs)
    /\ \A k \in 1..Len(p) : \E i \in 1..Len(fs) : i \in indices /\ p[k] = fs[i]
    /\ \A i \in 1..Len(fs) : i \in indices => \E k \in 1..Len(p) : p[k] = fs[i]

\* Buffers picked from a window still are one for a trace.
LEMMA PickedBuffers ==
  ASSUME NEW fs, Buffers(fs), NEW indices
  PROVE  BuffersAt(Picked(fs, indices), fs, indices)
<1> DEFINE p == Picked(fs, indices)
<1>1. fs \in Seq(Fragments) /\ Len(fs) \in Nat
  BY DEF Buffers
<1>2. p \in Seq(Fragments) /\ PicksOf(p, fs, indices, Len(fs))
  BY <1>1, PickedFacts
<1> HIDE DEF p
<1>3. \A k \in 1..Len(p) : Good(p[k]) /\ Len(p[k].events) <= MaxEventsPerTrace
  BY <1>2 DEF PicksOf, Buffers
<1>4. ASSUME NEW j \in 1..Len(p), NEW k \in 1..Len(p), j < k
      PROVE  p[j].trace # p[k].trace
  <2>1. PICK h \in 1..Len(fs), i \in 1..Len(fs) : h < i /\ p[j] = fs[h] /\ p[k] = fs[i]
    BY <1>2, <1>4 DEF PicksOf
  <2>2. h # i
    BY <1>1, <2>1
  <2> QED
    BY <2>1, <2>2 DEF Buffers
<1>5. \A j, k \in 1..Len(p) : p[j].trace = p[k].trace => j = k
  <2>1. \A j, k \in 1..Len(p) : j = k \/ j < k \/ k < j
    BY <1>2
  <2> QED
    BY <1>4, <2>1
<1>6. Buffers(p)
  BY <1>2, <1>3, <1>5 DEF Buffers
<1>7. /\ Len(p) <= Len(fs)
      /\ (\E i \in 1..Len(fs) : i \notin indices) => Len(p) < Len(fs)
      /\ \A k \in 1..Len(p) : \E i \in 1..Len(fs) : i \in indices /\ p[k] = fs[i]
      /\ \A i \in 1..Len(fs) : i \in indices => \E k \in 1..Len(p) : p[k] = fs[i]
  BY <1>2 DEF PicksOf
<1> QED
  BY <1>6, <1>7 DEF p, BuffersAt

\* Finishing fragments loses no event.
LEMMA FinishFacts ==
  ASSUME NEW fs, Sorted(fs)
  PROVE  Sorted(Finish(fs)) /\ EventsIn(Finish(fs)) = EventsIn(fs)
<1> DEFINE indices == {i \in DOMAIN fs : fs[i].events # <<>>}
           p == Picked(fs, indices)
<1>1. fs \in Seq(Fragments) /\ Len(fs) \in Nat /\ DOMAIN fs = 1..Len(fs)
  BY DEF Sorted
<1>2. Sorted(p) /\ p \in Seq(Fragments) /\ PicksOf(p, fs, indices, Len(fs))
  <2> HIDE DEF indices
  <2> QED
    BY <1>1, PickedSorted, PickedFacts
<1>3. \A i \in 1..Len(fs) : i \notin indices => ToSet(fs[i].events) = {}
  BY <1>1 DEF ToSet
<1>4. Finish(fs) = p
  BY DEF Finish
<1> HIDE DEF p, indices
<1>5. ASSUME NEW e \in EventsIn(p) PROVE e \in EventsIn(fs)
  <2>1. PICK k \in 1..Len(p) : e \in ToSet(p[k].events)
    BY <1>2, InFragments
  <2>2. PICK i \in 1..Len(fs) : p[k] = fs[i]
    BY <1>2 DEF PicksOf
  <2> QED
    BY <1>1, <2>1, <2>2, InFragments
<1>6. ASSUME NEW e \in EventsIn(fs) PROVE e \in EventsIn(p)
  <2>1. PICK i \in 1..Len(fs) : e \in ToSet(fs[i].events)
    BY <1>1, InFragments
  <2>2. i \in indices
    BY <1>3, <2>1
  <2>3. PICK k \in 1..Len(p) : p[k] = fs[i]
    BY <1>2, <2>2 DEF PicksOf
  <2> QED
    BY <1>2, <2>1, <2>3, InFragments
<1> QED
  BY <1>2, <1>4, <1>5, <1>6

\* A buffer of a trace not held yet is one more.
LEMMA AppendBuffer ==
  ASSUME NEW fs, Buffers(fs), NEW b, Good(b), Len(b.events) <= MaxEventsPerTrace,
         \A i \in 1..Len(fs) : fs[i].trace # b.trace
  PROVE  LET new == Append(fs, b) IN
         /\ Buffers(new)
         /\ Len(new) = Len(fs) + 1
         /\ new[Len(fs) + 1] = b
         /\ \A i \in 1..Len(fs) : new[i] = fs[i]
         /\ EventsIn(new) = EventsIn(fs) \cup ToSet(b.events)
<1> DEFINE new == Append(fs, b)
<1>1. fs \in Seq(Fragments) /\ Len(fs) \in Nat /\ b \in Fragments
  BY DEF Buffers, Good
<1>2. /\ new \in Seq(Fragments)
      /\ Len(new) = Len(fs) + 1
      /\ new[Len(fs) + 1] = b
      /\ \A i \in 1..Len(fs) : new[i] = fs[i]
      /\ \A i \in 1..Len(new) : i \in 1..Len(fs) \/ i = Len(fs) + 1
  BY <1>1
<1> HIDE DEF new
<1>3. \A i \in 1..Len(new) : Good(new[i]) /\ Len(new[i].events) <= MaxEventsPerTrace
  BY <1>2 DEF Buffers
<1>4. \A i, j \in 1..Len(new) : new[i].trace = new[j].trace => i = j
  BY <1>2 DEF Buffers
<1>5. Buffers(new)
  BY <1>2, <1>3, <1>4 DEF Buffers
<1>6. \A i \in 1..Len(fs) : i \in 1..Len(new)
  BY <1>1, <1>2
<1>7. Len(fs) + 1 \in 1..Len(new)
  BY <1>1, <1>2
<1>8. ASSUME NEW e \in EventsIn(new) PROVE e \in EventsIn(fs) \cup ToSet(b.events)
  <2>1. PICK i \in 1..Len(new) : e \in ToSet(new[i].events)
    BY <1>2, InFragments
  <2> QED
    BY <1>1, <1>2, <2>1, InFragments
<1>9. EventsIn(fs) \subseteq EventsIn(new)
  <2> SUFFICES ASSUME NEW e \in EventsIn(fs) PROVE e \in EventsIn(new)
    OBVIOUS
  <2>1. PICK i \in 1..Len(fs) : e \in ToSet(fs[i].events)
    BY <1>1, InFragments
  <2> QED
    BY <1>2, <1>6, <2>1, InFragments
<1>10. ToSet(b.events) \subseteq EventsIn(new)
  BY <1>2, <1>7, InFragments
<1>11. EventsIn(new) = EventsIn(fs) \cup ToSet(b.events)
  BY <1>8, <1>9, <1>10
<1> QED
  BY <1>2, <1>5, <1>11 DEF new

\* The first buffer and the others.
LEMMA FirstBuffer ==
  ASSUME NEW fs, Buffers(fs), fs # <<>>
  PROVE  /\ Buffers(Tail(fs))
         /\ Len(Tail(fs)) = Len(fs) - 1
         /\ Head(fs) = fs[1] /\ 1 \in 1..Len(fs)
         /\ \A i \in 1..Len(Tail(fs)) : i + 1 \in 1..Len(fs) /\ Tail(fs)[i] = fs[i + 1]
         /\ \A i \in 1..Len(Tail(fs)) : Tail(fs)[i].trace # fs[1].trace
         /\ EventsIn(fs) = ToSet(fs[1].events) \cup EventsIn(Tail(fs))
<1> DEFINE rest == Tail(fs)
<1>1. fs \in Seq(Fragments) /\ Len(fs) \in Nat /\ Len(fs) > 0
  BY DEF Buffers
<1>2. /\ rest \in Seq(Fragments)
      /\ Len(rest) = Len(fs) - 1
      /\ \A i \in 1..Len(rest) : rest[i] = fs[i + 1]
      /\ Head(fs) = fs[1]
  BY <1>1
<1> HIDE DEF rest
<1>3. 1 \in 1..Len(fs) /\ \A i \in 1..Len(rest) : i + 1 \in 1..Len(fs) /\ i + 1 # 1
  BY <1>1, <1>2
<1>4. \A i \in 1..Len(rest) : Good(rest[i]) /\ Len(rest[i].events) <= MaxEventsPerTrace
  BY <1>2, <1>3 DEF Buffers
<1>5. \A i, j \in 1..Len(rest) : rest[i].trace = rest[j].trace => i = j
  <2> SUFFICES ASSUME NEW i \in 1..Len(rest), NEW j \in 1..Len(rest), rest[i].trace = rest[j].trace
               PROVE  i = j
    OBVIOUS
  <2>1. i + 1 = j + 1
    BY <1>2, <1>3 DEF Buffers
  <2> QED
    BY <2>1
<1>6. Buffers(rest)
  BY <1>2, <1>4, <1>5 DEF Buffers
<1>7. \A i \in 1..Len(rest) : rest[i].trace # fs[1].trace
  BY <1>2, <1>3 DEF Buffers
<1>8. ASSUME NEW e \in EventsIn(fs) PROVE e \in ToSet(fs[1].events) \cup EventsIn(rest)
  <2>1. PICK i \in 1..Len(fs) : e \in ToSet(fs[i].events)
    BY <1>1, InFragments
  <2>2. CASE i # 1
    <3>1. i - 1 \in 1..Len(rest) /\ (i - 1) + 1 = i
      BY <1>1, <1>2, <2>2
    <3>2. rest[i - 1] = fs[i]
      BY <1>2, <3>1
    <3> QED
      BY <1>2, <2>1, <3>1, <3>2, InFragments
  <2> QED
    BY <2>1, <2>2
<1>9. ToSet(fs[1].events) \subseteq EventsIn(fs)
  BY <1>1, <1>3, InFragments
<1>10. EventsIn(rest) \subseteq EventsIn(fs)
  <2> SUFFICES ASSUME NEW e \in EventsIn(rest) PROVE e \in EventsIn(fs)
    OBVIOUS
  <2>1. PICK i \in 1..Len(rest) : e \in ToSet(rest[i].events)
    BY <1>2, InFragments
  <2> QED
    BY <1>1, <1>2, <1>3, <2>1, InFragments
<1>11. EventsIn(fs) = ToSet(fs[1].events) \cup EventsIn(rest)
  BY <1>8, <1>9, <1>10
<1> QED
  BY <1>2, <1>3, <1>6, <1>7, <1>11 DEF rest

\* A window without the buffer of a trace it holds.
LEMMA WithoutTraceFacts ==
  ASSUME NEW fs, Buffers(fs), NEW t, Holds(fs, t)
  PROVE  /\ BufferOf(fs, t).trace = t
         /\ \E i \in 1..Len(fs) : BufferOf(fs, t) = fs[i]
         /\ Buffers(WithoutTrace(fs, t))
         /\ Len(WithoutTrace(fs, t)) < Len(fs)
         /\ \A k \in 1..Len(WithoutTrace(fs, t)) :
               /\ WithoutTrace(fs, t)[k].trace # t
               /\ \E i \in 1..Len(fs) : WithoutTrace(fs, t)[k] = fs[i]
         /\ \A i \in 1..Len(fs) : fs[i].trace # t =>
               \E k \in 1..Len(WithoutTrace(fs, t)) : WithoutTrace(fs, t)[k] = fs[i]
         /\ EventsIn(fs) = EventsIn(WithoutTrace(fs, t)) \cup ToSet(BufferOf(fs, t).events)
<1> DEFINE indices == {i \in DOMAIN fs : fs[i].trace # t}
           p == Picked(fs, indices)
<1>1. fs \in Seq(Fragments) /\ DOMAIN fs = 1..Len(fs)
  BY DEF Buffers
<1>2. PICK h \in 1..Len(fs) : BufferOf(fs, t) = fs[h] /\ fs[h].trace = t
  BY <1>1 DEF Holds, BufferOf
<1>3. \A i \in 1..Len(fs) : i \in indices <=> fs[i].trace # t
  BY <1>1
<1>4. WithoutTrace(fs, t) = p
  BY DEF WithoutTrace
<1>5. /\ Buffers(p)
      /\ (\E i \in 1..Len(fs) : i \notin indices) => Len(p) < Len(fs)
      /\ \A k \in 1..Len(p) : \E i \in 1..Len(fs) : i \in indices /\ p[k] = fs[i]
      /\ \A i \in 1..Len(fs) : i \in indices => \E k \in 1..Len(p) : p[k] = fs[i]
  <2> HIDE DEF indices
  <2> QED
    BY PickedBuffers DEF BuffersAt
<1> HIDE DEF indices, p
<1>6. Len(p) < Len(fs)
  BY <1>2, <1>3, <1>5
<1>7. \A k \in 1..Len(p) : p[k].trace # t /\ \E i \in 1..Len(fs) : p[k] = fs[i]
  BY <1>3, <1>5
<1>8. \A i \in 1..Len(fs) : fs[i].trace # t => \E k \in 1..Len(p) : p[k] = fs[i]
  BY <1>3, <1>5
<1>9. p \in Seq(Fragments)
  BY <1>5 DEF Buffers
<1>10. ASSUME NEW e \in EventsIn(fs) PROVE e \in EventsIn(p) \cup ToSet(fs[h].events)
  <2>1. PICK i \in 1..Len(fs) : e \in ToSet(fs[i].events)
    BY <1>1, InFragments
  <2>2. CASE fs[i].trace = t
    <3>1. i = h
      BY <1>2, <2>2 DEF Buffers
    <3> QED
      BY <2>1, <3>1
  <2>3. CASE fs[i].trace # t
    <3>1. PICK k \in 1..Len(p) : p[k] = fs[i]
      BY <1>8, <2>3
    <3> QED
      BY <1>9, <2>1, <3>1, InFragments
  <2> QED
    BY <2>2, <2>3
<1>11. EventsIn(p) \subseteq EventsIn(fs)
  <2> SUFFICES ASSUME NEW e \in EventsIn(p) PROVE e \in EventsIn(fs)
    OBVIOUS
  <2>1. PICK k \in 1..Len(p) : e \in ToSet(p[k].events)
    BY <1>9, InFragments
  <2>2. PICK i \in 1..Len(fs) : p[k] = fs[i]
    BY <1>7
  <2> QED
    BY <1>1, <2>1, <2>2, InFragments
<1>12. ToSet(fs[h].events) \subseteq EventsIn(fs)
  BY <1>1, InFragments
<1>13. EventsIn(fs) = EventsIn(p) \cup ToSet(BufferOf(fs, t).events)
  BY <1>2, <1>10, <1>11, <1>12
<1> QED
  BY <1>2, <1>4, <1>5, <1>6, <1>7, <1>8, <1>13

-----------------------------------------------------------------------------
(* One batch under the window's lock.                                      *)

\* Of the events E what was evicted comes before what the window still holds,
\* the rings overwrote the rest, and a stamped trace has its context.
Accounts(window_, evicted, gone, stamped, E) ==
    /\ Buffers(window_) /\ Len(window_) <= MaxActiveTraces
    /\ Sorted(evicted)
    /\ Before(EventsIn(evicted), EventsIn(window_))
    /\ gone \in SUBSET Event /\ stamped \in SUBSET Traces
    /\ gone \cap (EventsIn(evicted) \cup EventsIn(window_)) = {}
    /\ E = EventsIn(evicted) \cup EventsIn(window_) \cup gone
    /\ \A t \in stamped :
          \E i \in 1..Len(window_) : window_[i].trace = t /\ window_[i].context

Accumulators ==
    [window : Seq(Fragments), evicted : Seq(Fragments),
     overwritten : SUBSET Event, stamped : SUBSET Traces]

AccountsFor(acc, E) ==
    /\ acc \in Accumulators
    /\ Accounts(acc.window, acc.evicted, acc.overwritten, acc.stamped, E)

\* A new buffer, in place of the least recently used one when there is no room.
LEMMA InsertAccounts ==
  ASSUME NEW E, NEW acc, AccountsFor(acc, E),
         NEW b, Good(b), Len(b.events) <= MaxEventsPerTrace,
         ~ Holds(acc.window, b.trace), Before(E, ToSet(b.events))
  PROVE  LET new == Insert(acc, b) IN
         /\ AccountsFor(new, E \cup ToSet(b.events))
         /\ \E i \in 1..Len(new.window) : new.window[i] = b
<1> DEFINE new == Insert(acc, b)
<1>1. PICK w, ev, gone, st :
         /\ w = acc.window /\ ev = acc.evicted
         /\ gone = acc.overwritten /\ st = acc.stamped
  OBVIOUS
<1>2. /\ acc \in Accumulators
      /\ Accounts(w, ev, gone, st, E)
  BY <1>1 DEF AccountsFor
<1>3. w \in Seq(Fragments) /\ ev \in Seq(Fragments) /\ Len(w) \in Nat /\ MaxActiveTraces \in Nat
  BY <1>2, WindowAssumption DEF Accounts, Buffers, Sorted
<1>4. ToSet(b.events) \subseteq Event /\ b \in Fragments
  <2>1. b.events \in Seq(Event) /\ b \in Fragments
    BY DEF Good, Fragments
  <2> QED
    BY <2>1, InSequence
<1>5. /\ EventsIn(w) \subseteq Event /\ EventsIn(ev) \subseteq Event
      /\ EventsIn(w) \subseteq E /\ EventsIn(ev) \subseteq E /\ gone \subseteq E /\ E \subseteq Event
  BY <1>2, <1>3, InFragments DEF Accounts
<1>6. E \cap ToSet(b.events) = {}
  BY <1>5, BeforeIsStrict
<1>7. \A i \in 1..Len(w) : w[i].trace # b.trace
  BY <1>1, <1>3 DEF Holds
<1>8. CASE Len(w) < MaxActiveTraces
  <2> DEFINE w2 == Append(w, b)
  <2>1. new = [acc EXCEPT !.window = w2]
    BY <1>1, <1>8 DEF Insert
  <2>2. /\ Buffers(w2)
        /\ Len(w2) = Len(w) + 1
        /\ w2[Len(w) + 1] = b
        /\ \A i \in 1..Len(w) : w2[i] = w[i]
        /\ EventsIn(w2) = EventsIn(w) \cup ToSet(b.events)
    BY <1>2, <1>7, AppendBuffer DEF Accounts
  <2> HIDE DEF w2
  <2>3. w2 \in Seq(Fragments)
    BY <2>2 DEF Buffers
  <2>4. new \in Accumulators
    BY <1>2, <2>1, <2>3 DEF Accumulators
  <2>5. new.window = w2 /\ new.evicted = ev /\ new.overwritten = gone /\ new.stamped = st
    BY <1>1, <1>2, <2>1 DEF Accumulators
  <2>6. Len(w2) <= MaxActiveTraces /\ Len(w) + 1 \in 1..Len(w2)
    BY <1>3, <1>8, <2>2
  <2>7. \A i \in 1..Len(w) : i \in 1..Len(w2)
    BY <1>3, <2>2
  <2>8. Before(EventsIn(ev), EventsIn(w2))
    BY <1>2, <1>5, <2>2 DEF Accounts, Before
  <2>9. \A t \in st : \E i \in 1..Len(w2) : w2[i].trace = t /\ w2[i].context
    BY <1>2, <2>2, <2>7 DEF Accounts
  <2>10. Accounts(w2, ev, gone, st, E \cup ToSet(b.events))
    BY <1>2, <1>5, <1>6, <2>2, <2>6, <2>8, <2>9 DEF Accounts
  <2>11. AccountsFor(new, E \cup ToSet(b.events))
    BY <2>4, <2>5, <2>10 DEF AccountsFor
  <2> QED
    BY <2>2, <2>5, <2>6, <2>11
<1>9. CASE ~ (Len(w) < MaxActiveTraces)
  <2> DEFINE rest == Tail(w)
             w2 == Append(rest, b)
             first == <<Head(w)>>
             ev2 == ev \o Finish(first)
             st2 == st \ {Head(w).trace}
  <2>1. new = [acc EXCEPT !.window = w2, !.evicted = ev2, !.stamped = st2]
    BY <1>1, <1>9 DEF Insert
  <2>2. w # <<>>
    BY <1>3, <1>9, WindowAssumption
  <2>3. /\ Buffers(rest)
        /\ Len(rest) = Len(w) - 1
        /\ Head(w) = w[1] /\ 1 \in 1..Len(w)
        /\ \A i \in 1..Len(rest) : i + 1 \in 1..Len(w) /\ rest[i] = w[i + 1]
        /\ \A i \in 1..Len(rest) : rest[i].trace # w[1].trace
        /\ EventsIn(w) = ToSet(w[1].events) \cup EventsIn(rest)
    BY <1>2, <2>2, FirstBuffer DEF Accounts
  <2> HIDE DEF rest
  <2>4. \A i \in 1..Len(rest) : rest[i].trace # b.trace
    BY <1>7, <2>3
  <2>5. /\ Buffers(w2)
        /\ Len(w2) = Len(rest) + 1
        /\ w2[Len(rest) + 1] = b
        /\ \A i \in 1..Len(rest) : w2[i] = rest[i]
        /\ EventsIn(w2) = EventsIn(rest) \cup ToSet(b.events)
    BY <2>3, <2>4, AppendBuffer
  <2> HIDE DEF w2
  <2>6. Good(w[1]) /\ w[1] \in Fragments
    BY <1>2, <1>3, <2>3 DEF Accounts, Buffers
  <2>7. Sorted(first) /\ EventsIn(first) = ToSet(w[1].events)
    <3>1. first = <<w[1]>>
      BY <2>3
    <3>2. /\ first \in Seq(Fragments) /\ Len(first) = 1 /\ DOMAIN first = 1..1 /\ first[1] = w[1]
          /\ \A i \in 1..1 : i = 1
      BY <2>6, <3>1
    <3> HIDE DEF first
    <3>3. EventsIn(first) = ToSet(w[1].events)
      BY <3>2 DEF EventsIn
    <3>4. \A i, j \in 1..1 : ~ (i < j)
      OBVIOUS
    <3> QED
      BY <2>6, <3>2, <3>3, <3>4 DEF Sorted
  <2>8. Sorted(Finish(first)) /\ EventsIn(Finish(first)) = ToSet(w[1].events)
    BY <2>7, FinishFacts
  <2> HIDE DEF first
  <2>9. Before(EventsIn(ev), ToSet(w[1].events))
    BY <1>2, <2>3 DEF Accounts, Before
  <2>10. Sorted(ev2) /\ EventsIn(ev2) = EventsIn(ev) \cup ToSet(w[1].events)
    BY <1>2, <2>8, <2>9, SortedConcat DEF Accounts
  <2> HIDE DEF ev2
  <2>11. Before(ToSet(w[1].events), EventsIn(rest))
    <3> SUFFICES ASSUME NEW e \in ToSet(w[1].events), NEW f \in EventsIn(rest)
                 PROVE  e.trace # f.trace
      BY DEF Before
    <3>1. PICK i \in 1..Len(rest) : f \in ToSet(rest[i].events)
      BY <2>3, InFragments DEF Buffers
    <3>2. Good(rest[i])
      BY <2>3 DEF Buffers
    <3>3. e.trace = w[1].trace /\ f.trace = rest[i].trace
      BY <2>6, <3>1, <3>2 DEF Good
    <3> QED
      BY <2>3, <3>3
  <2>12. Before(EventsIn(ev2), EventsIn(w2))
    <3>1. Before(EventsIn(ev), EventsIn(rest)) /\ Before(EventsIn(ev), ToSet(b.events))
          /\ Before(ToSet(w[1].events), ToSet(b.events))
      BY <1>2, <1>5, <2>3 DEF Accounts, Before
    <3> QED
      BY <2>5, <2>10, <2>11, <3>1 DEF Before
  <2>13. w2 \in Seq(Fragments) /\ ev2 \in Seq(Fragments)
    BY <2>5, <2>10 DEF Buffers, Sorted
  <2>14. st \in SUBSET Traces /\ st2 \in SUBSET Traces
    BY <1>2 DEF Accounts
  <2>15. \A t \in st2 : t \in st /\ t # w[1].trace
    BY <2>3
  <2> HIDE DEF st2
  <2>16. new \in Accumulators
    BY <1>2, <2>1, <2>13, <2>14 DEF Accumulators
  <2>17. new.window = w2 /\ new.evicted = ev2 /\ new.overwritten = gone /\ new.stamped = st2
    BY <1>1, <1>2, <2>1 DEF Accumulators
  <2>18. Len(w2) <= MaxActiveTraces /\ Len(rest) + 1 \in 1..Len(w2)
         /\ \A i \in 1..Len(rest) : i \in 1..Len(w2)
    <3>1. Len(w) <= MaxActiveTraces
      BY <1>2 DEF Accounts
    <3> QED
      BY <1>3, <2>3, <2>5, <3>1
  <2>19. \A t \in st2 : \E i \in 1..Len(w2) : w2[i].trace = t /\ w2[i].context
    <3> SUFFICES ASSUME NEW t \in st2 PROVE \E i \in 1..Len(w2) : w2[i].trace = t /\ w2[i].context
      OBVIOUS
    <3>1. PICK i \in 1..Len(w) : w[i].trace = t /\ w[i].context
      BY <1>2, <2>15 DEF Accounts
    <3>2. i # 1
      BY <2>15, <3>1
    <3>3. i - 1 \in 1..Len(rest) /\ (i - 1) + 1 = i
      BY <1>3, <2>3, <3>2
    <3>4. w2[i - 1] = rest[i - 1] /\ rest[i - 1] = w[(i - 1) + 1]
      BY <2>3, <2>5, <3>3
    <3>5. w2[i - 1].trace = t /\ w2[i - 1].context /\ i - 1 \in 1..Len(w2)
      BY <2>18, <3>1, <3>3, <3>4
    <3> QED
      BY <3>5
  <2>20. Accounts(w2, ev2, gone, st2, E \cup ToSet(b.events))
    <3>1. E \cup ToSet(b.events) = EventsIn(ev2) \cup EventsIn(w2) \cup gone
      BY <1>2, <2>3, <2>5, <2>10 DEF Accounts
    <3>2. gone \cap (EventsIn(ev2) \cup EventsIn(w2)) = {} /\ gone \in SUBSET Event
      BY <1>2, <1>5, <1>6, <2>3, <2>5, <2>10 DEF Accounts
    <3> QED
      BY <2>5, <2>10, <2>12, <2>14, <2>18, <2>19, <3>1, <3>2 DEF Accounts
  <2>21. AccountsFor(new, E \cup ToSet(b.events))
    BY <2>16, <2>17, <2>20 DEF AccountsFor
  <2> QED
    BY <2>5, <2>17, <2>18, <2>21
<1> QED
  BY <1>8, <1>9

\* What a buffer with one more event at its end holds.
LEMMA LaterEvent ==
  ASSUME NEW events \in Seq(Event), InOrder(events), NEW e \in Event,
         Before(ToSet(events), {e})
  PROVE  LET all == Append(events, e) IN
         /\ all \in Seq(Event) /\ all # <<>> /\ InOrder(all)
         /\ Len(all) = Len(events) + 1
         /\ ToSet(all) = ToSet(events) \cup {e}
<1> DEFINE all == Append(events, e)
<1>1. /\ all \in Seq(Event) /\ all # <<>> /\ Len(events) \in Nat
      /\ Len(all) = Len(events) + 1
      /\ all[Len(events) + 1] = e
      /\ \A i \in 1..Len(events) : all[i] = events[i]
      /\ \A i \in 1..Len(all) : i \in 1..Len(events) \/ i = Len(events) + 1
      /\ \A i \in 1..Len(events) : i \in 1..Len(all)
      /\ Len(events) + 1 \in 1..Len(all)
  OBVIOUS
<1> HIDE DEF all
<1>2. ToSet(all) = ToSet(events) \cup {e}
  <2>1. /\ \A i \in 1..Len(all) : all[i] \in ToSet(all)
        /\ \A x \in ToSet(all) : \E i \in 1..Len(all) : x = all[i]
    BY <1>1, InSequence
  <2>2. /\ \A i \in 1..Len(events) : events[i] \in ToSet(events)
        /\ \A x \in ToSet(events) : \E i \in 1..Len(events) : x = events[i]
    BY InSequence
  <2> QED
    BY <1>1, <2>1, <2>2
<1>3. ASSUME NEW i \in 1..Len(all), NEW j \in 1..Len(all), i < j, all[i].trace = all[j].trace
      PROVE  all[i].id < all[j].id
  <2>1. i \in 1..Len(events)
    BY <1>1, <1>3
  <2>2. CASE j \in 1..Len(events)
    BY <1>1, <1>3, <2>1, <2>2 DEF InOrder
  <2>3. CASE j = Len(events) + 1
    <3>1. events[i] \in ToSet(events)
      BY <2>1, InSequence
    <3> QED
      BY <1>1, <1>3, <2>1, <2>3, <3>1 DEF Before
  <2> QED
    BY <1>1, <2>2, <2>3
<1>4. InOrder(all)
  BY <1>3 DEF InOrder
<1> QED
  BY <1>1, <1>2, <1>4 DEF all

\* What a buffer without its oldest event holds.
LEMMA OldestEvent ==
  ASSUME NEW events \in Seq(Event), InOrder(events), events # <<>>,
         NEW t, \A e \in ToSet(events) : e.trace = t
  PROVE  /\ Tail(events) \in Seq(Event) /\ InOrder(Tail(events))
         /\ Len(Tail(events)) = Len(events) - 1
         /\ ToSet(events) = ToSet(Tail(events)) \cup {Head(events)}
         /\ Head(events) \notin ToSet(Tail(events))
<1> DEFINE rest == Tail(events)
<1>1. /\ rest \in Seq(Event) /\ Len(events) \in Nat
      /\ Len(rest) = Len(events) - 1
      /\ Head(events) = events[1] /\ 1 \in 1..Len(events)
      /\ \A i \in 1..Len(rest) : rest[i] = events[i + 1] /\ i + 1 \in 1..Len(events)
      /\ \A i \in 1..Len(events) : i = 1 \/ (i - 1 \in 1..Len(rest) /\ (i - 1) + 1 = i)
  OBVIOUS
<1> HIDE DEF rest
<1>2. /\ \A i \in 1..Len(events) : events[i] \in ToSet(events)
      /\ \A x \in ToSet(events) : \E i \in 1..Len(events) : x = events[i]
      /\ ToSet(events) \subseteq Event
  BY InSequence
<1>3. /\ \A i \in 1..Len(rest) : rest[i] \in ToSet(rest)
      /\ \A x \in ToSet(rest) : \E i \in 1..Len(rest) : x = rest[i]
  BY <1>1, InSequence
<1>4. \A i \in 1..Len(events) : events[i].trace = t
  BY <1>2
<1>5. InOrder(rest)
  <2> SUFFICES ASSUME NEW i \in 1..Len(rest), NEW j \in 1..Len(rest), i < j
               PROVE  rest[i].id < rest[j].id
    BY DEF InOrder
  <2>1. i + 1 < j + 1 /\ i + 1 \in 1..Len(events) /\ j + 1 \in 1..Len(events)
    BY <1>1
  <2>2. events[i + 1].id < events[j + 1].id
    BY <1>4, <2>1 DEF InOrder
  <2> QED
    BY <1>1, <2>2
<1>6. ToSet(events) = ToSet(rest) \cup {events[1]}
  <2>1. ASSUME NEW x \in ToSet(events) PROVE x \in ToSet(rest) \cup {events[1]}
    <3>1. PICK i \in 1..Len(events) : x = events[i]
      BY <1>2
    <3>2. CASE i # 1
      <4>1. i - 1 \in 1..Len(rest) /\ rest[i - 1] = events[(i - 1) + 1] /\ (i - 1) + 1 = i
        BY <1>1, <3>2
      <4> QED
        BY <1>3, <3>1, <4>1
    <3> QED
      BY <3>1, <3>2
  <2>2. ToSet(rest) \subseteq ToSet(events)
    <3> SUFFICES ASSUME NEW x \in ToSet(rest) PROVE x \in ToSet(events)
      OBVIOUS
    <3>1. PICK i \in 1..Len(rest) : x = rest[i]
      BY <1>3
    <3>2. x = events[i + 1] /\ i + 1 \in 1..Len(events)
      BY <1>1, <3>1
    <3> QED
      BY <1>2, <3>2
  <2> QED
    BY <1>1, <1>2, <2>1, <2>2
<1>7. events[1] \notin ToSet(rest)
  <2> SUFFICES ASSUME NEW i \in 1..Len(rest), events[1] = rest[i] PROVE FALSE
    BY <1>3
  <2>1. 1 < i + 1 /\ i + 1 \in 1..Len(events) /\ events[1] = events[i + 1]
    BY <1>1
  <2>2. events[1].id < events[i + 1].id
    BY <1>1, <1>4, <2>1 DEF InOrder
  <2>3. events[1].id \in Nat
    BY <1>1, <1>2 DEF Event, EventIds
  <2> QED
    BY <2>1, <2>2, <2>3
<1> QED
  BY <1>1, <1>5, <1>6, <1>7 DEF rest

\* An event for a held trace: the ring's oldest event may give way to it.
LEMMA AppendToRingAccounts ==
  ASSUME NEW E, NEW acc, AccountsFor(acc, E), NEW event \in Event,
         Holds(acc.window, event.trace), Before(E, {event}),
         event.informed => event.trace \in acc.stamped
  PROVE  AccountsFor(AppendToRing(acc, BufferOf(acc.window, event.trace), event),
                     E \cup {event})
<1>1. PICK w, ev, gone, st, t, b :
         /\ w = acc.window /\ ev = acc.evicted
         /\ gone = acc.overwritten /\ st = acc.stamped
         /\ t = event.trace /\ b = BufferOf(w, t)
  OBVIOUS
<1>2. acc \in Accumulators /\ Accounts(w, ev, gone, st, E) /\ Holds(w, t)
  BY <1>1 DEF AccountsFor
<1>3. Buffers(w) /\ w \in Seq(Fragments) /\ Len(w) \in Nat /\ ev \in Seq(Fragments)
  BY <1>2 DEF Accounts, Buffers, Sorted
<1>4. PICK rest : rest = WithoutTrace(w, t)
  OBVIOUS
<1>5. /\ b.trace = t
      /\ \E i \in 1..Len(w) : b = w[i]
      /\ Buffers(rest)
      /\ Len(rest) < Len(w)
      /\ \A k \in 1..Len(rest) : rest[k].trace # t
      /\ \A i \in 1..Len(w) : w[i].trace # t => \E k \in 1..Len(rest) : rest[k] = w[i]
      /\ EventsIn(w) = EventsIn(rest) \cup ToSet(b.events)
  <2>1. Buffers(w) /\ Holds(w, t)
    BY <1>2, <1>3
  <2>2. /\ BufferOf(w, t).trace = t
        /\ \E i \in 1..Len(w) : BufferOf(w, t) = w[i]
        /\ Buffers(WithoutTrace(w, t))
        /\ Len(WithoutTrace(w, t)) < Len(w)
        /\ \A k \in 1..Len(WithoutTrace(w, t)) :
              /\ WithoutTrace(w, t)[k].trace # t
              /\ \E i \in 1..Len(w) : WithoutTrace(w, t)[k] = w[i]
        /\ \A i \in 1..Len(w) : w[i].trace # t =>
              \E k \in 1..Len(WithoutTrace(w, t)) : WithoutTrace(w, t)[k] = w[i]
        /\ EventsIn(w) = EventsIn(WithoutTrace(w, t)) \cup ToSet(BufferOf(w, t).events)
    BY <2>1, WithoutTraceFacts
  <2> QED
    BY <1>1, <1>4, <2>2
<1>6. Good(b) /\ Len(b.events) <= MaxEventsPerTrace
  BY <1>3, <1>5 DEF Buffers
<1>7. /\ b \in Fragments /\ b.events \in Seq(Event) /\ b.context \in BOOLEAN /\ b.trace \in Traces
      /\ InOrder(b.events)
      /\ \A e \in ToSet(b.events) : e.trace = t /\ (e.informed => b.context)
  BY <1>5, <1>6 DEF Good, Fragments
<1>8. /\ EventsIn(w) \subseteq Event /\ EventsIn(ev) \subseteq Event
      /\ EventsIn(w) \subseteq E /\ EventsIn(ev) \subseteq E /\ gone \subseteq E /\ E \subseteq Event
  BY <1>2, <1>3, InFragments DEF Accounts
<1>9. event \notin E
  BY <1>8 DEF Before, Event, EventIds
<1>10. PICK all : all = Append(b.events, event)
  OBVIOUS
<1>11. /\ all \in Seq(Event) /\ all # <<>> /\ InOrder(all)
       /\ Len(all) = Len(b.events) + 1
       /\ ToSet(all) = ToSet(b.events) \cup {event}
  <2>1. Before(ToSet(b.events), {event})
    BY <1>5, <1>8 DEF Before
  <2> QED
    BY <1>7, <1>10, <2>1, LaterEvent
<1>12. \A e \in ToSet(all) : e.trace = t
  BY <1>1, <1>7, <1>11
<1>13. event.informed => b.context
  <2> SUFFICES ASSUME event.informed PROVE b.context
    OBVIOUS
  <2>1. PICK i \in 1..Len(w) : w[i].trace = t /\ w[i].context
    BY <1>1, <1>2 DEF Accounts
  <2>2. w[i] = b
    BY <1>3, <1>5, <2>1 DEF Buffers
  <2> QED
    BY <2>1, <2>2
<1> DEFINE full == Len(all) > MaxEventsPerTrace
           keptOf == IF full THEN Tail(all) ELSE all
           goneOf == IF full THEN gone \cup {Head(all)} ELSE gone
<1>14. PICK kept, gone2 : kept = keptOf /\ gone2 = goneOf
  OBVIOUS
<1>15. /\ kept \in Seq(Event) /\ InOrder(kept) /\ Len(kept) <= MaxEventsPerTrace
       /\ ToSet(kept) \subseteq ToSet(all)
       /\ gone \subseteq gone2 /\ gone2 \subseteq gone \cup ToSet(all)
       /\ gone2 \cup ToSet(kept) = gone \cup ToSet(all)
       /\ ToSet(kept) \cap (gone2 \ gone) = {}
  <2>1. CASE full
    <3>1. /\ Tail(all) \in Seq(Event) /\ InOrder(Tail(all))
          /\ Len(Tail(all)) = Len(all) - 1
          /\ ToSet(all) = ToSet(Tail(all)) \cup {Head(all)}
          /\ Head(all) \notin ToSet(Tail(all))
      BY <1>11, <1>12, OldestEvent
    <3>2. kept = Tail(all) /\ gone2 = gone \cup {Head(all)}
      BY <1>14, <2>1
    <3>3. Len(Tail(all)) <= MaxEventsPerTrace
      BY <1>6, <1>7, <1>11, <3>1
    <3> QED
      BY <3>1, <3>2, <3>3
  <2>2. CASE ~ full
    <3>1. kept = all /\ gone2 = gone
      BY <1>14, <2>2
    <3>2. Len(all) <= MaxEventsPerTrace
      BY <1>11, <2>2, WindowAssumption
    <3> QED
      BY <1>11, <3>1, <3>2
  <2> QED
    BY <2>1, <2>2
<1>16. PICK nb : nb = [b EXCEPT !.events = kept, !.age = 0]
  OBVIOUS
<1>17. /\ nb \in Fragments
       /\ nb.trace = t /\ nb.events = kept /\ nb.context = b.context
  <2>1. 0 \in 0..Expired
    BY WindowAssumption DEF Expired
  <2>2. b \in [trace : Traces, events : Seq(Event), context : BOOLEAN, age : 0..Expired]
    BY <1>7 DEF Fragments
  <2>3. nb \in [trace : Traces, events : Seq(Event), context : BOOLEAN, age : 0..Expired]
    BY <1>15, <1>16, <2>1, <2>2
  <2>4. nb.trace = b.trace /\ nb.events = kept /\ nb.context = b.context
    BY <1>16, <2>2
  <2> QED
    BY <1>5, <2>3, <2>4 DEF Fragments
<1>18. Good(nb)
  <2> SUFFICES ASSUME NEW e \in ToSet(kept) PROVE e.trace = t /\ (e.informed => b.context)
    BY <1>15, <1>17 DEF Good
  <2>1. e = event \/ e \in ToSet(b.events)
    BY <1>11, <1>15
  <2> QED
    BY <1>1, <1>7, <1>13, <2>1
<1>19. PICK w2 : w2 = Append(rest, nb)
  OBVIOUS
<1>20. /\ Buffers(w2)
       /\ Len(w2) = Len(rest) + 1
       /\ w2[Len(rest) + 1] = nb
       /\ \A i \in 1..Len(rest) : w2[i] = rest[i]
       /\ EventsIn(w2) = EventsIn(rest) \cup ToSet(kept)
  BY <1>5, <1>15, <1>17, <1>18, <1>19, AppendBuffer
<1>21. rest \in Seq(Fragments) /\ Len(rest) \in Nat /\ w2 \in Seq(Fragments)
  BY <1>5, <1>20 DEF Buffers
<1>22. /\ Len(w2) <= MaxActiveTraces /\ Len(rest) + 1 \in 1..Len(w2)
       /\ \A i \in 1..Len(rest) : i \in 1..Len(w2)
  <2>1. Len(w) <= MaxActiveTraces
    BY <1>2 DEF Accounts
  <2> QED
    BY <1>3, <1>5, <1>20, <1>21, <2>1, WindowAssumption
<1>23. EventsIn(w2) \subseteq EventsIn(w) \cup {event}
  BY <1>5, <1>11, <1>15, <1>20
<1>24. Before(EventsIn(ev), EventsIn(w2))
  BY <1>2, <1>8, <1>23 DEF Accounts, Before
<1>25. \A s \in st : \E i \in 1..Len(w2) : w2[i].trace = s /\ w2[i].context
  <2> SUFFICES ASSUME NEW s \in st PROVE \E i \in 1..Len(w2) : w2[i].trace = s /\ w2[i].context
    OBVIOUS
  <2>1. PICK i \in 1..Len(w) : w[i].trace = s /\ w[i].context
    BY <1>2 DEF Accounts
  <2>2. CASE s = t
    <3>1. w[i] = b
      BY <1>3, <1>5, <2>1, <2>2 DEF Buffers
    <3> QED
      BY <1>17, <1>20, <1>22, <2>1, <2>2, <3>1
  <2>3. CASE s # t
    <3>1. PICK k \in 1..Len(rest) : rest[k] = w[i]
      BY <1>5, <2>1, <2>3
    <3>2. k \in 1..Len(w2) /\ w2[k] = w[i]
      BY <1>20, <1>22, <3>1
    <3> QED
      BY <2>1, <3>2
  <2> QED
    BY <2>2, <2>3
<1>26. ToSet(b.events) \cap EventsIn(rest) = {}
  <2> SUFFICES ASSUME NEW e \in ToSet(b.events), NEW k \in 1..Len(rest), e \in ToSet(rest[k].events)
               PROVE  FALSE
    BY <1>21, InFragments
  <2>1. e.trace = rest[k].trace
    BY <1>5 DEF Buffers, Good
  <2> QED
    BY <1>5, <1>7, <2>1
<1>27. EventsIn(ev) \cap EventsIn(w) = {}
  BY <1>2, <1>8, BeforeIsStrict DEF Accounts
<1>28. /\ gone2 \in SUBSET Event
       /\ E \cup {event} = EventsIn(ev) \cup EventsIn(w2) \cup gone2
  <2>1. E = EventsIn(ev) \cup EventsIn(w) \cup gone
    BY <1>2 DEF Accounts
  <2>2. gone2 \subseteq E \cup {event}
    BY <1>5, <1>8, <1>11, <1>15
  <2>3. gone2 \cup EventsIn(w2) = gone \cup EventsIn(w) \cup {event}
    BY <1>5, <1>11, <1>15, <1>20
  <2> QED
    BY <1>8, <2>1, <2>2, <2>3
<1>29. gone2 \cap (EventsIn(ev) \cup EventsIn(w2)) = {}
  <2> SUFFICES ASSUME NEW e \in gone2, e \in EventsIn(ev) \cup EventsIn(w2) PROVE FALSE
    OBVIOUS
  <2>1. CASE e \in gone
    <3>1. e \notin EventsIn(ev) /\ e \notin EventsIn(w)
      BY <1>2, <2>1 DEF Accounts
    <3>2. e = event
      BY <1>23, <3>1
    <3> QED
      BY <1>8, <1>9, <2>1, <3>2
  <2>2. CASE e \notin gone
    <3>1. e \in ToSet(all) /\ e \notin ToSet(kept)
      BY <1>15, <2>2
    <3>2. CASE e = event
      <4>1. e \notin EventsIn(rest) /\ e \notin EventsIn(ev)
        BY <1>5, <1>8, <1>9, <3>2
      <4> QED
        BY <1>20, <3>1, <4>1
    <3>3. CASE e \in ToSet(b.events)
      <4>1. e \notin EventsIn(rest) /\ e \in EventsIn(w)
        BY <1>5, <1>26, <3>3
      <4> QED
        BY <1>20, <1>27, <3>1, <4>1
    <3> QED
      BY <1>11, <3>1, <3>2, <3>3
  <2> QED
    BY <2>1, <2>2
<1>30. Accounts(w2, ev, gone2, st, E \cup {event})
  BY <1>2, <1>20, <1>22, <1>24, <1>25, <1>28, <1>29 DEF Accounts
<1>31. PICK new : new = AppendToRing(acc, BufferOf(acc.window, event.trace), event)
  OBVIOUS
<1>32. new = [acc EXCEPT !.window = w2, !.overwritten = gone2]
  BY <1>1, <1>4, <1>5, <1>10, <1>14, <1>16, <1>19, <1>31 DEF AppendToRing
<1>33. new \in Accumulators
  BY <1>2, <1>21, <1>28, <1>32 DEF Accumulators
<1>34. new.window = w2 /\ new.evicted = ev /\ new.overwritten = gone2 /\ new.stamped = st
  BY <1>1, <1>2, <1>32 DEF Accumulators
<1> QED
  BY <1>30, <1>31, <1>33, <1>34 DEF AccountsFor

\* One event pushed, its trace's context retained before if it came with any.
LEMMA PushAccounts ==
  ASSUME NEW E, NEW acc, AccountsFor(acc, E), NEW event \in Event,
         Before(E, {event}), event.informed => event.trace \in acc.stamped
  PROVE  AccountsFor(Push(acc, event), E \cup {event})
<1>1. CASE Holds(acc.window, event.trace)
  BY <1>1, AppendToRingAccounts DEF Push
<1>2. CASE ~ Holds(acc.window, event.trace)
  <2>1. PICK b : b = [NewBuffer(event.trace) EXCEPT !.events = <<event>>]
    OBVIOUS
  <2>2. event.trace \in Traces
    BY DEF Event
  <2>3. b = [trace |-> event.trace, events |-> <<event>>, context |-> FALSE, age |-> 0]
    BY <2>1 DEF NewBuffer
  <2>4. 0 \in 0..Expired
    BY WindowAssumption DEF Expired
  <2>5. <<event>> \in Seq(Event)
    OBVIOUS
  <2>6. b \in Fragments
    BY <2>2, <2>3, <2>4, <2>5 DEF Fragments
  <2>7. b.trace = event.trace /\ b.events = <<event>>
    BY <2>3
  <2>8. ToSet(<<event>>) = {event}
    BY DEF ToSet
  <2>9. /\ Len(<<event>>) = 1 /\ 1 <= MaxEventsPerTrace
        /\ \A i, j \in 1..1 : ~ (i < j)
    BY WindowAssumption
  <2>10. ~ event.informed
    <3> SUFFICES ASSUME event.informed PROVE FALSE
      OBVIOUS
    <3>1. PICK i \in 1..Len(acc.window) : acc.window[i].trace = event.trace
      BY DEF AccountsFor, Accounts
    <3>2. DOMAIN acc.window = 1..Len(acc.window)
      BY DEF AccountsFor, Accounts, Buffers
    <3> QED
      BY <1>2, <3>1, <3>2 DEF Holds
  <2>11. InOrder(b.events)
    BY <2>7, <2>9 DEF InOrder
  <2>12. Good(b)
    BY <2>6, <2>7, <2>8, <2>10, <2>11 DEF Good
  <2>13. AccountsFor(Insert(acc, b), E \cup ToSet(b.events))
    BY <1>2, <2>7, <2>8, <2>9, <2>12, InsertAccounts
  <2>14. Push(acc, event) = Insert(acc, b)
    BY <1>2, <2>1 DEF Push
  <2> QED
    BY <2>7, <2>8, <2>13, <2>14
<1> QED
  BY <1>1, <1>2

\* Retaining context stamps the trace and moves no event, but the least
\* recently used buffer may have to go.
LEMMA RetainAccounts ==
  ASSUME NEW E, NEW acc, AccountsFor(acc, E), NEW t \in Traces
  PROVE  /\ AccountsFor(Retain(acc, t), E)
         /\ t \in Retain(acc, t).stamped
<1>1. CASE Holds(acc.window, t)
  <2>1. PICK w, ev, gone, st :
           /\ w = acc.window /\ ev = acc.evicted
           /\ gone = acc.overwritten /\ st = acc.stamped
    OBVIOUS
  <2>2. acc \in Accumulators /\ Accounts(w, ev, gone, st, E) /\ Holds(w, t)
    BY <1>1, <2>1 DEF AccountsFor
  <2>3. Buffers(w) /\ w \in Seq(Fragments) /\ Len(w) \in Nat /\ DOMAIN w = 1..Len(w)
    BY <2>2 DEF Accounts, Buffers
  <2>4. PICK held : held = [i \in DOMAIN w |->
                              IF w[i].trace = t THEN [w[i] EXCEPT !.context = TRUE] ELSE w[i]]
    OBVIOUS
  <2>5. ASSUME NEW i \in 1..Len(w)
        PROVE  /\ held[i] \in Fragments
               /\ held[i].trace = w[i].trace /\ held[i].events = w[i].events
               /\ held[i].context = (w[i].context \/ w[i].trace = t)
    <3>0. w[i] \in Fragments
      BY <2>3
    <3>1. w[i] \in [trace : Traces, events : Seq(Event), context : BOOLEAN, age : 0..Expired]
      BY <3>0 DEF Fragments
    <3>2. held[i] = IF w[i].trace = t THEN [w[i] EXCEPT !.context = TRUE] ELSE w[i]
      BY <2>3, <2>4
    <3>3. held[i] \in [trace : Traces, events : Seq(Event), context : BOOLEAN, age : 0..Expired]
      BY <3>1, <3>2
    <3>4. CASE w[i].trace = t
      BY <3>1, <3>2, <3>3, <3>4 DEF Fragments
    <3>5. CASE w[i].trace # t
      BY <3>1, <3>2, <3>3, <3>5 DEF Fragments
    <3> QED
      BY <3>4, <3>5
  <2>6. held \in [1..Len(w) -> Fragments]
    BY <2>3, <2>4, <2>5
  <2>7. held \in Seq(Fragments) /\ Len(held) = Len(w) /\ DOMAIN held = 1..Len(w)
    BY <2>3, <2>6
  <2>8. \A i \in 1..Len(w) : Good(held[i]) /\ Len(held[i].events) <= MaxEventsPerTrace
    <3> SUFFICES ASSUME NEW i \in 1..Len(w)
                 PROVE  Good(held[i]) /\ Len(held[i].events) <= MaxEventsPerTrace
      OBVIOUS
    <3>1. Good(w[i]) /\ Len(w[i].events) <= MaxEventsPerTrace
      BY <2>3 DEF Buffers
    <3> QED
      BY <2>5, <3>1 DEF Good
  <2>9. Buffers(held)
    BY <2>3, <2>5, <2>7, <2>8 DEF Buffers
  <2>10. EventsIn(held) = EventsIn(w)
    <3>1. \A i \in 1..Len(w) : ToSet(held[i].events) = ToSet(w[i].events)
      BY <2>5
    <3> QED
      BY <2>3, <2>7, <3>1 DEF EventsIn
  <2>11. PICK h \in 1..Len(w) : w[h].trace = t
    BY <2>2, <2>3 DEF Holds
  <2>12. \A s \in st \cup {t} : \E i \in 1..Len(held) : held[i].trace = s /\ held[i].context
    <3> SUFFICES ASSUME NEW s \in st \cup {t}
                 PROVE  \E i \in 1..Len(w) : held[i].trace = s /\ held[i].context
      BY <2>7
    <3>1. CASE s = t
      BY <2>5, <2>11, <3>1
    <3>2. CASE s \in st
      <4>1. PICK i \in 1..Len(w) : w[i].trace = s /\ w[i].context
        BY <2>2, <3>2 DEF Accounts
      <4> QED
        BY <2>5, <4>1
    <3> QED
      BY <3>1, <3>2
  <2>13. st \cup {t} \in SUBSET Traces
    BY <2>2 DEF Accounts
  <2>14. Accounts(held, ev, gone, st \cup {t}, E)
    BY <2>2, <2>7, <2>9, <2>10, <2>12, <2>13 DEF Accounts
  <2>15. PICK new : new = Retain(acc, t)
    OBVIOUS
  <2>16. PICK middle : middle = [acc EXCEPT !.window = held]
    OBVIOUS
  <2>17. new = [middle EXCEPT !.stamped = @ \cup {t}]
    BY <1>1, <2>1, <2>4, <2>15, <2>16 DEF Retain
  <2>18. /\ middle \in Accumulators /\ middle.window = held /\ middle.evicted = ev
         /\ middle.overwritten = gone /\ middle.stamped = st
    BY <2>1, <2>2, <2>7, <2>16 DEF Accumulators
  <2>19. /\ new.window = held /\ new.evicted = ev
         /\ new.overwritten = gone /\ new.stamped = st \cup {t}
    BY <2>17, <2>18 DEF Accumulators
  <2>20. new \in Accumulators
    BY <2>13, <2>17, <2>18 DEF Accumulators
  <2> QED
    BY <2>14, <2>15, <2>19, <2>20 DEF AccountsFor
<1>2. CASE ~ Holds(acc.window, t)
  <2>1. PICK b : b = [NewBuffer(t) EXCEPT !.context = TRUE]
    OBVIOUS
  <2>2. b = [trace |-> t, events |-> <<>>, context |-> TRUE, age |-> 0]
    BY <2>1 DEF NewBuffer
  <2>3. 0 \in 0..Expired /\ 0 <= MaxEventsPerTrace
    BY WindowAssumption DEF Expired
  <2>4. <<>> \in Seq(Event) /\ Len(<<>>) = 0 /\ (\A i : i \notin 1..0)
    OBVIOUS
  <2>5. ToSet(<<>>) = {}
    BY DEF ToSet
  <2>6. b \in Fragments
    BY <2>2, <2>3, <2>4 DEF Fragments
  <2>7. b.trace = t /\ b.events = <<>> /\ b.context
    BY <2>2
  <2>8. InOrder(b.events)
    BY <2>4, <2>7 DEF InOrder
  <2>9. Good(b) /\ Before(E, ToSet(b.events)) /\ Len(b.events) <= MaxEventsPerTrace
    BY <2>3, <2>4, <2>5, <2>6, <2>7, <2>8 DEF Good, Before
  <2>10. PICK middle : middle = Insert(acc, b)
    OBVIOUS
  <2>11. AccountsFor(middle, E) /\ \E i \in 1..Len(middle.window) : middle.window[i] = b
    <3>1. /\ AccountsFor(middle, E \cup ToSet(b.events))
          /\ \E i \in 1..Len(middle.window) : middle.window[i] = b
      BY <1>2, <2>7, <2>9, <2>10, InsertAccounts
    <3>2. E \cup ToSet(b.events) = E
      BY <2>5, <2>7
    <3> QED
      BY <3>1, <3>2
  <2>12. PICK new : new = Retain(acc, t)
    OBVIOUS
  <2>13. new = [middle EXCEPT !.stamped = @ \cup {t}]
    BY <1>2, <2>1, <2>10, <2>12 DEF Retain
  <2>14. middle \in Accumulators
    BY <2>11 DEF AccountsFor
  <2>15. /\ new.window = middle.window /\ new.evicted = middle.evicted
         /\ new.overwritten = middle.overwritten /\ new.stamped = middle.stamped \cup {t}
         /\ new \in Accumulators
    BY <2>13, <2>14 DEF Accumulators
  <2>16. \A s \in middle.stamped \cup {t} :
            \E i \in 1..Len(middle.window) :
               middle.window[i].trace = s /\ middle.window[i].context
    BY <2>7, <2>11 DEF AccountsFor, Accounts
  <2>17. middle.stamped \cup {t} \in SUBSET Traces
    BY <2>14 DEF Accumulators
  <2>18. Accounts(middle.window, middle.evicted, middle.overwritten,
                  middle.stamped \cup {t}, E)
    BY <2>11, <2>16, <2>17 DEF AccountsFor, Accounts
  <2> QED
    BY <2>12, <2>15, <2>18 DEF AccountsFor
<1> QED
  BY <1>1, <1>2

\* One event of the batch.
LEMMA RetainThenPushAccounts ==
  ASSUME NEW E, NEW acc, AccountsFor(acc, E), NEW event \in Event, Before(E, {event}),
         NEW context, context \subseteq Traces, event.informed => event.trace \in context
  PROVE  AccountsFor(RetainThenPush(acc, event, context), E \cup {event})
<1>1. CASE event.trace \in context \ acc.stamped
  <2>1. event.trace \in Traces
    BY <1>1
  <2>2. /\ AccountsFor(Retain(acc, event.trace), E)
        /\ event.trace \in Retain(acc, event.trace).stamped
    BY <2>1, RetainAccounts
  <2>3. AccountsFor(Push(Retain(acc, event.trace), event), E \cup {event})
    BY <2>2, PushAccounts
  <2> QED
    BY <1>1, <2>3 DEF RetainThenPush
<1>2. CASE ~ (event.trace \in context \ acc.stamped)
  BY <1>2, PushAccounts DEF RetainThenPush
<1> QED
  BY <1>1, <1>2

\* A batch starts with what the window holds.
LEMMA StartAccounts ==
  ASSUME NEW window_, Buffers(window_), Len(window_) <= MaxActiveTraces
  PROVE  AccountsFor(Start(window_), EventsIn(window_))
<1>1. PICK acc : acc = Start(window_)
  OBVIOUS
<1>2. /\ acc.window = window_ /\ acc.evicted = <<>>
      /\ acc.overwritten = {} /\ acc.stamped = {}
  BY <1>1 DEF Start
<1>3. window_ \in Seq(Fragments)
  BY DEF Buffers
<1>4. acc \in Accumulators
  BY <1>1, <1>3 DEF Start, Accumulators
<1>5. Accounts(window_, <<>>, {}, {}, EventsIn(window_))
  BY NothingSorted DEF Accounts, Before
<1> QED
  BY <1>1, <1>2, <1>4, <1>5 DEF AccountsFor

\* The context of a batch, whichever order it comes in.
LEMMA RetainAllAccounts ==
  ASSUME NEW window_, Buffers(window_), Len(window_) <= MaxActiveTraces,
         NEW order \in Seq(Traces)
  PROVE  AccountsFor(RetainAll(window_, order), EventsIn(window_))
<1>0. PICK N, E, start : N = Len(order) /\ E = EventsIn(window_) /\ start = Start(window_)
  OBVIOUS
<1> DEFINE U == Accumulators
           family == [n \in 0..N |-> {acc \in U : AccountsFor(acc, E)}]
           next == [s \in U \X (1..N) |-> Retain(s[1], order[s[2]])]
           Recursive(g) == g = [n \in 0..N |->
                                  IF n = 0 THEN start ELSE Retain(g[n - 1], order[n])]
<1>1. N \in Nat /\ \A n \in 1..N : order[n] \in Traces /\ n - 1 \in 0..N /\ n \in 0..N /\ n # 0
  BY <1>0
<1>2. AccountsFor(start, E) /\ start \in U
  BY <1>0, StartAccounts DEF AccountsFor
<1>3. \A n \in 0..N : \A acc : acc \in family[n] <=> acc \in U /\ AccountsFor(acc, E)
  OBVIOUS
<1>4. family \in [0..N -> SUBSET U]
  OBVIOUS
<1>5. \A n \in 1..N, acc \in U : next[<<acc, n>>] = Retain(acc, order[n])
  OBVIOUS
<1> HIDE DEF family, next
<1>6. ASSUME NEW n \in 1..N, NEW acc \in family[n - 1] PROVE next[<<acc, n>>] \in family[n]
  <2>1. acc \in U /\ AccountsFor(acc, E)
    BY <1>1, <1>3
  <2>2. AccountsFor(Retain(acc, order[n]), E)
    BY <1>1, <2>1, RetainAccounts
  <2>3. Retain(acc, order[n]) \in U
    BY <2>2 DEF AccountsFor
  <2> QED
    BY <1>1, <1>3, <1>5, <2>1, <2>2, <2>3
<1> HIDE DEF U
<1>7. PICK f :
         /\ f \in [0..N -> U]
         /\ f[0] = start
         /\ \A n \in 1..N : f[n] = next[<<f[n - 1], n>>]
         /\ \A n \in 0..N : f[n] \in family[n]
  <2>1. start \in family[0]
    BY <1>1, <1>2, <1>3
  <2>2. Recursion(N, U, family, start, next)
    BY <1>1, <1>4, <1>6, <2>1 DEF Recursion
  <2>3. PICK f : Results(f, N, U, family, start, next)
    BY <2>2, RecursionExists
  <2> QED
    BY <2>3 DEF Results
<1>8. \A n \in 1..N : f[n] = Retain(f[n - 1], order[n])
  BY <1>1, <1>5, <1>7
<1>9. Recursive(f)
  <2>1. \A n \in 0..N : n = 0 \/ n \in 1..N
    BY <1>1
  <2>2. \A n \in 0..N : f[n] = IF n = 0 THEN start ELSE Retain(f[n - 1], order[n])
    BY <1>1, <1>7, <1>8, <2>1
  <2> QED
    BY <1>7, <2>2
<1>10. Recursive(Retaining(window_, order))
  BY <1>0, <1>9 DEF Retaining
<1>11. ASSUME NEW g, Recursive(g) PROVE \A n \in 0..N : f[n] = g[n]
  <2>1. 0 \in 0..N
    BY <1>1
  <2>2. f[0] = g[0]
    BY <1>7, <1>11, <2>1
  <2>3. \A n \in 1..N : g[n] = Retain(g[n - 1], order[n])
    BY <1>1, <1>11
  <2>4. \A n \in 1..N : f[n - 1] = g[n - 1] => f[n] = g[n]
    BY <1>8, <2>3
  <2>5. N \in Nat
    BY <1>1
  <2>6. AgreeStepwise(f, g, N)
    BY <2>2, <2>4, <2>5 DEF AgreeStepwise
  <2> QED
    BY <2>6, RecursionsAgree
<1>12. RetainAll(window_, order) = f[N] /\ N \in 0..N
  BY <1>0, <1>1, <1>10, <1>11 DEF RetainAll
<1> QED
  BY <1>0, <1>3, <1>7, <1>12

\* The events of a batch, in the order they came.
LEMMA PushAllAccounts ==
  ASSUME NEW E, NEW acc, AccountsFor(acc, E), NEW events \in Seq(Event), InOrder(events),
         Before(E, ToSet(events)), NEW context, context \subseteq Traces,
         \A e \in ToSet(events) : e.informed => e.trace \in context
  PROVE  AccountsFor(PushAll(acc, events, context), E \cup ToSet(events))
<1>0. PICK N : N = Len(events)
  OBVIOUS
<1> DEFINE U == Accumulators
           Upto(n) == E \cup {events[i] : i \in 1..n}
           family == [n \in 0..N |-> {a \in U : AccountsFor(a, Upto(n))}]
           next == [s \in U \X (1..N) |-> RetainThenPush(s[1], events[s[2]], context)]
           Recursive(g) == g = [n \in 0..N |->
                                  IF n = 0 THEN acc
                                  ELSE RetainThenPush(g[n - 1], events[n], context)]
<1>1. /\ N \in Nat
      /\ \A n \in 1..N : events[n] \in Event /\ n - 1 \in 0..N /\ n \in 0..N /\ n # 0
  BY <1>0
<1>2. \A n \in 1..N : events[n] \in ToSet(events)
  BY <1>0, InSequence
<1>3. Upto(0) = E /\ Upto(N) = E \cup ToSet(events)
  <2>1. \A i : i \notin 1..0
    OBVIOUS
  <2>2. {events[i] : i \in 1..N} = ToSet(events)
    BY <1>0 DEF ToSet
  <2> QED
    BY <2>1, <2>2
<1>4. ASSUME NEW n \in 1..N
      PROVE  Upto(n) = Upto(n - 1) \cup {events[n]} /\ Before(Upto(n - 1), {events[n]})
  <2>1. \A i \in 1..n : i \in 1..(n - 1) \/ i = n
    BY <1>1
  <2>2. n \in 1..n /\ \A i \in 1..(n - 1) : i \in 1..n /\ i \in 1..N /\ i < n
    BY <1>1
  <2>3. {events[i] : i \in 1..n} = {events[i] : i \in 1..(n - 1)} \cup {events[n]}
    BY <2>1, <2>2
  <2>4. \A e \in E : e.trace = events[n].trace => e.id < events[n].id
    BY <1>2 DEF Before
  <2>5. \A i \in 1..(n - 1) : events[i].trace = events[n].trace => events[i].id < events[n].id
    BY <1>0, <2>2 DEF InOrder
  <2> QED
    BY <2>3, <2>4, <2>5 DEF Before
<1>5. acc \in U
  BY DEF AccountsFor
<1> HIDE DEF Upto
<1>6. \A n \in 0..N : \A a : a \in family[n] <=> a \in U /\ AccountsFor(a, Upto(n))
  OBVIOUS
<1>7. family \in [0..N -> SUBSET U]
  OBVIOUS
<1>8. \A n \in 1..N, a \in U : next[<<a, n>>] = RetainThenPush(a, events[n], context)
  OBVIOUS
<1> HIDE DEF family, next
<1>9. ASSUME NEW n \in 1..N, NEW a \in family[n - 1] PROVE next[<<a, n>>] \in family[n]
  <2>1. a \in U /\ AccountsFor(a, Upto(n - 1))
    BY <1>1, <1>6
  <2>2. AccountsFor(RetainThenPush(a, events[n], context), Upto(n - 1) \cup {events[n]})
    BY <1>1, <1>2, <1>4, <2>1, RetainThenPushAccounts
  <2>3. RetainThenPush(a, events[n], context) \in U
    BY <2>2 DEF AccountsFor
  <2> QED
    BY <1>1, <1>4, <1>6, <1>8, <2>1, <2>2, <2>3
<1> HIDE DEF U
<1>10. PICK f :
         /\ f \in [0..N -> U]
         /\ f[0] = acc
         /\ \A n \in 1..N : f[n] = next[<<f[n - 1], n>>]
         /\ \A n \in 0..N : f[n] \in family[n]
  <2>1. acc \in family[0]
    BY <1>1, <1>3, <1>5, <1>6
  <2>2. Recursion(N, U, family, acc, next)
    BY <1>1, <1>7, <1>9, <2>1 DEF Recursion
  <2>3. PICK f : Results(f, N, U, family, acc, next)
    BY <2>2, RecursionExists
  <2> QED
    BY <2>3 DEF Results
<1>11. \A n \in 1..N : f[n] = RetainThenPush(f[n - 1], events[n], context)
  BY <1>1, <1>8, <1>10
<1>12. Recursive(f)
  <2>1. \A n \in 0..N : n = 0 \/ n \in 1..N
    BY <1>1
  <2>2. \A n \in 0..N : f[n] = IF n = 0 THEN acc
                               ELSE RetainThenPush(f[n - 1], events[n], context)
    BY <1>1, <1>10, <1>11, <2>1
  <2> QED
    BY <1>10, <2>2
<1>13. Recursive(Pushing(acc, events, context))
  BY <1>0, <1>12 DEF Pushing
<1>14. ASSUME NEW g, Recursive(g) PROVE \A n \in 0..N : f[n] = g[n]
  <2>1. 0 \in 0..N
    BY <1>1
  <2>2. f[0] = g[0]
    BY <1>10, <1>14, <2>1
  <2>3. \A n \in 1..N : g[n] = RetainThenPush(g[n - 1], events[n], context)
    BY <1>1, <1>14
  <2>4. \A n \in 1..N : f[n - 1] = g[n - 1] => f[n] = g[n]
    BY <1>11, <2>3
  <2>5. N \in Nat
    BY <1>1
  <2>6. AgreeStepwise(f, g, N)
    BY <2>2, <2>4, <2>5 DEF AgreeStepwise
  <2> QED
    BY <2>6, RecursionsAgree
<1>15. PushAll(acc, events, context) = f[N] /\ N \in 0..N
  BY <1>0, <1>1, <1>13, <1>14 DEF PushAll
<1> QED
  BY <1>3, <1>6, <1>10, <1>15

\* One batch: the window, what it evicts and what its rings overwrite hold the
\* events that were in the window or in the batch, each of them once.
LEMMA IngestAccounts ==
  ASSUME NEW window_, Buffers(window_), Len(window_) <= MaxActiveTraces,
         NEW events \in Seq(Event), InOrder(events),
         Before(EventsIn(window_), ToSet(events)),
         NEW context, context \subseteq Traces, NEW order \in Seq(Traces),
         \A e \in ToSet(events) : e.informed => e.trace \in context
  PROVE  AccountsFor(IngestInto(window_, events, context, order),
                     EventsIn(window_) \cup ToSet(events))
  BY RetainAllAccounts, PushAllAccounts DEF IngestInto

-----------------------------------------------------------------------------
(* Sweeps, samples and the worker's batch.                                 *)

\* Any order the context of a batch may be retained in.
LEMMA OrdersAreSequences ==
  ASSUME NEW window_, NEW context, context \subseteq Traces, IsFiniteSet(context)
  PROVE  RetentionOrders(window_, context) \subseteq Seq(Traces)
<1> DEFINE held == {t \in context : Holds(window_, t)}
           new  == context \ held
<1>1. /\ IsFiniteSet(held) /\ held \subseteq Traces
      /\ IsFiniteSet(new) /\ new \subseteq Traces
  <2>1. held \subseteq context /\ new \subseteq context
    OBVIOUS
  <2> QED
    BY <2>1, FS_Subset
<1>2. ASSUME NEW S, IsFiniteSet(S), S \subseteq Traces PROVE SetToSeqs(S) \subseteq Seq(Traces)
  <2>1. PICK n \in Nat : n = Cardinality(S)
    BY <1>2, FS_CardinalityType
  <2>2. SetToSeqs(S) \subseteq [1..n -> S]
    BY <2>1 DEF SetToSeqs
  <2>3. [1..n -> S] \subseteq Seq(Traces)
    BY <1>2
  <2> QED
    BY <2>2, <2>3
<1>3. \A a \in Seq(Traces), b \in Seq(Traces) : a \o b \in Seq(Traces)
  OBVIOUS
<1>4. SetToSeqs(held) \subseteq Seq(Traces) /\ SetToSeqs(new) \subseteq Seq(Traces)
  <2> HIDE DEF held, new
  <2> QED
    BY <1>1, <1>2
<1>5. RetentionOrders(window_, context)
        = {a \o b : a \in SetToSeqs(held), b \in SetToSeqs(new)}
  BY DEF RetentionOrders
<1> HIDE DEF held, new
<1>6. ASSUME NEW o \in RetentionOrders(window_, context) PROVE o \in Seq(Traces)
  <2>1. PICK a \in SetToSeqs(held), b \in SetToSeqs(new) : o = a \o b
    BY <1>5
  <2> QED
    BY <1>3, <1>4, <2>1
<1> QED
  BY <1>6

\* What the sampling keeps of a batch is in order, and is what it keeps.
LEMMA SampleFacts ==
  ASSUME NEW events \in Seq(Event), InOrder(events)
  PROVE  /\ SampledOf(events) \in Seq(Event)
         /\ InOrder(SampledOf(events))
         /\ ToSet(SampledOf(events)) = {e \in ToSet(events) : Sampled(e)}
<1> DEFINE indices == {i \in DOMAIN events : Sampled(events[i])}
           p == Picked(events, indices)
<1>1. SampledOf(events) = p
  BY DEF SampledOf
<1>2. p \in Seq(Event) /\ PicksOf(p, events, indices, Len(events))
  <2> HIDE DEF indices
  <2> QED
    BY PickedFacts
<1>3. \A i \in 1..Len(events) : i \in indices <=> Sampled(events[i])
  OBVIOUS
<1> HIDE DEF p, indices
<1>4. InOrder(p)
  <2> SUFFICES ASSUME NEW j \in 1..Len(p), NEW k \in 1..Len(p), j < k, p[j].trace = p[k].trace
               PROVE  p[j].id < p[k].id
    BY DEF InOrder
  <2>1. PICK h \in 1..Len(events), i \in 1..Len(events) :
           h < i /\ p[j] = events[h] /\ p[k] = events[i]
    BY <1>2 DEF PicksOf
  <2> QED
    BY <2>1 DEF InOrder
<1>5. ASSUME NEW e \in ToSet(p) PROVE e \in ToSet(events) /\ Sampled(e)
  <2>1. PICK k \in 1..Len(p) : e = p[k]
    BY <1>2, InSequence
  <2>2. PICK i \in 1..Len(events) : i \in indices /\ p[k] = events[i]
    BY <1>2 DEF PicksOf
  <2> QED
    BY <1>3, <2>1, <2>2, InSequence
<1>6. ASSUME NEW e \in ToSet(events), Sampled(e) PROVE e \in ToSet(p)
  <2>1. PICK i \in 1..Len(events) : e = events[i]
    BY InSequence
  <2>2. PICK k \in 1..Len(p) : p[k] = events[i]
    BY <1>2, <1>3, <1>6, <2>1 DEF PicksOf
  <2> QED
    BY <1>2, <2>1, <2>2, InSequence
<1> QED
  BY <1>1, <1>2, <1>4, <1>5, <1>6

\* A sweep parts the window in two.
LEMMA EvictExpiredFacts ==
  ASSUME NEW window_, Buffers(window_), Len(window_) <= MaxActiveTraces
  PROVE  LET swept == EvictExpired(window_) IN
         /\ Buffers(swept.window) /\ Len(swept.window) <= MaxActiveTraces
         /\ Sorted(swept.expired)
         /\ Before(EventsIn(swept.expired), EventsIn(swept.window))
         /\ EventsIn(window_) = EventsIn(swept.expired) \cup EventsIn(swept.window)
<1>1. PICK w, old, young : /\ w = window_
                           /\ old = {i \in DOMAIN w : w[i].age = Expired}
                           /\ young = DOMAIN w \ old
  OBVIOUS
<1>2. PICK keep, gone, turned :
         /\ keep = Picked(w, young) /\ gone = Picked(w, old) /\ turned = Reverse(gone)
  OBVIOUS
<1>3. PICK swept : swept = EvictExpired(window_)
  OBVIOUS
<1>4. swept.window = keep /\ swept.expired = Finish(turned)
  BY <1>1, <1>2, <1>3 DEF EvictExpired
<1>5. w \in Seq(Fragments) /\ DOMAIN w = 1..Len(w) /\ Len(w) \in Nat /\ Buffers(w)
  BY <1>1 DEF Buffers
<1>6. /\ Buffers(keep) /\ Len(keep) <= Len(w)
      /\ \A k \in 1..Len(keep) : \E i \in 1..Len(w) : i \in young /\ keep[k] = w[i]
      /\ \A i \in 1..Len(w) : i \in young => \E k \in 1..Len(keep) : keep[k] = w[i]
  <2>1. BuffersAt(keep, w, young)
    BY <1>2, <1>5, PickedBuffers
  <2> QED
    BY <2>1 DEF BuffersAt
<1>7. /\ Buffers(gone)
      /\ \A k \in 1..Len(gone) : \E i \in 1..Len(w) : i \in old /\ gone[k] = w[i]
      /\ \A i \in 1..Len(w) : i \in old => \E k \in 1..Len(gone) : gone[k] = w[i]
  <2>1. BuffersAt(gone, w, old)
    BY <1>2, <1>5, PickedBuffers
  <2> QED
    BY <2>1 DEF BuffersAt
<1>8. /\ keep \in Seq(Fragments) /\ gone \in Seq(Fragments)
      /\ Len(keep) \in Nat /\ Len(gone) \in Nat
  BY <1>6, <1>7 DEF Buffers
<1>9. PICK n \in Nat : n = Len(gone)
  BY <1>8
<1>10. /\ \A k \in 1..n : (n - k) + 1 \in 1..n
       /\ \A j, k \in 1..n : (n - j) + 1 = (n - k) + 1 => j = k
       /\ \A k \in 1..n : k = (n - ((n - k) + 1)) + 1
  OBVIOUS
<1>11. turned = [k \in 1..n |-> gone[(n - k) + 1]]
  BY <1>2, <1>9 DEF Reverse
<1>12. \A k \in 1..n : turned[k] = gone[(n - k) + 1] /\ turned[k] \in Fragments
  BY <1>8, <1>9, <1>10, <1>11
<1>13. turned \in Seq(Fragments) /\ Len(turned) = n
  BY <1>11, <1>12
<1>14. Buffers(turned)
  <2>0. /\ \A i \in 1..n : Good(gone[i]) /\ Len(gone[i].events) <= MaxEventsPerTrace
        /\ \A i, j \in 1..n : gone[i].trace = gone[j].trace => i = j
    BY <1>7, <1>9 DEF Buffers
  <2>1. ASSUME NEW k \in 1..n
        PROVE  Good(turned[k]) /\ Len(turned[k].events) <= MaxEventsPerTrace
    <3>1. PICK i \in 1..n : i = (n - k) + 1
      BY <1>10
    <3>2. turned[k] = gone[i]
      BY <1>12, <3>1
    <3> QED
      BY <2>0, <3>2
  <2>2. ASSUME NEW j \in 1..n, NEW k \in 1..n, turned[j].trace = turned[k].trace PROVE j = k
    <3>1. PICK h \in 1..n, i \in 1..n : h = (n - j) + 1 /\ i = (n - k) + 1
      BY <1>10
    <3>2. turned[j] = gone[h] /\ turned[k] = gone[i]
      BY <1>12, <3>1
    <3>3. h = i
      BY <2>0, <2>2, <3>2
    <3> QED
      BY <1>10, <3>1, <3>3
  <2> QED
    BY <1>13, <2>1, <2>2 DEF Buffers
<1>15. EventsIn(turned) = EventsIn(gone)
  <2>1. ASSUME NEW e \in EventsIn(turned) PROVE e \in EventsIn(gone)
    <3>1. PICK k \in 1..n : e \in ToSet(turned[k].events)
      BY <1>13, InFragments
    <3> QED
      BY <1>8, <1>9, <1>10, <1>12, <3>1, InFragments
  <2>2. ASSUME NEW e \in EventsIn(gone) PROVE e \in EventsIn(turned)
    <3>1. PICK k \in 1..n : e \in ToSet(gone[k].events)
      BY <1>8, <1>9, InFragments
    <3>2. PICK j \in 1..n : (n - j) + 1 = k
      <4>1. (n - k) + 1 \in 1..n /\ (n - ((n - k) + 1)) + 1 = k
        BY <1>10, <3>1
      <4> QED
        BY <4>1
    <3>3. turned[j] = gone[k]
      BY <1>12, <3>2
    <3> QED
      BY <1>13, <3>1, <3>3, InFragments
  <2> QED
    BY <2>1, <2>2
<1>16. Sorted(Finish(turned)) /\ EventsIn(Finish(turned)) = EventsIn(gone)
  BY <1>14, <1>15, BuffersAreSorted, FinishFacts
<1>17. ASSUME NEW e \in EventsIn(w) PROVE e \in EventsIn(gone) \cup EventsIn(keep)
  <2>1. PICK i \in 1..Len(w) : e \in ToSet(w[i].events)
    BY <1>5, InFragments
  <2>2. CASE i \in old
    <3>1. PICK k \in 1..Len(gone) : gone[k] = w[i]
      BY <1>7, <2>2
    <3> QED
      BY <1>8, <2>1, <3>1, InFragments
  <2>3. CASE i \notin old
    <3>1. PICK k \in 1..Len(keep) : keep[k] = w[i]
      BY <1>1, <1>5, <1>6, <2>3
    <3> QED
      BY <1>8, <2>1, <3>1, InFragments
  <2> QED
    BY <2>2, <2>3
<1>18. ASSUME NEW e \in EventsIn(gone)
       PROVE  e \in EventsIn(w) /\ \E i \in 1..Len(w) : i \in old /\ e.trace = w[i].trace
  <2>1. PICK k \in 1..Len(gone) : e \in ToSet(gone[k].events)
    BY <1>8, InFragments
  <2>2. PICK i \in 1..Len(w) : i \in old /\ gone[k] = w[i]
    BY <1>7
  <2>3. Good(w[i])
    BY <1>5 DEF Buffers
  <2> QED
    BY <1>5, <2>1, <2>2, <2>3, InFragments DEF Good
<1>19. ASSUME NEW e \in EventsIn(keep)
       PROVE  e \in EventsIn(w) /\ \E i \in 1..Len(w) : i \in young /\ e.trace = w[i].trace
  <2>1. PICK k \in 1..Len(keep) : e \in ToSet(keep[k].events)
    BY <1>8, InFragments
  <2>2. PICK i \in 1..Len(w) : i \in young /\ keep[k] = w[i]
    BY <1>6
  <2>3. Good(w[i])
    BY <1>5 DEF Buffers
  <2> QED
    BY <1>5, <2>1, <2>2, <2>3, InFragments DEF Good
<1>20. Before(EventsIn(gone), EventsIn(keep))
  <2> SUFFICES ASSUME NEW e \in EventsIn(gone), NEW f \in EventsIn(keep) PROVE e.trace # f.trace
    BY DEF Before
  <2>1. PICK h \in 1..Len(w) : h \in old /\ e.trace = w[h].trace
    BY <1>18
  <2>2. PICK i \in 1..Len(w) : i \in young /\ f.trace = w[i].trace
    BY <1>19
  <2>3. h # i
    BY <1>1, <2>1, <2>2
  <2> QED
    BY <1>5, <2>1, <2>2, <2>3 DEF Buffers
<1>21. EventsIn(w) = EventsIn(gone) \cup EventsIn(keep)
  BY <1>17, <1>18, <1>19
<1>22. Len(keep) <= MaxActiveTraces
  BY <1>1, <1>5, <1>6, <1>8, WindowAssumption
<1> QED
  BY <1>1, <1>3, <1>4, <1>6, <1>16, <1>20, <1>21, <1>22

\* The buffers only grow older.
LEMMA OlderFacts ==
  ASSUME NEW window_, Buffers(window_)
  PROVE  /\ Buffers(Older(window_)) /\ Len(Older(window_)) = Len(window_)
         /\ EventsIn(Older(window_)) = EventsIn(window_)
<1>1. PICK w, aged : w = window_ /\ aged = Older(w)
  OBVIOUS
<1>2. Buffers(w) /\ w \in Seq(Fragments) /\ Len(w) \in Nat /\ DOMAIN w = 1..Len(w)
  BY <1>1 DEF Buffers
<1>3. ASSUME NEW i \in 1..Len(w)
      PROVE  /\ aged[i] \in Fragments
             /\ aged[i].trace = w[i].trace /\ aged[i].events = w[i].events
             /\ aged[i].context = w[i].context
  <2>1. w[i] \in Fragments
    BY <1>2
  <2>2. w[i] \in [trace : Traces, events : Seq(Event), context : BOOLEAN, age : 0..Expired]
    BY <2>1 DEF Fragments
  <2>3. PICK a : a = IF w[i].age = Expired THEN w[i].age ELSE w[i].age + 1
    OBVIOUS
  <2>4. a \in 0..Expired
    BY <2>2, <2>3, WindowAssumption DEF Expired
  <2>5. aged[i] = [w[i] EXCEPT !.age = a]
    BY <1>1, <1>2, <2>3 DEF Older
  <2>6. aged[i] \in [trace : Traces, events : Seq(Event), context : BOOLEAN, age : 0..Expired]
    BY <2>2, <2>4, <2>5
  <2> QED
    BY <2>2, <2>5, <2>6 DEF Fragments
<1>4. aged \in [1..Len(w) -> Fragments]
  BY <1>1, <1>2, <1>3 DEF Older
<1>5. aged \in Seq(Fragments) /\ Len(aged) = Len(w) /\ DOMAIN aged = 1..Len(w)
  BY <1>2, <1>4
<1>6. Buffers(aged)
  BY <1>2, <1>3, <1>5 DEF Buffers, Good
<1>7. EventsIn(aged) = EventsIn(w)
  BY <1>2, <1>3, <1>5 DEF EventsIn
<1> QED
  BY <1>1, <1>5, <1>6, <1>7

\* Events in order after events in order.
LEMMA InOrderConcat ==
  ASSUME NEW a \in Seq(Event), NEW b \in Seq(Event), InOrder(a), InOrder(b),
         Before(ToSet(a), ToSet(b))
  PROVE  /\ a \o b \in Seq(Event)
         /\ InOrder(a \o b)
         /\ ToSet(a \o b) = ToSet(a) \cup ToSet(b)
<1> DEFINE c == a \o b
<1>1. /\ c \in Seq(Event)
      /\ Len(a) \in Nat /\ Len(b) \in Nat /\ Len(c) = Len(a) + Len(b)
      /\ \A i \in 1..Len(a) : c[i] = a[i]
      /\ \A i \in 1..Len(b) : c[Len(a) + i] = b[i]
  OBVIOUS
<1> HIDE DEF c
<1>2. ASSUME NEW i \in 1..Len(c)
      PROVE  (i \in 1..Len(a) /\ c[i] = a[i])
             \/ (i - Len(a) \in 1..Len(b) /\ c[i] = b[i - Len(a)])
  <2>1. CASE i \in 1..Len(a)
    BY <1>1, <2>1
  <2>2. CASE i \notin 1..Len(a)
    <3>1. i - Len(a) \in 1..Len(b) /\ Len(a) + (i - Len(a)) = i
      BY <1>1, <2>2
    <3> QED
      BY <1>1, <3>1
  <2> QED
    BY <2>1, <2>2
<1>3. ASSUME NEW i \in 1..Len(c), NEW j \in 1..Len(c), i < j, c[i].trace = c[j].trace
      PROVE  c[i].id < c[j].id
  <2>1. CASE j \in 1..Len(a)
    <3>1. i \in 1..Len(a)
      BY <1>1, <1>3, <2>1
    <3> QED
      BY <1>1, <1>3, <2>1, <3>1 DEF InOrder
  <2>2. CASE i \in 1..Len(a) /\ j \notin 1..Len(a)
    <3>1. j - Len(a) \in 1..Len(b) /\ c[j] = b[j - Len(a)]
      BY <1>2, <2>2
    <3>2. a[i] \in ToSet(a) /\ b[j - Len(a)] \in ToSet(b)
      BY <2>2, <3>1, InSequence
    <3> QED
      BY <1>1, <1>3, <2>2, <3>1, <3>2 DEF Before
  <2>3. CASE i \notin 1..Len(a) /\ j \notin 1..Len(a)
    <3>1. /\ i - Len(a) \in 1..Len(b) /\ c[i] = b[i - Len(a)]
          /\ j - Len(a) \in 1..Len(b) /\ c[j] = b[j - Len(a)]
      BY <1>2, <2>3
    <3>2. i - Len(a) < j - Len(a)
      BY <1>1, <1>3
    <3> QED
      BY <1>3, <3>1, <3>2 DEF InOrder
  <2>4. ~ (i \notin 1..Len(a) /\ j \in 1..Len(a))
    BY <1>1, <1>3
  <2> QED
    BY <2>1, <2>2, <2>3, <2>4
<1>4. ToSet(c) = ToSet(a) \cup ToSet(b)
  <2>1. ASSUME NEW x \in ToSet(c) PROVE x \in ToSet(a) \cup ToSet(b)
    <3>1. PICK i \in 1..Len(c) : x = c[i]
      BY <1>1, InSequence
    <3> QED
      BY <1>2, <3>1, InSequence
  <2>2. ASSUME NEW x \in ToSet(a) PROVE x \in ToSet(c)
    <3>1. PICK i \in 1..Len(a) : x = a[i]
      BY InSequence
    <3>2. i \in 1..Len(c) /\ c[i] = a[i]
      BY <1>1
    <3> QED
      BY <1>1, <3>1, <3>2, InSequence
  <2>3. ASSUME NEW x \in ToSet(b) PROVE x \in ToSet(c)
    <3>1. PICK i \in 1..Len(b) : x = b[i]
      BY InSequence
    <3>2. Len(a) + i \in 1..Len(c) /\ c[Len(a) + i] = b[i]
      BY <1>1
    <3> QED
      BY <1>1, <3>1, <3>2, InSequence
  <2> QED
    BY <2>1, <2>2, <2>3
<1>5. InOrder(c)
  BY <1>3 DEF InOrder
<1> QED
  BY <1>1, <1>4, <1>5 DEF c

\* The events of sorted fragments, one fragment after another, are in order.
LEMMA EventsSequenceFacts ==
  ASSUME NEW fs, Sorted(fs)
  PROVE  /\ EventsSequence(fs) \in Seq(Event)
         /\ InOrder(EventsSequence(fs))
         /\ ToSet(EventsSequence(fs)) = EventsIn(fs)
<1>0. PICK N, base : N = Len(fs) /\ base = <<>>
  OBVIOUS
<1> DEFINE U == Seq(Event)
           Upto(n) == UNION {ToSet(fs[i].events) : i \in 1..n}
           family == [n \in 0..N |-> {s \in U : InOrder(s) /\ ToSet(s) = Upto(n)}]
           next == [s \in U \X (1..N) |-> s[1] \o fs[s[2]].events]
           Recursive(g) == g = [n \in 0..N |->
                                  IF n = 0 THEN <<>> ELSE g[n - 1] \o fs[n].events]
<1>1. fs \in Seq(Fragments) /\ N \in Nat /\ DOMAIN fs = 1..N
  BY <1>0 DEF Sorted
<1>2. \A n \in 1..N : n - 1 \in 0..N /\ n \in 0..N /\ n # 0
  BY <1>1
<1>3. \A n \in 1..N : fs[n].events \in Seq(Event) /\ InOrder(fs[n].events)
  BY <1>0, <1>1, InFragments DEF Sorted, Good
<1>4. Upto(0) = {} /\ Upto(N) = EventsIn(fs)
  <2>1. \A i : i \notin 1..0
    OBVIOUS
  <2> QED
    BY <1>1, <2>1 DEF EventsIn
<1>5. ASSUME NEW n \in 1..N
      PROVE  /\ Upto(n) = Upto(n - 1) \cup ToSet(fs[n].events)
             /\ Before(Upto(n - 1), ToSet(fs[n].events))
  <2>1. \A i \in 1..n : i \in 1..(n - 1) \/ i = n
    BY <1>1
  <2>2. n \in 1..n /\ \A i \in 1..(n - 1) : i \in 1..n /\ i \in 1..N /\ i < n
    BY <1>1
  <2>3. Upto(n) = Upto(n - 1) \cup ToSet(fs[n].events)
    BY <2>1, <2>2
  <2>4. \A i \in 1..(n - 1) : Before(ToSet(fs[i].events), ToSet(fs[n].events))
    BY <1>0, <2>2 DEF Sorted
  <2>5. Before(Upto(n - 1), ToSet(fs[n].events))
    <3> SUFFICES ASSUME NEW i \in 1..(n - 1), NEW e \in ToSet(fs[i].events),
                        NEW f \in ToSet(fs[n].events), e.trace = f.trace
                 PROVE  e.id < f.id
      BY DEF Before
    <3> QED
      BY <2>4 DEF Before
  <2> QED
    BY <2>3, <2>5
<1> HIDE DEF Upto
<1>6. \A n \in 0..N : \A s : s \in family[n] <=> s \in U /\ InOrder(s) /\ ToSet(s) = Upto(n)
  OBVIOUS
<1>7. family \in [0..N -> SUBSET U]
  OBVIOUS
<1>8. \A n \in 1..N, s \in U : next[<<s, n>>] = s \o fs[n].events
  OBVIOUS
<1> HIDE DEF family, next
<1>9. ASSUME NEW n \in 1..N, NEW s \in family[n - 1] PROVE next[<<s, n>>] \in family[n]
  <2>1. s \in Seq(Event) /\ InOrder(s) /\ ToSet(s) = Upto(n - 1)
    BY <1>2, <1>6
  <2>2. /\ s \o fs[n].events \in Seq(Event)
        /\ InOrder(s \o fs[n].events)
        /\ ToSet(s \o fs[n].events) = ToSet(s) \cup ToSet(fs[n].events)
    BY <1>3, <1>5, <2>1, InOrderConcat
  <2> QED
    BY <1>2, <1>5, <1>6, <1>8, <2>1, <2>2
<1>10. base \in family[0]
  <2>1. <<>> \in Seq(Event) /\ Len(<<>>) = 0 /\ (\A i : i \notin 1..0)
    OBVIOUS
  <2>2. InOrder(<<>>) /\ ToSet(<<>>) = {}
    BY <2>1 DEF InOrder, ToSet
  <2>3. 0 \in 0..N
    BY <1>1
  <2> HIDE DEF Recursive
  <2> QED
    BY <1>0, <1>4, <1>6, <2>1, <2>2, <2>3
<1> HIDE DEF U
<1>11. PICK f :
         /\ f \in [0..N -> U]
         /\ f[0] = base
         /\ \A n \in 1..N : f[n] = next[<<f[n - 1], n>>]
         /\ \A n \in 0..N : f[n] \in family[n]
  <2>1. N \in Nat /\ family \in [0..N -> SUBSET U] /\ base \in family[0]
    BY <1>1, <1>7, <1>10
  <2>2. Recursion(N, U, family, base, next)
    BY <1>9, <2>1 DEF Recursion
  <2>3. PICK f : Results(f, N, U, family, base, next)
    BY <2>2, RecursionExists
  <2> QED
    BY <2>3 DEF Results
<1>12. \A n \in 1..N : f[n] = f[n - 1] \o fs[n].events
  BY <1>2, <1>8, <1>11
<1>13. Recursive(f)
  <2>1. \A n \in 0..N : n = 0 \/ n \in 1..N
    BY <1>1
  <2>2. \A n \in 0..N : f[n] = IF n = 0 THEN <<>> ELSE f[n - 1] \o fs[n].events
    BY <1>0, <1>2, <1>11, <1>12, <2>1
  <2> QED
    BY <1>11, <2>2
<1>14. Recursive(Joined(fs))
  BY <1>0, <1>13 DEF Joined
<1>15. ASSUME NEW g, Recursive(g) PROVE \A n \in 0..N : f[n] = g[n]
  <2>1. 0 \in 0..N
    BY <1>1
  <2>2. f[0] = g[0]
    BY <1>0, <1>11, <1>15, <2>1
  <2>3. \A n \in 1..N : g[n] = g[n - 1] \o fs[n].events
    BY <1>2, <1>15
  <2>4. \A n \in 1..N : f[n - 1] = g[n - 1] => f[n] = g[n]
    BY <1>12, <2>3
  <2>5. N \in Nat
    BY <1>1
  <2>6. AgreeStepwise(f, g, N)
    BY <2>2, <2>4, <2>5 DEF AgreeStepwise
  <2> QED
    BY <2>6, RecursionsAgree
<1>16. EventsSequence(fs) = f[N] /\ N \in 0..N
  <2>1. \A n \in 0..N : f[n] = Joined(fs)[n]
    BY <1>14, <1>15
  <2>2. N \in 0..N
    BY <1>1
  <2> HIDE DEF Recursive
  <2> QED
    BY <1>0, <2>1, <2>2 DEF EventsSequence
<1> QED
  BY <1>4, <1>6, <1>11, <1>16 DEF U

\* In a sequence in order every event occurs once.
LEMMA InOrderCounts ==
  ASSUME NEW events \in Seq(Event), InOrder(events)
  PROVE  Cardinality(ToSet(events)) = Len(events)
<1>1. PICK n \in Nat : n = Len(events)
  OBVIOUS
<1>2. \A i \in 1..n : events[i] \in ToSet(events) /\ events[i].id \in Nat
  <2>1. \A e \in Event : e.id \in Nat
    BY DEF Event, EventIds
  <2>2. \A i \in 1..n : events[i] \in Event
    BY <1>1
  <2> QED
    BY <1>1, <2>1, <2>2, InSequence
<1>3. ASSUME NEW i \in 1..n, NEW j \in 1..n, i # j PROVE events[i] # events[j]
  <2>1. CASE i < j
    BY <1>1, <1>2, <2>1 DEF InOrder
  <2>2. CASE j < i
    BY <1>1, <1>2, <2>2 DEF InOrder
  <2> QED
    BY <1>3, <2>1, <2>2
<1>4. \A x \in ToSet(events) : \E i \in 1..n : x = events[i]
  BY <1>1, InSequence
<1>5. DOMAIN events = 1..n /\ events = [i \in 1..n |-> events[i]]
  BY <1>1
<1>6. events \in [1..n -> ToSet(events)]
  BY <1>2, <1>5
<1>7. events \in Bijection(1..n, ToSet(events))
  <2>0. \A i, j \in 1..n : events[i] = events[j] => i = j
    BY <1>3
  <2>1. events \in Injection(1..n, ToSet(events))
    BY <1>6, <2>0 DEF Injection, IsInjective
  <2>2. events \in Surjection(1..n, ToSet(events))
    BY <1>4, <1>6 DEF Surjection
  <2> QED
    BY <2>1, <2>2 DEF Bijection
<1>8. ExistsBijection(1..n, ToSet(events))
  BY <1>7 DEF ExistsBijection
<1>9. IsFiniteSet(ToSet(events)) /\ Cardinality(ToSet(events)) = n
  <2>1. IsFiniteSet(1..n) /\ Cardinality(1..n) = n
    BY FS_Interval
  <2> QED
    BY <1>8, <2>1, FS_Bijection
<1> QED
  BY <1>1, <1>9

-----------------------------------------------------------------------------
(* The channels.                                                           *)

\* A batch as a listener sends it.
Fit(batch) ==
    /\ batch.events \in Seq(Event) /\ InOrder(batch.events)
    /\ batch.context \subseteq Traces /\ IsFiniteSet(batch.context)
    /\ \A e \in ToSet(batch.events) : e.informed => e.trace \in batch.context

Batched(batches) ==
    /\ \E B : batches \in Seq(B)
    /\ \A i \in 1..Len(batches) : Fit(batches[i])
    /\ \A i, j \in 1..Len(batches) :
          i < j => Before(ToSet(batches[i].events), ToSet(batches[j].events))

AllIn(handed) == UNION {EventsIn(handed[i]) : i \in DOMAIN handed}

Queued(handed) ==
    /\ handed \in Seq(Seq(Fragments))
    /\ \A i \in 1..Len(handed) : Sorted(handed[i])
    /\ \A i, j \in 1..Len(handed) :
          i < j => Before(EventsIn(handed[i]), EventsIn(handed[j]))

\* A sequence of things with events, and one more of them.
LEMMA LastOfMany ==
  ASSUME NEW S, NEW seq \in Seq(S), NEW x \in S
  PROVE  /\ Append(seq, x) \in Seq(S)
         /\ Len(seq) \in Nat /\ DOMAIN seq = 1..Len(seq)
         /\ Len(Append(seq, x)) = Len(seq) + 1
         /\ DOMAIN Append(seq, x) = 1..(Len(seq) + 1)
         /\ Append(seq, x)[Len(seq) + 1] = x
         /\ \A i \in 1..Len(seq) : i \in 1..(Len(seq) + 1) /\ Append(seq, x)[i] = seq[i]
         /\ \A i \in 1..(Len(seq) + 1) : i \in 1..Len(seq) \/ i = Len(seq) + 1
         /\ Len(seq) + 1 \in 1..(Len(seq) + 1)
         /\ \A i, j \in 1..(Len(seq) + 1) : i < j => i \in 1..Len(seq)
  OBVIOUS

\* A sequence of things with events, and the first of them.
LEMMA FirstOfMany ==
  ASSUME NEW S, NEW seq \in Seq(S), seq # <<>>
  PROVE  /\ Tail(seq) \in Seq(S)
         /\ Len(seq) \in Nat /\ DOMAIN seq = 1..Len(seq)
         /\ Len(Tail(seq)) = Len(seq) - 1
         /\ DOMAIN Tail(seq) = 1..(Len(seq) - 1)
         /\ Head(seq) = seq[1] /\ 1 \in 1..Len(seq)
         /\ \A i \in 1..(Len(seq) - 1) :
               i + 1 \in 1..Len(seq) /\ 1 < i + 1 /\ Tail(seq)[i] = seq[i + 1]
         /\ \A i \in 1..Len(seq) : i = 1 \/ (i - 1 \in 1..(Len(seq) - 1) /\ (i - 1) + 1 = i)
         /\ \A i, j \in 1..(Len(seq) - 1) : i < j => i + 1 < j + 1
  OBVIOUS

\* A batch at the end of the channel.
LEMMA BatchedAppend ==
  ASSUME NEW batches, Batched(batches), NEW batch, Fit(batch),
         Before(EventsIn(batches), ToSet(batch.events))
  PROVE  /\ Batched(Append(batches, batch))
         /\ Len(Append(batches, batch)) = Len(batches) + 1 /\ Len(batches) \in Nat
         /\ EventsIn(Append(batches, batch)) = EventsIn(batches) \cup ToSet(batch.events)
<1>1. PICK B : batches \in Seq(B)
  BY DEF Batched
<1>2. PICK S : S = B \cup {batch}
  OBVIOUS
<1>3. batches \in Seq(S) /\ batch \in S
  BY <1>1, <1>2
<1>4. PICK new, n : new = Append(batches, batch) /\ n = Len(batches)
  OBVIOUS
<1>5. /\ new \in Seq(S)
      /\ n \in Nat /\ DOMAIN batches = 1..n
      /\ Len(new) = n + 1
      /\ DOMAIN new = 1..(n + 1)
      /\ new[n + 1] = batch
      /\ \A i \in 1..n : i \in 1..(n + 1) /\ new[i] = batches[i]
      /\ \A i \in 1..(n + 1) : i \in 1..n \/ i = n + 1
      /\ n + 1 \in 1..(n + 1)
      /\ \A i, j \in 1..(n + 1) : i < j => i \in 1..n
  BY <1>3, <1>4, LastOfMany
<1>6. \A i \in 1..(n + 1) : Fit(new[i])
  BY <1>4, <1>5 DEF Batched
<1>7. \A i \in 1..n : ToSet(batches[i].events) \subseteq EventsIn(batches)
  BY <1>5 DEF EventsIn
<1>8. ASSUME NEW i \in 1..(n + 1), NEW j \in 1..(n + 1), i < j
      PROVE  Before(ToSet(new[i].events), ToSet(new[j].events))
  <2>1. i \in 1..n /\ new[i] = batches[i]
    BY <1>5, <1>8
  <2>2. CASE j \in 1..n
    BY <1>4, <1>5, <1>8, <2>1, <2>2 DEF Batched
  <2>3. CASE j = n + 1
    BY <1>5, <1>7, <2>1, <2>3 DEF Before
  <2> QED
    BY <1>5, <2>2, <2>3
<1>9. EventsIn(new) = EventsIn(batches) \cup ToSet(batch.events)
  BY <1>5 DEF EventsIn
<1>10. Batched(new)
  BY <1>5, <1>6, <1>8 DEF Batched
<1> QED
  BY <1>4, <1>5, <1>9, <1>10

\* The first batch taken from the channel.
LEMMA BatchedTail ==
  ASSUME NEW batches, Batched(batches), batches # <<>>
  PROVE  /\ Batched(Tail(batches)) /\ Fit(Head(batches))
         /\ Len(Tail(batches)) <= Len(batches)
         /\ EventsIn(batches) = ToSet(Head(batches).events) \cup EventsIn(Tail(batches))
         /\ Before(ToSet(Head(batches).events), EventsIn(Tail(batches)))
<1>1. PICK B : batches \in Seq(B)
  BY DEF Batched
<1>2. PICK rest, n : rest = Tail(batches) /\ n = Len(batches)
  OBVIOUS
<1>3. /\ rest \in Seq(B)
      /\ n \in Nat /\ DOMAIN batches = 1..n
      /\ Len(rest) = n - 1
      /\ DOMAIN rest = 1..(n - 1)
      /\ Head(batches) = batches[1] /\ 1 \in 1..n
      /\ \A i \in 1..(n - 1) : i + 1 \in 1..n /\ 1 < i + 1 /\ rest[i] = batches[i + 1]
      /\ \A i \in 1..n : i = 1 \/ (i - 1 \in 1..(n - 1) /\ (i - 1) + 1 = i)
      /\ \A i, j \in 1..(n - 1) : i < j => i + 1 < j + 1
  BY <1>1, <1>2, FirstOfMany
<1>4. /\ \A i \in 1..n : Fit(batches[i])
      /\ \A i, j \in 1..n : i < j => Before(ToSet(batches[i].events), ToSet(batches[j].events))
  BY <1>2 DEF Batched
<1>5. \A i \in 1..(n - 1) : Fit(rest[i])
  BY <1>3, <1>4
<1>6. ASSUME NEW i \in 1..(n - 1), NEW j \in 1..(n - 1), i < j
      PROVE  Before(ToSet(rest[i].events), ToSet(rest[j].events))
  BY <1>3, <1>4, <1>6
<1>7. EventsIn(batches) = UNION {ToSet(batches[i].events) : i \in 1..n}
  BY <1>3 DEF EventsIn
<1>8. EventsIn(rest) = UNION {ToSet(rest[i].events) : i \in 1..(n - 1)}
  BY <1>3 DEF EventsIn
<1>9. ASSUME NEW e \in EventsIn(batches)
      PROVE  e \in ToSet(batches[1].events) \cup EventsIn(rest)
  <2>1. PICK i \in 1..n : e \in ToSet(batches[i].events)
    BY <1>7
  <2>2. CASE i # 1
    <3>1. i - 1 \in 1..(n - 1) /\ rest[i - 1] = batches[(i - 1) + 1] /\ (i - 1) + 1 = i
      BY <1>3, <2>2
    <3> QED
      BY <1>8, <2>1, <3>1
  <2> QED
    BY <2>1, <2>2
<1>10. ASSUME NEW e \in EventsIn(rest)
       PROVE  \E j \in 1..n : 1 < j /\ e \in ToSet(batches[j].events)
  <2>1. PICK i \in 1..(n - 1) : e \in ToSet(rest[i].events)
    BY <1>8
  <2>2. i + 1 \in 1..n /\ 1 < i + 1 /\ rest[i] = batches[i + 1]
    BY <1>3
  <2> QED
    BY <2>1, <2>2
<1>11. EventsIn(batches) = ToSet(batches[1].events) \cup EventsIn(rest)
  BY <1>3, <1>7, <1>9, <1>10
<1>12. Before(ToSet(batches[1].events), EventsIn(rest))
  BY <1>3, <1>4, <1>10 DEF Before
<1>13. Batched(rest)
  BY <1>3, <1>5, <1>6 DEF Batched
<1>14. Len(rest) <= n
  BY <1>3
<1> QED
  BY <1>2, <1>3, <1>4, <1>11, <1>12, <1>13, <1>14

\* Fragments at the end of the analysis channel.
LEMMA QueuedAppend ==
  ASSUME NEW handed, Queued(handed), NEW fs, Sorted(fs), Before(AllIn(handed), EventsIn(fs))
  PROVE  /\ Queued(Append(handed, fs))
         /\ Len(Append(handed, fs)) = Len(handed) + 1 /\ Len(handed) \in Nat
         /\ AllIn(Append(handed, fs)) = AllIn(handed) \cup EventsIn(fs)
<1>1. handed \in Seq(Seq(Fragments)) /\ fs \in Seq(Fragments)
  BY DEF Queued, Sorted
<1>2. PICK S : S = Seq(Fragments)
  OBVIOUS
<1>3. handed \in Seq(S) /\ fs \in S
  BY <1>1, <1>2
<1>4. PICK new, n : new = Append(handed, fs) /\ n = Len(handed)
  OBVIOUS
<1>5. /\ new \in Seq(S)
      /\ n \in Nat /\ DOMAIN handed = 1..n
      /\ Len(new) = n + 1
      /\ DOMAIN new = 1..(n + 1)
      /\ new[n + 1] = fs
      /\ \A i \in 1..n : i \in 1..(n + 1) /\ new[i] = handed[i]
      /\ \A i \in 1..(n + 1) : i \in 1..n \/ i = n + 1
      /\ n + 1 \in 1..(n + 1)
      /\ \A i, j \in 1..(n + 1) : i < j => i \in 1..n
  BY <1>3, <1>4, LastOfMany
<1>6. \A i \in 1..(n + 1) : Sorted(new[i])
  BY <1>4, <1>5 DEF Queued
<1>7. \A i \in 1..n : EventsIn(handed[i]) \subseteq AllIn(handed)
  BY <1>5 DEF AllIn
<1>8. ASSUME NEW i \in 1..(n + 1), NEW j \in 1..(n + 1), i < j
      PROVE  Before(EventsIn(new[i]), EventsIn(new[j]))
  <2>1. i \in 1..n /\ new[i] = handed[i]
    BY <1>5, <1>8
  <2>2. CASE j \in 1..n
    BY <1>4, <1>5, <1>8, <2>1, <2>2 DEF Queued
  <2>3. CASE j = n + 1
    BY <1>5, <1>7, <2>1, <2>3 DEF Before
  <2> QED
    BY <1>5, <2>2, <2>3
<1>9. AllIn(new) = AllIn(handed) \cup EventsIn(fs)
  BY <1>5 DEF AllIn
<1>10. Queued(new)
  BY <1>2, <1>5, <1>6, <1>8 DEF Queued
<1> QED
  BY <1>4, <1>5, <1>9, <1>10

\* The first fragments taken from it.
LEMMA QueuedTail ==
  ASSUME NEW handed, Queued(handed), handed # <<>>
  PROVE  /\ Queued(Tail(handed)) /\ Sorted(Head(handed))
         /\ Len(Tail(handed)) <= Len(handed)
         /\ AllIn(handed) = EventsIn(Head(handed)) \cup AllIn(Tail(handed))
         /\ Before(EventsIn(Head(handed)), AllIn(Tail(handed)))
<1>1. PICK S : S = Seq(Fragments)
  OBVIOUS
<1>2. PICK rest, n : rest = Tail(handed) /\ n = Len(handed)
  OBVIOUS
<1>3. handed \in Seq(S)
  BY <1>1 DEF Queued
<1>4. /\ rest \in Seq(S)
      /\ n \in Nat /\ DOMAIN handed = 1..n
      /\ Len(rest) = n - 1
      /\ DOMAIN rest = 1..(n - 1)
      /\ Head(handed) = handed[1] /\ 1 \in 1..n
      /\ \A i \in 1..(n - 1) : i + 1 \in 1..n /\ 1 < i + 1 /\ rest[i] = handed[i + 1]
      /\ \A i \in 1..n : i = 1 \/ (i - 1 \in 1..(n - 1) /\ (i - 1) + 1 = i)
      /\ \A i, j \in 1..(n - 1) : i < j => i + 1 < j + 1
  BY <1>2, <1>3, FirstOfMany
<1>5. /\ \A i \in 1..n : Sorted(handed[i])
      /\ \A i, j \in 1..n : i < j => Before(EventsIn(handed[i]), EventsIn(handed[j]))
  BY <1>2 DEF Queued
<1>6. \A i \in 1..(n - 1) : Sorted(rest[i])
  BY <1>4, <1>5
<1>7. ASSUME NEW i \in 1..(n - 1), NEW j \in 1..(n - 1), i < j
      PROVE  Before(EventsIn(rest[i]), EventsIn(rest[j]))
  BY <1>4, <1>5, <1>7
<1>8. AllIn(handed) = UNION {EventsIn(handed[i]) : i \in 1..n}
  BY <1>4 DEF AllIn
<1>9. AllIn(rest) = UNION {EventsIn(rest[i]) : i \in 1..(n - 1)}
  BY <1>4 DEF AllIn
<1>10. ASSUME NEW e \in AllIn(handed) PROVE e \in EventsIn(handed[1]) \cup AllIn(rest)
  <2>1. PICK i \in 1..n : e \in EventsIn(handed[i])
    BY <1>8
  <2>2. CASE i # 1
    <3>1. i - 1 \in 1..(n - 1) /\ rest[i - 1] = handed[(i - 1) + 1] /\ (i - 1) + 1 = i
      BY <1>4, <2>2
    <3> QED
      BY <1>9, <2>1, <3>1
  <2> QED
    BY <2>1, <2>2
<1>11. ASSUME NEW e \in AllIn(rest) PROVE \E j \in 1..n : 1 < j /\ e \in EventsIn(handed[j])
  <2>1. PICK i \in 1..(n - 1) : e \in EventsIn(rest[i])
    BY <1>9
  <2>2. i + 1 \in 1..n /\ 1 < i + 1 /\ rest[i] = handed[i + 1]
    BY <1>4
  <2> QED
    BY <2>1, <2>2
<1>12. AllIn(handed) = EventsIn(handed[1]) \cup AllIn(rest)
  BY <1>4, <1>8, <1>10, <1>11
<1>13. Before(EventsIn(handed[1]), AllIn(rest))
  BY <1>4, <1>5, <1>11 DEF Before
<1>14. Queued(rest)
  BY <1>1, <1>4, <1>6, <1>7 DEF Queued
<1>15. Len(rest) <= n
  BY <1>4
<1> QED
  BY <1>2, <1>4, <1>5, <1>12, <1>13, <1>14, <1>15

-----------------------------------------------------------------------------
(* The pipeline.                                                           *)

(* What is in the queue does not matter here, only that it is a sequence.  *)
QueueIsSequence == \E S : queue \in Seq(S)

(* The gauge is a number even after a panic has made it meaningless.       *)
GaugeInv ==
    /\ QueueIsSequence
    /\ Len(queue) <= QueueCapacity
    /\ depth \in Int
    /\ GaugeFollowsQueue

\* A message at the end of the queue is one more.
LEMMA AppendGrows ==
    ASSUME NEW S, NEW q \in Seq(S), NEW x
    PROVE  /\ Append(q, x) \in Seq(S \cup {x})
           /\ Len(Append(q, x)) = Len(q) + 1
           /\ Len(q) \in Nat
<1>1. q \in Seq(S \cup {x})
  OBVIOUS
<1>. QED BY <1>1

\* A message taken from the queue is one less.
LEMMA TailShrinks ==
    ASSUME NEW S, NEW q \in Seq(S), q # <<>>
    PROVE  /\ Tail(q) \in Seq(S)
           /\ Len(Tail(q)) = Len(q) - 1
           /\ Len(q) \in Nat
  OBVIOUS

\* Initially the queue and its gauge are empty.
LEMMA InitEstablishesGauge == Init => GaugeInv
<1>. SUFFICES ASSUME Init PROVE GaugeInv
  OBVIOUS
<1>1. <<>> \in Seq({}) /\ Len(<<>>) = 0
  OBVIOUS
<1>. QED BY <1>1, PipelineAssumption
        DEF Init, GaugeInv, QueueIsSequence, GaugeFollowsQueue

(* What the loop's non-blocking hand-over does to the queue and its gauge. *)
\* A batch that enters the queue is counted.
LEMMA EnqueuePreservesGauge ==
    ASSUME GaugeInv, NEW fragments, EnqueueForAnalysis(fragments),
           UNCHANGED <<worker, phase>>
    PROVE  GaugeInv'
<1>. USE PipelineAssumption
<1>1. CASE UNCHANGED <<queue, depth>>
  BY <1>1 DEF GaugeInv, QueueIsSequence, GaugeFollowsQueue, WorkerAlive
<1>2. CASE /\ Len(queue) < QueueCapacity
           /\ depth' = depth + 1
           /\ queue' = Append(queue, fragments)
  <2>1. PICK S : queue \in Seq(S)
    BY DEF GaugeInv, QueueIsSequence
  <2>2. /\ queue' \in Seq(S \cup {fragments})
        /\ Len(queue') = Len(queue) + 1
        /\ Len(queue) \in Nat
    BY <1>2, <2>1, AppendGrows
  <2>. QED BY <1>2, <2>2 DEF GaugeInv, QueueIsSequence, GaugeFollowsQueue, WorkerAlive
<1>. QED BY <1>1, <1>2 DEF EnqueueForAnalysis

\* Every step keeps the gauge to what is queued or in hand.
LEMMA StepPreservesGauge == GaugeInv /\ [Next]_vars => GaugeInv'
<1>. SUFFICES ASSUME GaugeInv, [Next]_vars PROVE GaugeInv'
  OBVIOUS
<1>. USE PipelineAssumption
<1>a. ASSUME UNCHANGED <<queue, depth, worker, phase>> PROVE GaugeInv'
  BY <1>a DEF GaugeInv, QueueIsSequence, GaugeFollowsQueue, WorkerAlive
<1>b. PICK S : queue \in Seq(S)
  BY DEF GaugeInv, QueueIsSequence
<1>1. ASSUME NEW traces, NEW context, Accept(traces, context) PROVE GaugeInv'
  BY <1>1, <1>a DEF Accept
<1>2. CASE IngestBatch
  <2>1. PICK result \in Ingested : EnqueueForAnalysis(result.evicted)
    BY <1>2 DEF IngestBatch
  <2>. QED BY <1>2, <2>1, EnqueuePreservesGauge DEF IngestBatch
<1>3. CASE Tick
  <2>1. PICK fragments : EnqueueForAnalysis(fragments)
    BY <1>3 DEF Tick
  <2>. QED BY <1>3, <2>1, EnqueuePreservesGauge DEF Tick
<1>4. CASE SignalShutdown
  BY <1>4 DEF SignalShutdown, GaugeInv, QueueIsSequence, GaugeFollowsQueue, WorkerAlive
<1>5. CASE DrainBatch
  BY <1>5, <1>a DEF DrainBatch
<1>6. CASE DrainWindow
  BY <1>6 DEF DrainWindow, GaugeInv, QueueIsSequence, GaugeFollowsQueue, WorkerAlive
<1>7. CASE SendRemainder
  <2>1. CASE /\ Len(queue) < QueueCapacity
             /\ queue' = Append(queue, carried)
             /\ phase' = "counting"
    <3>1. /\ queue' \in Seq(S \cup {carried})
          /\ Len(queue') = Len(queue) + 1
          /\ Len(queue) \in Nat
      BY <1>b, <2>1, AppendGrows
    <3>. QED BY <1>7, <2>1, <3>1
            DEF SendRemainder, GaugeInv, QueueIsSequence, GaugeFollowsQueue, WorkerAlive
  <2>2. CASE /\ phase' = "joining"
             /\ UNCHANGED queue
    BY <1>7, <2>2
       DEF SendRemainder, GaugeInv, QueueIsSequence, GaugeFollowsQueue, WorkerAlive
  <2>. QED BY <1>7, <2>1, <2>2 DEF SendRemainder
<1>8. CASE CountSent
  <2>1. Len(queue) \in Nat
    BY <1>b
  <2>. QED BY <1>8, <2>1
          DEF CountSent, GaugeInv, QueueIsSequence, GaugeFollowsQueue, WorkerAlive
<1>9. CASE Join \/ NoticeWorkerStopped
  BY <1>9 DEF Join, NoticeWorkerStopped, GaugeInv, QueueIsSequence,
              GaugeFollowsQueue, WorkerAlive
<1>10. CASE Receive
  <2>1. /\ queue' \in Seq(S)
        /\ Len(queue') = Len(queue) - 1
        /\ Len(queue) \in Nat
    BY <1>b, <1>10, TailShrinks DEF Receive
  <2>2. /\ worker = "waiting" /\ worker' = "received"
        /\ UNCHANGED <<depth, phase>>
    BY <1>10 DEF Receive
  <2>. QED BY <2>1, <2>2
          DEF GaugeInv, QueueIsSequence, GaugeFollowsQueue, WorkerAlive
<1>11. CASE CountReceived
  <2>1. Len(queue) \in Nat
    BY <1>b
  <2>. QED BY <1>11, <2>1
          DEF CountReceived, GaugeInv, QueueIsSequence, GaugeFollowsQueue, WorkerAlive
<1>12. CASE Analyse
  BY <1>12 DEF Analyse, GaugeInv, QueueIsSequence, GaugeFollowsQueue, WorkerAlive
<1>13. CASE Panic
  <2>1. <<>> \in Seq({}) /\ Len(<<>>) = 0
    OBVIOUS
  <2>. QED BY <1>13, <2>1
          DEF Panic, GaugeInv, QueueIsSequence, GaugeFollowsQueue, WorkerAlive
<1>14. CASE WorkerExit
  BY <1>14 DEF WorkerExit, GaugeInv, QueueIsSequence, GaugeFollowsQueue, WorkerAlive
<1>15. CASE Advance
  BY <1>15, <1>a DEF Advance
<1>16. CASE UNCHANGED vars
  BY <1>16, <1>a DEF vars
<1>. QED
  BY <1>1, <1>2, <1>3, <1>4, <1>5, <1>6, <1>7, <1>8, <1>9, <1>10, <1>11, <1>12,
     <1>13, <1>14, <1>15, <1>16 DEF Next

(* The analysis_queue_depth gauge is the length of the queue whenever      *)
(* nobody is between moving a batch and counting it, and off by exactly    *)
(* one per such party otherwise, as long as the worker has not panicked.   *)
THEOREM GaugeIsExact == Spec => []GaugeFollowsQueue
<1>1. GaugeInv => GaugeFollowsQueue
  BY DEF GaugeInv
<1>. QED BY <1>1, InitEstablishesGauge, StepPreservesGauge, PTL DEF Spec

-----------------------------------------------------------------------------
(* Where the events are.                                                   *)

\* Of the n events sent A are analysed, W in the worker's hands, Q queued, L
\* kept aside by the loop, V in the window, R in the ingest channel, and S
\* shed, O overwritten, U not sampled, X lost: each of them is in one place,
\* and along the way the earlier events of a trace are the further ones.
Kept(n, A, W, Q, L, V, R, S, O, U, X) ==
    LET held == W \cup Q \cup L \cup V \cup R
        all  == A \cup held \cup S \cup O \cup U \cup X
    IN /\ all \subseteq Event
       /\ \A e \in all : e.id <= n
       /\ \A e, f \in all : e.id = f.id => e = f
       /\ \A i \in 1..n : \E e \in all : e.id = i
       /\ Before(A, held) /\ Before(W, Q \cup L \cup V \cup R)
       /\ Before(Q, L \cup V \cup R) /\ Before(L, V \cup R) /\ Before(V, R)
       /\ (A \cup held) \cap (S \cup O \cup U \cup X) = {}
       /\ S \cap (O \cup U \cup X) = {} /\ O \cap (U \cup X) = {} /\ U \cap X = {}

\* New events are accepted.
LEMMA KeptAccepts ==
  ASSUME NEW n \in Nat, NEW A, NEW W, NEW Q, NEW L, NEW V, NEW R, NEW S, NEW O, NEW U, NEW X,
         Kept(n, A, W, Q, L, V, R, S, O, U, X),
         NEW m \in Nat, n <= m, NEW B \in SUBSET Event,
         \A e \in B : n < e.id /\ e.id <= m,
         \A e, f \in B : e.id = f.id => e = f,
         \A i \in (n + 1)..m : \E e \in B : e.id = i
  PROVE  Kept(m, A, W, Q, L, V, R \cup B, S, O, U, X)
<1>1. PICK all : all = A \cup (W \cup Q \cup L \cup V \cup R) \cup S \cup O \cup U \cup X
  OBVIOUS
<1>2. /\ all \subseteq Event
      /\ \A e \in all : e.id <= n
      /\ \A e, f \in all : e.id = f.id => e = f
      /\ \A i \in 1..n : \E e \in all : e.id = i
  BY <1>1 DEF Kept
<1>3. \A e \in Event : e.id \in Nat
  BY DEF Event, EventIds
<1>4. /\ all \cup B \subseteq Event
      /\ \A e \in all \cup B : e.id <= m
      /\ \A e, f \in all \cup B : e.id = f.id => e = f
      /\ \A e \in all, f \in B : e.id < f.id
  BY <1>2, <1>3
<1>5. \A i \in 1..m : \E e \in all \cup B : e.id = i
  <2>1. \A i \in 1..m : i \in 1..n \/ i \in (n + 1)..m
    OBVIOUS
  <2> QED
    BY <1>2, <2>1
<1>6. all \cup B = A \cup (W \cup Q \cup L \cup V \cup (R \cup B)) \cup S \cup O \cup U \cup X
  BY <1>1
<1>7. all \cap B = {}
  BY <1>2, <1>3, <1>4
<1>8. /\ Before(A, B) /\ Before(W, B) /\ Before(Q, B) /\ Before(L, B) /\ Before(V, B)
  BY <1>1, <1>4 DEF Before
<1>9. /\ Before(A, W \cup Q \cup L \cup V \cup (R \cup B)) /\ Before(W, Q \cup L \cup V \cup (R \cup B))
      /\ Before(Q, L \cup V \cup (R \cup B)) /\ Before(L, V \cup (R \cup B)) /\ Before(V, R \cup B)
  BY <1>8 DEF Kept, Before
<1>10. /\ (A \cup (W \cup Q \cup L \cup V \cup (R \cup B))) \cap (S \cup O \cup U \cup X) = {}
       /\ S \cap (O \cup U \cup X) = {} /\ O \cap (U \cup X) = {} /\ U \cap X = {}
  BY <1>1, <1>7 DEF Kept
<1> QED
  BY <1>4, <1>5, <1>6, <1>9, <1>10 DEF Kept

\* The next batch B goes through the window, which keeps V2 of what is sampled
\* of it, K, evicts E and has its rings overwrite G.
LEMMA KeptIngests ==
  ASSUME NEW n, NEW A, NEW W, NEW Q, NEW L, NEW V, NEW R, NEW S, NEW O, NEW U, NEW X,
         Kept(n, A, W, Q, L, V, R, S, O, U, X),
         NEW B, NEW R2, R = B \cup R2, Before(B, R2), NEW K \in SUBSET B,
         NEW E, NEW V2, NEW G, V \cup K = E \cup V2 \cup G,
         Before(E, V2), G \cap (E \cup V2) = {}
  PROVE  Kept(n, A, W, Q, L \cup E, V2, R2, S, O \cup G, U \cup (B \ K), X)
<1>1. PICK all : all = A \cup (W \cup Q \cup L \cup V \cup R) \cup S \cup O \cup U \cup X
  OBVIOUS
<1>2. /\ all \subseteq Event
      /\ \A e \in all : e.id <= n
      /\ \A e, f \in all : e.id = f.id => e = f
      /\ \A i \in 1..n : \E e \in all : e.id = i
  BY <1>1 DEF Kept
<1>3. all = A \cup (W \cup Q \cup (L \cup E) \cup V2 \cup R2) \cup S \cup (O \cup G)
              \cup (U \cup (B \ K)) \cup X
  BY <1>1
<1>4. /\ Before(A, V) /\ Before(A, R) /\ Before(W, V) /\ Before(W, R)
      /\ Before(Q, V) /\ Before(Q, R) /\ Before(L, V) /\ Before(L, R) /\ Before(V, R)
      /\ Before(A, W) /\ Before(A, Q) /\ Before(A, L) /\ Before(W, Q) /\ Before(W, L)
      /\ Before(Q, L)
  BY DEF Kept, Before
<1>5. E \subseteq V \cup K /\ V2 \subseteq V \cup K /\ R2 \subseteq R /\ K \subseteq R /\ G \subseteq V \cup K
  OBVIOUS
<1>6. Before(K, R2)
  BY DEF Before
<1>7. /\ Before(A, W \cup Q \cup (L \cup E) \cup V2 \cup R2)
      /\ Before(W, Q \cup (L \cup E) \cup V2 \cup R2)
      /\ Before(Q, (L \cup E) \cup V2 \cup R2)
  BY <1>4, <1>5 DEF Before
<1>8. Before(L \cup E, V2 \cup R2) /\ Before(V2, R2)
  BY <1>4, <1>5, <1>6 DEF Before
<1>9. V \subseteq Event /\ B \subseteq Event /\ W \subseteq Event /\ Q \subseteq Event
      /\ L \subseteq Event /\ A \subseteq Event /\ R \subseteq Event
  BY <1>1, <1>2
<1>10. /\ V \cap R = {} /\ L \cap V = {} /\ L \cap R = {} /\ Q \cap V = {} /\ Q \cap R = {}
       /\ W \cap V = {} /\ W \cap R = {} /\ A \cap V = {} /\ A \cap R = {} /\ B \cap R2 = {}
  BY <1>4, <1>9, BeforeIsStrict
<1>11. /\ (A \cup (W \cup Q \cup L \cup V \cup R)) \cap (S \cup O \cup U \cup X) = {}
       /\ S \cap (O \cup U \cup X) = {} /\ O \cap (U \cup X) = {} /\ U \cap X = {}
  BY DEF Kept
<1>12. (B \ K) \cap (E \cup V2 \cup G) = {}
  BY <1>10
<1>13. G \cap (A \cup W \cup Q \cup L \cup R2) = {} /\ (B \ K) \cap (A \cup W \cup Q \cup L \cup R2) = {}
  BY <1>5, <1>10
<1>14. /\ (A \cup (W \cup Q \cup (L \cup E) \cup V2 \cup R2))
            \cap (S \cup (O \cup G) \cup (U \cup (B \ K)) \cup X) = {}
       /\ S \cap ((O \cup G) \cup (U \cup (B \ K)) \cup X) = {}
       /\ (O \cup G) \cap ((U \cup (B \ K)) \cup X) = {} /\ (U \cup (B \ K)) \cap X = {}
  <2>1. \A e \in G \cup B : e \notin S /\ e \notin O /\ e \notin U /\ e \notin X
    BY <1>5, <1>11
  <2>2. \A e \in E \cup V2 : e \notin S /\ e \notin O /\ e \notin U /\ e \notin X
    BY <1>5, <1>11
  <2> QED
    BY <1>11, <1>12, <1>13, <2>1, <2>2
<1> QED
  BY <1>2, <1>3, <1>7, <1>8, <1>14 DEF Kept

\* The window lets E go and keeps V2.
LEMMA KeptSweeps ==
  ASSUME NEW n, NEW A, NEW W, NEW Q, NEW L, NEW V, NEW R, NEW S, NEW O, NEW U, NEW X,
         Kept(n, A, W, Q, L, V, R, S, O, U, X),
         NEW E, NEW V2, V = E \cup V2, Before(E, V2)
  PROVE  Kept(n, A, W, Q, L \cup E, V2, R, S, O, U, X)
<1>1. A \cup (W \cup Q \cup (L \cup E) \cup V2 \cup R) \cup S \cup O \cup U \cup X
        = A \cup (W \cup Q \cup L \cup V \cup R) \cup S \cup O \cup U \cup X
  OBVIOUS
<1>2. W \cup Q \cup (L \cup E) \cup V2 \cup R = W \cup Q \cup L \cup V \cup R
  OBVIOUS
<1>3. /\ Q \cup (L \cup E) \cup V2 \cup R = Q \cup L \cup V \cup R
      /\ (L \cup E) \cup V2 \cup R = L \cup V \cup R
  OBVIOUS
<1>4. Before(L \cup E, V2 \cup R) /\ Before(V2, R)
  BY DEF Kept, Before
<1> QED
  BY <1>1, <1>2, <1>3, <1>4 DEF Kept

\* What the loop has kept aside is queued.
LEMMA KeptSends ==
  ASSUME NEW n, NEW A, NEW W, NEW Q, NEW L, NEW V, NEW R, NEW S, NEW O, NEW U, NEW X,
         Kept(n, A, W, Q, L, V, R, S, O, U, X)
  PROVE  Kept(n, A, W, Q \cup L, {}, V, R, S, O, U, X)
<1>1. /\ W \cup (Q \cup L) \cup {} \cup V \cup R = W \cup Q \cup L \cup V \cup R
      /\ (Q \cup L) \cup {} \cup V \cup R = Q \cup L \cup V \cup R
  OBVIOUS
<1>2. Before(Q \cup L, {} \cup V \cup R) /\ Before({}, V \cup R)
  BY DEF Kept, Before
<1> QED
  BY <1>1, <1>2 DEF Kept

\* What the loop has kept aside is shed.
LEMMA KeptSheds ==
  ASSUME NEW n, NEW A, NEW W, NEW Q, NEW L, NEW V, NEW R, NEW S, NEW O, NEW U, NEW X,
         Kept(n, A, W, Q, L, V, R, S, O, U, X)
  PROVE  Kept(n, A, W, Q, {}, V, R, S \cup L, O, U, X)
<1>1. PICK all : all = A \cup (W \cup Q \cup L \cup V \cup R) \cup S \cup O \cup U \cup X
  OBVIOUS
<1>2. /\ all \subseteq Event
      /\ \A e \in all : e.id <= n
      /\ \A e, f \in all : e.id = f.id => e = f
      /\ \A i \in 1..n : \E e \in all : e.id = i
  BY <1>1 DEF Kept
<1>3. all = A \cup (W \cup Q \cup {} \cup V \cup R) \cup (S \cup L) \cup O \cup U \cup X
  BY <1>1
<1>4. /\ Before(A, W \cup Q \cup {} \cup V \cup R) /\ Before(W, Q \cup {} \cup V \cup R)
      /\ Before(Q, {} \cup V \cup R) /\ Before({}, V \cup R) /\ Before(V, R)
  BY DEF Kept, Before
<1>5. /\ Before(A, L) /\ Before(W, L) /\ Before(Q, L) /\ Before(L, V) /\ Before(L, R)
  BY DEF Kept, Before
<1>6. /\ A \subseteq Event /\ W \subseteq Event /\ Q \subseteq Event /\ L \subseteq Event
  BY <1>1, <1>2
<1>7. L \cap (A \cup (W \cup Q \cup V \cup R)) = {}
  BY <1>5, <1>6, BeforeIsStrict
<1>8. /\ (A \cup (W \cup Q \cup L \cup V \cup R)) \cap (S \cup O \cup U \cup X) = {}
      /\ S \cap (O \cup U \cup X) = {} /\ O \cap (U \cup X) = {} /\ U \cap X = {}
  BY DEF Kept
<1>9. /\ (A \cup (W \cup Q \cup {} \cup V \cup R)) \cap ((S \cup L) \cup O \cup U \cup X) = {}
      /\ (S \cup L) \cap (O \cup U \cup X) = {}
  BY <1>7, <1>8
<1> QED
  BY <1>2, <1>3, <1>4, <1>8, <1>9 DEF Kept

\* The idle worker takes W2 off the queue.
LEMMA KeptReceives ==
  ASSUME NEW n, NEW A, NEW Q, NEW L, NEW V, NEW R, NEW S, NEW O, NEW U, NEW X,
         Kept(n, A, {}, Q, L, V, R, S, O, U, X),
         NEW W2, NEW Q2, Q = W2 \cup Q2, Before(W2, Q2)
  PROVE  Kept(n, A, W2, Q2, L, V, R, S, O, U, X)
<1>1. W2 \cup Q2 \cup L \cup V \cup R = {} \cup Q \cup L \cup V \cup R
  OBVIOUS
<1>2. Before(W2, Q2 \cup L \cup V \cup R) /\ Before(Q2, L \cup V \cup R)
  BY DEF Kept, Before
<1> QED
  BY <1>1, <1>2 DEF Kept

\* The worker's batch is analysed.
LEMMA KeptAnalyses ==
  ASSUME NEW n, NEW A, NEW W, NEW Q, NEW L, NEW V, NEW R, NEW S, NEW O, NEW U, NEW X,
         Kept(n, A, W, Q, L, V, R, S, O, U, X)
  PROVE  Kept(n, A \cup W, {}, Q, L, V, R, S, O, U, X)
<1>1. /\ (A \cup W) \cup ({} \cup Q \cup L \cup V \cup R) = A \cup (W \cup Q \cup L \cup V \cup R)
      /\ (A \cup W) \cup ({} \cup Q \cup L \cup V \cup R) \cup S \cup O \cup U \cup X
           = A \cup (W \cup Q \cup L \cup V \cup R) \cup S \cup O \cup U \cup X
  OBVIOUS
<1>2. Before(A \cup W, {} \cup Q \cup L \cup V \cup R) /\ Before({}, Q \cup L \cup V \cup R)
  BY DEF Kept, Before
<1> QED
  BY <1>1, <1>2 DEF Kept

\* The worker panics, and its batch and the queue are gone.
LEMMA KeptLoses ==
  ASSUME NEW n, NEW A, NEW W, NEW Q, NEW L, NEW V, NEW R, NEW S, NEW O, NEW U, NEW X,
         Kept(n, A, W, Q, L, V, R, S, O, U, X)
  PROVE  Kept(n, A, {}, {}, L, V, R, S, O, U, X \cup W \cup Q)
<1>1. PICK all : all = A \cup (W \cup Q \cup L \cup V \cup R) \cup S \cup O \cup U \cup X
  OBVIOUS
<1>2. /\ all \subseteq Event
      /\ \A e \in all : e.id <= n
      /\ \A e, f \in all : e.id = f.id => e = f
      /\ \A i \in 1..n : \E e \in all : e.id = i
  BY <1>1 DEF Kept
<1>3. all = A \cup ({} \cup {} \cup L \cup V \cup R) \cup S \cup O \cup U \cup (X \cup W \cup Q)
  BY <1>1
<1>4. /\ Before(A, {} \cup {} \cup L \cup V \cup R) /\ Before({}, {} \cup L \cup V \cup R)
      /\ Before({}, L \cup V \cup R) /\ Before(L, V \cup R) /\ Before(V, R)
  BY DEF Kept, Before
<1>5. /\ Before(A, W) /\ Before(A, Q) /\ Before(W, L) /\ Before(W, V) /\ Before(W, R)
      /\ Before(Q, L) /\ Before(Q, V) /\ Before(Q, R)
  BY DEF Kept, Before
<1>6. A \subseteq Event /\ W \subseteq Event /\ Q \subseteq Event
  BY <1>1, <1>2
<1>7. (W \cup Q) \cap (A \cup L \cup V \cup R) = {}
  BY <1>5, <1>6, BeforeIsStrict
<1>8. /\ (A \cup (W \cup Q \cup L \cup V \cup R)) \cap (S \cup O \cup U \cup X) = {}
      /\ S \cap (O \cup U \cup X) = {} /\ O \cap (U \cup X) = {} /\ U \cap X = {}
  BY DEF Kept
<1>9. /\ (A \cup ({} \cup {} \cup L \cup V \cup R)) \cap (S \cup O \cup U \cup (X \cup W \cup Q)) = {}
      /\ S \cap (O \cup U \cup (X \cup W \cup Q)) = {}
      /\ O \cap (U \cup (X \cup W \cup Q)) = {} /\ U \cap (X \cup W \cup Q) = {}
  BY <1>7, <1>8
<1> QED
  BY <1>2, <1>3, <1>4, <1>9 DEF Kept

-----------------------------------------------------------------------------
(* The inductive invariant.                                                *)

Ranges ==
    /\ sent \in 0..MaxEvents
    /\ Len(rx) <= RxCapacity /\ Len(queue) <= QueueCapacity
    /\ worker \in {"waiting", "received", "analysing", "finished", "panicked"}
    /\ phase \in {"serving", "closing", "sending", "counting", "joining",
                  "stopped", "failed"}

\* Every place on the way holds its events in order.
Stations ==
    /\ Batched(rx)
    /\ Buffers(window) /\ Len(window) <= MaxActiveTraces
    /\ Sorted(carried) /\ Queued(queue) /\ Sorted(busy)
    /\ analysed \in Seq(Event) /\ InOrder(analysed)

\* No event is behind a later one of its trace, and none is in two places.
Whereabouts ==
    Kept(sent, ToSet(analysed), EventsIn(busy), AllIn(queue), EventsIn(carried),
         EventsIn(window), EventsIn(rx), shed, overwritten, unsampled, lost)

\* What the loop and the worker have left behind at each of their steps.
Progress ==
    /\ worker \in {"waiting", "finished", "panicked"} => busy = <<>>
    /\ worker = "finished" => queue = <<>> /\ phase \in {"joining", "stopped"}
    /\ phase \in {"serving", "counting", "joining", "stopped"} => carried = <<>>
    /\ phase \in {"sending", "counting", "joining", "stopped"} => rx = <<>> /\ window = <<>>
    /\ phase = "stopped" => worker \in {"finished", "panicked"}
    /\ phase = "failed" => worker = "panicked"

PipelineInv == Ranges /\ Stations /\ Whereabouts /\ Progress

\* What the loop hands over without waiting is queued or shed.
LEMMA EnqueueKeeps ==
  ASSUME NEW fs, Sorted(fs), EnqueueForAnalysis(fs), Queued(queue), Len(queue) <= QueueCapacity,
         NEW n, NEW A, NEW W, NEW V, NEW R, NEW O, NEW U, NEW X,
         Kept(n, A, W, AllIn(queue), EventsIn(fs), V, R, shed, O, U, X)
  PROVE  /\ Queued(queue') /\ Len(queue') <= QueueCapacity
         /\ Kept(n, A, W, AllIn(queue'), {}, V, R, shed', O, U, X)
         /\ queue' = queue \/ WorkerAlive
<1>1. CASE fs = <<>>
  <2>1. queue' = queue /\ shed' = shed
    BY <1>1 DEF EnqueueForAnalysis
  <2>2. EventsIn(fs) = {}
    BY <1>1, NothingSorted
  <2> QED
    BY <2>1, <2>2
<1>2. CASE /\ WorkerAlive /\ Len(queue) < QueueCapacity
           /\ queue' = Append(queue, fs) /\ shed' = shed
  <2>1. Before(AllIn(queue), EventsIn(fs))
    BY DEF Kept, Before
  <2>2. /\ Queued(queue')
        /\ Len(queue') = Len(queue) + 1 /\ Len(queue) \in Nat
        /\ AllIn(queue') = AllIn(queue) \cup EventsIn(fs)
    BY <1>2, <2>1, QueuedAppend
  <2>3. Kept(n, A, W, AllIn(queue) \cup EventsIn(fs), {}, V, R, shed, O, U, X)
    BY KeptSends
  <2>4. Len(queue') <= QueueCapacity
    BY <1>2, <2>2, PipelineAssumption
  <2> QED
    BY <1>2, <2>2, <2>3, <2>4
<1>3. CASE queue' = queue /\ shed' = shed \cup EventsIn(fs)
  <2>1. Kept(n, A, W, AllIn(queue), {}, V, R, shed \cup EventsIn(fs), O, U, X)
    BY KeptSheds
  <2> QED
    BY <1>3, <2>1
<1> QED
  BY <1>1, <1>2, <1>3 DEF EnqueueForAnalysis

\* The next batch of the ingest channel goes through the window.
LEMMA IngestKeeps ==
  ASSUME PipelineInv, rx # <<>>, NEW result \in Ingested, TakeIn(result)
  PROVE  /\ Batched(rx') /\ Len(rx') <= RxCapacity
         /\ Buffers(window') /\ Len(window') <= MaxActiveTraces
         /\ Sorted(result.evicted)
         /\ Before(EventsIn(carried), EventsIn(result.evicted))
         /\ Kept(sent, ToSet(analysed), EventsIn(busy), AllIn(queue),
                 EventsIn(carried) \cup EventsIn(result.evicted),
                 EventsIn(window'), EventsIn(rx'), shed, overwritten', unsampled', lost)
<1>1. PICK batch, context, events, order :
         /\ batch = Head(rx) /\ context = batch.context \cap SampledTraces
         /\ events = SampledOf(batch.events)
         /\ order \in RetentionOrders(window, context)
         /\ result = IngestInto(window, events, context, order)
  BY DEF Ingested
<1>2. /\ Batched(rx) /\ Buffers(window) /\ Len(window) <= MaxActiveTraces
      /\ Whereabouts /\ Len(rx) <= RxCapacity
  BY DEF PipelineInv, Stations, Ranges
<1>3. /\ rx' = Tail(rx) /\ window' = result.window
      /\ overwritten' = overwritten \cup result.overwritten
      /\ unsampled' = unsampled \cup {e \in ToSet(batch.events) : ~ Sampled(e)}
  BY <1>1 DEF TakeIn
<1>4. PICK B, R, R2, K, V, E, V2, G, L :
         /\ B = ToSet(batch.events) /\ R = EventsIn(rx) /\ R2 = EventsIn(rx')
         /\ K = ToSet(events) /\ V = EventsIn(window) /\ L = EventsIn(carried)
         /\ E = EventsIn(result.evicted) /\ V2 = EventsIn(result.window)
         /\ G = result.overwritten
  OBVIOUS
<1>5. /\ Batched(rx') /\ Fit(batch)
      /\ Len(rx') <= Len(rx)
      /\ R = B \cup R2 /\ Before(B, R2)
  BY <1>1, <1>2, <1>3, <1>4, BatchedTail
<1>6. /\ batch.events \in Seq(Event) /\ InOrder(batch.events)
      /\ batch.context \subseteq Traces /\ IsFiniteSet(batch.context)
      /\ \A e \in ToSet(batch.events) : e.informed => e.trace \in batch.context
  BY <1>5 DEF Fit
<1>7. /\ events \in Seq(Event) /\ InOrder(events)
      /\ K = {e \in B : Sampled(e)}
  BY <1>1, <1>4, <1>6, SampleFacts
<1>8. context \subseteq Traces /\ IsFiniteSet(context) /\ order \in Seq(Traces)
  <2>1. context \subseteq batch.context
    BY <1>1
  <2>2. context \subseteq Traces /\ IsFiniteSet(context)
    BY <1>6, <2>1, FS_Subset
  <2> QED
    BY <1>1, <2>2, OrdersAreSequences
<1>9. \A e \in ToSet(events) : e.informed => e.trace \in context
  BY <1>1, <1>4, <1>6, <1>7 DEF Sampled
<1>10. Kept(sent, ToSet(analysed), EventsIn(busy), AllIn(queue), L, V, R,
            shed, overwritten, unsampled, lost)
  BY <1>2, <1>4 DEF Whereabouts
<1>11. Before(V, R) /\ Before(L, V) /\ Before(L, R)
  BY <1>10 DEF Kept, Before
<1>12. K \subseteq B /\ K \subseteq R
  BY <1>5, <1>7
<1>13. Before(EventsIn(window), ToSet(events))
  BY <1>4, <1>11, <1>12 DEF Before
<1>14. AccountsFor(result, EventsIn(window) \cup ToSet(events))
  BY <1>1, <1>2, <1>7, <1>8, <1>9, <1>13, IngestAccounts
<1>15. Accounts(result.window, result.evicted, result.overwritten, result.stamped, V \cup K)
  BY <1>4, <1>14 DEF AccountsFor
<1>16. /\ Buffers(result.window) /\ Len(result.window) <= MaxActiveTraces
       /\ Sorted(result.evicted)
       /\ Before(E, V2) /\ G \cap (E \cup V2) = {}
       /\ V \cup K = E \cup V2 \cup G
  BY <1>4, <1>15 DEF Accounts
<1>17. Kept(sent, ToSet(analysed), EventsIn(busy), AllIn(queue), L \cup E, V2, R2,
            shed, overwritten \cup G, unsampled \cup (B \ K), lost)
  BY <1>5, <1>10, <1>12, <1>16, KeptIngests
<1>18. {e \in ToSet(batch.events) : ~ Sampled(e)} = B \ K
  BY <1>4, <1>7
<1>19. Before(L, E)
  BY <1>11, <1>12, <1>16 DEF Before
<1>20. Len(rx') <= RxCapacity
  <2>1. Len(rx) \in Nat /\ Len(rx') \in Nat
    BY <1>2, <1>5 DEF Batched
  <2> QED
    BY <1>2, <1>5, <2>1, PipelineAssumption
<1> QED
  BY <1>3, <1>4, <1>5, <1>16, <1>17, <1>18, <1>19, <1>20

-----------------------------------------------------------------------------
(* The steps.                                                              *)

\* The events of one payload, as the listener numbers them.
IsPayload(events, first, traces, context) ==
    events = [i \in DOMAIN traces |->
                 [id |-> first + i, trace |-> traces[i], informed |-> traces[i] \in context]]

\* They fit the channel and have the next ids.
LEMMA PayloadFacts ==
  ASSUME NEW n \in Nat, NEW first \in Nat, NEW traces \in [1..n -> Traces],
         first + n <= MaxEvents, NEW context \in Contexts,
         NEW events, IsPayload(events, first, traces, context)
  PROVE  /\ Fit([events |-> events, context |-> context])
         /\ Len(traces) = n
         /\ ToSet(events) \subseteq Event
         /\ \A e \in ToSet(events) : first < e.id /\ e.id <= first + n
         /\ \A e, f \in ToSet(events) : e.id = f.id => e = f
         /\ \A i \in (first + 1)..(first + n) : \E e \in ToSet(events) : e.id = i
<1>2. /\ DOMAIN events = 1..n
      /\ \A i \in 1..n : /\ events[i] = [id |-> first + i, trace |-> traces[i],
                                         informed |-> traces[i] \in context]
                         /\ events[i].id = first + i /\ events[i].trace = traces[i]
                         /\ events[i].informed = (traces[i] \in context)
  BY DEF IsPayload
<1>3. Len(traces) = n /\ Len(events) = n
  BY DEF IsPayload
<1>4. \A i \in 1..n : events[i] \in Event
  <2> SUFFICES ASSUME NEW i \in 1..n PROVE events[i] \in Event
    OBVIOUS
  <2>1. first + i \in EventIds
    BY PipelineAssumption DEF EventIds
  <2>2. traces[i] \in Traces
    OBVIOUS
  <2>3. [id |-> first + i, trace |-> traces[i], informed |-> traces[i] \in context] \in Event
    BY <2>1, <2>2 DEF Event
  <2> QED
    BY <1>2, <2>3
<1>5. events \in Seq(Event)
  <2>1. events = [i \in 1..n |-> events[i]]
    BY DEF IsPayload
  <2> QED
    BY <1>2, <1>4, <2>1
<1>6. /\ ToSet(events) \subseteq Event
      /\ \A i \in 1..n : events[i] \in ToSet(events)
      /\ \A e \in ToSet(events) : \E i \in 1..n : e = events[i]
  BY <1>3, <1>5, InSequence
<1>7. InOrder(events)
  BY <1>2, <1>3 DEF InOrder
<1>8. /\ context \subseteq Traces /\ IsFiniteSet(context)
      /\ \A e \in ToSet(events) : e.informed => e.trace \in context
  <2>1. context \subseteq Traces /\ IsFiniteSet(context)
    BY PipelineAssumption
  <2>2. \A i \in 1..n : events[i].informed => events[i].trace \in context
    BY <1>2
  <2> QED
    BY <1>6, <2>1, <2>2
<1>9. \A e \in ToSet(events) : first < e.id /\ e.id <= first + n
  BY <1>2, <1>6
<1>10. ASSUME NEW e \in ToSet(events), NEW f \in ToSet(events), e.id = f.id PROVE e = f
  <2>1. PICK i \in 1..n : e = events[i]
    BY <1>6
  <2>2. PICK j \in 1..n : f = events[j]
    BY <1>6
  <2>3. first + i = first + j
    BY <1>2, <1>10, <2>1, <2>2
  <2>4. i = j
    BY <2>3
  <2> QED
    BY <2>1, <2>2, <2>4
<1>11. ASSUME NEW i \in (first + 1)..(first + n) PROVE \E e \in ToSet(events) : e.id = i
  <2>1. i - first \in 1..n /\ first + (i - first) = i
    OBVIOUS
  <2>2. events[i - first] \in ToSet(events) /\ events[i - first].id = first + (i - first)
    BY <1>2, <1>6, <2>1
  <2> QED
    BY <2>1, <2>2
<1>12. Fit([events |-> events, context |-> context])
  BY <1>5, <1>7, <1>8 DEF Fit
<1> QED
  BY <1>3, <1>6, <1>9, <1>10, <1>11, <1>12

\* A listener sends one batch.
LEMMA AcceptKeeps ==
  ASSUME PipelineInv, NEW m \in 0..MaxBatch, NEW traces \in [1..m -> Traces],
         NEW context \in Contexts, Accept(traces, context)
  PROVE  PipelineInv'
<1>1. PICK events, batch :
         /\ IsPayload(events, sent, traces, context)
         /\ batch = [events |-> events, context |-> context]
  BY DEF IsPayload
<1>2. /\ rx' = Append(rx, batch) /\ sent' = sent + Len(traces)
      /\ sent + Len(traces) <= MaxEvents /\ Len(rx) < RxCapacity
      /\ ChannelOpen
      /\ UNCHANGED <<window, carried, queue, busy, worker, depth, phase,
                     analysed, shed, overwritten, unsampled, lost>>
  BY <1>1 DEF Accept, IsPayload
<1>3. m \in Nat /\ sent \in Nat /\ MaxEvents \in Nat
  BY PipelineAssumption DEF PipelineInv, Ranges
<1>4. Len(traces) = m
  BY <1>3
<1>5. /\ Fit(batch) /\ batch.events = events
      /\ ToSet(events) \subseteq Event
      /\ \A e \in ToSet(events) : sent < e.id /\ e.id <= sent + m
      /\ \A e, f \in ToSet(events) : e.id = f.id => e = f
      /\ \A i \in (sent + 1)..(sent + m) : \E e \in ToSet(events) : e.id = i
  <2>1. sent + m <= MaxEvents
    BY <1>2, <1>4
  <2>2. batch.events = events
    BY <1>1
  <2>3. /\ Fit([events |-> events, context |-> context])
        /\ ToSet(events) \subseteq Event
        /\ \A e \in ToSet(events) : sent < e.id /\ e.id <= sent + m
        /\ \A e, f \in ToSet(events) : e.id = f.id => e = f
        /\ \A i \in (sent + 1)..(sent + m) : \E e \in ToSet(events) : e.id = i
    BY <1>1, <1>3, <2>1, PayloadFacts
  <2> QED
    BY <1>1, <2>2, <2>3
<1>6. Kept(sent, ToSet(analysed), EventsIn(busy), AllIn(queue), EventsIn(carried),
           EventsIn(window), EventsIn(rx), shed, overwritten, unsampled, lost)
  BY DEF PipelineInv, Whereabouts
<1>7. /\ EventsIn(rx) \subseteq Event
      /\ \A e \in EventsIn(rx) : e.id <= sent
  BY <1>6 DEF Kept
<1>8. Before(EventsIn(rx), ToSet(events))
  <2>1. \A e \in Event : e.id \in Nat
    BY DEF Event, EventIds
  <2> QED
    BY <1>3, <1>5, <1>7, <2>1 DEF Before
<1>9. /\ Batched(rx') /\ Len(rx') = Len(rx) + 1 /\ Len(rx) \in Nat
      /\ EventsIn(rx') = EventsIn(rx) \cup ToSet(events)
  BY <1>2, <1>5, <1>8, BatchedAppend DEF PipelineInv, Stations
<1>10. Kept(sent', ToSet(analysed), EventsIn(busy), AllIn(queue), EventsIn(carried),
            EventsIn(window), EventsIn(rx'), shed, overwritten, unsampled, lost)
  <2>1. sent + m \in Nat /\ sent <= sent + m
    BY <1>3
  <2> QED
    BY <1>2, <1>3, <1>4, <1>5, <1>6, <1>9, <2>1, KeptAccepts
<1>11. Ranges'
  BY <1>2, <1>3, <1>4, <1>9, PipelineAssumption DEF PipelineInv, Ranges
<1>12. Stations'
  BY <1>2, <1>9 DEF PipelineInv, Stations
<1>13. Whereabouts'
  BY <1>2, <1>10 DEF Whereabouts
<1>14. Progress'
  BY <1>2 DEF PipelineInv, Progress, ChannelOpen
<1> QED
  BY <1>11, <1>12, <1>13, <1>14 DEF PipelineInv

\* The loop ingests a batch while it serves.
LEMMA IngestBatchKeeps == ASSUME PipelineInv, IngestBatch PROVE PipelineInv'
<1>1. PICK result \in Ingested : TakeIn(result) /\ EnqueueForAnalysis(result.evicted)
  BY DEF IngestBatch
<1>2. /\ phase = "serving" /\ rx # <<>>
      /\ UNCHANGED <<sent, carried, busy, worker, phase, analysed, lost>>
  BY DEF IngestBatch
<1>3. /\ Batched(rx') /\ Len(rx') <= RxCapacity
      /\ Buffers(window') /\ Len(window') <= MaxActiveTraces
      /\ Sorted(result.evicted)
      /\ Kept(sent, ToSet(analysed), EventsIn(busy), AllIn(queue),
              EventsIn(carried) \cup EventsIn(result.evicted),
              EventsIn(window'), EventsIn(rx'), shed, overwritten', unsampled', lost)
  BY <1>1, <1>2, IngestKeeps
<1>4. carried = <<>> /\ EventsIn(carried) = {} /\ worker # "finished"
  BY <1>2, NothingSorted DEF PipelineInv, Progress
<1>5. Kept(sent, ToSet(analysed), EventsIn(busy), AllIn(queue), EventsIn(result.evicted),
           EventsIn(window'), EventsIn(rx'), shed, overwritten', unsampled', lost)
  BY <1>3, <1>4
<1>6. /\ Queued(queue') /\ Len(queue') <= QueueCapacity
      /\ Kept(sent, ToSet(analysed), EventsIn(busy), AllIn(queue'), {},
              EventsIn(window'), EventsIn(rx'), shed', overwritten', unsampled', lost)
  BY <1>1, <1>3, <1>5, EnqueueKeeps DEF PipelineInv, Ranges, Stations
<1>7. Ranges'
  BY <1>2, <1>3, <1>6 DEF PipelineInv, Ranges
<1>8. Stations'
  BY <1>2, <1>3, <1>6 DEF PipelineInv, Stations
<1>9. Whereabouts'
  BY <1>2, <1>4, <1>6 DEF Whereabouts
<1>10. Progress'
  BY <1>2, <1>4 DEF PipelineInv, Progress
<1> QED
  BY <1>7, <1>8, <1>9, <1>10 DEF PipelineInv

\* The ticker sweeps the window.
LEMMA TickKeeps == ASSUME PipelineInv, Tick PROVE PipelineInv'
<1>1. PICK swept : /\ swept = EvictExpired(window) /\ window' = swept.window
                   /\ EnqueueForAnalysis(swept.expired)
  BY DEF Tick
<1>2. /\ phase = "serving"
      /\ UNCHANGED <<sent, rx, carried, busy, worker, phase,
                     analysed, overwritten, unsampled, lost>>
  BY DEF Tick
<1>3. /\ Buffers(window') /\ Len(window') <= MaxActiveTraces /\ Sorted(swept.expired)
      /\ Before(EventsIn(swept.expired), EventsIn(window'))
      /\ EventsIn(window) = EventsIn(swept.expired) \cup EventsIn(window')
  BY <1>1, EvictExpiredFacts DEF PipelineInv, Stations
<1>4. carried = <<>> /\ EventsIn(carried) = {} /\ worker # "finished"
  BY <1>2, NothingSorted DEF PipelineInv, Progress
<1>5. Kept(sent, ToSet(analysed), EventsIn(busy), AllIn(queue), {},
           EventsIn(window), EventsIn(rx), shed, overwritten, unsampled, lost)
  BY <1>4 DEF PipelineInv, Whereabouts
<1>6. Kept(sent, ToSet(analysed), EventsIn(busy), AllIn(queue), {} \cup EventsIn(swept.expired),
           EventsIn(window'), EventsIn(rx), shed, overwritten, unsampled, lost)
  BY <1>3, <1>5, KeptSweeps
<1>7. {} \cup EventsIn(swept.expired) = EventsIn(swept.expired)
  OBVIOUS
<1>8. /\ Queued(queue') /\ Len(queue') <= QueueCapacity
      /\ Kept(sent, ToSet(analysed), EventsIn(busy), AllIn(queue'), {},
              EventsIn(window'), EventsIn(rx), shed', overwritten, unsampled, lost)
  BY <1>1, <1>3, <1>6, <1>7, EnqueueKeeps DEF PipelineInv, Ranges, Stations
<1>9. Ranges'
  BY <1>2, <1>3, <1>8 DEF PipelineInv, Ranges
<1>10. Stations'
  BY <1>2, <1>3, <1>8 DEF PipelineInv, Stations
<1>11. Whereabouts'
  BY <1>2, <1>4, <1>8 DEF Whereabouts
<1>12. Progress'
  BY <1>2, <1>4 DEF PipelineInv, Progress
<1> QED
  BY <1>9, <1>10, <1>11, <1>12 DEF PipelineInv

\* The shutdown signal.
LEMMA SignalShutdownKeeps == ASSUME PipelineInv, SignalShutdown PROVE PipelineInv'
<1>1. /\ phase = "serving" /\ phase' = "closing"
      /\ UNCHANGED <<sent, rx, window, carried, queue, busy, worker,
                     analysed, shed, overwritten, unsampled, lost>>
  BY DEF SignalShutdown
<1>2. Ranges' /\ Stations' /\ Whereabouts'
  BY <1>1 DEF PipelineInv, Ranges, Stations, Whereabouts
<1>3. Progress'
  BY <1>1 DEF PipelineInv, Progress
<1> QED
  BY <1>2, <1>3 DEF PipelineInv

\* A batch that was in the channel when it was closed.
LEMMA DrainBatchKeeps == ASSUME PipelineInv, DrainBatch PROVE PipelineInv'
<1>1. PICK result \in Ingested : TakeIn(result) /\ carried' = carried \o result.evicted
  BY DEF DrainBatch
<1>2. /\ phase = "closing" /\ rx # <<>>
      /\ UNCHANGED <<sent, queue, busy, worker, phase, analysed, shed, lost>>
  BY DEF DrainBatch
<1>3. /\ Batched(rx') /\ Len(rx') <= RxCapacity
      /\ Buffers(window') /\ Len(window') <= MaxActiveTraces
      /\ Sorted(result.evicted)
      /\ Before(EventsIn(carried), EventsIn(result.evicted))
      /\ Kept(sent, ToSet(analysed), EventsIn(busy), AllIn(queue),
              EventsIn(carried) \cup EventsIn(result.evicted),
              EventsIn(window'), EventsIn(rx'), shed, overwritten', unsampled', lost)
  BY <1>1, <1>2, IngestKeeps
<1>4. Sorted(carried') /\ EventsIn(carried') = EventsIn(carried) \cup EventsIn(result.evicted)
  BY <1>1, <1>3, SortedConcat DEF PipelineInv, Stations
<1>5. Ranges'
  BY <1>2, <1>3 DEF PipelineInv, Ranges
<1>6. Stations'
  BY <1>2, <1>3, <1>4 DEF PipelineInv, Stations
<1>7. Whereabouts'
  BY <1>2, <1>3, <1>4 DEF Whereabouts
<1>8. Progress'
  BY <1>2 DEF PipelineInv, Progress
<1> QED
  BY <1>5, <1>6, <1>7, <1>8 DEF PipelineInv

\* What the window holds at shutdown follows what was evicted while draining.
LEMMA RemainderFacts ==
  ASSUME PipelineInv
  PROVE  /\ Sorted(Remainder)
         /\ EventsIn(Remainder) = EventsIn(carried) \cup EventsIn(window)
<1>1. Sorted(window)
  BY BuffersAreSorted DEF PipelineInv, Stations
<1>2. Sorted(DrainAll(window)) /\ EventsIn(DrainAll(window)) = EventsIn(window)
  BY <1>1, FinishFacts DEF DrainAll
<1>3. Before(EventsIn(carried), EventsIn(window))
  BY DEF PipelineInv, Whereabouts, Kept, Before
<1> QED
  BY <1>2, <1>3, SortedConcat DEF PipelineInv, Stations, Remainder

\* The window is emptied.
LEMMA DrainWindowKeeps == ASSUME PipelineInv, DrainWindow PROVE PipelineInv'
<1>1. /\ phase = "closing" /\ rx = <<>>
      /\ carried' = Remainder /\ window' = <<>>
      /\ \/ carried' = <<>> /\ phase' = "joining"
         \/ phase' = "sending"
      /\ UNCHANGED <<sent, rx, queue, busy, worker, analysed, shed, overwritten,
                     unsampled, lost>>
  BY DEF DrainWindow
<1>2. /\ Sorted(carried')
      /\ EventsIn(carried') = EventsIn(carried) \cup EventsIn(window)
  BY <1>1, RemainderFacts
<1>3. Buffers(window') /\ Len(window') <= MaxActiveTraces /\ EventsIn(window') = {}
  <2>1. Len(<<>>) = 0
    OBVIOUS
  <2> QED
    BY <1>1, <2>1, NothingSorted, WindowAssumption
<1>4. Kept(sent, ToSet(analysed), EventsIn(busy), AllIn(queue),
           EventsIn(carried) \cup EventsIn(window), {}, EventsIn(rx),
           shed, overwritten, unsampled, lost)
  <2>1. Before(EventsIn(window), {}) /\ EventsIn(window) = EventsIn(window) \cup {}
    BY DEF Before
  <2> QED
    BY <2>1, KeptSweeps DEF PipelineInv, Whereabouts
<1>5. Ranges'
  BY <1>1 DEF PipelineInv, Ranges
<1>6. Stations'
  BY <1>1, <1>2, <1>3 DEF PipelineInv, Stations
<1>7. Whereabouts'
  BY <1>1, <1>2, <1>3, <1>4 DEF Whereabouts
<1>8. Progress'
  BY <1>1 DEF PipelineInv, Progress
<1> QED
  BY <1>5, <1>6, <1>7, <1>8 DEF PipelineInv

\* The rest is queued, or shed when the worker is gone.
LEMMA SendRemainderKeeps == ASSUME PipelineInv, SendRemainder PROVE PipelineInv'
<1>1. /\ phase = "sending" /\ carried' = <<>>
      /\ UNCHANGED <<sent, rx, window, busy, worker, analysed, overwritten,
                     unsampled, lost>>
  BY DEF SendRemainder
<1>2. Kept(sent, ToSet(analysed), EventsIn(busy), AllIn(queue), EventsIn(carried),
           EventsIn(window), EventsIn(rx), shed, overwritten, unsampled, lost)
  BY DEF PipelineInv, Whereabouts
<1>3. EventsIn(carried') = {} /\ Sorted(carried')
  BY <1>1, NothingSorted
<1>4. CASE /\ WorkerAlive /\ Len(queue) < QueueCapacity
           /\ queue' = Append(queue, carried) /\ phase' = "counting" /\ shed' = shed
  <2>1. Before(AllIn(queue), EventsIn(carried))
    BY <1>2 DEF Kept, Before
  <2>2. /\ Queued(queue') /\ Len(queue') = Len(queue) + 1 /\ Len(queue) \in Nat
        /\ AllIn(queue') = AllIn(queue) \cup EventsIn(carried)
    BY <1>4, <2>1, QueuedAppend DEF PipelineInv, Stations
  <2>3. Kept(sent, ToSet(analysed), EventsIn(busy), AllIn(queue) \cup EventsIn(carried), {},
             EventsIn(window), EventsIn(rx), shed, overwritten, unsampled, lost)
    BY <1>2, KeptSends
  <2>4. Ranges'
    BY <1>1, <1>4, <2>2, PipelineAssumption DEF PipelineInv, Ranges
  <2>5. Stations'
    BY <1>1, <1>3, <2>2 DEF PipelineInv, Stations
  <2>6. Whereabouts'
    BY <1>1, <1>3, <1>4, <2>2, <2>3 DEF Whereabouts
  <2>7. Progress'
    BY <1>1, <1>4 DEF PipelineInv, Progress, WorkerAlive
  <2> QED
    BY <2>4, <2>5, <2>6, <2>7 DEF PipelineInv
<1>5. CASE /\ ~WorkerAlive /\ queue' = queue
           /\ shed' = shed \cup EventsIn(carried) /\ phase' = "joining"
  <2>1. Kept(sent, ToSet(analysed), EventsIn(busy), AllIn(queue), {},
             EventsIn(window), EventsIn(rx), shed \cup EventsIn(carried),
             overwritten, unsampled, lost)
    BY <1>2, KeptSheds
  <2>2. Ranges'
    BY <1>1, <1>5 DEF PipelineInv, Ranges
  <2>3. Stations'
    BY <1>1, <1>3, <1>5 DEF PipelineInv, Stations
  <2>4. Whereabouts'
    BY <1>1, <1>3, <1>5, <2>1 DEF Whereabouts
  <2>5. Progress'
    BY <1>1, <1>5 DEF PipelineInv, Progress
  <2> QED
    BY <2>2, <2>3, <2>4, <2>5 DEF PipelineInv
<1> QED
  BY <1>4, <1>5 DEF SendRemainder

\* The rest is counted, the worker joined or found stopped, a batch counted
\* by the worker, or the worker leaves: nothing moves.
LEMMA StandstillKeeps ==
  ASSUME PipelineInv,
         CountSent \/ Join \/ NoticeWorkerStopped \/ CountReceived \/ WorkerExit
  PROVE  PipelineInv'
<1>1. UNCHANGED <<sent, rx, window, carried, queue, busy, analysed, shed,
                  overwritten, unsampled, lost>>
  BY DEF CountSent, Join, NoticeWorkerStopped, CountReceived, WorkerExit
<1>2. Stations' /\ Whereabouts'
  BY <1>1 DEF PipelineInv, Stations, Whereabouts
<1>3. Ranges'
  BY <1>1 DEF PipelineInv, Ranges, CountSent, Join, NoticeWorkerStopped,
              CountReceived, WorkerExit
<1>4. Progress'
  BY <1>1 DEF PipelineInv, Progress, CountSent, Join, NoticeWorkerStopped,
              CountReceived, WorkerExit
<1> QED
  BY <1>2, <1>3, <1>4 DEF PipelineInv

\* The worker takes a batch off the queue.
LEMMA ReceiveKeeps == ASSUME PipelineInv, Receive PROVE PipelineInv'
<1>1. /\ worker = "waiting" /\ worker' = "received" /\ queue # <<>>
      /\ busy' = Head(queue) /\ queue' = Tail(queue)
      /\ UNCHANGED <<sent, rx, window, carried, phase, analysed, shed, overwritten,
                     unsampled, lost>>
  BY DEF Receive
<1>2. /\ Queued(queue') /\ Sorted(busy') /\ Len(queue') <= Len(queue)
      /\ AllIn(queue) = EventsIn(busy') \cup AllIn(queue')
      /\ Before(EventsIn(busy'), AllIn(queue'))
  BY <1>1, QueuedTail DEF PipelineInv, Stations
<1>3. EventsIn(busy) = {}
  BY <1>1, NothingSorted DEF PipelineInv, Progress
<1>4. Kept(sent, ToSet(analysed), EventsIn(busy'), AllIn(queue'), EventsIn(carried),
           EventsIn(window), EventsIn(rx), shed, overwritten, unsampled, lost)
  <2>1. Kept(sent, ToSet(analysed), {}, AllIn(queue), EventsIn(carried),
             EventsIn(window), EventsIn(rx), shed, overwritten, unsampled, lost)
    BY <1>3 DEF PipelineInv, Whereabouts
  <2> QED
    BY <1>2, <2>1, KeptReceives
<1>5. Len(queue') <= QueueCapacity
  <2>1. Len(queue) \in Nat /\ Len(queue') \in Nat
    BY <1>2 DEF PipelineInv, Stations, Queued
  <2> QED
    BY <1>2, <2>1, PipelineAssumption DEF PipelineInv, Ranges
<1>6. Ranges'
  BY <1>1, <1>5 DEF PipelineInv, Ranges
<1>7. Stations'
  BY <1>1, <1>2 DEF PipelineInv, Stations
<1>8. Whereabouts'
  BY <1>1, <1>4 DEF Whereabouts
<1>9. Progress'
  BY <1>1 DEF PipelineInv, Progress
<1> QED
  BY <1>6, <1>7, <1>8, <1>9 DEF PipelineInv

\* The worker's batch is analysed, trace by trace.
LEMMA AnalysedGrows ==
  ASSUME PipelineInv, Analyse
  PROVE  /\ analysed' \in Seq(Event) /\ InOrder(analysed')
         /\ ToSet(analysed') = ToSet(analysed) \cup EventsIn(busy)
<1>1. analysed' = analysed \o EventsSequence(busy)
  BY DEF Analyse
<1>2. Kept(sent, ToSet(analysed), EventsIn(busy), AllIn(queue), EventsIn(carried),
           EventsIn(window), EventsIn(rx), shed, overwritten, unsampled, lost)
  BY DEF PipelineInv, Whereabouts
<1>3. /\ EventsSequence(busy) \in Seq(Event) /\ InOrder(EventsSequence(busy))
      /\ ToSet(EventsSequence(busy)) = EventsIn(busy)
  BY EventsSequenceFacts DEF PipelineInv, Stations
<1>4. Before(ToSet(analysed), ToSet(EventsSequence(busy)))
  BY <1>2, <1>3 DEF Kept, Before
<1>5. analysed \in Seq(Event) /\ InOrder(analysed)
  BY DEF PipelineInv, Stations
<1> QED
  BY <1>1, <1>3, <1>4, <1>5, InOrderConcat

\* Its events are where they belong then.
LEMMA AnalyseKeeps == ASSUME PipelineInv, Analyse PROVE PipelineInv'
<1>1. /\ worker = "analysing" /\ worker' = "waiting" /\ busy' = <<>>
      /\ UNCHANGED <<sent, rx, window, carried, queue, phase, shed, overwritten,
                     unsampled, lost>>
  BY DEF Analyse
<1>2. /\ analysed' \in Seq(Event) /\ InOrder(analysed')
      /\ ToSet(analysed') = ToSet(analysed) \cup EventsIn(busy)
  BY AnalysedGrows
<1>3. EventsIn(busy') = {} /\ Sorted(busy')
  BY <1>1, NothingSorted
<1>4. Kept(sent, ToSet(analysed'), {}, AllIn(queue), EventsIn(carried),
           EventsIn(window), EventsIn(rx), shed, overwritten, unsampled, lost)
  BY <1>2, KeptAnalyses DEF PipelineInv, Whereabouts
<1>5. Ranges'
  BY <1>1 DEF PipelineInv, Ranges
<1>6. Stations'
  BY <1>1, <1>2, <1>3 DEF PipelineInv, Stations
<1>7. Whereabouts'
  BY <1>1, <1>3, <1>4 DEF Whereabouts
<1>8. Progress'
  BY <1>1 DEF PipelineInv, Progress
<1> QED
  BY <1>5, <1>6, <1>7, <1>8 DEF PipelineInv

\* The worker panics.
LEMMA PanicKeeps == ASSUME PipelineInv, Panic PROVE PipelineInv'
<1>1. /\ worker = "analysing" /\ worker' = "panicked"
      /\ lost' = lost \cup EventsIn(busy) \cup AllIn(queue)
      /\ busy' = <<>> /\ queue' = <<>>
      /\ UNCHANGED <<sent, rx, window, carried, phase, analysed, shed, overwritten,
                     unsampled>>
  BY DEF Panic, AllIn
<1>2. Kept(sent, ToSet(analysed), {}, {}, EventsIn(carried), EventsIn(window),
           EventsIn(rx), shed, overwritten, unsampled, lost')
  BY <1>1, KeptLoses DEF PipelineInv, Whereabouts
<1>3. EventsIn(busy') = {} /\ Sorted(busy')
  BY <1>1, NothingSorted
<1>4. Queued(queue') /\ Len(queue') <= QueueCapacity /\ AllIn(queue') = {}
  <2>1. <<>> \in Seq(Seq(Fragments)) /\ Len(<<>>) = 0 /\ DOMAIN <<>> = {}
    OBVIOUS
  <2> QED
    BY <1>1, <2>1, PipelineAssumption DEF Queued, AllIn
<1>5. Ranges'
  BY <1>1, <1>4 DEF PipelineInv, Ranges
<1>6. Stations'
  BY <1>1, <1>3, <1>4 DEF PipelineInv, Stations
<1>7. Whereabouts'
  BY <1>1, <1>2, <1>3, <1>4 DEF Whereabouts
<1>8. Progress'
  BY <1>1 DEF PipelineInv, Progress
<1> QED
  BY <1>5, <1>6, <1>7, <1>8 DEF PipelineInv

\* A clock step.
LEMMA AdvanceKeeps == ASSUME PipelineInv, Advance PROVE PipelineInv'
<1>1. /\ phase = "serving" /\ window' = Older(window)
      /\ UNCHANGED <<sent, rx, carried, queue, busy, worker, phase, analysed, shed,
                     overwritten, unsampled, lost>>
  BY DEF Advance
<1>2. /\ Buffers(window') /\ Len(window') = Len(window)
      /\ EventsIn(window') = EventsIn(window)
  BY <1>1, OlderFacts DEF PipelineInv, Stations
<1>3. Ranges'
  BY <1>1 DEF PipelineInv, Ranges
<1>4. Stations'
  BY <1>1, <1>2 DEF PipelineInv, Stations
<1>5. Whereabouts'
  BY <1>1, <1>2 DEF PipelineInv, Whereabouts
<1>6. Progress'
  BY <1>1 DEF PipelineInv, Progress
<1> QED
  BY <1>3, <1>4, <1>5, <1>6 DEF PipelineInv

\* At the start there is nothing anywhere.
LEMMA InitEstablishesInv == ASSUME Init PROVE PipelineInv
<1>1. /\ sent = 0 /\ rx = <<>> /\ window = <<>> /\ carried = <<>> /\ queue = <<>>
      /\ busy = <<>> /\ worker = "waiting" /\ phase = "serving" /\ analysed = <<>>
      /\ shed = {} /\ overwritten = {} /\ unsampled = {} /\ lost = {}
  BY DEF Init
<1>2. Len(<<>>) = 0 /\ DOMAIN <<>> = {} /\ \A S : <<>> \in Seq(S)
  OBVIOUS
<1>3. Ranges
  BY <1>1, <1>2, PipelineAssumption DEF Ranges
<1>4. Stations
  <2>1. Batched(rx) /\ Queued(queue) /\ InOrder(analysed)
    BY <1>1, <1>2 DEF Batched, Queued, InOrder
  <2> QED
    BY <1>1, <1>2, <2>1, NothingSorted, WindowAssumption DEF Stations
<1>5. Whereabouts
  <2>1. /\ EventsIn(rx) = {} /\ EventsIn(window) = {} /\ EventsIn(carried) = {}
        /\ EventsIn(busy) = {}
    BY <1>1, NothingSorted
  <2>2. AllIn(queue) = {}
    BY <1>1, <1>2 DEF AllIn
  <2>3. ToSet(analysed) = {}
    BY <1>1, <1>2 DEF ToSet
  <2>4. Kept(0, {}, {}, {}, {}, {}, {}, {}, {}, {}, {})
    BY DEF Kept, Before
  <2> QED
    BY <1>1, <2>1, <2>2, <2>3, <2>4 DEF Whereabouts
<1>6. Progress
  BY <1>1 DEF Progress
<1> QED
  BY <1>3, <1>4, <1>5, <1>6 DEF PipelineInv

\* Every step of the listeners, the loop and the worker keeps the invariant.
LEMMA StepKeepsInv == PipelineInv /\ [Next]_vars => PipelineInv'
<1> SUFFICES ASSUME PipelineInv, [Next]_vars PROVE PipelineInv'
  OBVIOUS
<1>1. ASSUME NEW m \in 0..MaxBatch, NEW traces \in [1..m -> Traces],
             NEW context \in Contexts, Accept(traces, context)
      PROVE  PipelineInv'
  BY <1>1, AcceptKeeps
<1>2. CASE IngestBatch
  BY <1>2, IngestBatchKeeps
<1>3. CASE Tick
  BY <1>3, TickKeeps
<1>4. CASE SignalShutdown
  BY <1>4, SignalShutdownKeeps
<1>5. CASE DrainBatch
  BY <1>5, DrainBatchKeeps
<1>6. CASE DrainWindow
  BY <1>6, DrainWindowKeeps
<1>7. CASE SendRemainder
  BY <1>7, SendRemainderKeeps
<1>8. CASE CountSent \/ Join \/ NoticeWorkerStopped \/ CountReceived \/ WorkerExit
  BY <1>8, StandstillKeeps
<1>9. CASE Receive
  BY <1>9, ReceiveKeeps
<1>10. CASE Analyse
  BY <1>10, AnalyseKeeps
<1>11. CASE Panic
  BY <1>11, PanicKeeps
<1>12. CASE Advance
  BY <1>12, AdvanceKeeps
<1>13. CASE UNCHANGED vars
  BY <1>13 DEF vars, PipelineInv, Ranges, Stations, Whereabouts, Progress
<1> QED
  BY <1>1, <1>2, <1>3, <1>4, <1>5, <1>6, <1>7, <1>8, <1>9, <1>10, <1>11, <1>12, <1>13
     DEF Next

\* The invariant holds throughout.
LEMMA PipelineInvHolds == Spec => []PipelineInv
<1>1. Init => PipelineInv
  BY InitEstablishesInv
<1> QED
  BY <1>1, StepKeepsInv, PTL DEF Spec

-----------------------------------------------------------------------------
(* What the invariant gives.                                               *)

\* No event is in two of the places, and no two events have one id.
LEMMA KeptApart ==
  ASSUME NEW n, NEW A, NEW W, NEW Q, NEW L, NEW V, NEW R, NEW S, NEW O, NEW U, NEW X,
         Kept(n, A, W, Q, L, V, R, S, O, U, X)
  PROVE  LET places == <<R, V, L, Q, W, A, S, O, U, X>>
         IN \A i, j \in DOMAIN places :
               i # j => IdsOf(places[i]) \cap IdsOf(places[j]) = {}
<1>1. PICK places : places = <<R, V, L, Q, W, A, S, O, U, X>>
  OBVIOUS
<1>2. PICK all : all = A \cup (W \cup Q \cup L \cup V \cup R) \cup S \cup O \cup U \cup X
  OBVIOUS
<1>3. all \subseteq Event /\ \A e, f \in all : e.id = f.id => e = f
  BY <1>2 DEF Kept
<1>4. /\ Before(A, W \cup Q \cup L \cup V \cup R) /\ Before(W, Q \cup L \cup V \cup R)
      /\ Before(Q, L \cup V \cup R) /\ Before(L, V \cup R) /\ Before(V, R)
      /\ (A \cup (W \cup Q \cup L \cup V \cup R)) \cap (S \cup O \cup U \cup X) = {}
      /\ S \cap (O \cup U \cup X) = {} /\ O \cap (U \cup X) = {} /\ U \cap X = {}
  BY DEF Kept
<1>5. /\ A \in SUBSET Event /\ W \in SUBSET Event /\ Q \in SUBSET Event
      /\ L \in SUBSET Event /\ V \in SUBSET Event
  BY <1>2, <1>3
<1>6. /\ A \cap (W \cup Q \cup L \cup V \cup R) = {} /\ W \cap (Q \cup L \cup V \cup R) = {}
      /\ Q \cap (L \cup V \cup R) = {} /\ L \cap (V \cup R) = {} /\ V \cap R = {}
  BY <1>4, <1>5, BeforeIsStrict
<1>7. /\ DOMAIN places = 1..10
      /\ places[1] = R /\ places[2] = V /\ places[3] = L /\ places[4] = Q /\ places[5] = W
      /\ places[6] = A /\ places[7] = S /\ places[8] = O /\ places[9] = U /\ places[10] = X
  BY <1>1
<1>8. \A i \in 1..10 : i = 1 \/ i = 2 \/ i = 3 \/ i = 4 \/ i = 5 \/ i = 6 \/ i = 7
                       \/ i = 8 \/ i = 9 \/ i = 10
  OBVIOUS
<1>9. ASSUME NEW i \in 1..10 PROVE places[i] \subseteq all
  BY <1>2, <1>7, <1>8
<1>10. ASSUME NEW i \in 1..10, NEW j \in 1..10, i < j PROVE places[i] \cap places[j] = {}
  <2>1. CASE i \in {1, 2, 3, 4, 5, 6} /\ j \in {7, 8, 9, 10}
    <3>1. places[i] \subseteq A \cup (W \cup Q \cup L \cup V \cup R)
      BY <1>7, <2>1
    <3>2. places[j] \subseteq S \cup O \cup U \cup X
      BY <1>7, <2>1
    <3> QED
      BY <1>4, <3>1, <3>2
  <2>2. CASE i \in {1, 2, 3, 4, 5} /\ j \in {2, 3, 4, 5, 6}
    BY <1>6, <1>7, <1>10, <2>2
  <2>3. CASE i \in {7, 8, 9} /\ j \in {8, 9, 10}
    BY <1>4, <1>7, <1>10, <2>3
  <2> QED
    BY <1>8, <1>10, <2>1, <2>2, <2>3
<1>11. ASSUME NEW i \in 1..10, NEW j \in 1..10, i # j PROVE places[i] \cap places[j] = {}
  <2>1. i < j \/ j < i
    BY <1>11
  <2> QED
    BY <1>10, <2>1
<1>12. ASSUME NEW i \in 1..10, NEW j \in 1..10, i # j
       PROVE  IdsOf(places[i]) \cap IdsOf(places[j]) = {}
  BY <1>3, <1>9, <1>11, <1>12 DEF IdsOf
<1> QED
  BY <1>1, <1>7, <1>12

(* Type correctness: what the window, the channels and the worker hold,    *)
(* and that no bound of the window or of a channel is passed.              *)
THEOREM PipelineTypes == Spec => []TypeOK
<1>1. PipelineInv /\ GaugeInv => TypeOK
  <2> SUFFICES ASSUME PipelineInv, GaugeInv PROVE TypeOK
    OBVIOUS
  <2>1. \A i \in DOMAIN rx : rx[i].events \in Seq(Event) /\ rx[i].context \subseteq Traces
    <3>1. PICK B : rx \in Seq(B)
      BY DEF PipelineInv, Stations, Batched
    <3>2. DOMAIN rx = 1..Len(rx)
      BY <3>1
    <3> QED
      BY <3>2 DEF PipelineInv, Stations, Batched, Fit
  <2>2. /\ window \in Seq(Fragments) /\ Len(window) <= MaxActiveTraces
        /\ \A i \in DOMAIN window : Len(window[i].events) <= MaxEventsPerTrace
    <3>1. window \in Seq(Fragments)
      BY DEF PipelineInv, Stations, Buffers
    <3>2. DOMAIN window = 1..Len(window)
      BY <3>1
    <3> QED
      BY <3>1, <3>2 DEF PipelineInv, Stations, Buffers
  <2>3. carried \in Seq(Fragments) /\ busy \in Seq(Fragments) /\ analysed \in Seq(Event)
    BY DEF PipelineInv, Stations, Sorted
  <2>4. queue \in Seq(Seq(Fragments))
    BY DEF PipelineInv, Stations, Queued
  <2>5. shed \cup overwritten \cup unsampled \cup lost \subseteq Event
    BY DEF PipelineInv, Whereabouts, Kept
  <2>6. depth \in Int
    BY DEF GaugeInv
  <2> QED
    BY <2>1, <2>2, <2>3, <2>4, <2>5, <2>6 DEF PipelineInv, Ranges, TypeOK
<1>2. Spec => []GaugeInv
  BY InitEstablishesGauge, StepPreservesGauge, PTL DEF Spec
<1> QED
  BY <1>1, <1>2, PipelineInvHolds, PTL

(* No event is in two places or has two fates, and none is analysed twice, *)
(* through evictions in the middle of a batch, shedding, the drain at      *)
(* shutdown and a worker's panic.                                          *)
THEOREM NoEventTwice == Spec => []EachEventOnce
<1>1. PipelineInv => EachEventOnce
  <2> SUFFICES ASSUME PipelineInv PROVE EachEventOnce
    OBVIOUS
  <2>1. Kept(sent, ToSet(analysed), InWorker, InQueue, InLoop, InWindow, InRx,
             shed, overwritten, unsampled, lost)
    BY DEF PipelineInv, Whereabouts, InWorker, InQueue, InLoop, InWindow, InRx, EventsIn, AllIn
  <2>2. Cardinality(ToSet(analysed)) = Len(analysed)
    BY InOrderCounts DEF PipelineInv, Stations
  <2>3. LET places == <<InRx, InWindow, InLoop, InQueue, InWorker, ToSet(analysed),
                        shed, overwritten, unsampled, lost>>
        IN \A i, j \in DOMAIN places :
              i # j => IdsOf(places[i]) \cap IdsOf(places[j]) = {}
    BY <2>1, KeptApart
  <2> QED
    BY <2>2, <2>3 DEF EachEventOnce
<1> QED
  BY <1>1, PipelineInvHolds, PTL

(* The events of a trace reach detection in the order they were sent in.   *)
THEOREM TracesInOrder == Spec => []AnalysedInOrder
<1>1. PipelineInv => AnalysedInOrder
  <2> SUFFICES ASSUME PipelineInv PROVE AnalysedInOrder
    OBVIOUS
  <2>1. analysed \in Seq(Event) /\ InOrder(analysed)
    BY DEF PipelineInv, Stations
  <2>2. DOMAIN analysed = 1..Len(analysed)
    BY <2>1
  <2> QED
    BY <2>1, <2>2 DEF AnalysedInOrder, InOrder
<1> QED
  BY <1>1, PipelineInvHolds, PTL

(* An event whose batch carried context for its trace is in a fragment     *)
(* with that context, wherever the fragment is.                            *)
THEOREM ContextStays == Spec => []ContextTravelsWithEvents
<1>1. PipelineInv => ContextTravelsWithEvents
  <2> SUFFICES ASSUME PipelineInv,
                      NEW fs \in {window, carried, busy} \cup ToSet(queue),
                      NEW f \in ToSet(fs), NEW e \in ToSet(f.events), e.informed
               PROVE  f.context
    BY DEF ContextTravelsWithEvents
  <2>1. Sorted(window) /\ Sorted(carried) /\ Sorted(busy)
    BY BuffersAreSorted DEF PipelineInv, Stations
  <2>2. ASSUME fs \in ToSet(queue) PROVE Sorted(fs)
    <3>1. PICK i \in 1..Len(queue) : fs = queue[i]
      BY <2>2, InSequence DEF PipelineInv, Stations, Queued
    <3> QED
      BY <3>1 DEF PipelineInv, Stations, Queued
  <2>3. Sorted(fs)
    BY <2>1, <2>2
  <2>4. PICK i \in 1..Len(fs) : f = fs[i]
    BY <2>3, InSequence DEF Sorted
  <2> QED
    BY <2>3, <2>4 DEF Sorted, Good
<1> QED
  BY <1>1, PipelineInvHolds, PTL

-----------------------------------------------------------------------------
(* The ledger.                                                             *)

\* The fate of the event i of n, when H are held, A analysed, S shed, O
\* overwritten, U not sampled and X lost, says where the event is.
FateOf(n, H, A, S, O, U, i) ==
    IF i > n THEN "unsent"
    ELSE IF i \in IdsOf(H) THEN "held"
    ELSE IF i \in IdsOf(A) THEN "analysed"
    ELSE IF i \in IdsOf(S) THEN "shed"
    ELSE IF i \in IdsOf(O) THEN "overwritten"
    ELSE IF i \in IdsOf(U) THEN "unsampled"
    ELSE "lost"

Says(fate, n, H, A, S, O, U, X, i) ==
    /\ fate \in {"unsent", "held"} \cup Ledger!Settled
    /\ fate = "unsent" <=> i > n
    /\ fate = "held" <=> i \in IdsOf(H)
    /\ fate = "analysed" <=> i \in IdsOf(A)
    /\ fate = "shed" <=> i \in IdsOf(S)
    /\ fate = "overwritten" <=> i \in IdsOf(O)
    /\ fate = "unsampled" <=> i \in IdsOf(U)
    /\ fate = "lost" <=> i \in IdsOf(X)

\* It does, since no event is in two places and every event sent is in one.
LEMMA FateRead ==
  ASSUME NEW n \in Nat, NEW A, NEW W, NEW Q, NEW L, NEW V, NEW R, NEW S, NEW O, NEW U, NEW X,
         Kept(n, A, W, Q, L, V, R, S, O, U, X),
         NEW H, H = W \cup Q \cup L \cup V \cup R, NEW i \in EventIds
  PROVE  Says(FateOf(n, H, A, S, O, U, i), n, H, A, S, O, U, X, i)
<1>1. PICK all : all = A \cup H \cup S \cup O \cup U \cup X
  OBVIOUS
<1>2. /\ all \subseteq Event
      /\ \A e \in all : e.id <= n
      /\ \A e, f \in all : e.id = f.id => e = f
      /\ \A k \in 1..n : \E e \in all : e.id = k
      /\ A \cap H = {} /\ (A \cup H) \cap (S \cup O \cup U \cup X) = {}
      /\ S \cap (O \cup U \cup X) = {}
      /\ O \cap (U \cup X) = {} /\ U \cap X = {}
  <2>2. /\ all \subseteq Event
        /\ \A e \in all : e.id <= n
        /\ \A e, f \in all : e.id = f.id => e = f
        /\ \A k \in 1..n : \E e \in all : e.id = k
        /\ Before(A, H)
        /\ (A \cup H) \cap (S \cup O \cup U \cup X) = {}
        /\ S \cap (O \cup U \cup X) = {}
        /\ O \cap (U \cup X) = {} /\ U \cap X = {}
    BY <1>1 DEF Kept
  <2>3. A \in SUBSET Event
    BY <1>1, <2>2
  <2> QED
    BY <2>2, <2>3, BeforeIsStrict
<1>3. n \in Nat /\ i \in Nat /\ 1 <= i
  BY DEF EventIds
<1>4. PICK fate : fate = FateOf(n, H, A, S, O, U, i)
  OBVIOUS
<1>5. ASSUME i > n
      PROVE  /\ i \notin IdsOf(H) /\ i \notin IdsOf(A) /\ i \notin IdsOf(S)
             /\ i \notin IdsOf(O) /\ i \notin IdsOf(U)
             /\ i \notin IdsOf(X)
  <2>1. \A e \in all : e.id # i
    BY <1>2, <1>3, <1>5
  <2> QED
    BY <1>1, <2>1 DEF IdsOf
<1>6. ASSUME i <= n
      PROVE  \E e \in all : /\ i \in IdsOf(H) <=> e \in H
                            /\ i \in IdsOf(A) <=> e \in A
                            /\ i \in IdsOf(S) <=> e \in S
                            /\ i \in IdsOf(O) <=> e \in O
                            /\ i \in IdsOf(U) <=> e \in U
                            /\ i \in IdsOf(X) <=> e \in X
  <2>1. PICK e \in all : e.id = i
    BY <1>2, <1>3, <1>6
  <2>2. ASSUME NEW P \in SUBSET all PROVE i \in IdsOf(P) <=> e \in P
    BY <1>2, <2>1 DEF IdsOf
  <2>3. /\ H \subseteq all /\ A \subseteq all /\ S \subseteq all
        /\ O \subseteq all /\ U \subseteq all /\ X \subseteq all
    BY <1>1
  <2> QED
    BY <2>1, <2>2, <2>3
<1>7. CASE i > n
  BY <1>1, <1>4, <1>5, <1>7 DEF FateOf, Says, Ledger!Settled
<1>8. CASE i <= n
  <2>1. PICK e \in all : /\ i \in IdsOf(H) <=> e \in H
                         /\ i \in IdsOf(A) <=> e \in A
                         /\ i \in IdsOf(S) <=> e \in S
                         /\ i \in IdsOf(O) <=> e \in O
                         /\ i \in IdsOf(U) <=> e \in U
                         /\ i \in IdsOf(X) <=> e \in X
    BY <1>6, <1>8
  <2>2. ~ (i > n)
    BY <1>3, <1>8
  <2> QED
    BY <1>1, <1>2, <1>4, <2>1, <2>2 DEF FateOf, Says, Ledger!Settled
<1> QED
  BY <1>3, <1>7, <1>8

\* An event that was not sent is held, one that was held settles, in a place
\* that has something new, and nothing else becomes of an event.
LEMMA FateMoves ==
  ASSUME PipelineInv, PipelineInv', NEW i \in EventIds,
         sent <= sent', ToSet(analysed) \subseteq ToSet(analysed'), shed \subseteq shed',
         overwritten \subseteq overwritten', unsampled \subseteq unsampled',
         lost \subseteq lost', Fate(i)' # Fate(i)
  PROVE  /\ \/ Fate(i) = "unsent" /\ sent' # sent
            \/ Fate(i) = "held" /\ Fate(i)' # "held"
         /\ \/ Fate(i)' = "held"
            \/ Fate(i)' = "analysed" /\ analysed' # analysed
            \/ Fate(i)' = "shed" /\ shed' # shed
            \/ Fate(i)' = "overwritten" /\ overwritten' # overwritten
            \/ Fate(i)' = "unsampled" /\ unsampled' # unsampled
            \/ Fate(i)' = "lost" /\ lost' # lost
<1>1. /\ Kept(sent, ToSet(analysed), InWorker, InQueue, InLoop, InWindow, InRx,
              shed, overwritten, unsampled, lost)
      /\ Kept(sent', ToSet(analysed'), InWorker', InQueue', InLoop', InWindow', InRx',
              shed', overwritten', unsampled', lost')
  BY DEF PipelineInv, Whereabouts, InWorker, InQueue, InLoop, InWindow, InRx, EventsIn, AllIn
<1>2. /\ Held = InWorker \cup InQueue \cup InLoop \cup InWindow \cup InRx
      /\ Held' = InWorker' \cup InQueue' \cup InLoop' \cup InWindow' \cup InRx'
  BY DEF Held
<1>3. sent \in Nat /\ sent' \in Nat /\ i \in Nat
  BY PipelineAssumption DEF PipelineInv, Ranges, EventIds
<1>4. PICK f, g :
         /\ f = FateOf(sent, Held, ToSet(analysed), shed, overwritten, unsampled, i)
         /\ g = FateOf(sent', Held', ToSet(analysed'), shed', overwritten', unsampled', i)
  OBVIOUS
<1>5. f = Fate(i) /\ g = Fate(i)'
  BY <1>4 DEF Fate, FateOf
<1>6. Says(f, sent, Held, ToSet(analysed), shed, overwritten, unsampled, lost, i)
  BY <1>1, <1>2, <1>3, <1>4, FateRead
<1>7. Says(g, sent', Held', ToSet(analysed'), shed', overwritten', unsampled', lost', i)
  BY <1>1, <1>2, <1>3, <1>4, FateRead
<1>8. /\ IdsOf(ToSet(analysed)) \subseteq IdsOf(ToSet(analysed'))
      /\ IdsOf(shed) \subseteq IdsOf(shed') /\ IdsOf(overwritten) \subseteq IdsOf(overwritten')
      /\ IdsOf(unsampled) \subseteq IdsOf(unsampled') /\ IdsOf(lost) \subseteq IdsOf(lost')
  BY DEF IdsOf
<1>9. f # g
  BY <1>5
<1> QED
  BY <1>3, <1>5, <1>6, <1>7, <1>8, <1>9 DEF Says, Ledger!Settled

\* A step that leaves sent, analysed and the events with an outcome alone
\* leaves every fate alone.
LEMMA FatesStay ==
  ASSUME PipelineInv, PipelineInv', NEW i \in EventIds,
         UNCHANGED <<sent, analysed, shed, overwritten, unsampled, lost>>
  PROVE  Fate(i)' = Fate(i)
<1>1. sent <= sent'
  BY PipelineAssumption DEF PipelineInv, Ranges
<1>2. SUFFICES ASSUME Fate(i)' # Fate(i) PROVE FALSE
  OBVIOUS
<1>3. /\ \/ Fate(i) = "unsent" /\ sent' # sent
         \/ Fate(i) = "held" /\ Fate(i)' # "held"
      /\ \/ Fate(i)' = "held"
         \/ Fate(i)' = "analysed" /\ analysed' # analysed
         \/ Fate(i)' = "shed" /\ shed' # shed
         \/ Fate(i)' = "overwritten" /\ overwritten' # overwritten
         \/ Fate(i)' = "unsampled" /\ unsampled' # unsampled
         \/ Fate(i)' = "lost" /\ lost' # lost
  BY <1>1, <1>2, FateMoves
<1> QED
  BY <1>3

\* What the steps do to the ledger's stage: nothing, the drain begins, the
\* worker crashes, or the daemon closes.
LEMMA StageMoves ==
  ASSUME PipelineInv, PipelineInv', [Next]_vars
  PROVE  /\ Stage \in {"open", "draining", "closed", "crashed"}
         /\ \/ Stage' = Stage
            \/ Stage = "open" /\ Stage' = "draining" /\ SignalShutdown
            \/ Stage \in {"open", "draining"} /\ Stage' = "crashed" /\ Panic
            \/ Stage = "draining" /\ Stage' = "closed" /\ Join
<1>1. Stage \in {"open", "draining", "closed", "crashed"}
  BY DEF Stage
<1>2. CASE worker' = worker /\ phase' = phase
  BY <1>1, <1>2 DEF Stage
<1>3. CASE SignalShutdown
  BY <1>1, <1>3 DEF SignalShutdown, Stage
<1>4. CASE Panic
  <2>1. worker = "analysing" /\ worker' = "panicked" /\ phase # "stopped"
    BY <1>4 DEF Panic, PipelineInv, Progress
  <2> QED
    BY <1>1, <1>4, <2>1 DEF Stage
<1>5. CASE Join
  BY <1>1, <1>5 DEF Join, Stage, PipelineInv, Ranges
<1>6. CASE DrainWindow \/ SendRemainder \/ CountSent \/ NoticeWorkerStopped
  <2>1. /\ worker' = worker /\ phase \in {"serving", "closing", "sending", "counting"}
        /\ phase' \in {"sending", "counting", "joining", "failed"}
        /\ phase = "serving" => worker = "panicked"
    BY <1>6 DEF DrainWindow, SendRemainder, CountSent, NoticeWorkerStopped
  <2> QED
    BY <1>1, <2>1 DEF Stage
<1>7. CASE Receive \/ CountReceived \/ Analyse \/ WorkerExit
  <2>1. phase' = phase /\ worker # "panicked" /\ worker' # "panicked"
    BY <1>7 DEF Receive, CountReceived, Analyse, WorkerExit
  <2> QED
    BY <1>1, <2>1 DEF Stage
<1>8. ASSUME NEW traces, NEW context, Accept(traces, context)
      PROVE  worker' = worker /\ phase' = phase
  BY <1>8 DEF Accept
<1>9. CASE IngestBatch \/ Tick \/ DrainBatch \/ Advance \/ UNCHANGED vars
  <2>1. worker' = worker /\ phase' = phase
    BY <1>9 DEF IngestBatch, Tick, DrainBatch, Advance, vars
  <2> QED
    BY <1>2, <2>1
<1> QED
  BY <1>1, <1>2, <1>3, <1>4, <1>5, <1>6, <1>7, <1>8, <1>9 DEF Next

\* Which steps can add to the events of each outcome, and in which stage; the
\* events with an outcome keep it.
LEMMA OutcomesMove ==
  ASSUME PipelineInv, PipelineInv', [Next]_vars
  PROVE  /\ ToSet(analysed) \subseteq ToSet(analysed') /\ shed \subseteq shed'
         /\ overwritten \subseteq overwritten' /\ unsampled \subseteq unsampled'
         /\ lost \subseteq lost' /\ sent <= sent'
         /\ sent' # sent =>
              /\ Stage' = Stage /\ Stage \in {"open", "crashed"}
              /\ UNCHANGED <<analysed, shed, overwritten, unsampled, lost>>
         /\ analysed' # analysed =>
              /\ Stage' = Stage /\ Stage \in {"open", "draining"}
         /\ shed' # shed => Stage' = Stage /\ Stage \in {"open", "crashed"}
         /\ overwritten' # overwritten \/ unsampled' # unsampled =>
              /\ Stage' = Stage /\ Stage # "closed"
         /\ lost' # lost =>
              /\ Panic
              /\ UNCHANGED <<sent, analysed, shed, overwritten, unsampled>>
<1>1. sent \in Nat
  BY PipelineAssumption DEF PipelineInv, Ranges
<1>2. CASE UNCHANGED <<sent, analysed, shed, overwritten, unsampled, lost>>
  BY <1>1, <1>2
<1>3. ASSUME NEW m \in 0..MaxBatch, NEW traces \in [1..m -> Traces], NEW context \in Contexts,
             Accept(traces, context)
      PROVE  /\ sent <= sent' /\ Stage' = Stage /\ Stage \in {"open", "crashed"}
             /\ UNCHANGED <<analysed, shed, overwritten, unsampled, lost>>
  <2>1. m \in Nat
    BY PipelineAssumption
  <2>2. Len(traces) = m
    BY <2>1
  <2>3. sent' = sent + m /\ phase = "serving" /\ phase' = phase /\ worker' = worker
        /\ UNCHANGED <<analysed, shed, overwritten, unsampled, lost>>
    BY <1>3, <2>2 DEF Accept, ChannelOpen
  <2> QED
    BY <1>1, <2>1, <2>3 DEF Stage
<1>4. CASE IngestBatch \/ Tick
  <2>1. /\ phase = "serving" /\ phase' = phase /\ worker' = worker
        /\ UNCHANGED <<sent, analysed, lost>>
        /\ shed \subseteq shed' /\ overwritten \subseteq overwritten'
        /\ unsampled \subseteq unsampled'
    BY <1>4 DEF IngestBatch, Tick, EnqueueForAnalysis, TakeIn
  <2>2. Stage' = Stage /\ Stage \in {"open", "crashed"}
    BY <2>1 DEF Stage
  <2> QED
    BY <1>1, <2>1, <2>2
<1>5. CASE DrainBatch
  <2>1. /\ phase = "closing" /\ phase' = phase /\ worker' = worker
        /\ UNCHANGED <<sent, analysed, shed, lost>>
        /\ overwritten \subseteq overwritten' /\ unsampled \subseteq unsampled'
    BY <1>5 DEF DrainBatch, TakeIn
  <2>2. Stage' = Stage /\ Stage # "closed"
    BY <2>1 DEF Stage
  <2> QED
    BY <1>1, <2>1, <2>2
<1>6. CASE SendRemainder
  <2>1. /\ phase = "sending" /\ worker' = worker /\ phase' \in {"counting", "joining"}
        /\ UNCHANGED <<sent, analysed, overwritten, unsampled, lost>>
        /\ shed \subseteq shed'
        /\ shed' = shed \/ ~ WorkerAlive
    BY <1>6 DEF SendRemainder
  <2>2. ~ WorkerAlive => worker = "panicked"
    BY <2>1 DEF PipelineInv, Progress, Ranges, WorkerAlive
  <2>3. ~ WorkerAlive => Stage' = Stage /\ Stage = "crashed"
    BY <2>1, <2>2 DEF Stage
  <2> QED
    BY <1>1, <2>1, <2>3
<1>7. CASE Analyse
  <2>1. /\ worker = "analysing" /\ worker' = "waiting" /\ phase' = phase
        /\ UNCHANGED <<sent, shed, overwritten, unsampled, lost>>
    BY <1>7 DEF Analyse
  <2>2. ToSet(analysed) \subseteq ToSet(analysed')
    BY <1>7, AnalysedGrows
  <2>3. Stage' = Stage /\ Stage \in {"open", "draining"}
    BY <2>1 DEF Stage, PipelineInv, Progress
  <2> QED
    BY <1>1, <2>1, <2>2, <2>3
<1>8. CASE Panic
  <2>1. /\ UNCHANGED <<sent, analysed, shed, overwritten, unsampled>>
        /\ lost \subseteq lost'
    BY <1>8 DEF Panic
  <2> QED
    BY <1>1, <1>8, <2>1
<1>9. CASE \/ SignalShutdown \/ DrainWindow \/ CountSent \/ Join \/ NoticeWorkerStopped
           \/ Receive \/ CountReceived \/ WorkerExit \/ Advance \/ UNCHANGED vars
  <2>1. UNCHANGED <<sent, analysed, shed, overwritten, unsampled, lost>>
    BY <1>9 DEF SignalShutdown, DrainWindow, CountSent, Join, NoticeWorkerStopped,
                Receive, CountReceived, WorkerExit, Advance, vars
  <2> QED
    BY <1>2, <2>1
<1> QED
  BY <1>2, <1>3, <1>4, <1>5, <1>6, <1>7, <1>8, <1>9 DEF Next

\* A joined worker that finished leaves no event held.
LEMMA ClosesEmpty ==
  ASSUME PipelineInv, PipelineInv', Join, worker # "panicked", NEW i \in EventIds
  PROVE  Fate(i) # "held"
<1>1. /\ phase = "joining" /\ worker = "finished"
      /\ busy = <<>> /\ queue = <<>> /\ carried = <<>> /\ rx = <<>> /\ window = <<>>
  BY DEF Join, PipelineInv, Progress
<1>2. DOMAIN <<>> = {}
  OBVIOUS
<1>3. Held = {}
  BY <1>1, <1>2 DEF Held, InRx, InWindow, InLoop, InQueue, InWorker, EventsIn
<1> QED
  BY <1>3 DEF Fate, IdsOf

\* Every step is a step of the ledger, or leaves it alone.
LEMMA StepKeepsLedger ==
  ASSUME PipelineInv, PipelineInv', [Next]_vars
  PROVE  [Ledger!LedgerNext]_(Ledger!ledgerVars)
<1>1. PICK f, g : f = [i \in EventIds |-> Fate(i)] /\ g = [i \in EventIds |-> Fate(i)']
  OBVIOUS
<1>2. \A i \in EventIds : f[i] = Fate(i) /\ g[i] = Fate(i)'
  BY <1>1
<1>3. CASE g = f /\ Stage' = Stage
  BY <1>1, <1>3 DEF Ledger!ledgerVars
<1>4. CASE SignalShutdown /\ Stage = "open" /\ Stage' = "draining"
  <2>1. UNCHANGED <<sent, analysed, shed, overwritten, unsampled, lost>>
    BY <1>4 DEF SignalShutdown
  <2>2. \A i \in EventIds : Fate(i)' = Fate(i)
    BY <2>1, FatesStay
  <2>3. g = f
    BY <1>1, <2>2
  <2>4. Ledger!BeginDrain
    BY <1>1, <1>4, <2>3 DEF Ledger!BeginDrain
  <2> QED
    BY <2>4 DEF Ledger!LedgerNext
<1>5. CASE Panic /\ Stage \in {"open", "draining"} /\ Stage' = "crashed"
  <2>1. /\ UNCHANGED <<sent, analysed, shed, overwritten, unsampled>>
        /\ lost \subseteq lost'
    BY <1>5 DEF Panic
  <2>2. sent <= sent'
    BY <2>1, PipelineAssumption DEF PipelineInv, Ranges
  <2>3. ASSUME NEW i \in EventIds, g[i] # f[i] PROVE f[i] = "held" /\ g[i] = "lost"
    <3>1. Fate(i)' # Fate(i)
      BY <1>2, <2>3
    <3>2. /\ \/ Fate(i) = "unsent" /\ sent' # sent
             \/ Fate(i) = "held" /\ Fate(i)' # "held"
          /\ \/ Fate(i)' = "held"
             \/ Fate(i)' = "analysed" /\ analysed' # analysed
             \/ Fate(i)' = "shed" /\ shed' # shed
             \/ Fate(i)' = "overwritten" /\ overwritten' # overwritten
             \/ Fate(i)' = "unsampled" /\ unsampled' # unsampled
             \/ Fate(i)' = "lost" /\ lost' # lost
      BY <2>1, <2>2, <3>1, FateMoves
    <3> QED
      BY <1>2, <2>1, <3>2
  <2>4. Ledger!Crash
    BY <1>1, <1>5, <2>3 DEF Ledger!Crash, Ledger!Becomes
  <2> QED
    BY <2>4 DEF Ledger!LedgerNext
<1>6. CASE Join /\ Stage = "draining" /\ Stage' = "closed"
  <2>1. UNCHANGED <<sent, analysed, shed, overwritten, unsampled, lost>>
    BY <1>6 DEF Join
  <2>2. \A i \in EventIds : Fate(i)' = Fate(i)
    BY <2>1, FatesStay
  <2>3. g = f
    BY <1>1, <2>2
  <2>4. worker # "panicked"
    BY <1>6 DEF Stage
  <2>5. \A i \in EventIds : f[i] # "held"
    BY <1>2, <1>6, <2>4, ClosesEmpty
  <2>6. Ledger!Close
    BY <1>1, <1>6, <2>3, <2>5 DEF Ledger!Close
  <2> QED
    BY <2>6 DEF Ledger!LedgerNext
<1>7. CASE g # f /\ Stage' = Stage
  <2>1. /\ ToSet(analysed) \subseteq ToSet(analysed') /\ shed \subseteq shed'
        /\ overwritten \subseteq overwritten' /\ unsampled \subseteq unsampled'
        /\ lost \subseteq lost' /\ sent <= sent'
        /\ sent' # sent =>
             /\ Stage \in {"open", "crashed"}
             /\ UNCHANGED <<analysed, shed, overwritten, unsampled, lost>>
        /\ analysed' # analysed => Stage \in {"open", "draining"}
        /\ shed' # shed => Stage \in {"open", "crashed"}
        /\ overwritten' # overwritten \/ unsampled' # unsampled => Stage # "closed"
    BY OutcomesMove
  <2>2. lost' = lost
    <3>1. lost' # lost => Panic
      BY OutcomesMove
    <3>2. ~ Panic
      BY <1>7 DEF Panic, Stage
    <3> QED
      BY <3>1, <3>2
  <2>3. ASSUME NEW i \in EventIds, g[i] # f[i]
        PROVE  /\ \/ f[i] = "unsent" /\ g[i] = "held" /\ sent' # sent
                  \/ f[i] = "held" /\ sent' = sent
               /\ \/ g[i] = "held"
                  \/ g[i] = "analysed" /\ Stage \in {"open", "draining"}
                  \/ g[i] = "shed" /\ Stage \in {"open", "crashed"}
                  \/ g[i] \in {"overwritten", "unsampled"} /\ Stage # "closed"
    <3>1. Fate(i)' # Fate(i)
      BY <1>2, <2>3
    <3>2. /\ \/ Fate(i) = "unsent" /\ sent' # sent
             \/ Fate(i) = "held" /\ Fate(i)' # "held"
          /\ \/ Fate(i)' = "held"
             \/ Fate(i)' = "analysed" /\ analysed' # analysed
             \/ Fate(i)' = "shed" /\ shed' # shed
             \/ Fate(i)' = "overwritten" /\ overwritten' # overwritten
             \/ Fate(i)' = "unsampled" /\ unsampled' # unsampled
             \/ Fate(i)' = "lost" /\ lost' # lost
      BY <2>1, <3>1, FateMoves
    <3> QED
      BY <1>2, <2>1, <2>2, <3>2
  <2>4. PICK k \in EventIds : g[k] # f[k]
    BY <1>1, <1>7
  <2>5. Stage \in {"open", "draining", "crashed"}
    <3>1. Stage \in {"open", "draining", "closed", "crashed"}
      BY StageMoves
    <3> QED
      BY <2>1, <2>3, <2>4, <3>1
  <2>6. CASE Stage = "open" /\ sent' # sent
    <3>1. \A i \in EventIds : g[i] = f[i] \/ (f[i] = "unsent" /\ g[i] = "held")
      BY <2>3, <2>6
    <3>2. Ledger!Admit
      BY <1>1, <1>7, <2>6, <3>1 DEF Ledger!Admit
    <3> QED
      BY <3>2 DEF Ledger!LedgerNext
  <2>7. CASE Stage = "open" /\ sent' = sent
    <3>1. \A i \in EventIds : \/ g[i] = f[i]
                              \/ f[i] = "held" /\ g[i] \in Ledger!Settled \ {"lost"}
      BY <2>3, <2>7 DEF Ledger!Settled
    <3>2. Ledger!Settle
      BY <1>1, <1>7, <2>7, <3>1 DEF Ledger!Settle, Ledger!Becomes
    <3> QED
      BY <3>2 DEF Ledger!LedgerNext
  <2>8. CASE Stage = "draining"
    <3>1. \A i \in EventIds : \/ g[i] = f[i]
                              \/ /\ f[i] = "held"
                                 /\ g[i] \in Ledger!Settled \ {"lost", "shed"}
      BY <2>1, <2>3, <2>8 DEF Ledger!Settled
    <3>2. Ledger!SettleDraining
      BY <1>1, <1>7, <2>8, <3>1 DEF Ledger!SettleDraining, Ledger!Becomes
    <3> QED
      BY <3>2 DEF Ledger!LedgerNext
  <2>9. CASE Stage = "crashed"
    <3>1. \A i \in EventIds : \/ g[i] = f[i]
                              \/ f[i] = "unsent" /\ g[i] = "held"
                              \/ f[i] = "held" /\ g[i] \in Ledger!Settled \ {"analysed"}
      BY <2>3, <2>9 DEF Ledger!Settled
    <3>2. Ledger!Aftermath
      BY <1>1, <1>7, <2>9, <3>1 DEF Ledger!Aftermath
    <3> QED
      BY <3>2 DEF Ledger!LedgerNext
  <2> QED
    BY <2>5, <2>6, <2>7, <2>8, <2>9
<1> QED
  BY <1>3, <1>4, <1>5, <1>6, <1>7, StageMoves

(* The pipeline implements the ledger: an accepted event is held until it  *)
(* is analysed, shed, overwritten, left out of the sample or lost with a   *)
(* worker that panicked, and keeps that fate; once the daemon drains       *)
(* nothing is shed; and it does not stop cleanly while it holds an event.  *)
THEOREM PipelineKeepsLedger == Spec => KeepsLedger
<1>1. Init => Ledger!LedgerInit
  <2> SUFFICES ASSUME Init PROVE Ledger!LedgerInit
    OBVIOUS
  <2>1. ASSUME NEW i \in EventIds PROVE Fate(i) = "unsent"
    <3>1. i > sent
      BY PipelineAssumption DEF Init, EventIds
    <3> QED
      BY <3>1 DEF Fate
  <2>2. Stage = "open"
    BY DEF Init, Stage
  <2> QED
    BY <2>1, <2>2 DEF Ledger!LedgerInit
<1>2. PipelineInv /\ PipelineInv' /\ [Next]_vars => [Ledger!LedgerNext]_(Ledger!ledgerVars)
  BY StepKeepsLedger
<1> QED
  BY <1>1, <1>2, PipelineInvHolds, PTL DEF Spec, KeepsLedger, Ledger!LedgerSpec
=============================================================================
