---------------------------- MODULE ArchiveProofs ----------------------------
(***************************************************************************)
(* Proofs about the window archive, for any capacity, file cap, number of  *)
(* files, faults and starts: a file that no unmended fault touched reads   *)
(* to its end without a break and holds every window written to it once; a *)
(* crash costs the days refused and fewer windows than a snapshot          *)
(* interval; the rollup files of all months have no more breaks than there *)
(* were faults; the loss that the drop counts of a family tell is never    *)
(* above the windows lost; and every variable keeps to its type and        *)
(* bounds.                                                                 *)
(***************************************************************************)
EXTENDS Archive, Induction, FiniteSetTheorems, TLAPS

-----------------------------------------------------------------------------
(* Sequences, behind one another.                                          *)

Regroups(a, b, x) == a \o Append(b, x) = Append(a \o b, x)

\* One more behind the second of two sequences is one more behind both.
LEMMA RegroupsAll ==
  ASSUME NEW P, NEW a \in Seq(P), NEW b \in Seq(P), NEW x \in P
  PROVE  Regroups(a, b, x)
BY DEF Regroups

Associates(a, b, c) == (a \o b) \o c = a \o (b \o c)

\* And so are more.
LEMMA AssociatesAll ==
  ASSUME NEW P, NEW a \in Seq(P), NEW b \in Seq(P), NEW c \in Seq(P)
  PROVE  Associates(a, b, c)
BY ConcatAssociative DEF Associates

-----------------------------------------------------------------------------
(* Lines and what the reader makes of them.                                *)

\* The lines and the pieces of files over timestamps T once K windows have left
\* the channel.
LineSet(T, K) == [what : {"line"}, window : T, prev : T \cup {Seed},
               seq : 0..(K - 1), drops : 0..K, ended : BOOLEAN]

PieceSet(T, K) == LineSet(T, K) \cup [what : {"part", "torn"}, ended : BOOLEAN]

\* A line or a fragment, and which of the two its kind tells.
LEMMA PieceFacts ==
  ASSUME NEW T, NEW K \in Nat, NEW p \in PieceSet(T, K)
  PROVE  /\ p.what \in {"line", "part", "torn"}
         /\ p.ended \in BOOLEAN
         /\ p.what = "line" => /\ p \in LineSet(T, K)
                               /\ p.window \in T /\ p.prev \in T \cup {Seed}
                               /\ p.seq \in 0..(K - 1) /\ p.drops \in 0..K
BY DEF PieceSet, LineSet

\* The lines of a file are gathered piece by piece.
LEMMA GatheringSteps ==
  ASSUME NEW T, NEW K \in Nat, NEW pieces \in Seq(PieceSet(T, K))
  PROVE  /\ Gathering(pieces) \in [0..Len(pieces) -> Seq(LineSet(T, K))]
         /\ Gathering(pieces)[0] = <<>>
         /\ \A n \in 1..Len(pieces) :
               Gathering(pieces)[n] = IF Stands(pieces, n)
                                      THEN Append(Gathering(pieces)[n - 1], pieces[n])
                                      ELSE Gathering(pieces)[n - 1]
<1> DEFINE U == Seq(LineSet(T, K))
           Gather(lines, n) == IF Stands(pieces, n) THEN Append(lines, pieces[n]) ELSE lines
           Recursive(g) == g = [n \in 0..Len(pieces) |->
                                   IF n = 0 THEN <<>>
                                   ELSE IF Stands(pieces, n) THEN Append(g[n - 1], pieces[n])
                                   ELSE g[n - 1]]
<1>1. PICK N \in Nat : N = Len(pieces)
  OBVIOUS
<1>2. ASSUME NEW n \in 1..N, NEW lines \in U PROVE Gather(lines, n) \in U
  <2>1. pieces[n] \in PieceSet(T, K)
    BY <1>1
  <2>2. CASE Stands(pieces, n)
    <3>1. pieces[n] \in LineSet(T, K)
      BY <2>1, <2>2, PieceFacts DEF Stands
    <3> QED
      BY <2>2, <3>1
  <2> QED
    BY <2>2
<1> DEFINE family == [n \in 0..N |-> U]
           next == [s \in U \X (1..N) |-> Gather(s[1], s[2])]
           base == <<>>
<1>3. \A n \in 0..N : family[n] = U
  OBVIOUS
<1>4. family \in [0..N -> SUBSET U]
  OBVIOUS
<1>5. \A n \in 1..N, lines \in U : next[<<lines, n>>] = Gather(lines, n)
  OBVIOUS
<1>6. base \in U
  OBVIOUS
<1> HIDE DEF family, next, Gather, U
<1>7. \A n \in 1..N : n \in 0..N /\ n - 1 \in 0..N /\ n # 0
  BY <1>1
<1>8. PICK f : f \in [0..N -> U] /\ f[0] = base /\ \A n \in 1..N : f[n] = next[<<f[n - 1], n>>]
  <2>1. \A n \in 1..N : \A a \in family[n - 1] : next[<<a, n>>] \in family[n]
    <3> SUFFICES ASSUME NEW n \in 1..N, NEW a \in family[n - 1]
                 PROVE  next[<<a, n>>] \in family[n]
      OBVIOUS
    <3>1. a \in U /\ family[n] = U
      BY <1>3, <1>7
    <3> QED
      BY <1>2, <1>5, <3>1
  <2>2. base \in family[0]
    BY <1>1, <1>3, <1>6
  <2> HIDE DEF base
  <2>3. Recursion(N, U, family, base, next)
    BY <1>1, <1>4, <2>1, <2>2 DEF Recursion
  <2>4. PICK f : Results(f, N, U, family, base, next)
    BY <2>3, RecursionExists
  <2> QED
    BY <2>4 DEF Results
<1>9. \A n \in 1..N : f[n] = Gather(f[n - 1], n)
  BY <1>5, <1>8, <1>7
<1>10. Recursive(f)
  <2>1. \A n \in 0..N : n = 0 \/ n \in 1..N
    BY <1>1
  <2>2. \A n \in 0..N : f[n] = IF n = 0 THEN <<>>
                               ELSE IF Stands(pieces, n) THEN Append(f[n - 1], pieces[n])
                               ELSE f[n - 1]
    BY <1>8, <1>9, <2>1 DEF Gather
  <2> QED
    BY <1>1, <1>8, <2>2
<1>11. Recursive(Gathering(pieces))
  BY <1>10 DEF Gathering
<1>12. ASSUME NEW g, Recursive(g) PROVE \A n \in 0..N : f[n] = g[n]
  <2>1. g[0] = <<>>
    BY <1>1, <1>12
  <2>2. \A n \in 1..N : g[n] = Gather(g[n - 1], n)
    BY <1>1, <1>12, <1>7 DEF Gather
  <2>3. \A n \in 1..N : f[n - 1] = g[n - 1] => f[n] = g[n]
    BY <1>9, <2>2
  <2>4. AgreeStepwise(f, g, N)
    BY <1>1, <1>8, <2>1, <2>3 DEF AgreeStepwise
  <2> QED
    BY <2>4, RecursionsAgree
<1>13. \A n \in 0..N : f[n] = Gathering(pieces)[n]
  BY <1>11, <1>12
<1>14. Gathering(pieces) \in [0..N -> U]
  <2>1. PICK g : g = Gathering(pieces)
    OBVIOUS
  <2>2. g = [n \in 0..N |-> g[n]]
    BY <1>1, <1>11, <2>1
  <2> QED
    BY <1>8, <1>13, <2>1, <2>2
<1> QED
  BY <1>1, <1>8, <1>9, <1>13, <1>14, <1>7 DEF U, Gather

\* The lines of a file are lines.
LEMMA LinesOfType ==
  ASSUME NEW T, NEW K \in Nat, NEW pieces \in Seq(PieceSet(T, K))
  PROVE  LinesOf(pieces) \in Seq(LineSet(T, K))
<1>1. Len(pieces) \in 0..Len(pieces)
  OBVIOUS
<1> QED
  BY <1>1, GatheringSteps DEF LinesOf, LinesUpTo

\* All pieces ended.
AllEnded(pieces) == \A i \in 1..Len(pieces) : pieces[i].ended

\* One more piece after pieces that have all ended is one more line or none.
LEMMA LinesOfAppend ==
  ASSUME NEW T, NEW K \in Nat, NEW pieces \in Seq(PieceSet(T, K)), AllEnded(pieces),
         NEW p \in PieceSet(T, K)
  PROVE  LinesOf(Append(pieces, p)) = IF p.what = "line" THEN Append(LinesOf(pieces), p)
                                      ELSE LinesOf(pieces)
<1>1. PICK N \in Nat : N = Len(pieces)
  OBVIOUS
<1>2. PICK more : more = Append(pieces, p)
  OBVIOUS
<1>3. /\ more \in Seq(PieceSet(T, K)) /\ Len(more) = N + 1 /\ more[N + 1] = p
      /\ \A i \in 1..N : more[i] = pieces[i]
  BY <1>1, <1>2
<1>4. PICK g, h : g = Gathering(pieces) /\ h = Gathering(more)
  OBVIOUS
<1>5. /\ g[0] = <<>>
      /\ \A n \in 1..N : g[n] = IF Stands(pieces, n) THEN Append(g[n - 1], pieces[n])
                                ELSE g[n - 1]
  BY <1>1, <1>4, GatheringSteps
<1>6. /\ h[0] = <<>>
      /\ \A n \in 1..(N + 1) : h[n] = IF Stands(more, n) THEN Append(h[n - 1], more[n])
                                      ELSE h[n - 1]
  BY <1>3, <1>4, GatheringSteps
<1>7. ASSUME NEW n \in 1..N PROVE Stands(pieces, n) <=> Stands(more, n)
  BY <1>1, <1>3 DEF Stands, AllEnded
<1>8. Stands(more, N + 1) <=> p.what = "line"
  BY <1>1, <1>3 DEF Stands, AllEnded
<1>9. \A n \in 1..N : g[n - 1] = h[n - 1] => g[n] = h[n]
  BY <1>3, <1>5, <1>6, <1>7
<1>10. AgreeStepwise(g, h, N)
  BY <1>1, <1>5, <1>6, <1>9 DEF AgreeStepwise
<1>11. g[N] = h[N]
  BY <1>1, <1>10, RecursionsAgree
<1>12. h[N + 1] = IF p.what = "line" THEN Append(g[N], p) ELSE g[N]
  BY <1>1, <1>3, <1>6, <1>8, <1>11
<1>13. LinesOf(pieces) = g[N] /\ LinesOf(more) = h[N + 1]
  BY <1>1, <1>3, <1>4 DEF LinesOf, LinesUpTo
<1> QED
  BY <1>2, <1>12, <1>13

\* A file of nothing has no lines.
LEMMA LinesOfNothing == LinesOf(<<>>) = <<>>
<1>1. PICK none : none = <<>>
  OBVIOUS
<1>2. PICK T : T = {}
  OBVIOUS
<1>3. PICK K \in Nat : K = 0
  OBVIOUS
<1>4. none \in Seq(PieceSet(T, K)) /\ Len(none) = 0
  BY <1>1
<1>5. Gathering(none)[0] = <<>>
  BY <1>4, GatheringSteps
<1> QED
  BY <1>1, <1>4, <1>5 DEF LinesOf, LinesUpTo

\* Each line chains to the one before it, the first to the seed.
Chained(lines) ==
    \A i \in 1..Len(lines) :
        /\ lines[i].prev = IF i = 1 THEN Seed ELSE lines[i - 1].window
        /\ lines[i].seq = IF i = 1 THEN 0 ELSE lines[i - 1].seq + 1

\* A line that carries the head chains.
LEMMA ChainedAppend ==
  ASSUME NEW T, NEW K \in Nat, NEW lines \in Seq(LineSet(T, K)), NEW p \in LineSet(T, K)
  PROVE  Chained(Append(lines, p)) <=>
            /\ Chained(lines)
            /\ p.prev = HeadAfter(lines).prev
            /\ p.seq = HeadAfter(lines).seq
<1>1. PICK N \in Nat : N = Len(lines)
  OBVIOUS
<1>2. PICK more : more = Append(lines, p)
  OBVIOUS
<1>3. /\ Len(more) = N + 1 /\ more[N + 1] = p
      /\ \A i \in 1..N : more[i] = lines[i]
  BY <1>1, <1>2
<1>4. HeadAfter(lines) = [prev |-> IF N = 0 THEN Seed ELSE lines[N].window,
                          seq |-> IF N = 0 THEN 0 ELSE lines[N].seq + 1]
  <2>1. lines = <<>> <=> N = 0
    BY <1>1
  <2> QED
    BY <1>1, <2>1 DEF HeadAfter, Head0, Last
<1>5. \A i \in 1..(N + 1) : i \in 1..N \/ i = N + 1
  BY <1>1
<1>6. \A i \in 1..N : i \in 1..(N + 1) /\ (i # 1 => i - 1 \in 1..N)
  BY <1>1
<1>7. N # 0 => more[N] = lines[N]
  BY <1>1, <1>3
<1>8. N + 1 \in 1..(N + 1) /\ (N + 1 = 1 <=> N = 0) /\ (N + 1) - 1 = N
  BY <1>1
<1>9. Chained(more) => /\ Chained(lines)
                       /\ p.prev = HeadAfter(lines).prev
                       /\ p.seq = HeadAfter(lines).seq
  <2> SUFFICES ASSUME Chained(more)
               PROVE  /\ Chained(lines)
                      /\ p.prev = HeadAfter(lines).prev
                      /\ p.seq = HeadAfter(lines).seq
    OBVIOUS
  <2>1. \A i \in 1..N : i = 1 \/ more[i - 1] = lines[i - 1]
    BY <1>3, <1>6
  <2>2. Chained(lines)
    BY <1>1, <1>3, <1>6, <2>1 DEF Chained
  <2>3. /\ p.prev = IF N = 0 THEN Seed ELSE more[N].window
        /\ p.seq = IF N = 0 THEN 0 ELSE more[N].seq + 1
    BY <1>3, <1>8 DEF Chained
  <2> QED
    BY <1>4, <1>7, <2>2, <2>3
<1>10. ASSUME Chained(lines), p.prev = HeadAfter(lines).prev, p.seq = HeadAfter(lines).seq
       PROVE  Chained(more)
  BY <1>1, <1>3, <1>4, <1>5, <1>6, <1>7, <1>8, <1>10 DEF Chained
<1> QED
  BY <1>2, <1>9, <1>10

\* What the walk knows after some lines.
Walks(T) == [prev : T \cup {Seed}, seq : Nat, breaks : Nat]

\* The reader's walk is a fold of WalkLine.
LEMMA WalkingSteps ==
  ASSUME NEW T, NEW K \in Nat, NEW lines \in Seq(LineSet(T, K))
  PROVE  /\ Walking(lines)[0] = [prev |-> Seed, seq |-> 0, breaks |-> 0]
         /\ \A n \in 1..Len(lines) :
               Walking(lines)[n] = WalkLine(Walking(lines)[n - 1], lines[n])
<1> DEFINE step == [s \in Walks(T) \X LineSet(T, K) |-> WalkLine(s[1], s[2])]
           base == [prev |-> Seed, seq |-> 0, breaks |-> 0]
           Recursive(g) == g = [n \in 0..Len(lines) |->
                                   IF n = 0 THEN [prev |-> Seed, seq |-> 0, breaks |-> 0]
                                   ELSE WalkLine(g[n - 1], lines[n])]
<1>1. ASSUME NEW a \in Walks(T), NEW b \in LineSet(T, K) PROVE WalkLine(a, b) \in Walks(T)
  BY DEF WalkLine, Walks, LineSet
<1>2. /\ step \in [Walks(T) \X LineSet(T, K) -> Walks(T)]
      /\ \A a \in Walks(T), b \in LineSet(T, K) : step[<<a, b>>] = WalkLine(a, b)
  BY <1>1
<1>3. base \in Walks(T)
  BY DEF Walks
<1> HIDE DEF step, base
<1>4. PICK g \in [0..Len(lines) -> Walks(T)] : IsFold(g, step, base, lines)
  BY <1>2, <1>3, FoldExists
<1>5. \A n \in 0..Len(lines) : g[n] = IF n = 0 THEN base ELSE WalkLine(g[n - 1], lines[n])
  <2> SUFFICES ASSUME NEW n \in 0..Len(lines), n # 0
               PROVE  g[n] = WalkLine(g[n - 1], lines[n])
    BY <1>4 DEF IsFold
  <2>1. g[n - 1] \in Walks(T) /\ lines[n] \in LineSet(T, K)
    OBVIOUS
  <2>2. g[n] = step[<<g[n - 1], lines[n]>>]
    BY <1>4 DEF IsFold
  <2> QED
    BY <1>2, <2>1, <2>2
<1>6. Recursive(g)
  BY <1>4, <1>5 DEF base
<1>7. Recursive(Walking(lines))
  BY <1>6 DEF Walking
<1> QED
  BY <1>7

\* A chain of lines has no break.
LEMMA ChainedReads ==
  ASSUME NEW T, NEW K \in Nat, NEW lines \in Seq(LineSet(T, K)), Chained(lines)
  PROVE  Walking(lines)[Len(lines)].breaks = 0
<1>1. PICK N \in Nat : N = Len(lines)
  OBVIOUS
<1>2. PICK w : w = Walking(lines)
  OBVIOUS
<1>3. /\ w[0] = [prev |-> Seed, seq |-> 0, breaks |-> 0]
      /\ \A n \in 1..N : w[n] = WalkLine(w[n - 1], lines[n])
  BY <1>1, <1>2, WalkingSteps
<1> DEFINE S == {n \in Nat : /\ w[n].prev = IF n = 0 THEN Seed ELSE lines[n].window
                             /\ w[n].seq = IF n = 0 THEN 0 ELSE lines[n].seq + 1
                             /\ w[n].breaks = 0}
<1>4. 0 \in S
  BY <1>3
<1>5. ASSUME NEW n \in 0..(N - 1), n \in S PROVE n + 1 \in S
  <2>1. /\ n + 1 \in 1..N /\ (n + 1) - 1 = n /\ n + 1 \in Nat /\ n + 1 # 0
        /\ (n + 1 = 1 <=> n = 0)
    BY <1>1
  <2>2. w[n + 1] = WalkLine(w[n], lines[n + 1])
    BY <1>3, <2>1
  <2>3. /\ lines[n + 1].prev = IF n = 0 THEN Seed ELSE lines[n].window
        /\ lines[n + 1].seq = IF n = 0 THEN 0 ELSE lines[n].seq + 1
    BY <1>1, <2>1 DEF Chained
  <2>4. /\ w[n].prev = lines[n + 1].prev /\ w[n].seq = lines[n + 1].seq
        /\ w[n].breaks = 0
    BY <1>5, <2>3
  <2>5. /\ w[n + 1].prev = lines[n + 1].window
        /\ w[n + 1].seq = lines[n + 1].seq + 1
        /\ w[n + 1].breaks = 0
    BY <2>2, <2>4 DEF WalkLine
  <2> QED
    BY <2>1, <2>5
<1> HIDE DEF S
<1>6. 0..N \subseteq S
  BY <1>1, <1>4, <1>5, BoundedInduction
<1>7. w[N].breaks = 0
  BY <1>1, <1>6 DEF S
<1> QED
  BY <1>1, <1>2, <1>7

-----------------------------------------------------------------------------
(* What the writer makes of a file.                                        *)

\* A file that reads well: no torn character, every piece but the last ended,
\* the lines in a chain.
Sound(pieces) ==
    /\ \A i \in 1..Len(pieces) : pieces[i].what # "torn"
    /\ \A i \in 1..(Len(pieces) - 1) : pieces[i].ended
    /\ Chained(LinesOf(pieces))

\* The writer's count and chain head are those of the file.
HeadOf(pieces, p, s) ==
    /\ AllEnded(pieces)
    /\ p = HeadAfter(LinesOf(pieces)).prev
    /\ s = HeadAfter(LinesOf(pieces)).seq

\* The head is the last line's, which is after one more line that line's.
LEMMA HeadOfAppend ==
  ASSUME NEW T, NEW K \in Nat, NEW lines \in Seq(LineSet(T, K)), NEW p \in LineSet(T, K)
  PROVE  HeadAfter(Append(lines, p)) = [prev |-> p.window, seq |-> p.seq + 1]
<1>1. PICK more : more = Append(lines, p)
  OBVIOUS
<1>2. Len(more) = Len(lines) + 1 /\ more[Len(lines) + 1] = p /\ more # <<>>
  BY <1>1
<1>3. Last(more) = p
  BY <1>2 DEF Last
<1> QED
  BY <1>1, <1>2, <1>3 DEF HeadAfter

\* A whole line that carries the head of a file keeps it well and becomes its
\* head.
LEMMA WriteKeeps ==
  ASSUME NEW T, NEW K \in Nat, NEW pieces \in Seq(PieceSet(T, K)), Sound(pieces),
         NEW p \in LineSet(T, K), HeadOf(pieces, p.prev, p.seq)
  PROVE  /\ Sound(Append(pieces, p))
         /\ p.ended => HeadOf(Append(pieces, p), p.window, p.seq + 1)
<1>1. PICK N \in Nat : N = Len(pieces)
  OBVIOUS
<1>2. PICK more : more = Append(pieces, p)
  OBVIOUS
<1>3. /\ Len(more) = N + 1 /\ more[N + 1] = p
      /\ \A i \in 1..N : more[i] = pieces[i]
  BY <1>1, <1>2
<1>4. p.what = "line" /\ p \in PieceSet(T, K)
  BY DEF LineSet, PieceSet
<1>5. PICK lines : lines = LinesOf(pieces)
  OBVIOUS
<1>6. lines \in Seq(LineSet(T, K)) /\ Chained(lines)
  BY <1>5, LinesOfType DEF Sound
<1>7. LinesOf(more) = Append(lines, p)
  BY <1>2, <1>4, <1>5, LinesOfAppend DEF HeadOf
<1>8. Chained(Append(lines, p))
  BY <1>5, <1>6, ChainedAppend DEF HeadOf
<1>9. Sound(more)
  BY <1>1, <1>3, <1>4, <1>7, <1>8 DEF Sound, HeadOf, AllEnded
<1>10. ASSUME p.ended PROVE HeadOf(more, p.window, p.seq + 1)
  <2>1. HeadAfter(LinesOf(more)) = [prev |-> p.window, seq |-> p.seq + 1]
    BY <1>6, <1>7, HeadOfAppend
  <2>2. AllEnded(more)
    BY <1>1, <1>3, <1>10 DEF HeadOf, AllEnded
  <2> QED
    BY <2>1, <2>2 DEF HeadOf
<1> QED
  BY <1>2, <1>9, <1>10

\* A fragment keeps it well too, and when it is ended the head as it is.
LEMMA FragmentKeeps ==
  ASSUME NEW T, NEW K \in Nat, NEW pieces \in Seq(PieceSet(T, K)), Sound(pieces),
         NEW p \in PieceSet(T, K), p.what = "part",
         NEW h, NEW s, HeadOf(pieces, h, s)
  PROVE  /\ Sound(Append(pieces, p))
         /\ p.ended => HeadOf(Append(pieces, p), h, s)
<1>1. PICK N \in Nat : N = Len(pieces)
  OBVIOUS
<1>2. PICK more : more = Append(pieces, p)
  OBVIOUS
<1>3. /\ Len(more) = N + 1 /\ more[N + 1] = p
      /\ \A i \in 1..N : more[i] = pieces[i]
  BY <1>1, <1>2
<1>4. LinesOf(more) = LinesOf(pieces)
  BY <1>2, LinesOfAppend DEF HeadOf
<1>5. Sound(more)
  BY <1>1, <1>3, <1>4 DEF Sound, HeadOf, AllEnded
<1>6. p.ended => HeadOf(more, h, s)
  BY <1>1, <1>3, <1>4 DEF HeadOf, AllEnded
<1> QED
  BY <1>2, <1>5, <1>6

\* A file of nothing reads well and has the head of a fresh chain.
LEMMA NothingReads == Sound(<<>>) /\ HeadOf(<<>>, Seed, 0)
<1>1. LinesOf(<<>>) = <<>> /\ Len(<<>>) = 0
  BY LinesOfNothing
<1> QED
  BY <1>1 DEF Sound, HeadOf, AllEnded, Chained, HeadAfter, Head0

\* The pieces but the last.
LEMMA FrontFacts ==
  ASSUME NEW T, NEW K \in Nat, NEW pieces \in Seq(PieceSet(T, K)), pieces # <<>>
  PROVE  /\ Front(pieces) \in Seq(PieceSet(T, K))
         /\ Len(Front(pieces)) = Len(pieces) - 1
         /\ \A i \in 1..(Len(pieces) - 1) : Front(pieces)[i] = pieces[i]
         /\ Last(pieces) \in PieceSet(T, K)
         /\ Last(pieces) = pieces[Len(pieces)]
         /\ pieces = Append(Front(pieces), Last(pieces))
<1>1. PICK N \in Nat : N + 1 = Len(pieces)
  OBVIOUS
<1>2. PICK front : front = Front(pieces)
  OBVIOUS
<1>3. front = SubSeq(pieces, 1, N)
  BY <1>1, <1>2 DEF Front
<1>4. /\ front \in Seq(PieceSet(T, K)) /\ Len(front) = N
      /\ \A i \in 1..N : front[i] = pieces[i]
  BY <1>1, <1>3
<1>5. Last(pieces) = pieces[N + 1] /\ pieces[N + 1] \in PieceSet(T, K)
  BY <1>1 DEF Last
<1>6. pieces = Append(front, pieces[N + 1])
  BY <1>1, <1>4
<1> QED
  BY <1>1, <1>2, <1>4, <1>5, <1>6

\* An ended piece is the piece, ended.
LEMMA EndedFacts ==
  ASSUME NEW T, NEW K \in Nat, NEW p \in PieceSet(T, K)
  PROVE  /\ Ended(p) \in PieceSet(T, K) /\ Ended(p).ended /\ Ended(p).what = p.what
         /\ p.what = "line" => /\ Ended(p) \in LineSet(T, K)
                               /\ Ended(p).window = p.window
                               /\ Ended(p).prev = p.prev
                               /\ Ended(p).seq = p.seq
                               /\ Ended(p).drops = p.drops
<1>1. CASE p \in LineSet(T, K)
  BY <1>1 DEF Ended, LineSet, PieceSet
<1>2. CASE p \in [what : {"part", "torn"}, ended : BOOLEAN]
  BY <1>2 DEF Ended, PieceSet
<1> QED
  BY <1>1, <1>2 DEF PieceSet

\* Ending the last piece keeps the others, and what the last one is.
LEMMA TerminatedFacts ==
  ASSUME NEW T, NEW K \in Nat, NEW pieces \in Seq(PieceSet(T, K))
  PROVE  /\ Terminated(pieces) \in Seq(PieceSet(T, K))
         /\ Len(Terminated(pieces)) = Len(pieces)
         /\ \A i \in 1..Len(pieces) :
               /\ Terminated(pieces)[i].what = pieces[i].what
               /\ pieces[i].what = "line" =>
                     /\ Terminated(pieces)[i].window = pieces[i].window
                     /\ Terminated(pieces)[i].drops = pieces[i].drops
<1>1. CASE pieces = <<>>
  BY <1>1 DEF Terminated
<1>2. CASE pieces # <<>>
  <2>1. PICK front, last : front = Front(pieces) /\ last = Last(pieces)
    OBVIOUS
  <2>2. /\ front \in Seq(PieceSet(T, K)) /\ Len(front) = Len(pieces) - 1
        /\ \A i \in 1..(Len(pieces) - 1) : front[i] = pieces[i]
        /\ last \in PieceSet(T, K) /\ last = pieces[Len(pieces)]
    BY <1>2, <2>1, FrontFacts
  <2>3. PICK end : end = Ended(last)
    OBVIOUS
  <2>4. /\ end \in PieceSet(T, K) /\ end.what = last.what
        /\ last.what = "line" => end.window = last.window /\ end.drops = last.drops
    BY <2>2, <2>3, EndedFacts
  <2>5. Terminated(pieces) = Append(front, end)
    BY <1>2, <2>1, <2>3 DEF Terminated
  <2>6. PICK more : more = Append(front, end)
    OBVIOUS
  <2>7. /\ more \in Seq(PieceSet(T, K)) /\ Len(more) = Len(pieces)
        /\ \A i \in 1..(Len(pieces) - 1) : more[i] = pieces[i]
        /\ more[Len(pieces)] = end
    <3>1. PICK N \in Nat : N = Len(front) /\ Len(pieces) = N + 1 /\ Len(pieces) - 1 = N
      BY <2>2
    <3>2. /\ more \in Seq(PieceSet(T, K)) /\ Len(more) = N + 1
          /\ \A i \in 1..N : more[i] = front[i]
          /\ more[N + 1] = end
      BY <2>2, <2>4, <2>6, <3>1
    <3> QED
      BY <2>2, <3>1, <3>2
  <2>8. \A i \in 1..Len(pieces) : i \in 1..(Len(pieces) - 1) \/ i = Len(pieces)
    OBVIOUS
  <2> QED
    BY <2>2, <2>4, <2>5, <2>6, <2>7, <2>8
<1> QED
  BY <1>1, <1>2

\* A file that reads well does so with its last piece ended, and then has a
\* head.
LEMMA TerminatedReads ==
  ASSUME NEW T, NEW K \in Nat, NEW pieces \in Seq(PieceSet(T, K)), Sound(pieces)
  PROVE  /\ Sound(Terminated(pieces))
         /\ AllEnded(Terminated(pieces))
<1>1. CASE pieces = <<>>
  BY <1>1, NothingReads DEF Terminated, HeadOf
<1>2. CASE pieces # <<>>
  <2>1. PICK front, last : front = Front(pieces) /\ last = Last(pieces)
    OBVIOUS
  <2>2. /\ front \in Seq(PieceSet(T, K)) /\ Len(front) = Len(pieces) - 1
        /\ \A i \in 1..(Len(pieces) - 1) : front[i] = pieces[i]
        /\ last \in PieceSet(T, K) /\ last = pieces[Len(pieces)]
        /\ pieces = Append(front, last)
    BY <1>2, <2>1, FrontFacts
  <2>3. PICK end : end = Ended(last)
    OBVIOUS
  <2>4. /\ end \in PieceSet(T, K) /\ end.ended /\ end.what = last.what
        /\ last.what = "line" => /\ end \in LineSet(T, K)
                                 /\ end.prev = last.prev /\ end.seq = last.seq
    BY <2>2, <2>3, EndedFacts
  <2>5. Terminated(pieces) = Append(front, end)
    BY <1>2, <2>1, <2>3 DEF Terminated
  <2>6. PICK N \in Nat : N + 1 = Len(pieces)
    BY <1>2
  <2>7. AllEnded(front)
    BY <2>2, <2>6 DEF Sound, AllEnded
  <2>8. PICK lines : lines = LinesOf(front)
    OBVIOUS
  <2>9. lines \in Seq(LineSet(T, K))
    BY <2>2, <2>8, LinesOfType
  <2>10. /\ LinesOf(pieces) = IF last.what = "line" THEN Append(lines, last) ELSE lines
         /\ LinesOf(Append(front, end)) = IF end.what = "line" THEN Append(lines, end) ELSE lines
    <3>1. front \in Seq(PieceSet(T, K)) /\ last \in PieceSet(T, K) /\ end \in PieceSet(T, K)
      BY <2>2, <2>4
    <3>2. LinesOf(Append(front, last)) = IF last.what = "line" THEN Append(LinesOf(front), last)
                                         ELSE LinesOf(front)
      BY <2>7, <3>1, LinesOfAppend
    <3>3. LinesOf(Append(front, end)) = IF end.what = "line" THEN Append(LinesOf(front), end)
                                        ELSE LinesOf(front)
      BY <2>7, <3>1, LinesOfAppend
    <3> QED
      BY <2>2, <2>8, <3>2, <3>3
  <2>11. Chained(LinesOf(Append(front, end)))
    <3>1. CASE last.what = "line"
      <4>1. last \in LineSet(T, K)
        BY <2>2, <3>1, PieceFacts
      <4>2. /\ Chained(lines)
            /\ last.prev = HeadAfter(lines).prev
            /\ last.seq = HeadAfter(lines).seq
        BY <2>9, <2>10, <3>1, <4>1, ChainedAppend DEF Sound
      <4>3. Chained(Append(lines, end))
        BY <2>4, <2>9, <3>1, <4>2, ChainedAppend
      <4> QED
        BY <2>4, <2>10, <3>1, <4>3
    <3>2. CASE last.what # "line"
      BY <2>4, <2>10, <3>2 DEF Sound
    <3> QED
      BY <3>1, <3>2
  <2>12. PICK more : more = Append(front, end)
    OBVIOUS
  <2>13. /\ Len(more) = N + 1 /\ more[N + 1] = end
         /\ \A i \in 1..N : more[i] = pieces[i]
    BY <2>2, <2>6, <2>12
  <2>14. /\ \A i \in 1..N : pieces[i].ended
         /\ \A i \in 1..(N + 1) : pieces[i].what # "torn"
    BY <2>6 DEF Sound
  <2>15. AllEnded(more)
    BY <2>4, <2>13, <2>14 DEF AllEnded
  <2>16. \A i \in 1..(N + 1) : more[i].what # "torn"
    BY <2>2, <2>4, <2>6, <2>13, <2>14
  <2>17. Sound(more)
    BY <2>11, <2>12, <2>13, <2>15, <2>16 DEF Sound, AllEnded
  <2> QED
    BY <2>5, <2>12, <2>15, <2>17
<1> QED
  BY <1>1, <1>2

\* Pieces that have all ended are left as they are.
LEMMA TerminatedSame ==
  ASSUME NEW T, NEW K \in Nat, NEW pieces \in Seq(PieceSet(T, K)), AllEnded(pieces)
  PROVE  Terminated(pieces) = pieces
<1>1. CASE pieces = <<>>
  BY <1>1 DEF Terminated
<1>2. CASE pieces # <<>>
  <2>1. PICK front, last : front = Front(pieces) /\ last = Last(pieces)
    OBVIOUS
  <2>2. /\ last \in PieceSet(T, K) /\ last = pieces[Len(pieces)]
        /\ pieces = Append(front, last)
    BY <1>2, <2>1, FrontFacts
  <2>3. last.ended \in BOOLEAN /\ last.ended
    BY <1>2, <2>2, PieceFacts DEF AllEnded
  <2>4. Ended(last) = last
    BY <2>2, <2>3 DEF Ended, PieceSet, LineSet
  <2>5. Terminated(pieces) = Append(front, Ended(last))
    BY <1>2, <2>1 DEF Terminated
  <2> QED
    BY <2>2, <2>4, <2>5
<1> QED
  BY <1>1, <1>2

\* A start finds the head of a file that reads well, once its last piece is
\* ended.
LEMMA ResumesHead ==
  ASSUME NEW T, NEW K \in Nat, NEW pieces \in Seq(PieceSet(T, K)), Sound(pieces),
         AllEnded(pieces)
  PROVE  HeadOf(pieces, Resume(pieces).prev, Resume(pieces).seq)
<1>1. \A i \in DOMAIN pieces : pieces[i].what # "torn"
  BY DEF Sound
<1>2. Resume(pieces) = HeadAfter(LinesOf(pieces))
  BY <1>1 DEF Resume, LinesOf
<1> QED
  BY <1>2 DEF HeadOf

\* Whatever the file, the head a start takes is one: the seed, or a line's
\* window and its successor's number.
LEMMA ResumeType ==
  ASSUME NEW T, NEW K \in Nat, NEW pieces \in Seq(PieceSet(T, K))
  PROVE  Resume(pieces).prev \in T \cup {Seed} /\ Resume(pieces).seq \in 0..K
<1> DEFINE torn == {i \in DOMAIN pieces : pieces[i].what = "torn"}
           n == IF torn = {} THEN Len(pieces) ELSE Min(torn) - 1
<1>1. n \in 0..Len(pieces)
  <2>1. CASE torn = {}
    BY <2>1
  <2>2. CASE torn # {}
    <3>1. torn \in SUBSET Nat
      OBVIOUS
    <3>2. \E i \in torn : \A j \in torn : i <= j
      BY <2>2, <3>1, LeastNatural
    <3>3. Min(torn) \in torn
      BY <3>2 DEF Min
    <3> HIDE DEF torn
    <3>4. Min(torn) \in 1..Len(pieces)
      BY <3>3 DEF torn
    <3> QED
      BY <2>2, <3>4
  <2> QED
    BY <2>1, <2>2
<1> HIDE DEF n
<1>2. PICK lines : lines = LinesUpTo(pieces, n)
  OBVIOUS
<1>3. lines \in Seq(LineSet(T, K))
  BY <1>1, <1>2, GatheringSteps DEF LinesUpTo
<1>4. Resume(pieces) = HeadAfter(lines)
  BY <1>2 DEF Resume, n
<1>5. CASE lines = <<>>
  BY <1>4, <1>5 DEF HeadAfter, Head0
<1>6. CASE lines # <<>>
  <2>1. Last(lines) \in LineSet(T, K)
    BY <1>3, <1>6 DEF Last
  <2>2. Last(lines).window \in T /\ Last(lines).seq \in 0..(K - 1)
    BY <2>1 DEF LineSet
  <2>3. HeadAfter(lines) = [prev |-> Last(lines).window, seq |-> Last(lines).seq + 1]
    BY <1>6 DEF HeadAfter
  <2> QED
    BY <1>4, <2>2, <2>3
<1> QED
  BY <1>5, <1>6

-----------------------------------------------------------------------------
(* A file after an operation.                                              *)

\* As more windows leave the channel pieces stay pieces.
LEMMA PiecesStay ==
  ASSUME NEW T, NEW K \in Nat, NEW L \in Nat, K <= L
  PROVE  /\ LineSet(T, K) \subseteq LineSet(T, L)
         /\ PieceSet(T, K) \subseteq PieceSet(T, L)
         /\ \A pieces \in Seq(PieceSet(T, K)) : pieces \in Seq(PieceSet(T, L))
<1>1. 0..(K - 1) \subseteq 0..(L - 1) /\ 0..K \subseteq 0..L
  OBVIOUS
<1>2. LineSet(T, K) \subseteq LineSet(T, L)
  BY <1>1 DEF LineSet
<1>3. PieceSet(T, K) \subseteq PieceSet(T, L)
  BY <1>2 DEF PieceSet
<1> QED
  BY <1>2, <1>3

\* The lines of new are lines of old in their places, but for one of a window
\* in W that may follow them, with the present count of drops.
OneMore(old, new, W) ==
    \A i \in DOMAIN new : new[i].what = "line" =>
        \/ /\ i \in DOMAIN old
           /\ old[i].what = "line"
           /\ old[i].window = new[i].window /\ old[i].drops = new[i].drops
        \/ i = Len(old) + 1 /\ new[i].window \in W /\ new[i].drops = drops

\* The lines of old are in new.
HoldsAll(old, new) ==
    \A i \in DOMAIN old : old[i].what = "line" =>
        /\ i \in DOMAIN new
        /\ new[i].what = "line" /\ new[i].window = old[i].window

\* One more piece.
LEMMA AppendHolds ==
  ASSUME NEW P, NEW pieces \in Seq(P), NEW p \in P, NEW W,
         p.what = "line" => p.window \in W /\ p.drops = drops
  PROVE  /\ Append(pieces, p) \in Seq(P)
         /\ OneMore(pieces, Append(pieces, p), W)
         /\ HoldsAll(pieces, Append(pieces, p))
<1>1. PICK more : more = Append(pieces, p)
  OBVIOUS
<1>2. PICK N \in Nat : N = Len(pieces)
  OBVIOUS
<1>3. /\ more \in Seq(P) /\ Len(more) = N + 1 /\ more[N + 1] = p
      /\ DOMAIN pieces = 1..N /\ DOMAIN more = 1..(N + 1)
      /\ \A i \in 1..N : more[i] = pieces[i]
  BY <1>1, <1>2
<1>4. \A i \in 1..(N + 1) : i \in 1..N \/ i = N + 1
  BY <1>2
<1>5. OneMore(pieces, more, W)
  BY <1>2, <1>3, <1>4 DEF OneMore
<1>6. HoldsAll(pieces, more)
  BY <1>2, <1>3 DEF HoldsAll
<1> QED
  BY <1>1, <1>3, <1>5, <1>6

\* The same pieces.
LEMMA SameHolds ==
  ASSUME NEW pieces, NEW W
  PROVE  OneMore(pieces, pieces, W) /\ HoldsAll(pieces, pieces)
BY DEF OneMore, HoldsAll

\* Pieces of the same kinds and windows hold the same lines, whatever has ended.
LEMMA AlikeHolds ==
  ASSUME NEW old, NEW new, NEW W, DOMAIN new = DOMAIN old,
         \A i \in DOMAIN old : /\ new[i].what = old[i].what
                               /\ old[i].what = "line" => /\ new[i].window = old[i].window
                                                          /\ new[i].drops = old[i].drops
  PROVE  OneMore(old, new, W) /\ HoldsAll(old, new)
BY DEF OneMore, HoldsAll

\* Every line of new is in old.
LinesFrom(old, new) ==
    \A i \in DOMAIN new : new[i].what = "line" =>
        /\ i \in DOMAIN old /\ old[i].what = "line"
        /\ old[i].window = new[i].window /\ old[i].drops = new[i].drops

\* Ending the last piece, too.
LEMMA TerminatedHolds ==
  ASSUME NEW T, NEW K \in Nat, NEW pieces \in Seq(PieceSet(T, K)), NEW W
  PROVE  /\ OneMore(pieces, Terminated(pieces), W) /\ HoldsAll(pieces, Terminated(pieces))
         /\ LinesFrom(pieces, Terminated(pieces))
<1>1. PICK more : more = Terminated(pieces)
  OBVIOUS
<1>2. /\ more \in Seq(PieceSet(T, K)) /\ Len(more) = Len(pieces)
      /\ \A i \in 1..Len(pieces) : /\ more[i].what = pieces[i].what
                                   /\ pieces[i].what = "line" =>
                                         /\ more[i].window = pieces[i].window
                                         /\ more[i].drops = pieces[i].drops
  BY <1>1, TerminatedFacts
<1>3. DOMAIN more = DOMAIN pieces /\ DOMAIN pieces = 1..Len(pieces)
  BY <1>2
<1>4. OneMore(pieces, more, W) /\ HoldsAll(pieces, more)
  BY <1>2, <1>3, AlikeHolds
<1>5. LinesFrom(pieces, more)
  BY <1>2, <1>3 DEF LinesFrom
<1> QED
  BY <1>1, <1>4, <1>5

\* What lies in between may have more.
LEMMA OneMoreThen ==
  ASSUME NEW old, NEW mid, NEW new, NEW W, OneMore(old, mid, W), LinesFrom(mid, new)
  PROVE  OneMore(old, new, W)
BY DEF OneMore, LinesFrom

\* Cutting a file to a length keeps what it keeps in its place.
LEMMA CutToFacts ==
  ASSUME NEW T, NEW K \in Nat, NEW pieces \in Seq(PieceSet(T, K)), NEW n \in Nat
  PROVE  /\ CutTo(pieces, n) \in Seq(PieceSet(T, K))
         /\ LinesFrom(pieces, CutTo(pieces, n))
<1>1. PICK N \in Nat : N = Len(pieces)
  OBVIOUS
<1>2. PICK new : new = CutTo(pieces, n)
  OBVIOUS
<1>3. CASE n <= N
  <2>1. new = SubSeq(pieces, 1, n)
    BY <1>1, <1>2, <1>3 DEF CutTo
  <2>2. /\ new \in Seq(PieceSet(T, K)) /\ Len(new) = n
        /\ \A i \in 1..n : i \in 1..N /\ new[i] = pieces[i]
    BY <2>1, <1>1, <1>3
  <2>3. DOMAIN new = 1..n /\ DOMAIN pieces = 1..N
    BY <2>2, <1>1
  <2>4. LinesFrom(pieces, new)
    BY <2>2, <2>3 DEF LinesFrom
  <2> QED
    BY <1>2, <2>2, <2>4
<1>4. CASE ~(n <= N)
  <2>1. PICK fill : fill = [i \in 1..(n - N) |-> Part]
    OBVIOUS
  <2>2. Part \in PieceSet(T, K) /\ Part.what = "part"
    BY DEF Part, PieceSet
  <2>3. n - N \in Nat
    BY <1>1, <1>4
  <2>4. /\ fill \in Seq(PieceSet(T, K)) /\ Len(fill) = n - N
        /\ \A i \in 1..(n - N) : fill[i] = Part
    BY <2>1, <2>2, <2>3
  <2>5. new = pieces \o fill
    BY <1>1, <1>2, <1>4, <2>1 DEF CutTo
  <2>6. /\ new \in Seq(PieceSet(T, K)) /\ Len(new) = n
        /\ \A i \in 1..N : new[i] = pieces[i]
        /\ \A i \in (N + 1)..n : new[i] = fill[i - N]
    BY <1>1, <1>4, <2>3, <2>4, <2>5
  <2>7. \A i \in (N + 1)..n : new[i].what = "part"
    <3> SUFFICES ASSUME NEW i \in (N + 1)..n PROVE new[i].what = "part"
      OBVIOUS
    <3>1. i - N \in 1..(n - N)
      BY <1>1, <1>4
    <3>2. new[i] = Part
      BY <2>4, <2>6, <3>1
    <3> QED
      BY <2>2, <3>2
  <2>8. DOMAIN new = 1..n /\ DOMAIN pieces = 1..N /\ \A i \in 1..n : i \in 1..N \/ i \in (N + 1)..n
    BY <1>1, <2>6
  <2>9. LinesFrom(pieces, new)
    BY <2>6, <2>7, <2>8 DEF LinesFrom
  <2> QED
    BY <1>2, <2>6, <2>9
<1> QED
  BY <1>3, <1>4

-----------------------------------------------------------------------------
(* The invariant.                                                          *)

\* Windows that have left the channel, or never got in.
Used == Cardinality(produced) - Len(channel)

ChannelRanges ==
    /\ setup \in Setups
    /\ produced \subseteq Stamps /\ IsFiniteSet(produced)
    /\ Cardinality(produced) <= setup.most
    /\ channel \in Seq(Stamps) /\ Len(channel) <= ChannelCapacity
    /\ Len(channel) <= Cardinality(produced)
    /\ drops \in 0..lost /\ lost \in 0..Used
    /\ running \in BOOLEAN
    /\ starts \in Nat

FileRanges ==
    /\ disk \in Seq(Seq(PieceSet(Stamps, Used)))
    /\ pruned \subseteq DOMAIN disk
    /\ fd \in DOMAIN disk \ pruned /\ DOMAIN disk = 1..fd
    /\ atPath \in {NoFile, fd}
    /\ readable \in BOOLEAN
    /\ counted \in Nat
    /\ prev \in Stamps \cup {Seed} /\ seq \in 0..Used
    /\ damaged \subseteq DOMAIN disk
    /\ written \subseteq Stamps \X DOMAIN disk

\* No window waits twice, and none that waits is in a file.
Fresh ==
    /\ \A i, j \in DOMAIN channel : i # j => channel[i] # channel[j]
    /\ \A i \in DOMAIN channel : channel[i] \in produced
    /\ \A f \in DOMAIN disk : \A i \in DOMAIN disk[f] : disk[f][i].what = "line" =>
          /\ disk[f][i].window \in produced
          /\ \A j \in DOMAIN channel : channel[j] # disk[f][i].window

\* No window is in two places.
OnePlace ==
    \A f, g \in DOMAIN disk : \A i \in DOMAIN disk[f], j \in DOMAIN disk[g] :
        /\ disk[f][i].what = "line" /\ disk[g][j].what = "line"
        /\ disk[f][i].window = disk[g][j].window
        => f = g /\ i = j

FilesSound == \A f \in DOMAIN disk \ damaged : Sound(disk[f])

\* What the writer knows of the file it has open; without window lines it
\* stays as it is when the daemon stops.
HeadTrue ==
    (running \/ ~setup.windows) /\ fd \notin damaged =>
        counted = Len(disk[fd]) /\ HeadOf(disk[fd], prev, seq)

\* What was written to a file is in it.
Kept ==
    \A w \in Stamps, f \in DOMAIN disk \ damaged : <<w, f>> \in written =>
        \E i \in DOMAIN disk[f] : disk[f][i].what = "line" /\ disk[f][i].window = w

FileInv == /\ ChannelRanges /\ FileRanges /\ Fresh /\ OnePlace /\ FilesSound
           /\ HeadTrue /\ Kept

\* A step on the file the writer has open that may add a line of a window in W.
DiskStep(W) ==
    /\ disk' \in Seq(Seq(PieceSet(Stamps, Used')))
    /\ DOMAIN disk \subseteq DOMAIN disk'
    /\ \A f \in DOMAIN disk' \ {fd} : /\ f \in DOMAIN disk => disk'[f] = disk[f]
                                      /\ f \notin DOMAIN disk => disk'[f] = <<>>
    /\ OneMore(disk[fd], disk'[fd], W)
    /\ damaged \subseteq damaged' /\ damaged' \subseteq DOMAIN disk'
    /\ fd \notin damaged' => Sound(disk'[fd]) /\ HoldsAll(disk[fd], disk'[fd])

\* A step that does no more to the files.
DiskGrows == disk' = disk \/ \E W : DiskStep(W)

\* The windows in W are in no file, and those that still wait are others.
Leaves(W) ==
    /\ UNCHANGED produced /\ W \subseteq produced
    /\ \A f \in DOMAIN disk : \A i \in DOMAIN disk[f] :
          disk[f][i].what = "line" => disk[f][i].window \notin W
    /\ \A i, j \in DOMAIN channel' : i # j => channel'[i] # channel'[j]
    /\ \A i \in DOMAIN channel' : /\ channel'[i] \notin W
                                   /\ \E j \in DOMAIN channel : channel'[i] = channel[j]

\* Such a step puts no window where one waits, or in a second place.
LEMMA DiskStepFresh ==
  ASSUME Fresh, fd \in DOMAIN disk, NEW W, DiskStep(W), Leaves(W)
  PROVE  Fresh'
<1>1. ASSUME NEW f \in DOMAIN disk', NEW i \in DOMAIN disk'[f], disk'[f][i].what = "line"
      PROVE  /\ disk'[f][i].window \in produced'
             /\ \A j \in DOMAIN channel' : channel'[j] # disk'[f][i].window
  <2>1. CASE f \in DOMAIN disk /\ disk'[f] = disk[f]
    BY <1>1, <2>1 DEF Fresh, Leaves
  <2>2. CASE disk'[f] = <<>>
    BY <1>1, <2>2
  <2>3. CASE f = fd
    <3>1. CASE /\ i \in DOMAIN disk[fd] /\ disk[fd][i].what = "line"
               /\ disk[fd][i].window = disk'[fd][i].window
      BY <2>3, <3>1 DEF Fresh, Leaves
    <3>2. CASE disk'[fd][i].window \in W
      BY <2>3, <3>2 DEF Leaves
    <3> QED
      BY <1>1, <2>3, <3>1, <3>2 DEF DiskStep, OneMore
  <2> QED
    BY <2>1, <2>2, <2>3 DEF DiskStep
<1>2. /\ \A i, j \in DOMAIN channel' : i # j => channel'[i] # channel'[j]
      /\ \A i \in DOMAIN channel' : channel'[i] \in produced'
  BY DEF Leaves, Fresh
<1> QED
  BY <1>1, <1>2 DEF Fresh

LineAt(pieces, i, w) == i \in DOMAIN pieces /\ pieces[i].what = "line" /\ pieces[i].window = w

\* A step on the open file puts no window in a second place.
LEMMA DiskStepOnePlace ==
  ASSUME OnePlace, fd \in DOMAIN disk, NEW W, DiskStep(W), Leaves(W)
  PROVE  OnePlace'
<1>1. ASSUME NEW f \in DOMAIN disk', NEW i, NEW w, LineAt(disk'[f], i, w)
      PROVE  \/ f \in DOMAIN disk /\ LineAt(disk[f], i, w)
             \/ f = fd /\ i = Len(disk[fd]) + 1 /\ w \in W
  <2>1. CASE f \in DOMAIN disk /\ disk'[f] = disk[f]
    BY <1>1, <2>1
  <2>2. CASE disk'[f] = <<>>
    BY <1>1, <2>2 DEF LineAt
  <2>3. CASE f = fd
    BY <1>1, <2>3 DEF DiskStep, OneMore, LineAt
  <2> QED
    BY <2>1, <2>2, <2>3 DEF DiskStep
<1>2. ASSUME NEW f \in DOMAIN disk, NEW i, NEW w \in W PROVE ~ LineAt(disk[f], i, w)
  BY <1>2 DEF Leaves, LineAt
<1>3. ASSUME NEW f \in DOMAIN disk', NEW g \in DOMAIN disk', NEW i, NEW j, NEW w,
             LineAt(disk'[f], i, w), LineAt(disk'[g], j, w)
      PROVE  f = g /\ i = j
  <2>1. CASE w \in W
    BY <1>1, <1>2, <1>3, <2>1
  <2>2. CASE w \notin W
    <3>1. /\ f \in DOMAIN disk /\ LineAt(disk[f], i, w)
          /\ g \in DOMAIN disk /\ LineAt(disk[g], j, w)
      BY <1>1, <1>3, <2>2
    <3> QED
      BY <3>1 DEF OnePlace, LineAt
  <2> QED
    BY <2>1, <2>2
<1>4. ASSUME NEW f \in DOMAIN disk', NEW g \in DOMAIN disk',
             NEW i \in DOMAIN disk'[f], NEW j \in DOMAIN disk'[g],
             disk'[f][i].what = "line", disk'[g][j].what = "line",
             disk'[f][i].window = disk'[g][j].window
      PROVE  f = g /\ i = j
  <2>1. LineAt(disk'[f], i, disk'[f][i].window) /\ LineAt(disk'[g], j, disk'[f][i].window)
    BY <1>4 DEF LineAt
  <2> QED
    BY <1>3, <2>1
<1> QED
  BY <1>4 DEF OnePlace

\* Files the writer left well stay well.
LEMMA DiskStepSound ==
  ASSUME FilesSound, fd \in DOMAIN disk, NEW W, DiskStep(W)
  PROVE  FilesSound'
<1> SUFFICES ASSUME NEW f \in DOMAIN disk' \ damaged' PROVE Sound(disk'[f])
  BY DEF FilesSound
<1>1. CASE f = fd
  BY <1>1 DEF DiskStep
<1>2. CASE f # fd
  <2>1. CASE f \in DOMAIN disk /\ disk'[f] = disk[f]
    BY <2>1 DEF DiskStep, FilesSound
  <2>2. CASE disk'[f] = <<>>
    BY <2>2, NothingReads
  <2> QED
    BY <1>2, <2>1, <2>2 DEF DiskStep
<1> QED
  BY <1>1, <1>2

\* What was written and what the step wrote is in its file.
LEMMA DiskStepKeeps ==
  ASSUME Kept, fd \in DOMAIN disk, NEW W, DiskStep(W), UNCHANGED setup,
         \A w \in Stamps, f \in DOMAIN disk' : <<w, f>> \in written' =>
            \/ f \in DOMAIN disk /\ <<w, f>> \in written
            \/ f = fd /\ \E i \in DOMAIN disk'[fd] : LineAt(disk'[fd], i, w)
  PROVE  Kept'
<1>1. Stamps' = Stamps
  BY DEF Stamps
<1> SUFFICES ASSUME NEW w \in Stamps, NEW f \in DOMAIN disk' \ damaged', <<w, f>> \in written'
             PROVE  \E i \in DOMAIN disk'[f] : disk'[f][i].what = "line" /\ disk'[f][i].window = w
  BY <1>1 DEF Kept
<1>2. CASE f = fd /\ \E i \in DOMAIN disk'[fd] : LineAt(disk'[fd], i, w)
  BY <1>2 DEF LineAt
<1>3. CASE f \in DOMAIN disk /\ <<w, f>> \in written
  <2>1. PICK i \in DOMAIN disk[f] : disk[f][i].what = "line" /\ disk[f][i].window = w
    BY <1>3 DEF Kept, DiskStep
  <2>2. CASE f = fd
    BY <2>1, <2>2 DEF DiskStep, HoldsAll
  <2>3. CASE f # fd /\ disk'[f] = disk[f]
    BY <2>1, <2>3
  <2> QED
    BY <1>3, <2>2, <2>3 DEF DiskStep
<1> QED
  BY <1>2, <1>3

-----------------------------------------------------------------------------
(* The channel.                                                            *)

\* What is true of the windows that have left the channel.
LEMMA UsedFacts ==
  ASSUME ChannelRanges
  PROVE  /\ Cardinality(produced) \in Nat /\ Len(channel) \in Nat
         /\ Used \in Nat /\ Cardinality(produced) = Used + Len(channel)
         /\ Used <= setup.most /\ drops \in Nat /\ drops <= Used
<1>1. PICK c : c = Cardinality(produced)
  OBVIOUS
<1>2. PICK n : n = Len(channel)
  OBVIOUS
<1>3. PICK m : m = setup.most
  OBVIOUS
<1>4. c \in Nat /\ n \in Nat /\ n <= c /\ c <= m
  BY <1>1, <1>2, <1>3, FS_CardinalityType DEF ChannelRanges
<1>5. m \in Nat
  BY <1>3, ArchiveAssumption DEF ChannelRanges
<1>6. Used = c - n
  BY <1>1, <1>2 DEF Used
<1>7. drops \in 0..lost /\ lost \in 0..Used
  BY DEF ChannelRanges
<1> QED
  BY <1>1, <1>2, <1>3, <1>4, <1>5, <1>6, <1>7

\* The window at the head of the channel leaves it.
LEMMA HeadLeaves ==
  ASSUME ChannelRanges, Fresh, channel # <<>>, channel' = Tail(channel),
         UNCHANGED <<setup, produced>>, NEW w, w = Head(channel)
  PROVE  /\ w \in Stamps
         /\ Leaves({w})
         /\ Used' = Used + 1 /\ Stamps' = Stamps
         /\ channel' \in Seq(Stamps) /\ Len(channel') <= ChannelCapacity
         /\ Len(channel') <= Cardinality(produced)
<1>1. PICK q, r : q = channel /\ r = channel'
  OBVIOUS
<1>2. PICK n \in Nat : n + 1 = Len(q)
  BY <1>1 DEF ChannelRanges
<1>3. /\ q \in Seq(Stamps) /\ DOMAIN q = 1..(n + 1) /\ w = q[1]
      /\ r \in Seq(Stamps) /\ Len(r) = n /\ DOMAIN r = 1..n
      /\ \A i \in 1..n : r[i] = q[i + 1]
  BY <1>1, <1>2 DEF ChannelRanges
<1>4. w \in Stamps /\ 1 \in DOMAIN q
  BY <1>2, <1>3
<1>5. /\ \A i, j \in DOMAIN q : i # j => q[i] # q[j]
      /\ \A i \in DOMAIN q : q[i] \in produced
      /\ \A f \in DOMAIN disk : \A i \in DOMAIN disk[f] : disk[f][i].what = "line" =>
            \A j \in DOMAIN q : q[j] # disk[f][i].window
  BY <1>1 DEF Fresh
<1>6. \A i \in 1..n : i + 1 \in 1..(n + 1) /\ i + 1 # 1
  BY <1>2
<1>7. /\ \A i \in DOMAIN r : r[i] \notin {w} /\ \E j \in DOMAIN q : r[i] = q[j]
      /\ \A i, j \in DOMAIN r : i # j => r[i] # r[j]
  <2>1. ASSUME NEW i \in 1..n PROVE r[i] # w /\ \E j \in DOMAIN q : r[i] = q[j]
    <3>1. i + 1 \in DOMAIN q /\ i + 1 # 1 /\ r[i] = q[i + 1]
      BY <1>3, <1>6
    <3>2. q[i + 1] # q[1]
      BY <1>4, <1>5, <3>1
    <3> QED
      BY <1>3, <3>1, <3>2
  <2>2. ASSUME NEW i \in 1..n, NEW j \in 1..n, i # j PROVE r[i] # r[j]
    <3>1. i + 1 \in DOMAIN q /\ j + 1 \in DOMAIN q /\ i + 1 # j + 1
      BY <1>2, <1>3, <1>6, <2>2
    <3>2. q[i + 1] # q[j + 1]
      BY <1>5, <3>1
    <3>3. r[i] = q[i + 1] /\ r[j] = q[j + 1]
      BY <1>3
    <3> QED
      BY <3>2, <3>3
  <2> QED
    BY <1>3, <2>1, <2>2
<1>8. \A f \in DOMAIN disk : \A i \in DOMAIN disk[f] :
          disk[f][i].what = "line" => disk[f][i].window \notin {w}
  BY <1>3, <1>4, <1>5
<1>9. {w} \subseteq produced
  <2>1. q[1] \in produced
    BY <1>4, <1>5
  <2> QED
    BY <1>3, <2>1
<1>10. Leaves({w})
  BY <1>1, <1>7, <1>8, <1>9 DEF Leaves
<1>11. Stamps' = Stamps
  BY DEF Stamps
<1>12. Used' = Used + 1
  <2>1. PICK c : c = Cardinality(produced) /\ c \in Nat
    BY UsedFacts
  <2>2. Used = c - (n + 1) /\ Used' = c - n
    BY <1>1, <1>2, <1>3, <2>1 DEF Used
  <2> QED
    BY <1>2, <2>1, <2>2
<1>13. /\ n + 1 <= ChannelCapacity /\ n + 1 <= Cardinality(produced)
       /\ Cardinality(produced) \in Nat /\ ChannelCapacity \in Nat
  BY <1>1, <1>2, UsedFacts, ArchiveAssumption DEF ChannelRanges
<1> QED
  BY <1>1, <1>2, <1>3, <1>4, <1>10, <1>11, <1>12, <1>13

\* None leaves while the channel stands still.
LEMMA NothingLeaves ==
  ASSUME Fresh, channel' = channel, UNCHANGED produced
  PROVE  Leaves({})
BY DEF Fresh, Leaves

\* A daemon that dies takes the channel with it, one window of which it may
\* have been writing.
LEMMA ChannelLost ==
  ASSUME ChannelRanges, Fresh, channel' = <<>>, UNCHANGED <<setup, produced>>
  PROVE  /\ Leaves({})
         /\ channel # <<>> => Leaves({Head(channel)}) /\ Head(channel) \in Stamps
         /\ Used' \in Nat /\ Used <= Used' /\ Stamps' = Stamps
         /\ channel # <<>> => Used + 1 <= Used'
<1>1. DOMAIN channel' = {} /\ Len(channel') = 0
  OBVIOUS
<1>2. Leaves({})
  BY <1>1 DEF Leaves
<1>3. ASSUME channel # <<>> PROVE Leaves({Head(channel)}) /\ Head(channel) \in Stamps
  <2>1. 1 \in DOMAIN channel /\ Head(channel) = channel[1] /\ channel[1] \in Stamps
    BY <1>3 DEF ChannelRanges
  <2> QED
    BY <1>1, <2>1 DEF Leaves, Fresh
<1>4. Used' = Cardinality(produced)
  <2>1. Cardinality(produced) \in Nat
    BY UsedFacts
  <2> QED
    BY <1>1, <2>1 DEF Used
<1>5. channel # <<>> => Len(channel) >= 1
  BY DEF ChannelRanges
<1> QED
  BY <1>2, <1>3, <1>4, <1>5, UsedFacts DEF Stamps

-----------------------------------------------------------------------------
(* The files.                                                              *)

\* One file of several changes.
LEMMA OneFile ==
  ASSUME NEW P, NEW d \in Seq(P), NEW f \in DOMAIN d, NEW new \in P,
         NEW e, e = [d EXCEPT ![f] = new]
  PROVE  /\ e \in Seq(P) /\ Len(e) = Len(d) /\ DOMAIN e = DOMAIN d
         /\ e[f] = new /\ \A g \in DOMAIN d \ {f} : e[g] = d[g]
<1>1. DOMAIN d = 1..Len(d) /\ DOMAIN e = DOMAIN d
  OBVIOUS
<1>2. \A g \in 1..Len(d) : e[g] \in P
  BY <1>1
<1>3. e \in Seq(P) /\ Len(e) = Len(d)
  BY <1>1, <1>2
<1> QED
  BY <1>1, <1>3

\* One more.
LEMMA AnotherFile ==
  ASSUME NEW P, NEW d \in Seq(P), NEW new \in P, NEW e, e = Append(d, new)
  PROVE  /\ e \in Seq(P) /\ Len(e) = Len(d) + 1
         /\ DOMAIN d = 1..Len(d) /\ DOMAIN e = 1..(Len(d) + 1)
         /\ e[Len(d) + 1] = new /\ \A g \in DOMAIN d : e[g] = d[g]
OBVIOUS

\* Files of pieces stay that as more windows leave the channel.
LEMMA FilesStay ==
  ASSUME NEW T, NEW K \in Nat, NEW L \in Nat, K <= L, NEW d \in Seq(Seq(PieceSet(T, K)))
  PROVE  d \in Seq(Seq(PieceSet(T, L)))
<1>1. \A f \in 1..Len(d) : d[f] \in Seq(PieceSet(T, L))
  BY PiecesStay
<1> QED
  BY <1>1

\* The file the writer has open becomes new, and maybe a fresh one follows.
LEMMA IsDiskStep ==
  ASSUME ChannelRanges, FileRanges, Used' \in Nat, Used <= Used', NEW W,
         NEW new \in Seq(PieceSet(Stamps, Used')), OneMore(disk[fd], new, W),
         NEW now, now = [disk EXCEPT ![fd] = new],
         disk' = now \/ disk' = Append(now, <<>>),
         damaged \subseteq damaged', damaged' \subseteq DOMAIN disk',
         fd \notin damaged' => Sound(new) /\ HoldsAll(disk[fd], new)
  PROVE  /\ DiskStep(W)
         /\ disk'[fd] = new
         /\ DOMAIN disk = 1..Len(disk) /\ Len(now) = Len(disk)
<1>1. PICK P : P = Seq(PieceSet(Stamps, Used'))
  OBVIOUS
<1>2. disk \in Seq(P) /\ fd \in DOMAIN disk /\ new \in P /\ <<>> \in P
  BY <1>1, FilesStay, UsedFacts DEF FileRanges
<1>3. /\ now \in Seq(P) /\ Len(now) = Len(disk) /\ DOMAIN now = DOMAIN disk
      /\ now[fd] = new /\ \A g \in DOMAIN disk \ {fd} : now[g] = disk[g]
  BY <1>2, OneFile
<1>4. DOMAIN disk = 1..Len(disk) /\ Len(disk) \in Nat
  BY <1>2
<1>5. CASE disk' = now
  BY <1>1, <1>2, <1>3, <1>4, <1>5 DEF DiskStep
<1>6. CASE disk' = Append(now, <<>>)
  <2>1. /\ disk' \in Seq(P) /\ DOMAIN disk' = 1..(Len(disk) + 1)
        /\ disk'[Len(disk) + 1] = <<>> /\ \A g \in DOMAIN disk : disk'[g] = now[g]
    BY <1>2, <1>3, <1>6, AnotherFile
  <2>10. PICK L \in Nat : L = Len(disk)
    BY <1>4
  <2>11. DOMAIN disk = 1..L /\ DOMAIN disk' = 1..(L + 1)
    BY <1>4, <2>1, <2>10
  <2>2. \A f \in DOMAIN disk' : f \in DOMAIN disk \/ f = Len(disk) + 1
    BY <2>10, <2>11
  <2>3. DOMAIN disk \subseteq DOMAIN disk'
    BY <2>11
  <2>4. disk'[fd] = new
    BY <1>2, <1>3, <2>1
  <2>5. ASSUME NEW f \in DOMAIN disk' \ {fd}
        PROVE  /\ f \in DOMAIN disk => disk'[f] = disk[f]
               /\ f \notin DOMAIN disk => disk'[f] = <<>>
    BY <1>3, <2>1, <2>2
  <2> QED
    BY <1>1, <1>3, <1>4, <2>1, <2>3, <2>4, <2>5 DEF DiskStep
<1> QED
  BY <1>5, <1>6

\* The writer has one of the files open.
LEMMA OpenFile ==
  ASSUME FileRanges
  PROVE  \E L \in Nat : L = Len(disk) /\ DOMAIN disk = 1..L /\ fd \in 1..L /\ fd = L
<1>1. PICK P : P = Seq(PieceSet(Stamps, Used))
  OBVIOUS
<1>2. disk \in Seq(P) /\ fd \in DOMAIN disk /\ DOMAIN disk = 1..fd
  BY <1>1 DEF FileRanges
<1>3. Len(disk) \in Nat /\ DOMAIN disk = 1..Len(disk)
  BY <1>2
<1>4. PICK L \in Nat : L = Len(disk)
  BY <1>3
<1>5. PICK f : f = fd
  OBVIOUS
<1>6. f \in 1..L /\ 1..f = 1..L
  BY <1>2, <1>3, <1>4, <1>5
<1>7. f = L
  <2>1. L \in 1..f
    BY <1>6
  <2> QED
    BY <1>6, <2>1
<1> QED
  BY <1>3, <1>4, <1>5, <1>6, <1>7

\* The line at hand is a line, whatever becomes of it.
LEMMA LineFacts ==
  ASSUME ChannelRanges, FileRanges, NEW w \in Stamps, NEW K \in Nat, Used + 1 <= K
  PROVE  /\ Unended(w) \in LineSet(Stamps, K) /\ Ended(Unended(w)) \in LineSet(Stamps, K)
         /\ Unended(w).window = w /\ Ended(Unended(w)).window = w
         /\ Unended(w).prev = prev /\ Ended(Unended(w)).prev = prev
         /\ Unended(w).seq = seq /\ Ended(Unended(w)).seq = seq
         /\ Unended(w).drops = drops /\ Ended(Unended(w)).drops = drops
         /\ Unended(w).ended = FALSE /\ Ended(Unended(w)).ended = TRUE
<1>1. prev \in Stamps \cup {Seed} /\ seq \in 0..Used /\ drops \in 0..Used /\ Used \in Nat
  BY UsedFacts DEF FileRanges
<1>2. seq \in 0..(K - 1) /\ drops \in 0..K
  BY <1>1
<1>3. PICK u : u = Unended(w)
  OBVIOUS
<1>4. u = [what |-> "line", window |-> w, prev |-> prev, seq |-> seq,
           drops |-> drops, ended |-> FALSE]
  BY <1>3 DEF Unended
<1>5. PICK e : e = Ended(u)
  OBVIOUS
<1>6. e = [what |-> "line", window |-> w, prev |-> prev, seq |-> seq,
           drops |-> drops, ended |-> TRUE]
  BY <1>4, <1>5 DEF Ended
<1>7. u \in LineSet(Stamps, K) /\ e \in LineSet(Stamps, K)
  BY <1>1, <1>2, <1>4, <1>6 DEF LineSet
<1> QED
  BY <1>3, <1>4, <1>5, <1>6, <1>7

-----------------------------------------------------------------------------
(* A window is written.                                                    *)

\* The write went well and the writer stays on its file, whether the file had
\* room or its rotation failed before a fresh one was open.
Stays(now, w) ==
    /\ disk' = now
    /\ atPath' \in {atPath, NoFile}
    /\ UNCHANGED <<fd, readable, pruned, damaged>>
    /\ KeepHead(w)

\* The write went well and a fresh file is open.
MovesOn(now, w) ==
    /\ disk' = Append(now, <<>>)
    /\ atPath' = Len(now) + 1 /\ fd' = Len(now) + 1 /\ readable' = FALSE
    /\ \/ damaged' = damaged \cup {fd'} /\ UNCHANGED pruned /\ KeepHead(w)
       \/ /\ UNCHANGED damaged /\ pruned' = pruned \cup Surplus(now, fd')
          /\ counted' = 0 /\ prev' = Seed /\ seq' = 0

\* There is no third way.
LEMMA WriteOutcomes ==
  ASSUME WriteWindow
  PROVE  \E w, new, now :
            /\ w = Head(channel) /\ channel # <<>> /\ channel' = Tail(channel)
            /\ new = Append(disk[fd], Ended(Unended(w)))
            /\ now = [disk EXCEPT ![fd] = new]
            /\ written' = written \cup {<<w, fd>>}
            /\ Stays(now, w) \/ MovesOn(now, w)
            /\ running /\ setup.windows
            /\ UNCHANGED <<setup, produced, drops, running, starts, lost>>
<1>1. PICK w : w = Head(channel)
  OBVIOUS
<1>2. PICK now : now = [disk EXCEPT ![fd] = Append(disk[fd], Ended(Unended(w)))]
  OBVIOUS
<1>3. /\ channel # <<>> /\ channel' = Tail(channel)
      /\ written' = written \cup {<<w, fd>>}
      /\ running /\ setup.windows
      /\ UNCHANGED <<setup, produced, drops, running, starts, lost>>
  BY <1>1 DEF WriteWindow
<1>4. \/ /\ disk' = now /\ KeepHead(w)
         /\ UNCHANGED <<atPath, fd, readable, pruned, damaged>>
      \/ RenameFails(now, w) \/ CreateFails(now, w)
      \/ PruneFails(now, w) \/ Rotates(now, w)
  BY <1>1, <1>2 DEF WriteWindow
<1>5. Stays(now, w) \/ MovesOn(now, w)
  <2>1. CASE disk' = now /\ KeepHead(w) /\ UNCHANGED <<atPath, fd, readable, pruned, damaged>>
    BY <2>1 DEF Stays
  <2>2. CASE RenameFails(now, w)
    BY <2>2 DEF RenameFails, Stays
  <2>3. CASE CreateFails(now, w)
    BY <2>3 DEF CreateFails, Stays
  <2>4. CASE PruneFails(now, w)
    BY <2>4 DEF PruneFails, OpenFresh, MovesOn
  <2>5. CASE Rotates(now, w)
    BY <2>5 DEF Rotates, OpenFresh, MovesOn
  <2> QED
    BY <1>4, <2>1, <2>2, <2>3, <2>4, <2>5
<1> QED
  BY <1>1, <1>2, <1>3, <1>5

\* A whole line in the open file.
LEMMA LineKeeps ==
  ASSUME FileInv, running, NEW w \in Stamps, NEW K \in Nat, Used + 1 <= K,
         NEW new, new = Append(disk[fd], Ended(Unended(w)))
  PROVE  /\ new \in Seq(PieceSet(Stamps, K))
         /\ OneMore(disk[fd], new, {w}) /\ HoldsAll(disk[fd], new)
         /\ Len(new) = Len(disk[fd]) + 1
         /\ LineAt(new, Len(disk[fd]) + 1, w)
         /\ fd \notin damaged => /\ Sound(new) /\ HeadOf(new, w, seq + 1)
                                 /\ counted = Len(disk[fd])
<1>1. PICK p : p = Ended(Unended(w))
  OBVIOUS
<1>2. PICK pieces : pieces = disk[fd]
  OBVIOUS
<1>3. /\ p \in LineSet(Stamps, K) /\ p.window = w /\ p.prev = prev /\ p.seq = seq
      /\ p.drops = drops /\ p.ended = TRUE
  BY <1>1, LineFacts DEF FileInv
<1>4. p.what = "line" /\ p \in PieceSet(Stamps, K)
  BY <1>3 DEF LineSet, PieceSet
<1>5. pieces \in Seq(PieceSet(Stamps, K))
  <2>1. Used \in Nat /\ Used <= K
    BY UsedFacts DEF FileInv
  <2>2. pieces \in Seq(PieceSet(Stamps, Used))
    BY <1>2 DEF FileInv, FileRanges
  <2> QED
    BY <2>1, <2>2, PiecesStay
<1>6. new = Append(pieces, p)
  BY <1>1, <1>2
<1>7. p.what = "line" => p.window \in {w} /\ p.drops = drops
  BY <1>3
<1>8. /\ Append(pieces, p) \in Seq(PieceSet(Stamps, K))
      /\ OneMore(pieces, Append(pieces, p), {w})
      /\ HoldsAll(pieces, Append(pieces, p))
  BY <1>4, <1>5, <1>7, AppendHolds
<1>9. Len(new) = Len(pieces) + 1 /\ new[Len(pieces) + 1] = p /\ DOMAIN new = 1..(Len(pieces) + 1)
  BY <1>5, <1>6, <1>4
<1>10. LineAt(new, Len(pieces) + 1, w)
  <2>1. PICK N \in Nat : N = Len(pieces)
    BY <1>5
  <2>2. N + 1 \in 1..(N + 1)
    OBVIOUS
  <2> QED
    BY <1>3, <1>4, <1>9, <2>1, <2>2 DEF LineAt
<1>11. ASSUME fd \notin damaged
       PROVE  Sound(new) /\ HeadOf(new, w, seq + 1) /\ counted = Len(pieces)
  <2>1. Sound(pieces) /\ HeadOf(pieces, prev, seq) /\ counted = Len(pieces)
    BY <1>2, <1>11 DEF FileInv, FilesSound, HeadTrue, FileRanges
  <2>2. HeadOf(pieces, p.prev, p.seq)
    BY <1>3, <2>1
  <2>3. /\ Sound(Append(pieces, p))
        /\ p.ended => HeadOf(Append(pieces, p), p.window, p.seq + 1)
    BY <1>3, <1>5, <2>1, <2>2, WriteKeeps
  <2> QED
    BY <1>3, <1>6, <2>1, <2>3
<1> QED
  BY <1>2, <1>6, <1>8, <1>9, <1>10, <1>11

\* Rotations that are deleted are files, and not the fresh one.
LEMMA SurplusFacts ==
  ASSUME NEW now, NEW active
  PROVE  Surplus(now, active) \subseteq (1..Len(now)) \ {active}
BY DEF Surplus

\* A window written goes to the end of the open file, and the head with it,
\* whether the file is full and how far its rotation comes.
LEMMA WriteStep ==
  ASSUME FileInv, WriteWindow
  PROVE  FileInv' /\ DiskGrows
<1>1. PICK w, new, now :
            /\ w = Head(channel) /\ channel # <<>> /\ channel' = Tail(channel)
            /\ new = Append(disk[fd], Ended(Unended(w)))
            /\ now = [disk EXCEPT ![fd] = new]
            /\ written' = written \cup {<<w, fd>>}
            /\ Stays(now, w) \/ MovesOn(now, w)
            /\ running /\ setup.windows
            /\ UNCHANGED <<setup, produced, drops, running, starts, lost>>
  BY WriteOutcomes
<1>2. /\ w \in Stamps /\ Leaves({w})
      /\ Used' = Used + 1 /\ Stamps' = Stamps
      /\ channel' \in Seq(Stamps) /\ Len(channel') <= ChannelCapacity
      /\ Len(channel') <= Cardinality(produced)
  BY <1>1, HeadLeaves DEF FileInv
<1>3. Used \in Nat /\ Used' \in Nat /\ Used <= Used' /\ Used + 1 <= Used'
  BY <1>2, UsedFacts DEF FileInv
<1>4. /\ new \in Seq(PieceSet(Stamps, Used'))
      /\ OneMore(disk[fd], new, {w}) /\ HoldsAll(disk[fd], new)
      /\ Len(new) = Len(disk[fd]) + 1
      /\ LineAt(new, Len(disk[fd]) + 1, w)
      /\ fd \notin damaged => /\ Sound(new) /\ HeadOf(new, w, seq + 1)
                              /\ counted = Len(disk[fd])
  BY <1>1, <1>2, <1>3, LineKeeps
<1>5. PICK L \in Nat : L = Len(disk) /\ DOMAIN disk = 1..L /\ fd \in 1..L /\ fd = L
  BY OpenFile DEF FileInv
<1>6. Len(now) = L
  BY <1>1, <1>5
<1>7. disk' = now \/ disk' = Append(now, <<>>)
  BY <1>1 DEF Stays, MovesOn
<1>8. damaged \subseteq damaged' /\ damaged' \subseteq DOMAIN disk'
  <2>1. damaged \subseteq 1..L
    BY <1>5 DEF FileInv, FileRanges
  <2>2. CASE Stays(now, w)
    <3>1. DOMAIN disk' = 1..L /\ damaged' = damaged
      BY <1>1, <1>5, <2>2 DEF Stays
    <3> QED
      BY <2>1, <3>1
  <2>3. CASE MovesOn(now, w)
    <3>1. disk' = Append(now, <<>>) /\ DOMAIN now = 1..L
      BY <1>1, <1>5, <2>3 DEF MovesOn
    <3>2. DOMAIN disk' = 1..(L + 1)
      BY <1>6, <3>1
    <3>3. damaged' \in {damaged, damaged \cup {L + 1}}
      BY <1>6, <2>3 DEF MovesOn
    <3> QED
      BY <2>1, <3>2, <3>3
  <2> QED
    BY <1>1, <2>2, <2>3
<1>9. fd \notin damaged' => Sound(new) /\ HoldsAll(disk[fd], new)
  BY <1>4, <1>8
<1>10. DiskStep({w}) /\ disk'[fd] = new
  BY <1>1, <1>3, <1>4, <1>7, <1>8, <1>9, IsDiskStep DEF FileInv
<1>11. ChannelRanges'
  <2>1. lost' \in 0..Used'
    BY <1>1, <1>2, <1>3 DEF FileInv, ChannelRanges
  <2> QED
    BY <1>1, <1>2, <2>1 DEF FileInv, ChannelRanges
<1>12. Fresh' /\ OnePlace' /\ FilesSound'
  BY <1>2, <1>10, DiskStepFresh, DiskStepOnePlace, DiskStepSound DEF FileInv, FileRanges
<1>13. Kept'
  <2>1. ASSUME NEW v \in Stamps, NEW f \in DOMAIN disk', <<v, f>> \in written'
        PROVE  \/ f \in DOMAIN disk /\ <<v, f>> \in written
               \/ f = fd /\ \E i \in DOMAIN disk'[fd] : LineAt(disk'[fd], i, v)
    <3>1. CASE <<v, f>> \in written
      BY <3>1 DEF FileInv, FileRanges
    <3>2. CASE v = w /\ f = fd
      BY <1>4, <1>10, <3>2 DEF LineAt
    <3> QED
      BY <1>1, <2>1, <3>1, <3>2
  <2>2. UNCHANGED setup
    BY <1>1
  <2> QED
    BY <1>10, <2>1, <2>2, DiskStepKeeps DEF FileInv, FileRanges
<1>14. FileRanges' /\ HeadTrue'
  <2>1. disk' \in Seq(Seq(PieceSet(Stamps', Used')))
    BY <1>2, <1>10 DEF DiskStep
  <2>2. written' \subseteq Stamps' \X DOMAIN disk'
    BY <1>1, <1>2, <1>10 DEF FileInv, FileRanges, DiskStep
  <2>3. pruned \subseteq 1..L /\ fd \notin pruned /\ atPath \in {NoFile, fd}
        /\ readable \in BOOLEAN /\ counted \in Nat /\ seq \in 0..Used
    BY <1>5 DEF FileInv, FileRanges
  <2>4. KeepHead(w) => counted' \in Nat /\ prev' \in Stamps' \cup {Seed} /\ seq' \in 0..Used'
    BY <1>2, <1>3, <2>3 DEF KeepHead
  <2>5. CASE Stays(now, w)
    <3>1. /\ DOMAIN disk' = 1..L /\ fd' = fd /\ pruned' = pruned /\ damaged' = damaged
          /\ readable' = readable /\ atPath' \in {NoFile, fd'} /\ KeepHead(w)
      BY <1>1, <1>5, <2>3, <2>5 DEF Stays
    <3>2. FileRanges'
      BY <1>5, <1>8, <2>1, <2>2, <2>3, <2>4, <3>1 DEF FileRanges
    <3>3. HeadTrue'
      BY <1>4, <1>10, <3>1 DEF HeadTrue, KeepHead
    <3> QED
      BY <3>2, <3>3
  <2>6. CASE MovesOn(now, w)
    <3>1. disk' = Append(now, <<>>) /\ DOMAIN now = 1..L /\ fd' = L + 1 /\ atPath' = L + 1
          /\ readable' = FALSE
      BY <1>1, <1>5, <1>6, <2>6 DEF MovesOn
    <3>2. DOMAIN disk' = 1..(L + 1) /\ disk'[L + 1] = <<>>
      BY <1>6, <3>1
    <3>3. pruned' \subseteq 1..L
      <4>1. pruned' \in {pruned, pruned \cup Surplus(now, fd')}
        BY <2>6 DEF MovesOn
      <4> QED
        BY <1>6, <2>3, <4>1, SurplusFacts
    <3>4. counted' \in Nat /\ prev' \in Stamps' \cup {Seed} /\ seq' \in 0..Used'
      BY <1>3, <2>4, <2>6 DEF MovesOn
    <3>7. /\ fd' \in DOMAIN disk' \ pruned' /\ pruned' \subseteq DOMAIN disk'
          /\ DOMAIN disk' = 1..fd'
      BY <3>1, <3>2, <3>3
    <3>8. atPath' \in {NoFile, fd'} /\ readable' \in BOOLEAN
      BY <3>1
    <3>5. FileRanges'
      BY <1>8, <2>1, <2>2, <3>4, <3>7, <3>8 DEF FileRanges
    <3>6. HeadTrue'
      <4>1. fd' \notin damaged' => counted' = 0 /\ prev' = Seed /\ seq' = 0
        BY <2>6 DEF MovesOn
      <4> QED
        BY <3>1, <3>2, <4>1, NothingReads DEF HeadTrue
    <3> QED
      BY <3>5, <3>6
  <2> QED
    BY <1>1, <2>5, <2>6
<1> QED
  BY <1>10, <1>11, <1>12, <1>13, <1>14 DEF FileInv, DiskGrows

-----------------------------------------------------------------------------
(* The analysis side offers a window.                                      *)

\* Stamps are the numbers up to a bound.
LEMMA StampFacts ==
  ASSUME setup \in Setups
  PROVE  \E N \in Nat : Stamps = 1..N
<1>1. PICK d : d = setup.days
  OBVIOUS
<1>2. d \in Nat /\ DayLength \in Nat
  BY <1>1, ArchiveAssumption, RollupAssumption
<1>3. DayLength * d \in Nat
  BY <1>2
<1> QED
  BY <1>1, <1>3 DEF Stamps

\* A bounded set of numbers that is not empty has a greatest one.
LEMMA MaxFacts ==
  ASSUME NEW N \in Nat, NEW S \in SUBSET (0..N), S # {}
  PROVE  Max(S) \in S /\ \A y \in S : y <= Max(S)
<1> DEFINE T == {N - y : y \in S}
<1>1. T \in SUBSET Nat /\ T # {}
  <2>1. \A y \in S : N - y \in Nat
    OBVIOUS
  <2> QED
    BY <2>1
<1>2. PICK t \in T : \A m \in T : t <= m
  BY <1>1, LeastNatural
<1>3. PICK x \in S : t = N - x
  OBVIOUS
<1>4. \A y \in S : x >= y
  <2> TAKE y \in S
  <2>1. N - y \in T
    OBVIOUS
  <2>2. N - x <= N - y
    BY <1>2, <1>3, <2>1
  <2>3. x \in 0..N /\ y \in 0..N
    OBVIOUS
  <2> QED
    BY <2>2, <2>3
<1>5. \E z \in S : \A y \in S : z >= y
  BY <1>4
<1>6. Max(S) \in S /\ \A y \in S : Max(S) >= y
  BY <1>5 DEF Max
<1> QED
  BY <1>6

\* Midnight after a moment is later than it.
LEMMA MidnightIsLater ==
  ASSUME NEW now \in Nat
  PROVE  DayLength * (DayOf(now + DayLength)) + 1 > now
<1>1. DayLength \in Nat /\ DayLength > 0
  BY RollupAssumption
<1>2. PICK a \in Nat : a = (now + DayLength) - 1
  BY <1>1
<1>3. PICK q : q = a \div DayLength
  OBVIOUS
<1>4. q \in Int /\ a < DayLength * q + DayLength
  BY <1>1, <1>3
<1>5. DayOf(now + DayLength) = q
  BY <1>2, <1>3 DEF DayOf
<1>6. DayLength * q \in Int
  BY <1>1, <1>4
<1>7. DayLength * q + 1 > now
  BY <1>1, <1>2, <1>4, <1>6
<1> QED
  BY <1>5, <1>7

\* The clock gives a window a time of its own.
LEMMA NextStampFacts ==
  ASSUME ChannelRanges, NEW ts \in NextStamps
  PROVE  ts \in Stamps /\ ts \notin produced
<1>1. PICK N \in Nat : Stamps = 1..N
  BY StampFacts DEF ChannelRanges
<1>2. PICK now : now = Max(produced \cup {0})
  OBVIOUS
<1>3. produced \cup {0} \in SUBSET (0..N) /\ produced \cup {0} # {}
  BY <1>1 DEF ChannelRanges
<1>4. now \in produced \cup {0} /\ \A y \in produced \cup {0} : y <= now
  BY <1>2, <1>3, MaxFacts
<1>5. now \in 0..N
  BY <1>3, <1>4
<1>6. PICK midnight : midnight = DayLength * (DayOf(now + DayLength)) + 1
  OBVIOUS
<1>7. midnight > now
  BY <1>5, <1>6, MidnightIsLater
<1>8. \/ ts \in Stamps /\ ts \in {now + 1, midnight}
      \/ ts \in (1..now) \ produced
  BY <1>2, <1>6 DEF NextStamps
<1>9. CASE ts \in Stamps /\ ts \in {now + 1, midnight}
  <2>1. ts \in Nat /\ ts > now
    BY <1>1, <1>5, <1>7, <1>9
  <2> QED
    BY <1>4, <1>5, <1>9, <2>1
<1>10. CASE ts \in (1..now) \ produced
  BY <1>1, <1>5, <1>10
<1> QED
  BY <1>8, <1>9, <1>10

\* The analysis side offers a window with a timestamp of its own.
LEMMA ProduceStep ==
  ASSUME FileInv, Produce
  PROVE  FileInv'
<1>1. PICK ts \in NextStamps :
          /\ produced' = produced \cup {ts}
          /\ \/ Len(channel) < ChannelCapacity /\ channel' = Append(channel, ts)
                /\ UNCHANGED <<drops, lost>>
             \/ drops' = drops + 1 /\ lost' = lost + 1 /\ UNCHANGED channel
  BY DEF Produce
<1>2. /\ Cardinality(produced) < setup.most
      /\ UNCHANGED <<setup, disk, pruned, atPath, fd, readable, counted, prev, seq,
                     written, damaged, running, starts>>
  BY DEF Produce, files
<1>3. ts \in Stamps /\ ts \notin produced
  BY <1>1, NextStampFacts DEF FileInv
<1>4. PICK c, n, m : c = Cardinality(produced) /\ n = Len(channel) /\ m = setup.most
  OBVIOUS
<1>5. /\ c \in Nat /\ n \in Nat /\ n <= c /\ c < m /\ m \in Nat /\ n <= ChannelCapacity
      /\ Used = c - n /\ Used \in Nat /\ drops \in 0..lost /\ lost \in 0..Used
  <2>1. setup \in Setups
    BY DEF FileInv, ChannelRanges
  <2>2. m \in Nat
    BY <1>4, <2>1, ArchiveAssumption
  <2> QED
    BY <1>2, <1>4, <2>2, UsedFacts DEF FileInv, ChannelRanges, Used
<1>6. IsFiniteSet(produced') /\ Cardinality(produced') = c + 1
  BY <1>1, <1>3, <1>4, FS_AddElement DEF FileInv, ChannelRanges
<1>7. Stamps' = Stamps
  BY <1>2 DEF Stamps
<1>8. /\ channel' \in Seq(Stamps) /\ Len(channel') <= ChannelCapacity
      /\ Len(channel') <= c + 1
      /\ Used' \in Nat /\ Used <= Used' /\ drops' \in 0..lost' /\ lost' \in 0..Used'
  <2>1. CASE channel' = Append(channel, ts) /\ n < ChannelCapacity /\ UNCHANGED <<drops, lost>>
    <3>1. channel' \in Seq(Stamps) /\ Len(channel') = n + 1
      BY <1>3, <1>4, <2>1 DEF FileInv, ChannelRanges
    <3>2. Used' = Used
      BY <1>5, <1>6, <3>1 DEF Used
    <3> QED
      BY <1>5, <2>1, <3>1, <3>2, ArchiveAssumption
  <2>2. CASE drops' = drops + 1 /\ lost' = lost + 1 /\ UNCHANGED channel
    <3>1. channel' \in Seq(Stamps) /\ Len(channel') = n
      BY <1>4, <2>2 DEF FileInv, ChannelRanges
    <3>2. Used' = Used + 1
      BY <1>5, <1>6, <3>1 DEF Used
    <3> QED
      BY <1>5, <2>2, <3>1, <3>2
  <2> QED
    BY <1>1, <1>4, <2>1, <2>2
<1>9. ChannelRanges'
  <2>1. c + 1 <= setup'.most
    BY <1>2, <1>4, <1>5
  <2> QED
    BY <1>1, <1>2, <1>3, <1>6, <1>7, <1>8, <2>1 DEF FileInv, ChannelRanges
<1>10. FileRanges'
  <2>1. disk' \in Seq(Seq(PieceSet(Stamps', Used')))
    BY <1>2, <1>5, <1>7, <1>8, FilesStay DEF FileInv, FileRanges
  <2>2. seq' \in 0..Used'
    BY <1>2, <1>5, <1>8 DEF FileInv, FileRanges
  <2> QED
    BY <1>2, <1>7, <2>1, <2>2 DEF FileInv, FileRanges
<1>11. Fresh'
  <2>1. ASSUME NEW i \in DOMAIN channel' 
        PROVE  \/ i \in DOMAIN channel /\ channel'[i] = channel[i]
               \/ i = n + 1 /\ channel'[i] = ts
    <3>1. channel \in Seq(Stamps)
      BY DEF FileInv, ChannelRanges
    <3>2. CASE channel' = Append(channel, ts)
      BY <1>4, <1>5, <2>1, <3>1, <3>2
    <3>3. CASE channel' = channel
      BY <2>1, <3>3
    <3> QED
      BY <1>1, <3>2, <3>3
  <2>2. \A i \in DOMAIN channel : channel[i] \in produced /\ channel[i] # ts
    BY <1>3 DEF FileInv, Fresh
  <2>3. \A i, j \in DOMAIN channel' : i # j => channel'[i] # channel'[j]
    BY <2>1, <2>2 DEF FileInv, Fresh
  <2>4. \A i \in DOMAIN channel' : channel'[i] \in produced'
    BY <1>1, <2>1, <2>2
  <2>5. ASSUME NEW f \in DOMAIN disk', NEW i \in DOMAIN disk'[f], disk'[f][i].what = "line"
        PROVE  /\ disk'[f][i].window \in produced'
               /\ \A j \in DOMAIN channel' : channel'[j] # disk'[f][i].window
    <3>1. /\ disk[f][i].window \in produced
          /\ \A j \in DOMAIN channel : channel[j] # disk[f][i].window
      BY <1>2, <2>5 DEF FileInv, Fresh
    <3> QED
      BY <1>1, <1>2, <1>3, <2>1, <3>1
  <2> QED
    BY <2>3, <2>4, <2>5 DEF Fresh
<1>12. OnePlace' /\ FilesSound' /\ HeadTrue' /\ Kept'
  BY <1>2, <1>7 DEF FileInv, OnePlace, FilesSound, HeadTrue, Kept
<1> QED
  BY <1>9, <1>10, <1>11, <1>12 DEF FileInv

-----------------------------------------------------------------------------
(* Steps that leave the files alone.                                       *)

\* The channel may get shorter, and only that.
LEMMA FilesAlone ==
  ASSUME FileInv, UNCHANGED <<setup, produced, disk, pruned, atPath, fd, readable, counted,
                              prev, seq, written, damaged, starts>>,
         Used' \in Nat, Used <= Used', Stamps' = Stamps,
         Leaves({}), running' \in BOOLEAN, drops' \in 0..lost', lost' \in 0..Used',
         channel' \in Seq(Stamps), Len(channel') <= ChannelCapacity,
         Len(channel') <= Cardinality(produced),
         running' => running \/ ~ setup.windows
  PROVE  FileInv'
<1>1. ChannelRanges'
  BY DEF FileInv, ChannelRanges
<1>2. FileRanges'
  <2>1. disk' \in Seq(Seq(PieceSet(Stamps', Used')))
    BY UsedFacts, FilesStay DEF FileInv, FileRanges
  <2>2. seq' \in 0..Used'
    BY UsedFacts DEF FileInv, FileRanges
  <2> QED
    BY <2>1, <2>2 DEF FileInv, FileRanges
<1>3. Fresh'
  BY DEF FileInv, Fresh, Leaves
<1>4. OnePlace' /\ FilesSound' /\ HeadTrue' /\ Kept'
  BY DEF FileInv, OnePlace, FilesSound, HeadTrue, Kept
<1> QED
  BY <1>1, <1>2, <1>3, <1>4 DEF FileInv

\* Without window lines the writer takes the window out of the channel.
LEMMA RollUpOnlyStep ==
  ASSUME FileInv, RollUpOnly
  PROVE  FileInv'
<1>1. /\ channel # <<>> /\ channel' = Tail(channel) /\ running /\ ~ setup.windows
      /\ UNCHANGED <<setup, produced, disk, pruned, atPath, fd, readable, counted,
                     prev, seq, written, damaged, starts, running, drops, lost>>
  BY DEF RollUpOnly, files
<1>2. PICK w : w = Head(channel)
  OBVIOUS
<1>3. /\ Leaves({w})
      /\ Used' = Used + 1 /\ Stamps' = Stamps
      /\ channel' \in Seq(Stamps) /\ Len(channel') <= ChannelCapacity
      /\ Len(channel') <= Cardinality(produced)
  BY <1>1, <1>2, HeadLeaves DEF FileInv
<1>4. Leaves({})
  BY <1>3 DEF Leaves
<1>5. Used \in Nat /\ drops \in 0..lost /\ lost \in 0..Used
  BY UsedFacts DEF FileInv, ChannelRanges
<1> QED
  BY <1>1, <1>3, <1>4, <1>5, FilesAlone DEF FileInv, ChannelRanges

\* A stop leaves the files and the head as they are.
LEMMA StopStep ==
  ASSUME FileInv, Stop
  PROVE  FileInv'
<1>1. /\ channel = <<>> /\ channel' = channel /\ running' = FALSE /\ drops' = 0
      /\ UNCHANGED <<setup, produced, disk, pruned, atPath, fd, readable, counted,
                     prev, seq, written, damaged, starts, lost>>
  BY DEF Stop, files
<1>2. Leaves({})
  BY <1>1, NothingLeaves DEF FileInv
<1>3. Used \in Nat /\ drops \in 0..lost /\ lost \in 0..Used
  BY UsedFacts DEF FileInv, ChannelRanges
<1>4. Used' = Used /\ Stamps' = Stamps
  BY <1>1 DEF Used, Stamps
<1>5. lost' \in 0..Used' /\ drops' \in 0..lost'
  BY <1>1, <1>3, <1>4
<1>6. /\ channel' \in Seq(Stamps) /\ Len(channel') <= ChannelCapacity
      /\ Len(channel') <= Cardinality(produced)
  BY <1>1 DEF FileInv, ChannelRanges
<1>7. Used' \in Nat /\ Used <= Used'
  BY <1>3, <1>4
<1>8. running' \in BOOLEAN /\ (running' => running \/ ~ setup.windows)
  BY <1>1
<1> QED
  BY <1>1, <1>2, <1>4, <1>5, <1>6, <1>7, <1>8, FilesAlone

-----------------------------------------------------------------------------
(* A write fails, or the daemon dies.                                      *)

\* A file that begins as another.
Begins(pieces, mid) ==
    Len(pieces) <= Len(mid) /\ \A i \in 1..Len(pieces) : mid[i] = pieces[i]

\* What may be left of a line.
LEMMA LeftoverCases ==
  ASSUME NEW w, NEW left \in Leftovers(w)
  PROVE  left = <<>> \/ left = <<Part>> \/ left = <<Unended(w)>> \/ left = <<Torn>>
BY DEF Leftovers

\* A file with what is left of a line of window w behind it.
LEMMA LeftoverFacts ==
  ASSUME FileInv, NEW w \in Stamps, NEW K \in Nat, Used + 1 <= K,
         NEW left \in Leftovers(w), NEW mid, mid = disk[fd] \o left
  PROVE  /\ disk[fd] \in Seq(PieceSet(Stamps, K)) /\ mid \in Seq(PieceSet(Stamps, K))
         /\ OneMore(disk[fd], mid, {w}) /\ HoldsAll(disk[fd], mid)
         /\ left = <<>> => mid = disk[fd]
         /\ left = <<Part>> => mid = Append(disk[fd], Part)
         /\ Begins(disk[fd], mid)
         /\ running /\ fd \notin damaged /\ left # <<Torn>> => Sound(mid)
<1>1. PICK pieces : pieces = disk[fd]
  OBVIOUS
<1>2. pieces \in Seq(PieceSet(Stamps, K))
  <2>1. Used \in Nat /\ Used <= K
    BY UsedFacts DEF FileInv
  <2>2. pieces \in Seq(PieceSet(Stamps, Used))
    BY <1>1 DEF FileInv, FileRanges
  <2> QED
    BY <2>1, <2>2, PiecesStay
<1>3. running /\ fd \notin damaged => Sound(pieces) /\ HeadOf(pieces, prev, seq)
  BY <1>1 DEF FileInv, FilesSound, HeadTrue, FileRanges
<1>4. CASE left = <<>>
  <2>1. mid = pieces /\ left # <<Part>>
    BY <1>1, <1>2, <1>4
  <2>2. Begins(pieces, mid)
    BY <1>2, <2>1 DEF Begins
  <2> QED
    BY <1>1, <1>2, <1>3, <2>1, <2>2, SameHolds
<1>5. ASSUME NEW p \in PieceSet(Stamps, K), left = <<p>>,
             p.what = "line" => p.window \in {w} /\ p.drops = drops,
             running /\ fd \notin damaged /\ left # <<Torn>> => Sound(Append(pieces, p))
      PROVE  /\ mid \in Seq(PieceSet(Stamps, K))
             /\ OneMore(pieces, mid, {w}) /\ HoldsAll(pieces, mid)
             /\ mid = Append(pieces, p)
             /\ Begins(pieces, mid)
             /\ running /\ fd \notin damaged /\ left # <<Torn>> => Sound(mid)
  <2>1. mid = Append(pieces, p)
    BY <1>1, <1>2, <1>5
  <2>2. /\ Append(pieces, p) \in Seq(PieceSet(Stamps, K))
        /\ OneMore(pieces, Append(pieces, p), {w})
        /\ HoldsAll(pieces, Append(pieces, p))
    BY <1>2, <1>5, AppendHolds
  <2>3. PICK N \in Nat : N = Len(pieces)
    BY <1>2
  <2>4. Len(mid) = N + 1 /\ \A i \in 1..N : mid[i] = pieces[i]
    BY <1>2, <2>1, <2>3
  <2>5. Begins(pieces, mid)
    BY <2>3, <2>4 DEF Begins
  <2>6. /\ mid \in Seq(PieceSet(Stamps, K))
        /\ OneMore(pieces, mid, {w})
        /\ HoldsAll(pieces, mid)
    BY <2>1, <2>2
  <2>7. running /\ fd \notin damaged /\ left # <<Torn>> => Sound(mid)
    BY <1>5, <2>1
  <2> QED
    BY <2>1, <2>5, <2>6, <2>7
<1>6. CASE left = <<Part>>
  <2>1. Part \in PieceSet(Stamps, K) /\ Part.what = "part"
    BY DEF Part, PieceSet
  <2>2. running /\ fd \notin damaged => Sound(Append(pieces, Part))
    BY <1>2, <1>3, <2>1, FragmentKeeps
  <2>3. Part.what = "line" => Part.window \in {w} /\ Part.drops = drops
    BY <2>1
  <2>4. left # <<>>
    BY <1>6
  <2> QED
    BY <1>1, <1>2, <1>5, <1>6, <2>1, <2>2, <2>3, <2>4
<1>7. CASE left = <<Unended(w)>>
  <2>1. PICK p : p = Unended(w)
    OBVIOUS
  <2>2. /\ p \in LineSet(Stamps, K) /\ p.window = w /\ p.prev = prev /\ p.seq = seq
        /\ p.drops = drops
    BY <2>1, LineFacts DEF FileInv
  <2>3. p \in PieceSet(Stamps, K) /\ p.what = "line"
    BY <2>2 DEF PieceSet, LineSet
  <2>4. running /\ fd \notin damaged => Sound(Append(pieces, p))
    <3> SUFFICES ASSUME running, fd \notin damaged PROVE Sound(Append(pieces, p))
      OBVIOUS
    <3>1. Sound(pieces) /\ HeadOf(pieces, p.prev, p.seq)
      BY <1>3, <2>2
    <3> QED
      BY <1>2, <2>2, <3>1, WriteKeeps
  <2>5. left # <<>> /\ left = <<p>>
    BY <1>7, <2>1
  <2>6. left # <<Part>>
    <3>1. Part.what = "part"
      BY DEF Part
    <3> QED
      BY <2>3, <2>5, <3>1
  <2>7. p.what = "line" => p.window \in {w} /\ p.drops = drops
    BY <2>2
  <2> QED
    BY <1>1, <1>2, <1>5, <2>3, <2>4, <2>5, <2>6, <2>7
<1>8. CASE left = <<Torn>>
  <2>1. Torn \in PieceSet(Stamps, K) /\ Torn.what = "torn"
    BY DEF Torn, PieceSet
  <2>2. left # <<>> /\ left # <<Part>>
    <3>1. Part.what = "part"
      BY DEF Part
    <3> QED
      BY <1>8, <2>1, <3>1
  <2>3. Torn.what = "line" => Torn.window \in {w} /\ Torn.drops = drops
    BY <2>1
  <2> QED
    BY <1>1, <1>2, <1>5, <1>8, <2>1, <2>2, <2>3
<1> QED
  BY <1>4, <1>6, <1>7, <1>8, LeftoverCases

\* The writer cuts the file back, or, when it cannot, seals it or leaves it.
Mends(left, mid, new) ==
    \/ new = CutTo(mid, counted) /\ UNCHANGED <<counted, damaged>>
    \/ /\ counted' = Len(mid)
       /\ new = Terminated(mid) \/ new = mid
       /\ \/ damaged' = damaged \cup {fd}
          \/ damaged' = damaged /\ left = <<>>
          \/ damaged' = damaged /\ left = <<Part>> /\ new = Terminated(mid)

\* What a failed write comes to.
LEMMA WriteFailsOutcomes ==
  ASSUME WriteFails
  PROVE  \E w, mid, left, new :
            /\ w = Head(channel) /\ channel # <<>> /\ channel' = Tail(channel)
            /\ left \in Leftovers(w) /\ mid = disk[fd] \o left
            /\ disk' = [disk EXCEPT ![fd] = new]
            /\ Mends(left, mid, new)
            /\ running /\ setup.windows
            /\ drops' = drops + 1 /\ lost' = lost + 1
            /\ UNCHANGED <<setup, produced, pruned, atPath, fd, readable, prev, seq,
                           running, starts, written>>
<1>1. PICK w : w = Head(channel)
  OBVIOUS
<1>2. PICK left \in Leftovers(w) : \/ CutBack(disk[fd] \o left)
                                   \/ SealInstead(disk[fd] \o left, left)
  BY <1>1 DEF WriteFails
<1>3. PICK mid : mid = disk[fd] \o left
  OBVIOUS
<1>4. /\ channel # <<>> /\ channel' = Tail(channel)
      /\ running /\ setup.windows
      /\ drops' = drops + 1 /\ lost' = lost + 1
      /\ UNCHANGED <<setup, produced, pruned, atPath, fd, readable, prev, seq,
                     running, starts, written>>
  BY DEF WriteFails
<1>5. CASE CutBack(mid)
  <2>1. PICK new : new = CutTo(mid, counted)
    OBVIOUS
  <2>2. disk' = [disk EXCEPT ![fd] = new] /\ UNCHANGED <<counted, damaged>>
    BY <1>5, <2>1 DEF CutBack
  <2>3. Mends(left, mid, new)
    BY <2>1, <2>2 DEF Mends
  <2> QED
    BY <1>1, <1>2, <1>3, <1>4, <2>2, <2>3
<1>6. CASE SealInstead(mid, left)
  <2>1. PICK sealed \in BOOLEAN :
            /\ disk' = [disk EXCEPT ![fd] = IF sealed THEN Terminated(mid) ELSE mid]
            /\ damaged' = IF left = <<>> \/ (sealed /\ left = <<Part>>)
                          THEN damaged ELSE damaged \cup {fd}
    BY <1>6 DEF SealInstead
  <2>2. PICK new : new = IF sealed THEN Terminated(mid) ELSE mid
    OBVIOUS
  <2>3. disk' = [disk EXCEPT ![fd] = new] /\ counted' = Len(mid)
    BY <1>6, <2>1, <2>2 DEF SealInstead, Recount
  <2>4. /\ new = Terminated(mid) \/ new = mid
        /\ \/ damaged' = damaged \cup {fd}
           \/ damaged' = damaged /\ left = <<>>
           \/ damaged' = damaged /\ left = <<Part>> /\ new = Terminated(mid)
    BY <2>1, <2>2
  <2>5. Mends(left, mid, new)
    BY <2>3, <2>4 DEF Mends
  <2> QED
    BY <1>1, <1>2, <1>3, <1>4, <2>3, <2>5
<1> QED
  BY <1>2, <1>3, <1>5, <1>6

\* Cutting a file back to the length it had gives it back.
LEMMA CutBackGives ==
  ASSUME NEW P, NEW pieces \in Seq(P), NEW mid \in Seq(P), Begins(pieces, mid)
  PROVE  CutTo(mid, Len(pieces)) = pieces
<1>1. PICK N \in Nat : N = Len(pieces)
  OBVIOUS
<1>2. PICK new : new = SubSeq(mid, 1, N)
  OBVIOUS
<1>3. CutTo(mid, N) = new
  BY <1>1, <1>2 DEF CutTo, Begins
<1>4. new \in Seq(P) /\ Len(new) = N /\ \A i \in 1..N : new[i] = pieces[i]
  BY <1>1, <1>2 DEF Begins
<1>5. new = pieces
  BY <1>1, <1>4
<1> QED
  BY <1>1, <1>3, <1>5

\* A sealed fragment.
LEMMA SealedFragment ==
  ASSUME NEW T, NEW K \in Nat, NEW pieces \in Seq(PieceSet(T, K)), NEW h, NEW s,
         Sound(pieces), HeadOf(pieces, h, s)
  PROVE  /\ Sound(Terminated(Append(pieces, Part)))
         /\ HeadOf(Terminated(Append(pieces, Part)), h, s)
         /\ Len(Terminated(Append(pieces, Part))) = Len(Append(pieces, Part))
<1>0. PICK mid, new : mid = Append(pieces, Part) /\ new = Terminated(mid)
  OBVIOUS
<1>1. Part \in PieceSet(T, K) /\ Part.what = "part"
  BY DEF Part, PieceSet
<1>2. PICK p : p = Ended(Part)
  OBVIOUS
<1>3. p \in PieceSet(T, K) /\ p.ended /\ p.what = "part"
  BY <1>1, <1>2, EndedFacts
<1>4. mid \in Seq(PieceSet(T, K)) /\ mid # <<>> /\ Len(mid) = Len(pieces) + 1
      /\ mid[Len(pieces) + 1] = Part /\ \A i \in 1..Len(pieces) : mid[i] = pieces[i]
  BY <1>0, <1>1
<1>5. PICK front : front = Front(mid)
  OBVIOUS
<1>6. /\ front \in Seq(PieceSet(T, K)) /\ Len(front) = Len(mid) - 1
      /\ \A i \in 1..(Len(mid) - 1) : front[i] = mid[i]
      /\ Last(mid) = mid[Len(mid)]
  <2>1. mid \in Seq(PieceSet(T, K)) /\ mid # <<>>
    BY <1>4
  <2> QED
    BY <1>5, <2>1, FrontFacts
<1>7. front = pieces
  <2>1. PICK N \in Nat : N = Len(pieces)
    OBVIOUS
  <2> QED
    BY <1>4, <1>6, <2>1
<1>8. Last(mid) = Part
  BY <1>4, <1>6
<1>9. new = Append(pieces, p)
  BY <1>0, <1>2, <1>4, <1>5, <1>7, <1>8 DEF Terminated
<1>10. Sound(Append(pieces, p)) /\ (p.ended => HeadOf(Append(pieces, p), h, s))
  BY <1>3, FragmentKeeps
<1>11. Len(new) = Len(pieces) + 1
  BY <1>3, <1>9
<1> QED
  BY <1>0, <1>3, <1>4, <1>9, <1>10, <1>11

\* A failed write mends its file or counts it as damaged.
LEMMA FailedWriteMends ==
  ASSUME FileInv, running, NEW w \in Stamps, NEW K \in Nat, Used + 1 <= K,
         NEW left \in Leftovers(w), NEW mid, mid = disk[fd] \o left, NEW new,
         Mends(left, mid, new)
  PROVE  /\ new \in Seq(PieceSet(Stamps, K)) /\ OneMore(disk[fd], new, {w})
         /\ counted' \in Nat /\ damaged' \in {damaged, damaged \cup {fd}}
         /\ fd \notin damaged' => /\ Sound(new) /\ HoldsAll(disk[fd], new)
                                  /\ HeadOf(new, prev, seq) /\ counted' = Len(new)
<1>1. PICK pieces : pieces = disk[fd]
  OBVIOUS
<1>2. /\ pieces \in Seq(PieceSet(Stamps, K)) /\ mid \in Seq(PieceSet(Stamps, K))
      /\ OneMore(pieces, mid, {w}) /\ HoldsAll(pieces, mid)
      /\ left = <<>> => mid = pieces
      /\ left = <<Part>> => mid = Append(pieces, Part)
      /\ Begins(pieces, mid)
  <2>1. disk[fd] \in Seq(PieceSet(Stamps, K)) /\ mid \in Seq(PieceSet(Stamps, K))
    BY LeftoverFacts
  <2>2. OneMore(disk[fd], mid, {w}) /\ HoldsAll(disk[fd], mid) /\ Begins(disk[fd], mid)
    BY LeftoverFacts
  <2>3. left = <<>> => mid = disk[fd]
    BY LeftoverFacts
  <2>4. left = <<Part>> => mid = Append(disk[fd], Part)
    BY LeftoverFacts
  <2> QED
    BY <1>1, <2>1, <2>2, <2>3, <2>4
<1>3. fd \notin damaged => /\ Sound(pieces) /\ HeadOf(pieces, prev, seq)
                           /\ counted = Len(pieces)
  BY <1>1 DEF FileInv, FilesSound, HeadTrue, FileRanges
<1>4. counted \in Nat
  BY DEF FileInv, FileRanges
<1>5. CASE new = CutTo(mid, counted) /\ UNCHANGED <<counted, damaged>>
  <2>1. new \in Seq(PieceSet(Stamps, K)) /\ LinesFrom(mid, new)
    BY <1>2, <1>4, <1>5, CutToFacts
  <2>2. OneMore(pieces, new, {w})
    BY <1>2, <2>1, OneMoreThen
  <2>3. fd \notin damaged => new = pieces
    BY <1>2, <1>3, <1>5, CutBackGives
  <2> QED
    BY <1>1, <1>3, <1>4, <1>5, <2>1, <2>2, <2>3, SameHolds
<1>6. CASE /\ counted' = Len(mid)
           /\ new = Terminated(mid) \/ new = mid
           /\ \/ damaged' = damaged \cup {fd}
              \/ damaged' = damaged /\ left = <<>>
              \/ damaged' = damaged /\ left = <<Part>> /\ new = Terminated(mid)
  <2>1. new \in Seq(PieceSet(Stamps, K)) /\ LinesFrom(mid, new)
    <3>1. CASE new = Terminated(mid)
      BY <1>2, <3>1, TerminatedFacts, TerminatedHolds
    <3>2. CASE new = mid
      BY <1>2, <3>2 DEF LinesFrom
    <3> QED
      BY <1>6, <3>1, <3>2
  <2>2. OneMore(pieces, new, {w})
    BY <1>2, <2>1, OneMoreThen
  <2>3. ASSUME fd \notin damaged, left = <<>>
        PROVE  new = pieces
    <3>1. mid = pieces /\ AllEnded(pieces)
      BY <1>2, <1>3, <2>3 DEF HeadOf
    <3>2. Terminated(pieces) = pieces
      BY <1>2, <3>1, TerminatedSame
    <3> QED
      BY <1>6, <3>1, <3>2
  <2>4. ASSUME fd \notin damaged, left = <<Part>>, new = Terminated(mid)
        PROVE  /\ Sound(new) /\ HoldsAll(pieces, new)
               /\ HeadOf(new, prev, seq) /\ Len(new) = Len(mid)
    <3>1. Sound(new) /\ HeadOf(new, prev, seq) /\ Len(new) = Len(mid)
      <4>1. /\ pieces \in Seq(PieceSet(Stamps, K))
            /\ Sound(pieces) /\ HeadOf(pieces, prev, seq)
            /\ mid = Append(pieces, Part) /\ new = Terminated(mid)
        BY <1>2, <1>3, <2>4
      <4> QED
        BY <4>1, SealedFragment
    <3>2. HoldsAll(mid, new)
      BY <1>2, <2>4, TerminatedHolds
    <3>3. HoldsAll(pieces, new)
      BY <1>2, <3>2 DEF HoldsAll
    <3> QED
      BY <3>1, <3>3
  <2>5. counted' \in Nat /\ damaged' \in {damaged, damaged \cup {fd}}
    BY <1>2, <1>6
  <2>6. fd \notin damaged' => /\ Sound(new) /\ HoldsAll(pieces, new)
                              /\ HeadOf(new, prev, seq) /\ counted' = Len(new)
    <3> SUFFICES ASSUME fd \notin damaged'
                 PROVE  /\ Sound(new) /\ HoldsAll(pieces, new)
                        /\ HeadOf(new, prev, seq) /\ counted' = Len(new)
      OBVIOUS
    <3>1. fd \notin damaged
      BY <1>6
    <3>2. CASE left = <<>>
      BY <1>2, <1>3, <1>6, <2>3, <3>1, <3>2, SameHolds
    <3>3. CASE left = <<Part>> /\ new = Terminated(mid)
      BY <1>6, <2>4, <3>1, <3>3
    <3> QED
      BY <1>6, <3>2, <3>3
  <2> QED
    BY <1>1, <2>1, <2>2, <2>5, <2>6
<1> QED
  BY <1>5, <1>6 DEF Mends

\* A failed write leaves the file cut back, sealed or marked.
LEMMA WriteFailsStep ==
  ASSUME FileInv, WriteFails
  PROVE  FileInv' /\ DiskGrows
<1>1. PICK w, mid, left, new :
            /\ w = Head(channel) /\ channel # <<>> /\ channel' = Tail(channel)
            /\ left \in Leftovers(w) /\ mid = disk[fd] \o left
            /\ disk' = [disk EXCEPT ![fd] = new]
            /\ Mends(left, mid, new)
            /\ running /\ setup.windows
            /\ drops' = drops + 1 /\ lost' = lost + 1
            /\ UNCHANGED <<setup, produced, pruned, atPath, fd, readable, prev, seq,
                           running, starts, written>>
  BY WriteFailsOutcomes
<1>2. /\ w \in Stamps /\ Leaves({w})
      /\ Used' = Used + 1 /\ Stamps' = Stamps
      /\ channel' \in Seq(Stamps) /\ Len(channel') <= ChannelCapacity
      /\ Len(channel') <= Cardinality(produced)
  BY <1>1, HeadLeaves DEF FileInv
<1>3. /\ Used \in Nat /\ Used' \in Nat /\ Used <= Used' /\ Used + 1 <= Used'
      /\ drops \in 0..lost /\ lost \in 0..Used
  BY <1>2, UsedFacts DEF FileInv, ChannelRanges
<1>4. /\ new \in Seq(PieceSet(Stamps, Used')) /\ OneMore(disk[fd], new, {w})
      /\ counted' \in Nat /\ damaged' \in {damaged, damaged \cup {fd}}
      /\ fd \notin damaged' => /\ Sound(new) /\ HoldsAll(disk[fd], new)
                               /\ HeadOf(new, prev, seq) /\ counted' = Len(new)
  BY <1>1, <1>2, <1>3, FailedWriteMends
<1>5. PICK L \in Nat : L = Len(disk) /\ DOMAIN disk = 1..L /\ fd \in 1..L /\ fd = L
  BY OpenFile DEF FileInv
<1>6. DOMAIN disk' = 1..L
  BY <1>1, <1>5
<1>7. damaged \subseteq damaged' /\ damaged' \subseteq DOMAIN disk'
  BY <1>4, <1>5, <1>6 DEF FileInv, FileRanges
<1>8. PICK now : now = [disk EXCEPT ![fd] = new]
  OBVIOUS
<1>9. DiskStep({w}) /\ disk'[fd] = new
  BY <1>1, <1>3, <1>4, <1>7, <1>8, IsDiskStep DEF FileInv
<1>10. ChannelRanges'
  <2>1. lost' \in 0..Used' /\ drops' \in 0..lost'
    BY <1>1, <1>2, <1>3
  <2> QED
    BY <1>1, <1>2, <2>1 DEF FileInv, ChannelRanges
<1>11. Fresh' /\ OnePlace' /\ FilesSound'
  BY <1>2, <1>9, DiskStepFresh, DiskStepOnePlace, DiskStepSound DEF FileInv, FileRanges
<1>12. Kept'
  <2>1. \A v \in Stamps, f \in DOMAIN disk' : <<v, f>> \in written' =>
            \/ f \in DOMAIN disk /\ <<v, f>> \in written
            \/ f = fd /\ \E i \in DOMAIN disk'[fd] : LineAt(disk'[fd], i, v)
    BY <1>1, <1>5, <1>6
  <2>2. UNCHANGED setup
    BY <1>1
  <2> QED
    BY <1>9, <2>1, <2>2, DiskStepKeeps DEF FileInv, FileRanges
<1>13. FileRanges'
  <2>1. disk' \in Seq(Seq(PieceSet(Stamps', Used')))
    BY <1>2, <1>9 DEF DiskStep
  <2>2. seq' \in 0..Used'
    BY <1>1, <1>3 DEF FileInv, FileRanges
  <2> QED
    BY <1>1, <1>2, <1>4, <1>5, <1>6, <1>7, <2>1, <2>2 DEF FileInv, FileRanges
<1>14. HeadTrue'
  BY <1>1, <1>4, <1>9 DEF HeadTrue
<1> QED
  BY <1>9, <1>10, <1>11, <1>12, <1>13, <1>14 DEF FileInv, DiskGrows

\* A daemon that dies leaves its file with a part of a line at most.
LEMMA CrashOutcomes ==
  ASSUME Crash
  PROVE  /\ running /\ running' = FALSE /\ channel' = <<>> /\ drops' = 0
         /\ UNCHANGED <<setup, produced, pruned, atPath, fd, readable, counted, prev,
                        seq, starts, lost, written>>
         /\ \/ UNCHANGED <<disk, damaged>>
            \/ \E w, left, mid :
                  /\ channel # <<>> /\ w = Head(channel)
                  /\ left \in Leftovers(w) /\ (~ setup.windows => left = <<>>)
                  /\ mid = disk[fd] \o left /\ disk' = [disk EXCEPT ![fd] = mid]
                  /\ \/ damaged' = damaged \cup {fd}
                     \/ damaged' = damaged /\ left # <<Torn>>
<1>1. /\ running /\ running' = FALSE /\ channel' = <<>> /\ drops' = 0
      /\ UNCHANGED <<setup, produced, pruned, atPath, fd, readable, counted, prev,
                     seq, starts, lost, written>>
  BY DEF Crash
<1>2. CASE DiesInRollups
  BY <1>1, <1>2 DEF DiesInRollups
<1>3. CASE DiesInWrite
  <2>1. PICK w : w = Head(channel)
    OBVIOUS
  <2>2. PICK left \in IF setup.windows THEN Leftovers(w) ELSE {<<>>} :
            /\ disk' = [disk EXCEPT ![fd] = @ \o left]
            /\ damaged' = IF left = <<Torn>> THEN damaged \cup {fd} ELSE damaged
    BY <1>3, <2>1 DEF DiesInWrite
  <2>3. PICK mid : mid = disk[fd] \o left
    OBVIOUS
  <2>4. left \in Leftovers(w) /\ (~ setup.windows => left = <<>>)
    BY <2>2 DEF Leftovers
  <2>5. disk' = [disk EXCEPT ![fd] = mid]
    BY <2>2, <2>3
  <2>6. \/ damaged' = damaged \cup {fd}
        \/ damaged' = damaged /\ left # <<Torn>>
    BY <2>2
  <2>7. channel # <<>>
    BY <1>3 DEF DiesInWrite
  <2> QED
    BY <1>1, <2>1, <2>3, <2>4, <2>5, <2>6, <2>7
<1> QED
  BY <1>1, <1>2, <1>3 DEF Crash

\* A crash leaves at most a part or a line behind the last line; the waiting
\* windows go with the process.
LEMMA CrashStep ==
  ASSUME FileInv, Crash
  PROVE  FileInv' /\ DiskGrows
<1>1. /\ running /\ running' = FALSE /\ channel' = <<>> /\ drops' = 0
      /\ UNCHANGED <<setup, produced, pruned, atPath, fd, readable, counted, prev,
                     seq, starts, lost, written>>
      /\ \/ UNCHANGED <<disk, damaged>>
         \/ \E w, left, mid :
               /\ channel # <<>> /\ w = Head(channel)
               /\ left \in Leftovers(w) /\ (~ setup.windows => left = <<>>)
               /\ mid = disk[fd] \o left /\ disk' = [disk EXCEPT ![fd] = mid]
               /\ \/ damaged' = damaged \cup {fd}
                  \/ damaged' = damaged /\ left # <<Torn>>
  BY CrashOutcomes
<1>2. /\ Leaves({})
      /\ channel # <<>> => Leaves({Head(channel)}) /\ Head(channel) \in Stamps
      /\ Used' \in Nat /\ Used <= Used' /\ Stamps' = Stamps
      /\ channel # <<>> => Used + 1 <= Used'
  BY <1>1, ChannelLost DEF FileInv
<1>3. Used \in Nat /\ drops \in 0..lost /\ lost \in 0..Used
  BY UsedFacts DEF FileInv, ChannelRanges
<1>4. /\ lost' \in 0..Used' /\ drops' \in 0..lost'
      /\ channel' \in Seq(Stamps) /\ Len(channel') = 0
  BY <1>1, <1>2, <1>3
<1>5. Len(channel') <= ChannelCapacity /\ Len(channel') <= Cardinality(produced)
  BY <1>4, UsedFacts, ArchiveAssumption DEF FileInv
<1>6. CASE UNCHANGED <<disk, damaged>>
  <2>1. running' \in BOOLEAN /\ (running' => running \/ ~ setup.windows)
    BY <1>1
  <2>2. FileInv'
    BY <1>1, <1>2, <1>4, <1>5, <1>6, <2>1, FilesAlone
  <2> QED
    BY <1>6, <2>2 DEF DiskGrows
<1>7. ASSUME NEW w, NEW left, NEW mid,
             channel # <<>>, w = Head(channel),
             left \in Leftovers(w), ~ setup.windows => left = <<>>,
             mid = disk[fd] \o left, disk' = [disk EXCEPT ![fd] = mid],
             \/ damaged' = damaged \cup {fd}
             \/ damaged' = damaged /\ left # <<Torn>>
      PROVE  FileInv' /\ DiskGrows
  <2>1. w \in Stamps /\ Leaves({w}) /\ Used + 1 <= Used'
    BY <1>2, <1>7
  <2>2. mid \in Seq(PieceSet(Stamps, Used'))
    BY <1>2, <1>7, <2>1, LeftoverFacts
  <2>3. OneMore(disk[fd], mid, {w}) /\ HoldsAll(disk[fd], mid)
    BY <1>2, <1>7, <2>1, LeftoverFacts
  <2>4. running /\ fd \notin damaged /\ left # <<Torn>> => Sound(mid)
    BY <1>2, <1>7, <2>1, LeftoverFacts
  <2>5. left = <<>> => mid = disk[fd]
    BY <1>2, <1>7, <2>1, LeftoverFacts
  <2>6. PICK L \in Nat : L = Len(disk) /\ DOMAIN disk = 1..L /\ fd \in 1..L /\ fd = L
    BY OpenFile DEF FileInv
  <2>7. DOMAIN disk' = 1..L
    BY <1>7, <2>6
  <2>8. damaged \subseteq damaged' /\ damaged' \subseteq DOMAIN disk'
    BY <1>7, <2>6, <2>7 DEF FileInv, FileRanges
  <2>9. fd \notin damaged' => Sound(mid) /\ HoldsAll(disk[fd], mid)
    BY <1>1, <1>7, <2>3, <2>4
  <2>10. PICK now : now = [disk EXCEPT ![fd] = mid]
    OBVIOUS
  <2>11. DiskStep({w}) /\ disk'[fd] = mid
    BY <1>2, <1>7, <2>2, <2>3, <2>8, <2>9, <2>10, IsDiskStep DEF FileInv
  <2>12. ChannelRanges'
    BY <1>1, <1>2, <1>4, <1>5 DEF FileInv, ChannelRanges
  <2>13. Fresh' /\ OnePlace' /\ FilesSound'
    BY <2>1, <2>11, DiskStepFresh, DiskStepOnePlace, DiskStepSound DEF FileInv, FileRanges
  <2>14. Kept'
    <3>1. \A v \in Stamps, f \in DOMAIN disk' : <<v, f>> \in written' =>
              \/ f \in DOMAIN disk /\ <<v, f>> \in written
              \/ f = fd /\ \E i \in DOMAIN disk'[fd] : LineAt(disk'[fd], i, v)
      BY <1>1, <2>6, <2>7
    <3>2. UNCHANGED setup
      BY <1>1
    <3> QED
      BY <2>11, <3>1, <3>2, DiskStepKeeps DEF FileInv, FileRanges
  <2>15. FileRanges'
    <3>1. disk' \in Seq(Seq(PieceSet(Stamps', Used')))
      BY <1>2, <2>11 DEF DiskStep
    <3>2. seq' \in 0..Used'
      BY <1>1, <1>2, <1>3 DEF FileInv, FileRanges
    <3> QED
      BY <1>1, <1>2, <2>6, <2>7, <2>8, <3>1, <3>2 DEF FileInv, FileRanges
  <2>16. HeadTrue'
    <3>1. CASE setup.windows
      BY <1>1, <3>1 DEF HeadTrue
    <3>2. CASE ~ setup.windows
      <4>1. disk'[fd] = disk[fd]
        BY <1>7, <2>5, <2>11, <3>2
      <4> QED
        BY <1>1, <2>8, <3>2, <4>1 DEF FileInv, HeadTrue
    <3> QED
      BY <3>1, <3>2
  <2> QED
    BY <2>11, <2>12, <2>13, <2>14, <2>15, <2>16 DEF FileInv, DiskGrows
<1> QED
  BY <1>1, <1>6, <1>7

-----------------------------------------------------------------------------
(* A start.                                                                *)

\* It opens the file at the path, ended, or a fresh one, and takes its head from
\* what it finds there; without window lines it opens none.
LEMMA RestartOutcomes ==
  ASSUME Restart
  PROVE  /\ running' = TRUE /\ starts' = starts + 1 /\ starts < MaxStarts /\ ~ running
         /\ UNCHANGED <<setup, produced, channel, drops, lost>>
         /\ \/ /\ ~ setup.windows
               /\ UNCHANGED <<disk, pruned, atPath, fd, readable, counted, prev, seq,
                              written, damaged>>
            \/ /\ setup.windows
               /\ \/ /\ atPath = NoFile /\ disk' = Append(disk, <<>>)
                     /\ fd' = Len(disk) + 1
                  \/ /\ atPath # NoFile /\ fd' = atPath
                     /\ disk' = [disk EXCEPT ![atPath] = Terminated(disk[atPath])]
               /\ atPath' = fd' /\ readable' = TRUE
               /\ counted' = Len(disk'[fd'])
               /\ prev' = Resume(disk'[fd']).prev /\ seq' = Resume(disk'[fd']).seq
               /\ UNCHANGED <<pruned, written, damaged>>
BY DEF Restart, files

\* The daemon goes on with the files it finds.
LEMMA OpenedKeeps ==
  ASSUME FileInv, ~ running, UNCHANGED <<setup, produced, channel, written, damaged>>,
         DiskStep({}), fd' \in DOMAIN disk', fd' \notin damaged' => AllEnded(disk'[fd']),
         counted' = Len(disk'[fd']),
         prev' = Resume(disk'[fd']).prev, seq' = Resume(disk'[fd']).seq
  PROVE  /\ Fresh' /\ OnePlace' /\ FilesSound' /\ HeadTrue' /\ Kept'
         /\ disk' \in Seq(Seq(PieceSet(Stamps', Used')))
         /\ counted' \in Nat /\ prev' \in Stamps' \cup {Seed} /\ seq' \in 0..Used'
         /\ damaged' \subseteq DOMAIN disk' /\ written' \subseteq Stamps' \X DOMAIN disk'
<1>1. Stamps' = Stamps /\ Used' = Used /\ Used \in Nat
  BY UsedFacts DEF FileInv, Stamps, Used
<1>2. Leaves({})
  BY NothingLeaves DEF FileInv
<1>3. fd \in DOMAIN disk
  BY DEF FileInv, FileRanges
<1>4. Fresh' /\ OnePlace' /\ FilesSound'
  BY <1>2, <1>3, DiskStepFresh, DiskStepOnePlace, DiskStepSound DEF FileInv
<1>5. Kept'
  <2>1. \A v \in Stamps, f \in DOMAIN disk' : <<v, f>> \in written' =>
            \/ f \in DOMAIN disk /\ <<v, f>> \in written
            \/ f = fd /\ \E i \in DOMAIN disk'[fd] : LineAt(disk'[fd], i, v)
    BY DEF FileInv, FileRanges
  <2> QED
    BY <1>3, <2>1, DiskStepKeeps DEF FileInv
<1>6. disk' \in Seq(Seq(PieceSet(Stamps, Used')))
  BY DEF DiskStep
<1>7. PICK pieces : pieces = disk'[fd']
  OBVIOUS
<1>8. pieces \in Seq(PieceSet(Stamps, Used))
  BY <1>1, <1>6, <1>7
<1>9. counted' \in Nat /\ prev' \in Stamps \cup {Seed} /\ seq' \in 0..Used
  <2>1. Resume(pieces).prev \in Stamps \cup {Seed} /\ Resume(pieces).seq \in 0..Used
    BY <1>1, <1>8, ResumeType
  <2>2. Len(pieces) \in Nat
    BY <1>8
  <2> QED
    BY <1>7, <2>1, <2>2
<1>10. HeadTrue'
  <2>1. ASSUME fd' \notin damaged'
        PROVE  HeadOf(pieces, Resume(pieces).prev, Resume(pieces).seq)
    <3>1. Sound(pieces) /\ AllEnded(pieces)
      BY <1>4, <1>7, <2>1 DEF FilesSound
    <3> QED
      BY <1>1, <1>8, <3>1, ResumesHead
  <2>2. HeadOf(disk'[fd'], prev', seq') \/ fd' \in damaged'
    BY <1>7, <2>1
  <2> QED
    BY <2>2 DEF HeadTrue
<1>11. damaged' \subseteq DOMAIN disk' /\ written' \subseteq Stamps' \X DOMAIN disk'
  BY <1>1 DEF FileInv, FileRanges, DiskStep
<1> QED
  BY <1>1, <1>4, <1>5, <1>6, <1>9, <1>10, <1>11

\* A start ends the last line, finds the head in the file or opens a fresh one.
LEMMA RestartStep ==
  ASSUME FileInv, Restart
  PROVE  FileInv' /\ DiskGrows
<1>1. /\ running' = TRUE /\ starts' = starts + 1 /\ starts < MaxStarts /\ ~ running
      /\ UNCHANGED <<setup, produced, channel, drops, lost>>
      /\ \/ /\ ~ setup.windows
            /\ UNCHANGED <<disk, pruned, atPath, fd, readable, counted, prev, seq,
                           written, damaged>>
         \/ /\ setup.windows
            /\ \/ /\ atPath = NoFile /\ disk' = Append(disk, <<>>)
                  /\ fd' = Len(disk) + 1
               \/ /\ atPath # NoFile /\ fd' = atPath
                  /\ disk' = [disk EXCEPT ![atPath] = Terminated(disk[atPath])]
            /\ atPath' = fd' /\ readable' = TRUE
            /\ counted' = Len(disk'[fd'])
            /\ prev' = Resume(disk'[fd']).prev /\ seq' = Resume(disk'[fd']).seq
            /\ UNCHANGED <<pruned, written, damaged>>
  BY RestartOutcomes
<1>2. Stamps' = Stamps /\ Used' = Used /\ Used \in Nat
  BY <1>1, UsedFacts DEF FileInv, Stamps, Used
<1>3. ChannelRanges'
  BY <1>1, <1>2, ArchiveAssumption DEF FileInv, ChannelRanges
<1>4. CASE /\ ~ setup.windows
           /\ UNCHANGED <<disk, pruned, atPath, fd, readable, counted, prev, seq,
                          written, damaged>>
  BY <1>1, <1>2, <1>3, <1>4 DEF FileInv, FileRanges, Fresh, OnePlace, FilesSound, HeadTrue, Kept,
                                DiskGrows
<1>5. PICK L \in Nat : L = Len(disk) /\ DOMAIN disk = 1..L /\ fd \in 1..L /\ fd = L
  BY OpenFile DEF FileInv
<1>6. PICK pieces : pieces = disk[fd]
  OBVIOUS
<1>7. pieces \in Seq(PieceSet(Stamps, Used))
  BY <1>6 DEF FileInv, FileRanges
<1>8. fd \notin damaged => Sound(pieces)
  BY <1>6 DEF FileInv, FileRanges, FilesSound
<1>9. damaged \subseteq 1..L /\ pruned \subseteq 1..L /\ fd \notin pruned
      /\ atPath \in {NoFile, fd}
  BY <1>5 DEF FileInv, FileRanges
<1>10. /\ Used' \in Nat /\ Used <= Used' /\ pieces \in Seq(PieceSet(Stamps, Used'))
  BY <1>2, <1>7
<1>11. CASE /\ atPath = NoFile /\ disk' = Append(disk, <<>>) /\ fd' = Len(disk) + 1
            /\ atPath' = fd' /\ readable' = TRUE
            /\ counted' = Len(disk'[fd'])
            /\ prev' = Resume(disk'[fd']).prev /\ seq' = Resume(disk'[fd']).seq
            /\ UNCHANGED <<pruned, written, damaged>>
  <2>1. DOMAIN disk' = 1..(L + 1) /\ disk'[L + 1] = <<>> /\ fd' = L + 1
    BY <1>5, <1>11
  <2>2. PICK now : now = [disk EXCEPT ![fd] = pieces]
    OBVIOUS
  <2>3. now = disk
    <3>1. PICK P : P = Seq(PieceSet(Stamps, Used))
      OBVIOUS
    <3>2. disk \in Seq(P) /\ pieces \in P /\ fd \in DOMAIN disk
      BY <1>5, <1>7, <3>1 DEF FileInv, FileRanges
    <3>3. /\ now \in Seq(P) /\ Len(now) = Len(disk)
          /\ now[fd] = pieces /\ \A g \in DOMAIN disk \ {fd} : now[g] = disk[g]
      BY <2>2, <3>2, OneFile
    <3>4. \A g \in 1..Len(disk) : now[g] = disk[g]
      BY <1>5, <1>6, <3>3
    <3> QED
      BY <3>2, <3>3, <3>4
  <2>4. damaged' \subseteq DOMAIN disk' /\ damaged \subseteq damaged'
    BY <1>9, <1>11, <2>1
  <2>5. OneMore(disk[fd], pieces, {}) /\ HoldsAll(disk[fd], pieces)
    BY <1>6, SameHolds
  <2>6. disk' = now \/ disk' = Append(now, <<>>)
    BY <1>11, <2>3
  <2>7. fd \notin damaged' => Sound(pieces) /\ HoldsAll(disk[fd], pieces)
    BY <1>8, <1>11, <2>5
  <2>8. DiskStep({})
    BY <1>10, <2>2, <2>4, <2>5, <2>6, <2>7, IsDiskStep DEF FileInv
  <2>9. AllEnded(disk'[fd'])
    BY <2>1, NothingReads DEF HeadOf
  <2>10. fd' \in DOMAIN disk'
    BY <2>1
  <2>11. /\ Fresh' /\ OnePlace' /\ FilesSound' /\ HeadTrue' /\ Kept'
         /\ disk' \in Seq(Seq(PieceSet(Stamps', Used')))
         /\ counted' \in Nat /\ prev' \in Stamps' \cup {Seed} /\ seq' \in 0..Used'
         /\ damaged' \subseteq DOMAIN disk' /\ written' \subseteq Stamps' \X DOMAIN disk'
    BY <1>1, <1>11, <2>8, <2>9, <2>10, OpenedKeeps
  <2>12. fd' \in DOMAIN disk' \ pruned' /\ pruned' \subseteq DOMAIN disk'
    BY <1>9, <1>11, <2>1
  <2>13. FileRanges'
    BY <1>11, <2>11, <2>12 DEF FileRanges
  <2> QED
    BY <1>3, <2>8, <2>11, <2>13 DEF FileInv, DiskGrows
<1>12. CASE /\ atPath # NoFile /\ fd' = atPath
            /\ disk' = [disk EXCEPT ![atPath] = Terminated(disk[atPath])]
            /\ atPath' = fd' /\ readable' = TRUE
            /\ counted' = Len(disk'[fd'])
            /\ prev' = Resume(disk'[fd']).prev /\ seq' = Resume(disk'[fd']).seq
            /\ UNCHANGED <<pruned, written, damaged>>
  <2>1. PICK new : new = Terminated(pieces)
    OBVIOUS
  <2>2. PICK now : now = [disk EXCEPT ![fd] = new]
    OBVIOUS
  <2>3. fd' = fd /\ disk' = now
    BY <1>6, <1>9, <1>12, <2>1, <2>2
  <2>4. DOMAIN disk' = 1..L
    BY <1>5, <2>2, <2>3
  <2>5. damaged' \subseteq DOMAIN disk' /\ damaged \subseteq damaged'
    BY <1>9, <1>12, <2>4
  <2>6. new \in Seq(PieceSet(Stamps, Used'))
    BY <1>10, <2>1, TerminatedFacts
  <2>7. OneMore(pieces, new, {}) /\ HoldsAll(pieces, new)
    BY <1>10, <2>1, TerminatedHolds
  <2>8. fd \notin damaged' => Sound(new) /\ AllEnded(new)
    BY <1>8, <1>10, <1>12, <2>1, TerminatedReads
  <2>9. OneMore(disk[fd], new, {}) /\ (fd \notin damaged' => Sound(new) /\ HoldsAll(disk[fd], new))
    BY <1>6, <2>7, <2>8
  <2>10. disk' = now \/ disk' = Append(now, <<>>)
    BY <2>3
  <2>11. DiskStep({}) /\ disk'[fd] = new
    BY <1>10, <2>2, <2>5, <2>6, <2>9, <2>10, IsDiskStep DEF FileInv
  <2>12. fd' \in DOMAIN disk' /\ (fd' \notin damaged' => AllEnded(disk'[fd']))
    BY <1>5, <2>3, <2>4, <2>8, <2>11
  <2>13. /\ Fresh' /\ OnePlace' /\ FilesSound' /\ HeadTrue' /\ Kept'
         /\ disk' \in Seq(Seq(PieceSet(Stamps', Used')))
         /\ counted' \in Nat /\ prev' \in Stamps' \cup {Seed} /\ seq' \in 0..Used'
         /\ damaged' \subseteq DOMAIN disk' /\ written' \subseteq Stamps' \X DOMAIN disk'
    BY <1>1, <1>12, <2>11, <2>12, OpenedKeeps
  <2>14. /\ fd' \in DOMAIN disk' \ pruned' /\ pruned' \subseteq DOMAIN disk'
         /\ DOMAIN disk' = 1..fd'
    BY <1>5, <1>9, <1>12, <2>3, <2>4
  <2>15. FileRanges'
    BY <1>12, <2>13, <2>14 DEF FileRanges
  <2> QED
    BY <1>3, <2>11, <2>13, <2>15 DEF FileInv, DiskGrows
<1> QED
  BY <1>1, <1>4, <1>11, <1>12

-----------------------------------------------------------------------------
(* The theorems.                                                           *)

\* The first start finds one file with nothing in it.
LEMMA InitEstablishes == Init => FileInv
<1> SUFFICES ASSUME Init PROVE FileInv
  OBVIOUS
<1>1. /\ setup \in Setups /\ produced = {} /\ channel = <<>> /\ disk = << <<>> >>
      /\ pruned = {} /\ atPath = 1 /\ fd = 1 /\ readable = TRUE /\ counted = 0
      /\ prev = Seed /\ seq = 0 /\ drops = 0 /\ lost = 0 /\ running = TRUE /\ starts = 1
      /\ written = {} /\ damaged = {}
  BY DEF Init
<1>2. IsFiniteSet(produced) /\ Cardinality(produced) = 0
  BY <1>1, FS_EmptySet
<1>3. Len(channel) = 0 /\ channel \in Seq(Stamps) /\ DOMAIN channel = {}
  BY <1>1
<1>4. Used = 0
  BY <1>2, <1>3 DEF Used
<1>5. setup.most \in Nat
  BY <1>1, ArchiveAssumption
<1>6. ChannelRanges
  BY <1>1, <1>2, <1>3, <1>4, <1>5, ArchiveAssumption DEF ChannelRanges
<1>7. DOMAIN disk = {1} /\ disk[1] = <<>> /\ disk \in Seq(Seq(PieceSet(Stamps, Used)))
  <2>1. PICK P : P = Seq(PieceSet(Stamps, Used))
    OBVIOUS
  <2>2. <<>> \in P
    BY <2>1
  <2>3. << <<>> >> \in Seq(P)
    BY <2>2
  <2> QED
    BY <1>1, <2>1, <2>3
<1>8. FileRanges
  BY <1>1, <1>4, <1>7 DEF FileRanges
<1>9. Fresh /\ OnePlace /\ Kept
  <2>1. DOMAIN disk[1] = {}
    BY <1>7
  <2>2. Fresh
    BY <1>3, <1>7, <2>1 DEF Fresh
  <2>3. OnePlace
    BY <1>7, <2>1 DEF OnePlace
  <2>4. Kept
    BY <1>1 DEF Kept
  <2> QED
    BY <2>2, <2>3, <2>4
<1>10. FilesSound /\ HeadTrue
  BY <1>1, <1>7, NothingReads DEF FilesSound, HeadTrue
<1> QED
  BY <1>6, <1>8, <1>9, <1>10 DEF FileInv

\* Every step keeps what holds.
LEMMA StepKeeps == FileInv /\ [Next]_vars => FileInv' /\ DiskGrows
<1> SUFFICES ASSUME FileInv, [Next]_vars PROVE FileInv' /\ DiskGrows
  OBVIOUS
<1>1. CASE UNCHANGED vars
  <2>1. UNCHANGED <<setup, produced, channel, disk, pruned, atPath, fd, readable, counted,
                    prev, seq, drops, running, starts, lost, written, damaged>>
    BY <1>1 DEF vars
  <2>2. Stamps' = Stamps /\ Used' = Used
    BY <2>1 DEF Stamps, Used
  <2> QED
    BY <2>1, <2>2 DEF FileInv, ChannelRanges, FileRanges, Fresh, OnePlace, FilesSound,
                      HeadTrue, Kept, DiskGrows
<1>2. CASE Produce
  BY <1>2, ProduceStep DEF Produce, files, DiskGrows
<1>3. CASE RollUpOnly
  BY <1>3, RollUpOnlyStep DEF RollUpOnly, files, DiskGrows
<1>4. CASE WriteWindow
  BY <1>4, WriteStep
<1>5. CASE WriteFails
  BY <1>5, WriteFailsStep
<1>6. CASE Stop
  BY <1>6, StopStep DEF Stop, files, DiskGrows
<1>7. CASE Crash
  BY <1>7, CrashStep
<1>8. CASE Restart
  BY <1>8, RestartStep
<1> QED
  BY <1>1, <1>2, <1>3, <1>4, <1>5, <1>6, <1>7, <1>8 DEF Next

\* What holds the theorems about the files: whatever failed, every file without
\* an unmended fault holds the lines written to it in one chain, each window in
\* one place of all files, and the writer knows its head.
THEOREM FilesHold == Spec => []FileInv
BY InitEstablishes, StepKeeps, PTL DEF Spec

\* A sound file reads without a break.
LEMMA SoundReads ==
  ASSUME NEW T, NEW K \in Nat, NEW pieces \in Seq(PieceSet(T, K)), Sound(pieces)
  PROVE  Breaks(pieces) = 0
<1>1. PICK lines : lines = LinesOf(pieces)
  OBVIOUS
<1>2. lines \in Seq(LineSet(T, K)) /\ Chained(lines)
  BY <1>1, LinesOfType DEF Sound
<1> QED
  BY <1>1, <1>2, ChainedReads DEF Breaks

\* No I/O error, crash or restart is published as tampering (walk_chain_line):
\* a file without an unmended fault is text and reads without a break, for any
\* capacity, file cap, number of files, starts and faults.
THEOREM NothingReadsAsTampering == Spec => []NoFalseBreak
<1>1. FileInv => NoFalseBreak
  <2> SUFFICES ASSUME FileInv, NEW f \in DOMAIN disk \ damaged
               PROVE  IsText(disk[f]) /\ Breaks(disk[f]) = 0
    BY DEF NoFalseBreak
  <2>1. Used \in Nat
    BY UsedFacts DEF FileInv
  <2>2. disk[f] \in Seq(PieceSet(Stamps, Used)) /\ Sound(disk[f])
    BY DEF FileInv, FileRanges, FilesSound
  <2>3. IsText(disk[f])
    BY <2>2 DEF IsText, Sound
  <2> QED
    BY <2>1, <2>2, <2>3, SoundReads
<1> QED
  BY <1>1, FilesHold, PTL

\* A line of a sound file stands on its own, and in no other place.
LEMMA PlacesFacts ==
  ASSUME FileInv, NEW f \in DOMAIN disk \ damaged, NEW w \in Stamps, <<w, f>> \in written
  PROVE  \E i : PlacesOf(w) = {<<f, i>>}
<1>1. Sound(disk[f]) /\ disk[f] \in Seq(PieceSet(Stamps, Used)) /\ Used \in Nat
  BY UsedFacts DEF FileInv, FilesSound, FileRanges
<1>2. PICK i \in DOMAIN disk[f] : disk[f][i].what = "line" /\ disk[f][i].window = w
  BY DEF FileInv, Kept
<1>3. Stands(disk[f], i)
  <2>1. PICK N \in Nat : N = Len(disk[f]) /\ DOMAIN disk[f] = 1..N
    BY <1>1
  <2>2. \A k \in 1..(N - 1) : disk[f][k].ended
    BY <1>1, <2>1 DEF Sound
  <2>3. i \in 1..N
    BY <1>2, <2>1
  <2>4. i > 1 => i - 1 \in 1..(N - 1)
    BY <2>1, <2>3
  <2>5. i < N => i \in 1..(N - 1)
    BY <2>1, <2>3
  <2> QED
    BY <1>2, <2>1, <2>2, <2>4, <2>5 DEF Stands
<1>4. <<f, i>> \in PlacesOf(w)
  BY <1>2, <1>3 DEF PlacesOf
<1>5. ASSUME NEW place \in PlacesOf(w) PROVE place = <<f, i>>
  <2>1. PICK g \in DOMAIN disk :
            place \in {<<g, j>> : j \in {k \in DOMAIN disk[g] : /\ Stands(disk[g], k)
                                                               /\ disk[g][k].window = w}}
    BY <1>5 DEF PlacesOf
  <2>2. PICK j \in DOMAIN disk[g] :
            place = <<g, j>> /\ Stands(disk[g], j) /\ disk[g][j].window = w
    BY <2>1
  <2>3. disk[g][j].what = "line"
    BY <2>2 DEF Stands
  <2>4. g = f /\ j = i
    BY <1>2, <2>2, <2>3 DEF FileInv, OnePlace
  <2> QED
    BY <2>2, <2>4
<1> QED
  BY <1>4, <1>5

\* Cutting back after a failed write never reaches into a complete window
\* (WindowSink::write, set_len): a window whose write succeeded stays in exactly
\* one place, in the file it went to.
THEOREM WrittenStays == Spec => []WindowsKept
<1>1. FileInv => WindowsKept
  <2> SUFFICES ASSUME FileInv, NEW w \in Stamps, NEW f \in DOMAIN disk \ damaged,
                      <<w, f>> \in written
               PROVE  /\ Cardinality(PlacesOf(w)) = 1
                      /\ \A place \in PlacesOf(w) : place[1] = f
    BY DEF WindowsKept
  <2>1. PICK i : PlacesOf(w) = {<<f, i>>}
    BY PlacesFacts
  <2>2. Cardinality({<<f, i>>}) = 1
    BY FS_Singleton
  <2> QED
    BY <2>1, <2>2
<1> QED
  BY <1>1, FilesHold, PTL

-----------------------------------------------------------------------------
(* What a crash costs.                                                     *)

Fields == {"open", "since", "pending", "chain", "months", "torn", "partial",
           "faults", "left"}

\* The windows folded that no line and no snapshot holds.
Unsaved(r) == r.open \ r.partial

LittleUnsaved(r) ==
    /\ DOMAIN r = Fields
    /\ r.since \in 0..(SnapshotEvery - 1)
    /\ IsFiniteSet(Unsaved(r)) /\ Cardinality(Unsaved(r)) <= r.since

\* What appending, keeping, flushing and pruning days leave alone.
SameSnapshot(q, r) ==
    /\ DOMAIN q = Fields
    /\ q.open = r.open /\ q.since = r.since /\ q.partial = r.partial

\* Appending moves lines and waiting days, not the open day's windows.
LEMMA AppendsSame ==
  ASSUME NEW r, DOMAIN r = Fields, NEW day, NEW n, NEW take
  PROVE  /\ SameSnapshot(FlushPending(r, n, take), r)
         /\ SameSnapshot(AppendDay(r, day, n, take), r)
<1>1. ASSUME NEW q, SameSnapshot(q, r), NEW d
      PROVE  SameSnapshot(WriteLine(q, d, n), r) /\ SameSnapshot(AppendLine(q, d, n), r)
  <2>1. SameSnapshot(WriteLine(q, d, n), r)
    BY <1>1 DEF WriteLine, SameSnapshot, Fields
  <2> QED
    BY <2>1 DEF AppendLine, SameSnapshot, Fields
<1>2. ASSUME NEW q, SameSnapshot(q, r), NEW d, NEW left
      PROVE  SameSnapshot(FailAppend(q, d, n, left), r)
  <2>1. CASE left = "fragment"
    <3>1. FailAppend(q, d, n, left) = [q EXCEPT !.months = OpenMonth(q.months, FileFor(q, d))]
      BY <2>1 DEF FailAppend
    <3> QED
      BY <1>2, <3>1 DEF SameSnapshot, Fields
  <2>2. CASE left = "torn"
    <3>1. PICK month : month = FileFor(q, d)
      OBVIOUS
    <3>2. FailAppend(q, d, n, left) = Tear(q, month)
      BY <2>2, <3>1 DEF FailAppend
    <3>3. PICK s, u : Tear(q, month) = [q EXCEPT !.months = s, !.torn = u]
      BY DEF Tear
    <3> QED
      BY <1>2, <3>2, <3>3 DEF SameSnapshot, Fields
  <2>3. CASE left = "line"
    <3>1. PICK w : w = WriteLine(q, d, n)
      OBVIOUS
    <3>2. FailAppend(q, d, n, left)
              = [w EXCEPT !.faults = w.faults + 1, !.left = w.left \cup d]
      BY <2>3, <3>1 DEF FailAppend
    <3>3. SameSnapshot(w, r)
      BY <1>1, <1>2, <3>1
    <3> QED
      BY <3>2, <3>3 DEF SameSnapshot, Fields
  <2>4. CASE left \notin {"fragment", "torn", "line"}
    BY <1>2, <2>4 DEF FailAppend
  <2> QED
    BY <2>1, <2>2, <2>3, <2>4
<1>3. \A m : SameSnapshot(Flushed(r, n, m), r)
  BY DEF Flushed, SameSnapshot, Fields
<1>4. PICK flushed : flushed = FlushPending(r, n, take)
  OBVIOUS
<1>5. SameSnapshot(flushed, r)
  BY <1>2, <1>3, <1>4 DEF FlushPending
<1>6. AppendDay(r, day, n, take)
          \in {AppendLine(flushed, day, n), FailAppend(flushed, day, n, take.left), flushed}
  BY <1>4 DEF AppendDay
<1> QED
  BY <1>1, <1>2, <1>4, <1>5, <1>6

\* Closing a day does so too.
LEMMA CloseSame ==
  ASSUME NEW r, DOMAIN r = Fields, NEW day, NEW n, NEW take, NEW today
  PROVE  SameSnapshot(Close(r, day, n, take, today), r)
<1>1. PICK appended : appended = AppendDay(r, day, n, take)
  OBVIOUS
<1>2. SameSnapshot(appended, r)
  BY <1>1, AppendsSame
<1>3. PICK kept : kept = IF take.room > Len(r.pending) THEN appended
                         ELSE KeepPending(appended, day)
  OBVIOUS
<1>4. SameSnapshot(KeepPending(appended, day), r)
  BY <1>2 DEF KeepPending, SameSnapshot, Fields
<1>5. SameSnapshot(kept, r)
  BY <1>2, <1>3, <1>4
<1>6. \A reference : SameSnapshot(Prune(kept, reference), r)
  BY <1>5 DEF Prune, SameSnapshot, Fields
<1>7. Close(r, day, n, take, today) = Prune(kept, Min({DayOfSet(day), today}))
  BY <1>1, <1>3 DEF Close
<1> QED
  BY <1>6, <1>7

\* Folding a window adds it to the open day or opens one with it alone.
LEMMA FoldOpens ==
  ASSUME NEW r, DOMAIN r = Fields, NEW ts, NEW n, NEW take
  PROVE  /\ DOMAIN FoldWindow(r, ts, n, take) = Fields
         /\ FoldWindow(r, ts, n, take).open \in {{ts}, r.open \cup {ts}}
         /\ FoldWindow(r, ts, n, take).since = r.since
         /\ FoldWindow(r, ts, n, take).partial = r.partial
<1>1. CASE Closes(r, ts)
  <2>1. PICK q : q = [r EXCEPT !.open = {ts}]
    OBVIOUS
  <2>2. DOMAIN q = Fields /\ q.open = {ts} /\ q.since = r.since /\ q.partial = r.partial
    BY <2>1 DEF Fields
  <2>3. FoldWindow(r, ts, n, take) = Close(q, r.open, n, take, DayOf(ts))
    BY <1>1, <2>1 DEF FoldWindow
  <2>4. SameSnapshot(Close(q, r.open, n, take, DayOf(ts)), q)
    BY <2>2, CloseSame
  <2> QED
    BY <2>2, <2>3, <2>4 DEF SameSnapshot
<1>2. CASE ~ Closes(r, ts)
  <2>1. FoldWindow(r, ts, n, take) = [r EXCEPT !.open = r.open \cup {ts}]
    BY <1>2 DEF FoldWindow
  <2> QED
    BY <2>1 DEF Fields
<1> QED
  BY <1>1, <1>2

\* One window more is unsaved, or none when the snapshot is taken.
LEMMA ObserveUnsaved ==
  ASSUME NEW r, LittleUnsaved(r), NEW ts, NEW n, NEW take
  PROVE  LittleUnsaved(Observe(r, ts, n, take, TRUE))
<1>1. PICK q : q = FoldWindow(r, ts, n, take)
  OBVIOUS
<1>2. /\ DOMAIN q = Fields /\ q.open \in {{ts}, r.open \cup {ts}}
      /\ q.since = r.since /\ q.partial = r.partial
  BY <1>1, FoldOpens DEF LittleUnsaved
<1>3. PICK U : U = Unsaved(r)
  OBVIOUS
<1>4. IsFiniteSet(U) /\ Cardinality(U) <= r.since /\ r.since \in 0..(SnapshotEvery - 1)
      /\ SnapshotEvery \in Nat \ {0} /\ Cardinality(U) \in Nat
  BY <1>3, RollupAssumption, FS_CardinalityType DEF LittleUnsaved
<1>5. IsFiniteSet(U \cup {ts}) /\ Cardinality(U \cup {ts}) <= Cardinality(U) + 1
  BY <1>4, FS_AddElement
<1>6. Unsaved(q) \subseteq U \cup {ts}
  BY <1>2, <1>3 DEF Unsaved
<1>7. /\ IsFiniteSet(Unsaved(q)) /\ Cardinality(Unsaved(q)) \in Nat
      /\ Cardinality(Unsaved(q)) <= r.since + 1
  <2>1. IsFiniteSet(Unsaved(q)) /\ Cardinality(Unsaved(q)) <= Cardinality(U \cup {ts})
    BY <1>5, <1>6, FS_Subset
  <2>2. Cardinality(U \cup {ts}) \in Nat /\ Cardinality(Unsaved(q)) \in Nat
    BY <1>5, <2>1, FS_CardinalityType
  <2> QED
    BY <1>4, <1>5, <2>1, <2>2
<1>8. PICK s : s = Observe(r, ts, n, take, TRUE)
  OBVIOUS
<1>9. CASE q.since + 1 < SnapshotEvery
  <2>1. s = [q EXCEPT !.since = q.since + 1]
    BY <1>1, <1>8, <1>9 DEF Observe, Snapshot
  <2>2. DOMAIN s = Fields /\ s.since = r.since + 1 /\ Unsaved(s) = Unsaved(q)
    BY <1>2, <2>1 DEF Unsaved, Fields
  <2>3. s.since \in 0..(SnapshotEvery - 1)
    BY <1>2, <1>4, <1>9, <2>2
  <2>4. IsFiniteSet(Unsaved(s)) /\ Cardinality(Unsaved(s)) <= s.since
    BY <1>7, <2>2
  <2>5. LittleUnsaved(s)
    BY <2>2, <2>3, <2>4 DEF LittleUnsaved
  <2> QED
    BY <1>8, <2>5
<1>10. CASE ~ (q.since + 1 < SnapshotEvery)
  <2>1. s = [q EXCEPT !.since = 0, !.partial = q.open]
    BY <1>1, <1>8, <1>10 DEF Observe, Snapshot
  <2>2. DOMAIN s = Fields /\ s.since = 0 /\ Unsaved(s) = {}
    BY <1>2, <2>1 DEF Unsaved, Fields
  <2>3. s.since \in 0..(SnapshotEvery - 1)
    BY <1>4, <2>2
  <2>4. IsFiniteSet(Unsaved(s)) /\ Cardinality(Unsaved(s)) <= s.since
    BY <2>2, FS_EmptySet
  <2>5. LittleUnsaved(s)
    BY <2>2, <2>3, <2>4 DEF LittleUnsaved
  <2> QED
    BY <1>8, <2>5
<1> QED
  BY <1>9, <1>10

\* A process that has folded nothing yet has nothing to lose.
LEMMA NothingUnsaved ==
  ASSUME NEW r, DOMAIN r = Fields, r.open = {}, r.since = 0
  PROVE  LittleUnsaved(r)
<1>1. Unsaved(r) = {}
  BY DEF Unsaved
<1> QED
  BY <1>1, RollupAssumption, FS_EmptySet DEF LittleUnsaved

\* A process that ends leaves its files and no open day.
LEMMA ForgetOpens ==
  ASSUME NEW r, DOMAIN r = Fields
  PROVE  LittleUnsaved(Forget(r))
<1>1. PICK q : q = Forget(r)
  OBVIOUS
<1>2. DOMAIN q = Fields /\ q.open = {} /\ q.since = 0
  BY <1>1 DEF Forget, Fields
<1> QED
  BY <1>1, <1>2, NothingUnsaved

\* A stop closes the open day, which is nobody's any more.
LEMMA ShutdownUnsaved ==
  ASSUME NEW r, DOMAIN r = Fields, NEW n, NEW take, NEW saved
  PROVE  LittleUnsaved(Shutdown(r, n, take, saved))
<1>1. PICK appended : appended = AppendOpen(r, n, take)
  OBVIOUS
<1>2. DOMAIN appended = Fields
  BY <1>1, AppendsSame DEF AppendOpen, SameSnapshot
<1>3. PICK refused : refused = (r.open # {} /\ take.room <= Len(r.pending))
  OBVIOUS
<1>4. PICK closed : closed = IF r.open = {} \/ refused THEN appended
                             ELSE Prune(appended, DayOfSet(r.open))
  OBVIOUS
<1>5. DOMAIN closed = Fields
  BY <1>2, <1>4 DEF Prune
<1>6. PICK partial : partial = IF refused THEN r.open ELSE {}
  OBVIOUS
<1>7. PICK left : left = IF saved THEN [closed EXCEPT !.partial = partial] ELSE closed
  OBVIOUS
<1>8. DOMAIN left = Fields
  BY <1>5, <1>7
<1>9. Shutdown(r, n, take, saved) = Forget(left)
  BY <1>1, <1>3, <1>4, <1>6, <1>7 DEF Shutdown
<1> QED
  BY <1>8, <1>9, ForgetOpens

\* A start has folded nothing, whether it appends the snapshot or keeps it.
LEMMA OpenUnsaved ==
  ASSUME NEW r, DOMAIN r = Fields, NEW n, NEW take, NEW saved
  PROVE  LittleUnsaved(Open(r, n, take, saved))
<1> DEFINE Empty(q) == DOMAIN q = Fields /\ q.open = {} /\ q.since = 0
<1>1. PICK resumed : resumed = Resumed(r)
  OBVIOUS
<1>2. Empty(resumed)
  BY <1>1 DEF Resumed, Forget, Fields
<1>3. PICK added : added = AppendLine(resumed, r.partial, n)
  OBVIOUS
<1>4. PICK failed : failed = FailAppend(resumed, r.partial, n, take.left)
  OBVIOUS
<1>5. Empty(added) /\ Empty(failed)
  <2>1. PICK w : w = WriteLine(resumed, r.partial, n)
    OBVIOUS
  <2>2. Empty(w)
    BY <1>2, <2>1 DEF WriteLine, Fields
  <2>3. Empty(added)
    BY <1>3, <2>1, <2>2 DEF AppendLine, Fields
  <2>4. \/ failed = [resumed EXCEPT !.months = OpenMonth(resumed.months, FileFor(resumed, r.partial))]
        \/ failed = Tear(resumed, FileFor(resumed, r.partial))
        \/ failed = [w EXCEPT !.faults = w.faults + 1, !.left = w.left \cup r.partial]
        \/ failed = resumed
    BY <1>4, <2>1 DEF FailAppend
  <2>5. Empty(Tear(resumed, FileFor(resumed, r.partial)))
    BY <1>2 DEF Tear, Fields
  <2>6. Empty(failed)
    BY <1>2, <2>2, <2>4, <2>5 DEF Fields
  <2> QED
    BY <2>3, <2>6
<1>6. PICK kept : kept = KeepPending(failed, r.partial)
  OBVIOUS
<1>7. Empty(kept)
  BY <1>5, <1>6 DEF KeepPending, Fields
<1>8. \A q : Empty(q) => Empty([q EXCEPT !.partial = {}])
  BY DEF Fields
<1>9. PICK opened : opened = Open(r, n, take, saved)
  OBVIOUS
<1>10. \/ opened = resumed \/ opened = [resumed EXCEPT !.partial = {}]
       \/ opened = added \/ opened = [added EXCEPT !.partial = {}]
       \/ opened = kept
  BY <1>1, <1>3, <1>4, <1>6, <1>9 DEF Open
<1>11. Empty(opened)
  BY <1>2, <1>5, <1>7, <1>8, <1>10
<1> QED
  BY <1>9, <1>11, NothingUnsaved

\* Where every append is taken, no day waits.
LEMMA NothingWaits ==
  ASSUME NEW r, DOMAIN r = Fields, r.pending = <<>>, NEW n, NEW take, take.room = 1
  PROVE  /\ \A ts, saved : Observe(r, ts, n, take, saved).pending = <<>>
         /\ \A saved : Open(r, n, take, saved).pending = <<>>
<1>1. ASSUME NEW q, DOMAIN q = Fields, q.pending = <<>>, NEW day, NEW today
      PROVE  Close(q, day, n, take, today).pending = <<>>
  <2>1. PICK flushed : flushed = FlushPending(q, n, take)
    OBVIOUS
  <2>2. flushed = Flushed(q, n, 0)
    BY <1>1, <2>1 DEF FlushPending
  <2>3. DOMAIN flushed = Fields /\ flushed.pending = SubSeq(<<>>, 1, 0)
    BY <1>1, <2>2 DEF Flushed, Fields
  <2>4. flushed.pending = <<>>
    BY <2>3
  <2>5. PICK w : w = WriteLine(flushed, day, n)
    OBVIOUS
  <2>6. DOMAIN w = Fields /\ w.pending = <<>>
    BY <2>3, <2>4, <2>5 DEF WriteLine, Fields
  <2>7. PICK line : line = AppendLine(flushed, day, n)
    OBVIOUS
  <2>8. DOMAIN line = Fields /\ line.pending = <<>>
    BY <2>5, <2>6, <2>7 DEF AppendLine, Fields
  <2>9. AppendDay(q, day, n, take) = line
    BY <1>1, <2>1, <2>7 DEF AppendDay
  <2>10. Close(q, day, n, take, today) = Prune(line, Min({DayOfSet(day), today}))
    BY <1>1, <2>9 DEF Close
  <2>11. \A reference : Prune(line, reference).pending = <<>>
    BY <2>8 DEF Prune, Fields
  <2> QED
    BY <2>10, <2>11
<1>2. ASSUME NEW ts, NEW saved PROVE Observe(r, ts, n, take, saved).pending = <<>>
  <2>1. PICK q : q = FoldWindow(r, ts, n, take)
    OBVIOUS
  <2>2. DOMAIN q = Fields
    BY <2>1, FoldOpens
  <2>3. q.pending = <<>>
    <3>1. CASE Closes(r, ts)
      <4>1. PICK o : o = [r EXCEPT !.open = {ts}]
        OBVIOUS
      <4>2. DOMAIN o = Fields /\ o.pending = <<>>
        BY <4>1 DEF Fields
      <4>3. q = Close(o, r.open, n, take, DayOf(ts))
        BY <2>1, <3>1, <4>1 DEF FoldWindow
      <4> QED
        BY <1>1, <4>2, <4>3
    <3>2. CASE ~ Closes(r, ts)
      BY <2>1, <3>2 DEF FoldWindow, Fields
    <3> QED
      BY <3>1, <3>2
  <2> QED
    BY <2>1, <2>2, <2>3 DEF Observe, Snapshot, Fields
<1>3. ASSUME NEW saved PROVE Open(r, n, take, saved).pending = <<>>
  <2>1. PICK resumed : resumed = Resumed(r)
    OBVIOUS
  <2>2. DOMAIN resumed = Fields /\ resumed.pending = <<>>
    BY <2>1 DEF Resumed, Forget, Fields
  <2>3. PICK w : w = WriteLine(resumed, r.partial, n)
    OBVIOUS
  <2>4. DOMAIN w = Fields /\ w.pending = <<>>
    BY <2>2, <2>3 DEF WriteLine, Fields
  <2>5. PICK added : added = AppendLine(resumed, r.partial, n)
    OBVIOUS
  <2>6. DOMAIN added = Fields /\ added.pending = <<>>
    BY <2>3, <2>4, <2>5 DEF AppendLine, Fields
  <2>7. Open(r, n, take, saved)
            \in {resumed, [resumed EXCEPT !.partial = {}], added, [added EXCEPT !.partial = {}]}
    BY <2>1, <2>5 DEF Open
  <2> QED
    BY <2>2, <2>6, <2>7 DEF Fields
<1> QED
  BY <1>2, <1>3

\* What a crash costs is a matter of the rollup writer and its snapshot alone.
CrashInv ==
    /\ DOMAIN rollup = Fields
    /\ ~ CanFail("snapshot") => LittleUnsaved(rollup)
    /\ setup.rollups = {} => rollup.pending = <<>>

\* The first start has folded nothing.
LEMMA CrashInvInit == Init => CrashInv
<1> SUFFICES ASSUME Init PROVE CrashInv
  OBVIOUS
<1>1. PICK r : r = NewRollup
  OBVIOUS
<1>2. DOMAIN r = Fields /\ r.open = {} /\ r.since = 0 /\ r.pending = <<>>
  BY <1>1 DEF NewRollup, Fields
<1>3. rollup = r
  BY <1>1 DEF Init
<1> QED
  BY <1>2, <1>3, NothingUnsaved DEF CrashInv

\* The windows unsaved are as few after the step.
LEMMA CrashInvStep == CrashInv /\ [Next]_vars => CrashInv'
<1> SUFFICES ASSUME CrashInv, [Next]_vars PROVE CrashInv'
  OBVIOUS
<1>1. PICK r : r = rollup
  OBVIOUS
<1>2. /\ DOMAIN r = Fields /\ (~ CanFail("snapshot") => LittleUnsaved(r))
      /\ setup.rollups = {} => r.pending = <<>>
  BY <1>1 DEF CrashInv
<1>3. setup' = setup
  BY DEF Next, vars, Produce, RollUpOnly, WriteWindow, WriteFails, Stop, Crash, Restart
<1>4. CanFail("snapshot")' = CanFail("snapshot")
  BY <1>3 DEF CanFail
<1>5. ASSUME rollup' = rollup PROVE CrashInv'
  BY <1>1, <1>2, <1>3, <1>4, <1>5 DEF CrashInv, LittleUnsaved, Unsaved
<1>6. ASSUME NEW take \in Appends, setup.rollups = {} PROVE take.room = 1
  <2>1. PICK all : all = Len(rollup.pending) + 1
    OBVIOUS
  <2>2. rollup.pending = <<>>
    BY <1>1, <1>2, <1>6
  <2>3. all = 1
    BY <2>1, <2>2
  <2>4. Appends = Takes({1}, {"nothing"}) \cup Takes(0..(1 - 1), {})
    BY <1>6, <2>1, <2>3 DEF Appends
  <2>5. Takes(0..(1 - 1), {}) = {}
    BY DEF Takes
  <2>6. take \in [room : {1}, left : {"nothing"}]
    BY <2>4, <2>5 DEF Takes
  <2> QED
    BY <2>6
<1>7. ASSUME NEW ts, RollupsObserve(ts) PROVE CrashInv'
  <2>1. PICK take \in Appends, saved \in Saved : rollup' = Observe(r, ts, drops, take, saved)
    BY <1>1, <1>7 DEF RollupsObserve
  <2>2. PICK q : q = FoldWindow(r, ts, drops, take)
    OBVIOUS
  <2>3. DOMAIN q = Fields
    BY <1>2, <2>2, FoldOpens
  <2>4. DOMAIN rollup' = Fields
    BY <2>1, <2>2, <2>3 DEF Observe, Snapshot
  <2>5. ASSUME ~ CanFail("snapshot") PROVE LittleUnsaved(rollup')
    <3>1. saved = TRUE
      BY <2>1, <2>5 DEF Saved
    <3>2. rollup' = Observe(r, ts, drops, take, TRUE)
      BY <2>1, <3>1
    <3> QED
      BY <1>2, <2>5, <3>2, ObserveUnsaved
  <2>6. ASSUME setup.rollups = {} PROVE rollup'.pending = <<>>
    BY <1>2, <1>6, <2>1, <2>6, NothingWaits
  <2> QED
    BY <1>3, <1>4, <2>4, <2>5, <2>6 DEF CrashInv
<1>8. ASSUME NEW q, DOMAIN q = Fields, rollup' = Forget(q) PROVE CrashInv'
  <2>1. LittleUnsaved(rollup')
    BY <1>8, ForgetOpens
  <2>2. rollup'.pending = <<>>
    BY <1>8 DEF Forget, Fields
  <2> QED
    BY <2>1, <2>2 DEF CrashInv, LittleUnsaved
<1>9. CASE Stop
  <2>1. PICK take, saved : rollup' = Shutdown(r, drops, take, saved)
    BY <1>1, <1>9 DEF Stop
  <2>2. LittleUnsaved(rollup')
    BY <1>2, <2>1, ShutdownUnsaved
  <2>3. PICK appended : appended = AppendOpen(r, drops, take)
    OBVIOUS
  <2>4. DOMAIN appended = Fields
    BY <1>2, <2>3, AppendsSame DEF AppendOpen, SameSnapshot
  <2>5. \E q : DOMAIN q = Fields /\ rollup' = Forget(q)
    <3>1. PICK closed : closed = IF r.open = {} \/ (r.open # {} /\ take.room <= Len(r.pending))
                                 THEN appended ELSE Prune(appended, DayOfSet(r.open))
      OBVIOUS
    <3>2. DOMAIN closed = Fields
      BY <2>4, <3>1 DEF Prune
    <3>3. \E q : DOMAIN q = DOMAIN closed /\ rollup' = Forget(q)
      BY <2>1, <2>3, <3>1 DEF Shutdown
    <3> QED
      BY <3>2, <3>3
  <2> QED
    BY <1>8, <2>5
<1>10. CASE Crash
  <2>1. ASSUME NEW ts, NEW n, NEW take PROVE DOMAIN FoldWindow(r, ts, n, take) = Fields
    BY <1>2, FoldOpens
  <2>2. ASSUME NEW ts, NEW n, NEW take, NEW saved
        PROVE  DOMAIN Observe(r, ts, n, take, saved) = Fields
    <3>1. PICK q : q = FoldWindow(r, ts, n, take)
      OBVIOUS
    <3>2. DOMAIN q = Fields
      BY <2>1, <3>1
    <3> QED
      BY <3>1, <3>2 DEF Observe, Snapshot
  <2>3. ASSUME NEW n, NEW take PROVE DOMAIN AppendOpen(r, n, take) = Fields
    BY <1>2, AppendsSame DEF AppendOpen, SameSnapshot
  <2>4. \E q : DOMAIN q = Fields /\ rollup' = Forget(q)
    BY <1>1, <1>2, <1>10, <2>1, <2>2, <2>3 DEF Crash, DiesInRollups, DiesInWrite
  <2> QED
    BY <1>8, <2>4
<1>11. CASE Restart
  <2>1. PICK take \in Appends, saved \in Saved : rollup' = Open(r, drops, take, saved)
    BY <1>1, <1>11 DEF Restart
  <2>2. LittleUnsaved(rollup')
    BY <1>2, <2>1, OpenUnsaved
  <2>3. ASSUME setup.rollups = {} PROVE rollup'.pending = <<>>
    BY <1>2, <1>6, <2>1, <2>3, NothingWaits
  <2> QED
    BY <1>3, <2>2, <2>3 DEF CrashInv, LittleUnsaved
<1>12. CASE UNCHANGED vars \/ Produce
  BY <1>5, <1>12 DEF vars, Produce
<1>13. CASE RollUpOnly \/ WriteWindow \/ WriteFails
  BY <1>7, <1>13 DEF RollUpOnly, WriteWindow, WriteFails
<1> QED
  BY <1>9, <1>10, <1>11, <1>12, <1>13 DEF Next

\* A crash costs fewer windows than the snapshot interval, and the days refused
\* (rollup_writer): while the directory takes the snapshots, the windows in no
\* line and no snapshot are fewer than that but for those of the refused days,
\* and fewer than that altogether while it takes the lines too.
THEOREM CrashCosts == Spec => []CrashCostsLittle
<1>1. CrashInv => CrashCostsLittle
  <2> SUFFICES ASSUME CrashInv, ~ CanFail("snapshot")
               PROVE  /\ Cardinality(AtRisk \ Refused) < SnapshotEvery
                      /\ setup.rollups = {} => Cardinality(AtRisk) < SnapshotEvery
    BY DEF CrashCostsLittle
  <2>1. PICK U : U = Unsaved(rollup)
    OBVIOUS
  <2>2. IsFiniteSet(U) /\ Cardinality(U) <= rollup.since
        /\ rollup.since \in 0..(SnapshotEvery - 1) /\ SnapshotEvery \in Nat
    BY <2>1, RollupAssumption DEF CrashInv, LittleUnsaved
  <2>3. Cardinality(U) \in Nat
    BY <2>2, FS_CardinalityType
  <2>4. Cardinality(U) < SnapshotEvery
    BY <2>2, <2>3
  <2>5. ASSUME NEW S \in SUBSET U PROVE Cardinality(S) < SnapshotEvery
    <3>1. IsFiniteSet(S) /\ Cardinality(S) <= Cardinality(U)
      BY <2>2, FS_Subset
    <3>2. Cardinality(S) \in Nat
      BY <3>1, FS_CardinalityType
    <3> QED
      BY <2>2, <2>3, <2>4, <3>1, <3>2
  <2>6. AtRisk \ Refused \in SUBSET U
    BY <2>1 DEF AtRisk, Unsaved
  <2>7. ASSUME setup.rollups = {} PROVE AtRisk \in SUBSET U
    <3>1. rollup.pending = <<>>
      BY <2>7 DEF CrashInv
    <3>2. Range(rollup.pending) = {}
      BY <3>1 DEF Range
    <3>3. Refused = {}
      BY <3>2 DEF Refused
    <3> QED
      BY <2>6, <3>3
  <2> QED
    BY <2>5, <2>6, <2>7
<1> QED
  BY <1>1, CrashInvInit, CrashInvStep, PTL DEF Spec

-----------------------------------------------------------------------------
(* The months of the rollups.                                              *)

\* A day of the first N timestamps, the lines that fold such days, and files of
\* them.
Days(N) == {day \in SUBSET (1..N) : IsDay(day, 1..N)}

RollupLines(N) == [windows : Days(N), prev : SUBSET (1..N), seq : Nat, drops : Nat]

Files(N) == UNION {[months -> Seq(RollupLines(N))] : months \in SUBSET (0..N)}

\* A timestamp falls on a day no later than itself.
LEMMA DayFacts ==
  ASSUME NEW N \in Nat, NEW ts \in 1..N
  PROVE  DayOf(ts) \in 0..N
<1>1. PICK a \in Nat : a = ts - 1
  OBVIOUS
<1>2. DayLength \in Nat /\ DayLength > 0
  BY RollupAssumption
<1>3. PICK q : q = a \div DayLength
  OBVIOUS
<1>4. q \in Int /\ DayLength * q <= a /\ a < DayLength * q + DayLength
  BY <1>2, <1>3
<1>5. q >= 0
  BY <1>2, <1>4
<1>6. q <= DayLength * q
  BY <1>2, <1>4, <1>5
<1>7. DayOf(ts) = q
  BY <1>1, <1>3 DEF DayOf
<1>8. PICK p : p = DayLength * q
  OBVIOUS
<1>9. p \in Int
  BY <1>2, <1>4, <1>8
<1>10. p <= a /\ q <= p
  BY <1>4, <1>6, <1>8
<1>11. q \in 0..N
  BY <1>1, <1>4, <1>5, <1>9, <1>10
<1> QED
  BY <1>7, <1>11

\* A bounded set of numbers that is not empty has a least one.
LEMMA MinFacts ==
  ASSUME NEW S \in SUBSET Nat, S # {}
  PROVE  Min(S) \in S /\ \A y \in S : Min(S) <= y
<1>1. \E x \in S : \A y \in S : x <= y
  BY LeastNatural
<1> QED
  BY <1>1 DEF Min

\* All windows of a day fall on it.
LEMMA DaySetFacts ==
  ASSUME NEW N \in Nat, NEW day \in Days(N)
  PROVE  /\ day # {} /\ day \subseteq 1..N
         /\ DayOfSet(day) \in 0..N
         /\ \A ts \in day : DayOf(ts) = DayOfSet(day)
<1>1. IsDay(day, 1..N)
  BY DEF Days
<1>2. day # {} /\ day \subseteq 1..N /\ \A ts \in day : DayOf(ts) = DayOfSet(day)
  BY <1>1 DEF IsDay
<1>3. PICK ts \in day : TRUE
  BY <1>2
<1>4. DayOf(ts) \in 0..N
  BY <1>2, DayFacts
<1> QED
  BY <1>2, <1>4

\* A window opens a day, or joins it.
LEMMA DayGrows ==
  ASSUME NEW N \in Nat, NEW ts \in 1..N, NEW day \in SUBSET (1..N),
         \A w \in day : DayOf(w) = DayOf(ts)
  PROVE  day \cup {ts} \in Days(N)
<1>1. PICK more : more = day \cup {ts}
  OBVIOUS
<1>2. more # {} /\ more \in SUBSET (1..N) /\ \A w \in more : DayOf(w) = DayOf(ts)
  BY <1>1
<1>3. more \in SUBSET Nat
  BY <1>2
<1>4. Min(more) \in more
  BY <1>2, <1>3, MinFacts
<1>5. DayOfSet(more) = DayOf(ts)
  BY <1>2, <1>4 DEF DayOfSet
<1>6. IsDay(more, 1..N)
  BY <1>2, <1>5 DEF IsDay
<1> QED
  BY <1>1, <1>2, <1>6 DEF Days

Reads(read, N, months, k) ==
    /\ read \in [0..k -> Seq(RollupLines(N))]
    /\ read[0] = <<>>
    /\ \A n \in 1..k :
          read[n] = IF n - 1 \in DOMAIN months THEN read[n - 1] \o months[n - 1]
                    ELSE read[n - 1]

\* The files of the months are read one after the other.
LEMMA ReadingSteps ==
  ASSUME NEW N \in Nat, NEW months \in Files(N), NEW k \in Nat
  PROVE  Reads(Reading(months, k), N, months, k)
<1>1. PICK U : U = Seq(RollupLines(N))
  OBVIOUS
<1> DEFINE Read(lines, n) == IF n - 1 \in DOMAIN months THEN lines \o months[n - 1] ELSE lines
           next == [s \in U \X (1..k) |-> Read(s[1], s[2])]
           Recursive(g) == g = [m \in 0..k |->
                                   IF m = 0 THEN <<>>
                                   ELSE IF m - 1 \in DOMAIN months THEN g[m - 1] \o months[m - 1]
                                   ELSE g[m - 1]]
<1>2. ASSUME NEW lines \in U, NEW n \in 1..k PROVE Read(lines, n) \in U
  <2>1. \A m \in DOMAIN months : months[m] \in U
    BY <1>1 DEF Files
  <2>2. \A more \in U : lines \o more \in U
    BY <1>1
  <2> QED
    BY <2>1, <2>2
<1>3. next \in [U \X (1..k) -> U]
  BY <1>2
<1>4. \A lines \in U, n \in 1..k : next[<<lines, n>>] = Read(lines, n)
  OBVIOUS
<1>5. <<>> \in U
  BY <1>1
<1> HIDE DEF next
<1>6. PICK base : base = <<>>
  OBVIOUS
<1>7. /\ \E f : Loop(f, k, base, next)
      /\ \A g : Loop(g, k, base, next) => RunsThrough(g, k, U, base, next)
  <2>1. base \in U
    BY <1>5, <1>6
  <2> QED
    BY <1>3, <2>1, LoopRuns
<1>8. \A n \in 1..k : n \in 0..k /\ n - 1 \in 0..k /\ n # 0
  OBVIOUS
<1>9. PICK f : Loop(f, k, base, next)
  BY <1>7
<1>10. /\ f \in [0..k -> U] /\ f[0] = base
       /\ \A n \in 1..k : f[n] = Read(f[n - 1], n)
  <2>1. f \in [0..k -> U] /\ f[0] = base /\ \A n \in 1..k : f[n] = next[<<f[n - 1], n>>]
    BY <1>7, <1>9 DEF RunsThrough
  <2>2. \A n \in 1..k : f[n - 1] \in U
    BY <1>8, <2>1
  <2> QED
    BY <1>4, <2>1, <2>2
<1>11. Recursive(f)
  <2>1. \A n \in 0..k : n = 0 \/ n \in 1..k
    OBVIOUS
  <2>2. \A n \in 0..k : f[n] = IF n = 0 THEN <<>>
                               ELSE IF n - 1 \in DOMAIN months THEN f[n - 1] \o months[n - 1]
                               ELSE f[n - 1]
    BY <1>6, <1>10, <2>1
  <2> QED
    BY <1>10, <2>2
<1>12. Recursive(Reading(months, k))
  BY <1>11 DEF Reading
<1>13. PICK g : g = Reading(months, k)
  OBVIOUS
<1>14. g = [n \in 0..k |-> g[n]] /\ g[0] = <<>>
  BY <1>12, <1>13
<1>15. \A n \in 1..k : g[n] = Read(g[n - 1], n)
  BY <1>8, <1>12, <1>13
<1>16. \A n \in 1..k : f[n - 1] = g[n - 1] => f[n] = g[n]
  BY <1>10, <1>15
<1>17. \A n \in 0..k : f[n] = g[n]
  <2>1. AgreeStepwise(f, g, k)
    BY <1>6, <1>10, <1>14, <1>16 DEF AgreeStepwise
  <2> QED
    BY <2>1, RecursionsAgree
<1>18. g \in [0..k -> U]
  BY <1>10, <1>14, <1>17
<1> QED
  BY <1>1, <1>13, <1>14, <1>15, <1>18 DEF Reads

\* A month has a number and holds lines.
LEMMA FilesFacts ==
  ASSUME NEW N \in Nat, NEW months \in Files(N)
  PROVE  /\ DOMAIN months \subseteq 0..N
         /\ \A m \in DOMAIN months : months[m] \in Seq(RollupLines(N))
         /\ months = [m \in DOMAIN months |-> months[m]]
BY DEF Files

\* No month is beyond the span.
LEMMA SpanFacts ==
  ASSUME NEW N \in Nat, NEW months \in Files(N)
  PROVE  /\ Span(months) \in 1..(N + 1)
         /\ \A m \in DOMAIN months : m < Span(months)
<1>1. PICK S : S = {0} \cup DOMAIN months
  OBVIOUS
<1>2. S \in SUBSET (0..N) /\ S # {}
  BY <1>1, FilesFacts
<1>3. Max(S) \in S /\ \A y \in S : y <= Max(S)
  BY <1>2, MaxFacts
<1>4. PICK x \in 0..N : x = Max(S)
  BY <1>2, <1>3
<1>5. Span(months) = x + 1
  BY <1>1, <1>4 DEF Span
<1>6. \A m \in DOMAIN months : m \in 0..N /\ m <= x
  BY <1>1, <1>2, <1>3, <1>4
<1> QED
  BY <1>5, <1>6

\* Reading on behind the last month finds nothing more.
LEMMA LinesAre ==
  ASSUME NEW N \in Nat, NEW months \in Files(N)
  PROVE  /\ Lines(months) = Reading(months, N + 1)[N + 1]
         /\ Lines(months) \in Seq(RollupLines(N))
<1>1. PICK S \in 1..(N + 1) : S = Span(months)
  BY SpanFacts
<1>2. \A m \in DOMAIN months : m < S /\ m \in 0..N
  BY <1>1, SpanFacts, FilesFacts
<1>3. PICK f : f = Reading(months, N + 1)
  OBVIOUS
<1>4. PICK short : short = Reading(months, S)
  OBVIOUS
<1>5. /\ f \in [0..(N + 1) -> Seq(RollupLines(N))] /\ f[0] = <<>>
      /\ \A n \in 1..(N + 1) : f[n] = IF n - 1 \in DOMAIN months
                                      THEN f[n - 1] \o months[n - 1] ELSE f[n - 1]
  <2>1. PICK k \in Nat : k = N + 1
    OBVIOUS
  <2>2. Reads(Reading(months, k), N, months, k)
    BY ReadingSteps
  <2> QED
    BY <1>3, <2>1, <2>2 DEF Reads
<1>6. /\ short \in [0..S -> Seq(RollupLines(N))] /\ short[0] = <<>>
      /\ \A n \in 1..S : short[n] = IF n - 1 \in DOMAIN months
                                    THEN short[n - 1] \o months[n - 1] ELSE short[n - 1]
  <2>1. PICK k \in Nat : k = S
    OBVIOUS
  <2>2. Reads(Reading(months, k), N, months, k)
    BY ReadingSteps
  <2> QED
    BY <1>4, <2>1, <2>2 DEF Reads
<1>7. PICK g : g = [n \in 0..(N + 1) |-> IF n <= S THEN short[n] ELSE short[S]]
  OBVIOUS
<1>8. \A n \in 1..(N + 1) : f[n - 1] = g[n - 1] => f[n] = g[n]
  <2> SUFFICES ASSUME NEW n \in 1..(N + 1), f[n - 1] = g[n - 1] PROVE f[n] = g[n]
    OBVIOUS
  <2>1. CASE n <= S
    <3>1. n \in 1..S /\ g[n] = short[n] /\ g[n - 1] = short[n - 1]
      BY <1>7, <2>1
    <3> QED
      BY <1>5, <1>6, <3>1
  <2>2. CASE n > S
    <3>1. g[n] = short[S] /\ g[n - 1] = short[S]
      BY <1>7, <2>2
    <3>2. n - 1 \notin DOMAIN months
      BY <1>2, <2>2
    <3> QED
      BY <1>5, <3>1, <3>2
  <2> QED
    BY <2>1, <2>2
<1>9. \A n \in 0..(N + 1) : f[n] = g[n]
  <2>1. N + 1 \in Nat /\ f[0] = g[0]
    BY <1>5, <1>6, <1>7
  <2>2. AgreeStepwise(f, g, N + 1)
    BY <1>8, <2>1 DEF AgreeStepwise
  <2> QED
    BY <2>2, RecursionsAgree
<1>10. f[N + 1] = short[S]
  BY <1>7, <1>9
<1>11. Lines(months) = short[S]
  BY <1>1, <1>4 DEF Lines
<1> QED
  BY <1>3, <1>5, <1>10, <1>11

\* A line goes to the end of a month, or opens it.
Filed(months, month, line) ==
    LET old == IF month \in DOMAIN months THEN months[month] ELSE <<>>
    IN  [m \in DOMAIN months \cup {month} |->
            IF m = month THEN Append(old, line) ELSE months[m]]

\* Creating the file of a month that has none adds no line.
LEMMA LinesOfOpened ==
  ASSUME NEW N \in Nat, NEW months \in Files(N), NEW month \in 0..N
  PROVE  /\ OpenMonth(months, month) \in Files(N)
         /\ Lines(OpenMonth(months, month)) = Lines(months)
<1>1. PICK L : L = Seq(RollupLines(N))
  OBVIOUS
<1>2. PICK more : more = OpenMonth(months, month)
  OBVIOUS
<1>3. /\ DOMAIN more = DOMAIN months \cup {month}
      /\ \A m \in DOMAIN months : more[m] = months[m]
      /\ month \notin DOMAIN months => more[month] = <<>>
      /\ more = [m \in DOMAIN months \cup {month} |->
                    IF m \in DOMAIN months THEN months[m] ELSE <<>>]
  BY <1>2 DEF OpenMonth, LinesIn
<1>4. DOMAIN months \subseteq 0..N /\ \A m \in DOMAIN months : months[m] \in L
  BY <1>1, FilesFacts
<1>5. more \in Files(N)
  <2>1. PICK D : D = DOMAIN months \cup {month}
    OBVIOUS
  <2>2. D \in SUBSET (0..N) /\ <<>> \in L
    BY <1>1, <1>4, <2>1
  <2>3. more \in [D -> L]
    BY <1>3, <1>4, <2>1, <2>2
  <2> QED
    BY <1>1, <2>2, <2>3 DEF Files
<1>6. PICK k \in Nat : k = N + 1
  OBVIOUS
<1>7. PICK f : f = Reading(months, k)
  OBVIOUS
<1>8. PICK h : h = Reading(more, k)
  OBVIOUS
<1>9. /\ f \in [0..k -> L] /\ f[0] = <<>>
      /\ \A n \in 1..k : f[n] = IF n - 1 \in DOMAIN months
                                 THEN f[n - 1] \o months[n - 1] ELSE f[n - 1]
  <2>1. Reads(Reading(months, k), N, months, k)
    BY ReadingSteps
  <2> QED
    BY <1>1, <1>7, <2>1 DEF Reads
<1>10. /\ h \in [0..k -> L] /\ h[0] = <<>>
       /\ \A n \in 1..k : h[n] = IF n - 1 \in DOMAIN more
                                  THEN h[n - 1] \o more[n - 1] ELSE h[n - 1]
  <2>1. Reads(Reading(more, k), N, more, k)
    BY <1>5, ReadingSteps
  <2> QED
    BY <1>1, <1>8, <2>1 DEF Reads
<1>11. \A n \in 1..k : h[n - 1] = f[n - 1] => h[n] = f[n]
  <2> SUFFICES ASSUME NEW n \in 1..k, h[n - 1] = f[n - 1] PROVE h[n] = f[n]
    OBVIOUS
  <2>1. PICK a \in L : a = f[n - 1]
    BY <1>9
  <2>2. a \o <<>> = a
    BY <1>1, ConcatEmptySeq
  <2> QED
    BY <1>3, <1>9, <1>10, <2>1, <2>2
<1>12. \A n \in 0..k : h[n] = f[n]
  <2>1. h[0] = f[0]
    BY <1>9, <1>10
  <2>2. AgreeStepwise(h, f, k)
    BY <1>11, <2>1 DEF AgreeStepwise
  <2> QED
    BY <2>2, RecursionsAgree
<1>13. Lines(months) = f[k] /\ Lines(more) = h[k]
  BY <1>5, <1>6, <1>7, <1>8, LinesAre
<1>14. h[k] = f[k]
  BY <1>12
<1> QED
  BY <1>2, <1>5, <1>13, <1>14

\* A line at the end of the last month, or in a later one, is the last of all.
LEMMA LinesOfMore ==
  ASSUME NEW N \in Nat, NEW months \in Files(N), NEW month \in 0..N,
         \A m \in DOMAIN months : m <= month,
         NEW line \in RollupLines(N)
  PROVE  /\ Filed(months, month, line) \in Files(N)
         /\ Lines(Filed(months, month, line)) = Append(Lines(months), line)
<1> DEFINE old == IF month \in DOMAIN months THEN months[month] ELSE <<>>
<1>0. PICK more : more = Filed(months, month, line)
  OBVIOUS
<1>a. more = [m \in DOMAIN months \cup {month} |->
                 IF m = month THEN Append(old, line) ELSE months[m]]
  BY <1>0 DEF Filed
<1>b. old = IF month \in DOMAIN months THEN months[month] ELSE <<>>
  OBVIOUS
<1> HIDE DEF old
<1>1. PICK L : L = Seq(RollupLines(N))
  OBVIOUS
<1>2. /\ DOMAIN months \subseteq 0..N
      /\ \A m \in DOMAIN months : months[m] \in L
  BY <1>1, FilesFacts
<1>3. old \in L /\ Append(old, line) \in L
  BY <1>1, <1>2, <1>b
<1>4. more \in Files(N)
  <2>1. PICK D : D = DOMAIN months \cup {month}
    OBVIOUS
  <2>2. D \in SUBSET (0..N)
    BY <1>2, <2>1
  <2>3. more \in [D -> L]
    BY <1>2, <1>3, <1>a, <2>1
  <2> QED
    BY <1>1, <2>2, <2>3 DEF Files
<1>5. PICK f : f = Reading(months, N + 1)
  OBVIOUS
<1>6. PICK h : h = Reading(more, N + 1)
  OBVIOUS
<1>7. N + 1 \in Nat
  OBVIOUS
<1>8. /\ f \in [0..(N + 1) -> L] /\ f[0] = <<>>
      /\ \A n \in 1..(N + 1) : f[n] = IF n - 1 \in DOMAIN months
                                      THEN f[n - 1] \o months[n - 1] ELSE f[n - 1]
  <2>1. PICK k \in Nat : k = N + 1
    OBVIOUS
  <2>2. Reads(Reading(months, k), N, months, k)
    BY ReadingSteps
  <2> QED
    BY <1>1, <1>5, <2>1, <2>2 DEF Reads
<1>9. /\ h \in [0..(N + 1) -> L] /\ h[0] = <<>>
      /\ \A n \in 1..(N + 1) : h[n] = IF n - 1 \in DOMAIN more
                                      THEN h[n - 1] \o more[n - 1] ELSE h[n - 1]
  <2>1. PICK k \in Nat : k = N + 1
    OBVIOUS
  <2>2. Reads(Reading(more, k), N, more, k)
    BY <1>4, ReadingSteps
  <2> QED
    BY <1>1, <1>6, <2>1, <2>2 DEF Reads
<1>10. PICK g : g = [n \in 0..(N + 1) |-> IF n <= month THEN f[n] ELSE Append(f[n], line)]
  OBVIOUS
<1>11. \A n \in 1..(N + 1) : h[n - 1] = g[n - 1] => h[n] = g[n]
  <2> SUFFICES ASSUME NEW n \in 1..(N + 1), h[n - 1] = g[n - 1] PROVE h[n] = g[n]
    OBVIOUS
  <2>1. n - 1 \in 0..(N + 1) /\ f[n - 1] \in L
    BY <1>8
  <2>2. CASE n - 1 < month
    <3>1. n <= month /\ g[n] = f[n] /\ g[n - 1] = f[n - 1]
      BY <1>10, <2>1, <2>2
    <3>2. n - 1 # month
      BY <2>2
    <3>3. /\ n - 1 \in DOMAIN more <=> n - 1 \in DOMAIN months
          /\ n - 1 \in DOMAIN months => more[n - 1] = months[n - 1]
      BY <3>2, <1>a
    <3> QED
      BY <1>8, <1>9, <3>1, <3>3
  <2>3. CASE n - 1 = month
    <3>1. g[n] = Append(f[n], line) /\ g[n - 1] = f[n - 1]
      BY <1>10, <2>1, <2>3
    <3>2. n - 1 \in DOMAIN more /\ more[n - 1] = Append(old, line)
      BY <2>3, <1>a
    <3>3. h[n] = f[n - 1] \o Append(old, line)
      BY <1>9, <3>1, <3>2
    <3>4. PICK a \in L : a = f[n - 1]
      BY <2>1
    <3>5. f[n] = a \o old
      <4>1. a \o <<>> = a
        BY <1>1, ConcatEmptySeq
      <4> QED
        BY <1>8, <1>b, <2>3, <3>4, <4>1
    <3>6. a \o Append(old, line) = Append(a \o old, line)
      <4>1. Regroups(a, old, line)
        BY <1>1, <1>3, RegroupsAll
      <4> QED
        BY <4>1 DEF Regroups
    <3> QED
      BY <3>1, <3>3, <3>4, <3>5, <3>6
  <2>4. CASE n - 1 > month
    <3>1. g[n] = Append(f[n], line) /\ g[n - 1] = Append(f[n - 1], line)
      <4>1. n \in 0..(N + 1) /\ ~ (n <= month) /\ ~ (n - 1 <= month)
        BY <2>4
      <4> QED
        BY <1>10, <2>1, <4>1
    <3>2. n - 1 \notin DOMAIN months /\ n - 1 # month
      BY <2>4
    <3>3. n - 1 \notin DOMAIN more
      BY <3>2, <1>a
    <3> QED
      BY <1>8, <1>9, <3>1, <3>2, <3>3
  <2> QED
    BY <2>2, <2>3, <2>4
<1>12. \A n \in 0..(N + 1) : h[n] = g[n]
  <2>1. h[0] = g[0]
    BY <1>8, <1>9, <1>10
  <2>2. AgreeStepwise(h, g, N + 1)
    BY <1>7, <1>11, <2>1 DEF AgreeStepwise
  <2> QED
    BY <2>2, RecursionsAgree
<1>13. h[N + 1] = Append(f[N + 1], line)
  <2>1. N + 1 \in 0..(N + 1) /\ ~ (N + 1 <= month)
    OBVIOUS
  <2>2. g[N + 1] = Append(f[N + 1], line)
    BY <1>10, <2>1
  <2> QED
    BY <1>12, <2>1, <2>2
<1>14. Lines(months) = f[N + 1] /\ Lines(more) = h[N + 1]
  BY <1>4, <1>5, <1>6, LinesAre
<1> QED
  BY <1>0, <1>4, <1>13, <1>14

Younger(months, oldest) == [m \in {m \in DOMAIN months : m >= oldest} |-> months[m]]

\* The months that stay when the older ones go hold the last of the lines.
LEMMA LinesOfYounger ==
  ASSUME NEW N \in Nat, NEW months \in Files(N), NEW oldest \in Nat
  PROVE  /\ Younger(months, oldest) \in Files(N)
         /\ \E gone \in Seq(RollupLines(N)) :
               Lines(months) = gone \o Lines(Younger(months, oldest))
<1> DEFINE kept == Younger(months, oldest)
<1>0. kept = [m \in {m \in DOMAIN months : m >= oldest} |-> months[m]]
  BY DEF Younger
<1> HIDE DEF kept
<1>1. PICK L : L = Seq(RollupLines(N))
  OBVIOUS
<1>2. /\ DOMAIN months \subseteq 0..N
      /\ \A m \in DOMAIN months : months[m] \in L
  BY <1>1, FilesFacts
<1>3. kept \in Files(N)
  <2>1. PICK D : D = {m \in DOMAIN months : m >= oldest}
    OBVIOUS
  <2>2. D \in SUBSET (0..N)
    BY <1>2, <2>1
  <2>3. kept \in [D -> L]
    BY <1>0, <1>2, <2>1
  <2> QED
    BY <1>1, <2>2, <2>3 DEF Files
<1>4. PICK f : f = Reading(months, N + 1)
  OBVIOUS
<1>5. PICK h : h = Reading(kept, N + 1)
  OBVIOUS
<1>6. N + 1 \in Nat
  OBVIOUS
<1>7. /\ f \in [0..(N + 1) -> L] /\ f[0] = <<>>
      /\ \A n \in 1..(N + 1) : f[n] = IF n - 1 \in DOMAIN months
                                      THEN f[n - 1] \o months[n - 1] ELSE f[n - 1]
  <2>1. PICK k \in Nat : k = N + 1
    OBVIOUS
  <2>2. Reads(Reading(months, k), N, months, k)
    BY ReadingSteps
  <2> QED
    BY <1>1, <1>4, <2>1, <2>2 DEF Reads
<1>8. /\ h \in [0..(N + 1) -> L] /\ h[0] = <<>>
      /\ \A n \in 1..(N + 1) : h[n] = IF n - 1 \in DOMAIN kept
                                      THEN h[n - 1] \o kept[n - 1] ELSE h[n - 1]
  <2>1. PICK k \in Nat : k = N + 1
    OBVIOUS
  <2>2. Reads(Reading(kept, k), N, kept, k)
    BY <1>3, ReadingSteps
  <2> QED
    BY <1>1, <1>5, <2>1, <2>2 DEF Reads
<1> DEFINE Cut(n) == /\ n <= oldest => h[n] = <<>>
                     /\ n >= oldest => f[n] = f[oldest] \o h[n]
           S == {n \in Nat : Cut(n)}
<1>9. 0 \in S
  <2>1. 0 >= oldest => oldest = 0
    OBVIOUS
  <2>2. <<>> = <<>> \o <<>>
    OBVIOUS
  <2>3. Cut(0)
    BY <1>7, <1>8, <2>1, <2>2
  <2> QED
    BY <2>3
<1>10. ASSUME NEW n \in 0..N, Cut(n) PROVE Cut(n + 1)
  <2>1. n + 1 \in 1..(N + 1) /\ (n + 1) - 1 = n /\ n \in 0..(N + 1)
    OBVIOUS
  <2>2. PICK a, b \in L : a = f[n] /\ b = h[n]
    BY <1>7, <1>8, <2>1
  <2>3. /\ f[n + 1] = IF n \in DOMAIN months THEN a \o months[n] ELSE a
        /\ h[n + 1] = IF n \in DOMAIN kept THEN b \o kept[n] ELSE b
    BY <1>7, <1>8, <2>1, <2>2
  <2>4. CASE n < oldest
    <3>1. n \notin DOMAIN kept /\ b = <<>>
      BY <1>0, <1>10, <2>2, <2>4
    <3>2. h[n + 1] = <<>>
      BY <2>3, <3>1
    <3>3. n + 1 >= oldest => f[n + 1] = f[oldest] \o h[n + 1]
      <4> SUFFICES ASSUME n + 1 >= oldest PROVE f[n + 1] = f[oldest] \o h[n + 1]
        OBVIOUS
      <4>1. n + 1 = oldest
        BY <2>4
      <4>2. PICK c \in L : c = f[n + 1]
        BY <1>7, <2>1
      <4>3. c \o <<>> = c
        BY <1>1, ConcatEmptySeq
      <4> QED
        BY <3>2, <4>1, <4>2, <4>3
    <3> QED
      BY <3>2, <3>3
  <2>5. CASE n >= oldest
    <3>1. oldest \in 0..(N + 1)
      BY <2>5
    <3>2. PICK c \in L : c = f[oldest]
      BY <1>7, <3>1
    <3>3. a = c \o b
      BY <1>10, <2>2, <2>5, <3>2
    <3>4. /\ n \in DOMAIN kept <=> n \in DOMAIN months
          /\ n \in DOMAIN months => kept[n] = months[n]
      BY <1>0, <2>5
    <3>5. f[n + 1] = c \o h[n + 1]
      <4>1. CASE n \in DOMAIN months
        <5>1. months[n] \in L
          BY <1>2, <4>1
        <5>2. PICK d \in L : d = months[n]
          BY <5>1
        <5>3. (c \o b) \o d = c \o (b \o d)
          <6>1. Associates(c, b, d)
            BY <1>1, AssociatesAll
          <6> QED
            BY <6>1 DEF Associates
        <5> QED
          BY <2>3, <3>3, <3>4, <4>1, <5>2, <5>3
      <4>2. CASE n \notin DOMAIN months
        BY <2>3, <3>3, <3>4, <4>2
      <4> QED
        BY <4>1, <4>2
    <3>6. ~ (n + 1 <= oldest)
      BY <2>5
    <3> QED
      BY <3>2, <3>5, <3>6
  <2>6. n < oldest \/ n >= oldest
    OBVIOUS
  <2> HIDE DEF Cut
  <2> QED
    BY <2>4, <2>5, <2>6
<1> HIDE DEF Cut
<1>11. N + 1 \in S
  <2>1. \A n \in 0..((N + 1) - 1) : n \in S => n + 1 \in S
    BY <1>10
  <2> HIDE DEF S
  <2>2. 0..(N + 1) \subseteq S
    BY <1>6, <1>9, <2>1, BoundedInduction
  <2> QED
    BY <2>2
<1>12. Lines(months) = f[N + 1] /\ Lines(kept) = h[N + 1]
  BY <1>3, <1>4, <1>5, LinesAre
<1>13. PICK a \in L : a = f[N + 1]
  BY <1>7
<1>14. ASSUME N + 1 >= oldest
       PROVE  \E gone \in Seq(RollupLines(N)) : Lines(months) = gone \o Lines(kept)
  <2>1. f[N + 1] = f[oldest] \o h[N + 1]
    BY <1>11, <1>14 DEF Cut
  <2>2. f[oldest] \in L
    BY <1>7, <1>14
  <2> QED
    BY <1>1, <1>12, <2>1, <2>2
<1>15. ASSUME ~ (N + 1 >= oldest)
       PROVE  \E gone \in Seq(RollupLines(N)) : Lines(months) = gone \o Lines(kept)
  <2>1. h[N + 1] = <<>>
    BY <1>11, <1>15 DEF Cut
  <2>2. a = a \o <<>>
    BY <1>1, ConcatEmptySeq
  <2> QED
    BY <1>1, <1>12, <1>13, <2>1, <2>2
<1>16. kept \in Files(N) /\ \E gone \in Seq(RollupLines(N)) : Lines(months) = gone \o Lines(kept)
  BY <1>1, <1>3, <1>14, <1>15
<1> QED
  BY <1>16 DEF kept

-----------------------------------------------------------------------------
(* The chain of the lines.                                                 *)

\* The chain head is that of the last line, where there is one.
Leads(chain, lines) ==
    lines # <<>> => /\ chain.prev = lines[Len(lines)].windows
                    /\ chain.seq = lines[Len(lines)].seq + 1

\* The breaks are no more than the faults, and fewer where the next line will be
\* one, which does not take the head of the last.
Explained(lines, faults) == Cardinality(BreaksIn(lines)) <= faults
Expects(chain, lines, faults) ==
    Leads(chain, lines) \/ Cardinality(BreaksIn(lines)) < faults

\* The breaks are places in the lines.
LEMMA BreaksFacts ==
  ASSUME NEW L, NEW lines \in Seq(L)
  PROVE  /\ IsFiniteSet(BreaksIn(lines)) /\ Cardinality(BreaksIn(lines)) \in Nat
         /\ BreaksIn(lines) \subseteq 2..Len(lines)
<1>1. BreaksIn(lines) \subseteq 2..Len(lines)
  BY DEF BreaksIn
<1>2. IsFiniteSet(2..Len(lines))
  <2>1. Len(lines) \in Nat
    OBVIOUS
  <2> QED
    BY <2>1, FS_Interval
<1>3. IsFiniteSet(BreaksIn(lines))
  BY <1>1, <1>2, FS_Subset
<1> QED
  BY <1>1, <1>3, FS_CardinalityType

\* A line that takes the head is no break, and one that does not is one more.
LEMMA ExplainedAppend ==
  ASSUME NEW N \in Nat, NEW lines \in Seq(RollupLines(N)), NEW line \in RollupLines(N),
         NEW faults \in Nat, Explained(lines, faults), Expects(line, lines, faults)
  PROVE  /\ Explained(Append(lines, line), faults)
         /\ \A chain : /\ chain.prev = line.windows
                       /\ chain.seq = line.seq + 1
                       => Leads(chain, Append(lines, line))
<1>1. PICK K \in Nat : K = Len(lines)
  OBVIOUS
<1>2. PICK more : more = Append(lines, line)
  OBVIOUS
<1>3. /\ Len(more) = K + 1 /\ more[K + 1] = line
      /\ \A i \in 1..K : more[i] = lines[i]
  BY <1>1, <1>2
<1>4. PICK B, C : B = BreaksIn(lines) /\ C = BreaksIn(more)
  OBVIOUS
<1>5. IsFiniteSet(B) /\ Cardinality(B) \in Nat /\ Cardinality(B) <= faults
  BY <1>4, BreaksFacts DEF Explained
<1>6. ASSUME NEW i \in C PROVE i \in B \/ (i = K + 1 /\ K >= 1)
  <2>1. /\ i \in 2..(K + 1)
        /\ more[i].prev # more[i - 1].windows \/ more[i].seq # more[i - 1].seq + 1
    BY <1>3, <1>4, <1>6 DEF BreaksIn
  <2>2. CASE i = K + 1
    BY <2>1, <2>2
  <2>3. CASE i # K + 1
    <3>1. i \in 2..K /\ i \in 1..K /\ i - 1 \in 1..K
      BY <2>1, <2>3
    <3>2. lines[i].prev # lines[i - 1].windows \/ lines[i].seq # lines[i - 1].seq + 1
      BY <1>3, <2>1, <3>1
    <3> QED
      BY <1>1, <1>4, <3>1, <3>2 DEF BreaksIn
  <2> QED
    BY <2>2, <2>3
<1>7. Cardinality(C) <= faults
  <2>1. CASE Leads(line, lines)
    <3>1. ASSUME K >= 1 PROVE K + 1 \notin C
      <4>1. lines # <<>> /\ K \in 1..K
        BY <1>1, <3>1
      <4>2. line.prev = lines[K].windows /\ line.seq = lines[K].seq + 1
        BY <1>1, <2>1, <4>1 DEF Leads
      <4>3. more[K + 1].prev = more[K].windows /\ more[K + 1].seq = more[K].seq + 1
        BY <1>3, <4>1, <4>2
      <4>4. (K + 1) - 1 = K
        OBVIOUS
      <4> QED
        BY <1>4, <4>3, <4>4 DEF BreaksIn
    <3>2. C \subseteq B
      BY <1>6, <3>1
    <3>3. Cardinality(C) <= Cardinality(B) /\ IsFiniteSet(C)
      BY <1>5, <3>2, FS_Subset
    <3>4. Cardinality(C) \in Nat
      BY <3>3, FS_CardinalityType
    <3> QED
      BY <1>5, <3>3, <3>4
  <2>2. CASE ~ Leads(line, lines)
    <3>1. Cardinality(B) < faults
      BY <1>4, <2>2 DEF Expects
    <3>2. PICK D : D = B \cup {K + 1}
      OBVIOUS
    <3>3. IsFiniteSet(D) /\ Cardinality(D) <= Cardinality(B) + 1
      <4>1. /\ IsFiniteSet(B \cup {K + 1})
            /\ Cardinality(B \cup {K + 1}) =
                  IF K + 1 \in B THEN Cardinality(B) ELSE Cardinality(B) + 1
        BY <1>5, FS_AddElement
      <4> QED
        BY <1>5, <3>2, <4>1
    <3>4. C \subseteq D
      BY <1>6, <3>2
    <3>5. IsFiniteSet(C) /\ Cardinality(C) <= Cardinality(D)
      BY <3>3, <3>4, FS_Subset
    <3>6. Cardinality(C) \in Nat /\ Cardinality(D) \in Nat
      BY <3>3, <3>5, FS_CardinalityType
    <3> QED
      BY <1>5, <3>1, <3>3, <3>5, <3>6
  <2> QED
    BY <2>1, <2>2
<1>8. \A chain : chain.prev = line.windows /\ chain.seq = line.seq + 1 => Leads(chain, more)
  BY <1>3 DEF Leads
<1> QED
  BY <1>2, <1>4, <1>7, <1>8 DEF Explained

\* What stands where in one sequence behind another.
LEMMA ConcatFacts ==
  ASSUME NEW P, NEW a \in Seq(P), NEW b \in Seq(P),
         NEW N \in Nat, NEW K \in Nat, N = Len(a), K = Len(b), NEW both, both = a \o b
  PROVE  /\ both \in Seq(P) /\ Len(both) = N + K
         /\ \A i \in 1..N : both[i] = a[i]
         /\ \A i \in (N + 1)..(N + K) : both[i] = b[i - N]
OBVIOUS

\* The last lines of a chain have no more breaks, and the same end.
LEMMA ExplainedRest ==
  ASSUME NEW N \in Nat, NEW gone \in Seq(RollupLines(N)), NEW rest \in Seq(RollupLines(N)),
         NEW faults \in Nat, Explained(gone \o rest, faults),
         NEW chain, Expects(chain, gone \o rest, faults)
  PROVE  Explained(rest, faults) /\ Expects(chain, rest, faults)
<1>1. PICK G \in Nat, K \in Nat : G = Len(gone) /\ K = Len(rest)
  OBVIOUS
<1>2. PICK all : all = gone \o rest
  OBVIOUS
<1>3. /\ Len(all) = G + K /\ all \in Seq(RollupLines(N))
      /\ \A i \in 1..K : all[G + i] = rest[i]
  <2>1. PICK L : L = RollupLines(N)
    OBVIOUS
  <2>2. gone \in Seq(L) /\ rest \in Seq(L)
    BY <2>1
  <2>3. /\ all \in Seq(L) /\ Len(all) = G + K
        /\ \A i \in (G + 1)..(G + K) : all[i] = rest[i - G]
    BY <1>1, <1>2, <2>2, ConcatFacts
  <2>4. \A i \in 1..K : G + i \in (G + 1)..(G + K) /\ (G + i) - G = i
    OBVIOUS
  <2> QED
    BY <2>1, <2>3, <2>4
<1>4. PICK B, C : B = BreaksIn(all) /\ C = BreaksIn(rest)
  OBVIOUS
<1>5. IsFiniteSet(B) /\ Cardinality(B) \in Nat /\ IsFiniteSet(C) /\ Cardinality(C) \in Nat
  BY <1>3, <1>4, BreaksFacts
<1>6. Cardinality(C) <= Cardinality(B)
  <2>1. PICK up : up = [i \in C |-> G + i]
    OBVIOUS
  <2>2. \A i \in C : i \in Int /\ G + i \in B
    <3> SUFFICES ASSUME NEW i \in C PROVE i \in Int /\ G + i \in B
      OBVIOUS
    <3>1. /\ i \in 2..K
          /\ rest[i].prev # rest[i - 1].windows \/ rest[i].seq # rest[i - 1].seq + 1
      BY <1>1, <1>4 DEF BreaksIn
    <3>2. i \in 1..K /\ i - 1 \in 1..K /\ G + i \in 2..(G + K) /\ (G + i) - 1 = G + (i - 1)
      BY <3>1
    <3>3. all[G + i] = rest[i] /\ all[(G + i) - 1] = rest[i - 1]
      BY <1>3, <3>2
    <3>4. \/ all[G + i].prev # all[(G + i) - 1].windows
          \/ all[G + i].seq # all[(G + i) - 1].seq + 1
      BY <3>1, <3>3
    <3>5. G + i \in 2..Len(all)
      BY <1>3, <3>2
    <3> QED
      BY <1>4, <3>1, <3>4, <3>5 DEF BreaksIn
  <2>3. up \in Injection(C, B)
    <3>1. up \in [C -> B]
      BY <2>1, <2>2
    <3>2. \A i, j \in C : up[i] = up[j] => i = j
      BY <2>1, <2>2
    <3> QED
      BY <3>1, <3>2 DEF Injection, IsInjective
  <2> QED
    BY <1>5, <2>3, FS_Injection
<1>7. Explained(rest, faults)
  BY <1>2, <1>4, <1>5, <1>6 DEF Explained
<1>8. Expects(chain, rest, faults)
  <2>1. CASE Leads(chain, all)
    <3>1. Leads(chain, rest)
      <4> SUFFICES ASSUME rest # <<>>
                   PROVE  /\ chain.prev = rest[K].windows
                          /\ chain.seq = rest[K].seq + 1
        BY <1>1 DEF Leads
      <4>1. K \in 1..K /\ K # 0
        BY <1>1
      <4>2. all # <<>> /\ all[G + K] = rest[K]
        BY <1>1, <1>3, <4>1
      <4> QED
        BY <1>2, <1>3, <2>1, <4>2 DEF Leads
    <3> QED
      BY <3>1 DEF Expects
  <2>2. CASE ~ Leads(chain, all)
    <3>1. Cardinality(B) < faults
      BY <1>2, <1>4, <2>2 DEF Expects
    <3> QED
      BY <1>4, <1>5, <1>6, <3>1 DEF Expects
  <2> QED
    BY <2>1, <2>2
<1> QED
  BY <1>7, <1>8

-----------------------------------------------------------------------------
(* The drop counts in a family of lines.                                   *)

\* What the reader takes for the loss between a line and a later one.
Loss(a, b) == IF b < a THEN b ELSE b - a

\* Marks from below: between any two lines no more is told than between their
\* marks,
Fits(counts, marks) ==
    /\ marks \in Seq(Nat) /\ Len(marks) = Len(counts)
    /\ \A i, j \in 1..Len(counts) : i < j => marks[i] + Loss(counts[i], counts[j]) <= marks[j]

\* and a line of count d whose mark is total would fit behind them.
Below(counts, marks, d, total) ==
    \A i \in 1..Len(counts) : marks[i] + Loss(counts[i], d) <= total

\* The counts tell no more than total, now and after a line of count d.
Fair(counts, d, total) == \E marks : Fits(counts, marks) /\ Below(counts, marks, d, total)

\* One drop more tells one more at most, and a restart nothing.
LEMMA LossFacts ==
  ASSUME NEW a \in Nat, NEW b \in Nat
  PROVE  /\ Loss(a, b) \in Nat
         /\ Loss(a, a) = 0
         /\ Loss(a, 0) = 0
         /\ Loss(a, b + 1) <= Loss(a, b) + 1
BY DEF Loss

\* A line behind the others.
LEMMA FitsAppend ==
  ASSUME NEW counts \in Seq(Nat), NEW marks, NEW d \in Nat, NEW total \in Nat,
         Fits(counts, marks), Below(counts, marks, d, total)
  PROVE  Fits(Append(counts, d), Append(marks, total))
<1>1. PICK K \in Nat : K = Len(counts)
  OBVIOUS
<1>2. PICK more, later : more = Append(counts, d) /\ later = Append(marks, total)
  OBVIOUS
<1>3. marks \in Seq(Nat) /\ Len(marks) = K
  BY <1>1 DEF Fits
<1>4. /\ more \in Seq(Nat) /\ Len(more) = K + 1 /\ more[K + 1] = d
      /\ \A i \in 1..K : more[i] = counts[i]
  BY <1>1, <1>2
<1>5. /\ later \in Seq(Nat) /\ Len(later) = K + 1 /\ later[K + 1] = total
      /\ \A i \in 1..K : later[i] = marks[i]
  BY <1>2, <1>3
<1>6. ASSUME NEW i \in 1..(K + 1), NEW j \in 1..(K + 1), i < j
      PROVE  later[i] + Loss(more[i], more[j]) <= later[j]
  <2>1. i \in 1..K /\ (j \in 1..K \/ j = K + 1)
    BY <1>6
  <2>2. CASE j \in 1..K
    BY <1>1, <1>4, <1>5, <1>6, <2>1, <2>2 DEF Fits
  <2>3. CASE j = K + 1
    BY <1>1, <1>4, <1>5, <2>1, <2>3 DEF Below
  <2> QED
    BY <2>1, <2>2, <2>3
<1> QED
  BY <1>2, <1>4, <1>5, <1>6 DEF Fits

\* What fits behind a line of count d and behind that line's predecessors.
LEMMA BelowAppend ==
  ASSUME NEW counts \in Seq(Nat), NEW marks \in Seq(Nat), Len(marks) = Len(counts),
         NEW d \in Nat, NEW total \in Nat, NEW e \in Nat, NEW more \in Nat,
         Below(counts, marks, e, more), total + Loss(d, e) <= more
  PROVE  Below(Append(counts, d), Append(marks, total), e, more)
<1>1. PICK K \in Nat : K = Len(counts)
  OBVIOUS
<1>2. PICK longer, later : longer = Append(counts, d) /\ later = Append(marks, total)
  OBVIOUS
<1>3. /\ Len(longer) = K + 1 /\ longer[K + 1] = d
      /\ \A i \in 1..K : longer[i] = counts[i]
  BY <1>1, <1>2
<1>4. /\ later[K + 1] = total
      /\ \A i \in 1..K : later[i] = marks[i]
  BY <1>1, <1>2
<1>5. \A i \in 1..(K + 1) : i \in 1..K \/ i = K + 1
  BY <1>1
<1>6. \A i \in 1..K : marks[i] + Loss(counts[i], e) <= more
  BY <1>1 DEF Below
<1> QED
  BY <1>2, <1>3, <1>4, <1>5, <1>6 DEF Below

\* The count moves as the daemon's does: it grows with the total, the total
\* grows alone, or a new process counts from nothing.
LEMMA BelowMoves ==
  ASSUME NEW counts \in Seq(Nat), NEW marks \in Seq(Nat), Len(marks) = Len(counts),
         NEW d \in Nat, NEW total \in Nat, Below(counts, marks, d, total)
  PROVE  /\ Below(counts, marks, d + 1, total + 1)
         /\ Below(counts, marks, 0, total)
<1>1. ASSUME NEW i \in 1..Len(counts)
      PROVE  /\ marks[i] + Loss(counts[i], d + 1) <= total + 1
             /\ marks[i] + Loss(counts[i], 0) <= total
  <2>1. PICK a \in Nat, m \in Nat : a = counts[i] /\ m = marks[i]
    OBVIOUS
  <2>2. m + Loss(a, d) <= total
    BY <2>1 DEF Below
  <2>3. Loss(a, d) \in Nat /\ Loss(a, d + 1) <= Loss(a, d) + 1 /\ Loss(a, 0) = 0
    BY LossFacts
  <2>4. d + 1 \in Nat
    OBVIOUS
  <2>5. Loss(a, d + 1) \in Nat
    BY <2>4, LossFacts
  <2>6. PICK x \in Nat, y \in Nat : x = Loss(a, d) /\ y = Loss(a, d + 1)
    BY <2>3, <2>5
  <2>7. m + x <= total /\ y <= x + 1
    BY <2>2, <2>3, <2>6
  <2>8. m + y <= total + 1 /\ m + 0 <= total
    BY <2>7
  <2> QED
    BY <2>1, <2>3, <2>6, <2>8
<1> QED
  BY <1>1 DEF Below

\* A line of the present count behind the others.
LEMMA FairAppend ==
  ASSUME NEW counts \in Seq(Nat), NEW d \in Nat, NEW total \in Nat, Fair(counts, d, total)
  PROVE  Fair(Append(counts, d), d, total)
<1>1. PICK marks : Fits(counts, marks) /\ Below(counts, marks, d, total)
  BY DEF Fair
<1>2. marks \in Seq(Nat) /\ Len(marks) = Len(counts)
  BY <1>1 DEF Fits
<1>3. total + Loss(d, d) <= total
  BY LossFacts
<1>4. Below(Append(counts, d), Append(marks, total), d, total)
  BY <1>1, <1>2, <1>3, BelowAppend
<1>5. Fits(Append(counts, d), Append(marks, total))
  BY <1>1, FitsAppend
<1> QED
  BY <1>4, <1>5 DEF Fair

\* The count moves.
LEMMA FairMoves ==
  ASSUME NEW counts \in Seq(Nat), NEW d \in Nat, NEW total \in Nat, Fair(counts, d, total)
  PROVE  Fair(counts, d + 1, total + 1) /\ Fair(counts, 0, total)
<1>1. PICK marks : Fits(counts, marks) /\ Below(counts, marks, d, total)
  BY DEF Fair
<1>2. marks \in Seq(Nat) /\ Len(marks) = Len(counts)
  BY <1>1 DEF Fits
<1>3. Below(counts, marks, d + 1, total + 1) /\ Below(counts, marks, 0, total)
  BY <1>1, <1>2, BelowMoves
<1> QED
  BY <1>1, <1>3 DEF Fair

\* The last lines alone tell no more.
LEMMA FairRest ==
  ASSUME NEW gone \in Seq(Nat), NEW rest \in Seq(Nat), NEW d, NEW total,
         Fair(gone \o rest, d, total)
  PROVE  Fair(rest, d, total)
<1>1. PICK G \in Nat, K \in Nat : G = Len(gone) /\ K = Len(rest)
  OBVIOUS
<1>2. PICK all : all = gone \o rest
  OBVIOUS
<1>3. Len(all) = G + K /\ \A i \in 1..K : all[G + i] = rest[i]
  BY <1>1, <1>2
<1>4. PICK marks : Fits(all, marks) /\ Below(all, marks, d, total)
  BY <1>2 DEF Fair
<1>5. marks \in Seq(Nat) /\ Len(marks) = G + K
  BY <1>3, <1>4 DEF Fits
<1>6. PICK later : later = [i \in 1..K |-> marks[G + i]]
  OBVIOUS
<1>7. later \in Seq(Nat) /\ Len(later) = K /\ \A i \in 1..K : later[i] = marks[G + i]
  BY <1>1, <1>5, <1>6
<1>8. ASSUME NEW i \in 1..K, NEW j \in 1..K, i < j
      PROVE  later[i] + Loss(rest[i], rest[j]) <= later[j]
  <2>1. G + i \in 1..(G + K) /\ G + j \in 1..(G + K) /\ G + i < G + j
    BY <1>1, <1>8
  <2>2. marks[G + i] + Loss(all[G + i], all[G + j]) <= marks[G + j]
    BY <1>3, <1>4, <2>1 DEF Fits
  <2> QED
    BY <1>3, <1>7, <2>2
<1>9. ASSUME NEW i \in 1..K PROVE later[i] + Loss(rest[i], d) <= total
  <2>1. G + i \in 1..(G + K)
    BY <1>1
  <2>2. marks[G + i] + Loss(all[G + i], d) <= total
    BY <1>3, <1>4, <2>1 DEF Below
  <2> QED
    BY <1>3, <1>7, <2>2
<1>10. Fits(rest, later)
  BY <1>1, <1>7, <1>8 DEF Fits
<1>11. Below(rest, later, d, total)
  BY <1>1, <1>9 DEF Below
<1> QED
  BY <1>10, <1>11 DEF Fair

\* The lines are folded one by one.
LEMMA LosingSteps ==
  ASSUME NEW counts \in Seq(Nat), counts # <<>>
  PROVE  /\ Losing(counts) \in [0..Len(counts) -> [last : Nat, loss : Nat]]
         /\ Losing(counts)[0] = [last |-> counts[1], loss |-> 0]
         /\ \A n \in 1..Len(counts) :
               Losing(counts)[n] = FoldDrops(Losing(counts)[n - 1], counts[n])
<1>1. PICK K \in Nat : K = Len(counts)
  OBVIOUS
<1> DEFINE U == [last : Nat, loss : Nat]
           base == [last |-> Head(counts), loss |-> 0]
           next == [s \in U \X (1..K) |-> FoldDrops(s[1], counts[s[2]])]
           Recursive(g) == g = [n \in 0..K |-> IF n = 0 THEN base
                                               ELSE FoldDrops(g[n - 1], counts[n])]
<1>2. base \in U /\ base = [last |-> counts[1], loss |-> 0]
  OBVIOUS
<1>3. ASSUME NEW state \in U, NEW n \in 1..K PROVE FoldDrops(state, counts[n]) \in U
  <2>1. PICK d \in Nat : d = counts[n]
    BY <1>1
  <2>2. PICK x \in Nat, y \in Nat : x = state.last /\ y = state.loss
    OBVIOUS
  <2>3. PICK z \in Nat : z = IF d < x THEN d ELSE d - x
    <3>1. (IF d < x THEN d ELSE d - x) \in Nat
      OBVIOUS
    <3> QED
      BY <3>1
  <2>4. y + z \in Nat
    OBVIOUS
  <2>5. FoldDrops(state, d) = [last |-> d, loss |-> y + z]
    BY <2>2, <2>3 DEF FoldDrops
  <2> QED
    BY <2>1, <2>4, <2>5
<1>4. next \in [U \X (1..K) -> U]
  BY <1>3
<1>5. \A state \in U, n \in 1..K : next[<<state, n>>] = FoldDrops(state, counts[n])
  OBVIOUS
<1> HIDE DEF U, base, next
<1>6. /\ \E f : Loop(f, K, base, next)
      /\ \A g : Loop(g, K, base, next) => RunsThrough(g, K, U, base, next)
  BY <1>2, <1>4, LoopRuns
<1>7. \A n \in 1..K : n \in 0..K /\ n - 1 \in 0..K /\ n # 0
  OBVIOUS
<1>8. PICK f : Loop(f, K, base, next)
  BY <1>6
<1>9. f \in [0..K -> U] /\ f[0] = base /\ \A n \in 1..K : f[n] = FoldDrops(f[n - 1], counts[n])
  <2>1. f \in [0..K -> U] /\ f[0] = base /\ \A n \in 1..K : f[n] = next[<<f[n - 1], n>>]
    BY <1>6, <1>8 DEF RunsThrough
  <2>2. \A n \in 1..K : f[n - 1] \in U
    BY <1>7, <2>1
  <2> QED
    BY <1>5, <2>1, <2>2
<1>10. Recursive(f)
  <2>1. \A n \in 0..K : n = 0 \/ n \in 1..K
    OBVIOUS
  <2>2. \A n \in 0..K : f[n] = IF n = 0 THEN base ELSE FoldDrops(f[n - 1], counts[n])
    BY <1>9, <2>1
  <2> QED
    BY <1>9, <2>2
<1>11. PICK g : g = Losing(counts)
  OBVIOUS
<1>12. Recursive(g)
  <2>1. f = [n \in 0..Len(counts) |-> IF n = 0 THEN base ELSE FoldDrops(f[n - 1], counts[n])]
    BY <1>1, <1>10
  <2>2. g = [n \in 0..Len(counts) |-> IF n = 0 THEN base ELSE FoldDrops(g[n - 1], counts[n])]
    BY <1>11, <2>1 DEF Losing, base
  <2> QED
    BY <1>1, <2>2
<1>13. g[0] = base /\ \A n \in 1..K : g[n] = FoldDrops(g[n - 1], counts[n])
  BY <1>7, <1>12
<1>14. \A n \in 0..K : f[n] = g[n]
  <2>1. \A n \in 1..K : f[n - 1] = g[n - 1] => f[n] = g[n]
    BY <1>9, <1>13
  <2>2. AgreeStepwise(f, g, K)
    BY <1>9, <1>13, <2>1 DEF AgreeStepwise
  <2> QED
    BY <2>2, RecursionsAgree
<1>15. g \in [0..K -> U]
  <2>1. g = [n \in 0..K |-> g[n]]
    BY <1>12
  <2>2. \A n \in 0..K : g[n] \in U
    BY <1>9, <1>14
  <2> QED
    BY <2>1, <2>2
<1> QED
  BY <1>1, <1>2, <1>11, <1>13, <1>15 DEF U

\* Lines that tell no more than the total publish no more.
LEMMA FairReads ==
  ASSUME NEW counts \in Seq(Nat), NEW d \in Nat, NEW total \in Nat, Fair(counts, d, total)
  PROVE  ReportedLoss(counts) <= total
<1>1. CASE counts = <<>>
  BY <1>1 DEF ReportedLoss
<1>2. CASE counts # <<>>
  <2>1. PICK K \in Nat : K = Len(counts) /\ K >= 1
    BY <1>2
  <2>2. PICK marks : Fits(counts, marks) /\ Below(counts, marks, d, total)
    BY DEF Fair
  <2>3. marks \in Seq(Nat) /\ Len(marks) = K
    BY <2>1, <2>2 DEF Fits
  <2>4. PICK g : g = Losing(counts)
    OBVIOUS
  <2>5. /\ g \in [0..K -> [last : Nat, loss : Nat]]
        /\ g[0] = [last |-> counts[1], loss |-> 0]
        /\ \A n \in 1..K : g[n] = FoldDrops(g[n - 1], counts[n])
    BY <1>2, <2>1, <2>4, LosingSteps
  <2> DEFINE S == {n \in Nat : n >= 1 => g[n].last = counts[n] /\ g[n].loss <= marks[n]}
  <2>6. 0 \in S
    OBVIOUS
  <2>7. ASSUME NEW n \in 0..(K - 1), n \in S PROVE n + 1 \in S
    <3>1. n + 1 \in 1..K /\ (n + 1) - 1 = n /\ n \in 0..K
      BY <2>1
    <3>2. PICK b \in Nat, x \in Nat, y \in Nat :
              b = counts[n + 1] /\ x = g[n].last /\ y = g[n].loss
      <4>1. counts[n + 1] \in Nat
        BY <2>1, <3>1
      <4>2. g[n] \in [last : Nat, loss : Nat]
        BY <2>5, <3>1
      <4>3. g[n].last \in Nat /\ g[n].loss \in Nat
        BY <4>2
      <4> QED
        BY <4>1, <4>3
    <3>3. g[n + 1] = FoldDrops(g[n], b)
      BY <2>5, <3>1, <3>2
    <3>4. g[n + 1].last = b /\ g[n + 1].loss = y + Loss(x, b)
      BY <3>2, <3>3 DEF FoldDrops, Loss
    <3>5. PICK m \in Nat : m = marks[n + 1]
      BY <2>3, <3>1
    <3>6. y + Loss(x, b) <= m
      <4>1. CASE n = 0
        <5>1. x = b /\ y = 0
          BY <2>5, <3>2, <4>1
        <5> QED
          BY <5>1, LossFacts
      <4>2. CASE n # 0
        <5>1. n \in 1..K /\ n < n + 1
          BY <2>7, <4>2
        <5>2. PICK k \in Nat : k = marks[n]
          BY <2>3, <5>1
        <5>3. x = counts[n] /\ y <= k
          BY <2>7, <3>2, <5>1, <5>2
        <5>4. k + Loss(x, b) <= m
          BY <2>1, <2>2, <3>1, <3>2, <3>5, <5>1, <5>2, <5>3 DEF Fits
        <5>5. Loss(x, b) \in Nat
          BY LossFacts
        <5> QED
          BY <5>3, <5>4, <5>5
      <4> QED
        BY <4>1, <4>2
    <3> QED
      BY <3>1, <3>2, <3>4, <3>5, <3>6
  <2> HIDE DEF S
  <2>8. 0..K \subseteq S
    BY <2>6, <2>7, BoundedInduction
  <2>9. g[K].loss <= marks[K] /\ K \in 1..K
    BY <2>1, <2>8 DEF S
  <2>10. PICK m \in Nat, a \in Nat : m = marks[K] /\ a = counts[K]
    BY <2>1, <2>3, <2>9
  <2>11. m + Loss(a, d) <= total
    BY <2>1, <2>2, <2>9, <2>10 DEF Below
  <2>12. PICK x \in Nat : x = g[K].loss
    BY <2>5, <2>9
  <2>13. Loss(a, d) \in Nat
    BY LossFacts
  <2>14. ReportedLoss(counts) = x
    BY <1>2, <2>1, <2>4, <2>12 DEF ReportedLoss
  <2> QED
    BY <2>9, <2>10, <2>11, <2>12, <2>13, <2>14
<1> QED
  BY <1>1, <1>2

\* Nothing tells nothing.
LEMMA FairNothing ==
  ASSUME NEW d, NEW total
  PROVE  Fair(<<>>, d, total)
<1>1. Fits(<<>>, <<>>) /\ Below(<<>>, <<>>, d, total)
  BY DEF Fits, Below
<1> QED
  BY <1>1 DEF Fair

\* The counts of a line more, or of lines and lines behind them.
LEMMA DropsOfFacts ==
  ASSUME NEW S, \A line \in S : line.drops \in Nat, NEW lines \in Seq(S)
  PROVE  /\ DropsOf(lines) \in Seq(Nat) /\ Len(DropsOf(lines)) = Len(lines)
         /\ \A line \in S : DropsOf(Append(lines, line)) = Append(DropsOf(lines), line.drops)
         /\ \A rest \in Seq(S) : DropsOf(lines \o rest) = DropsOf(lines) \o DropsOf(rest)
<1>1. ASSUME NEW some \in Seq(S)
      PROVE  /\ DropsOf(some) \in Seq(Nat) /\ Len(DropsOf(some)) = Len(some)
             /\ \A i \in 1..Len(some) : DropsOf(some)[i] = some[i].drops
  <2>1. PICK K \in Nat : K = Len(some) /\ DOMAIN some = 1..K
    OBVIOUS
  <2>2. \A i \in 1..K : some[i].drops \in Nat
    BY <2>1
  <2>3. DropsOf(some) = [i \in 1..K |-> some[i].drops]
    BY <2>1 DEF DropsOf
  <2> QED
    BY <2>1, <2>2, <2>3
<1>2. PICK N \in Nat, counts \in Seq(Nat) : N = Len(lines) /\ counts = DropsOf(lines)
  BY <1>1
<1>3. Len(counts) = N /\ \A i \in 1..N : counts[i] = lines[i].drops
  BY <1>1, <1>2
<1>4. ASSUME NEW line \in S
      PROVE  DropsOf(Append(lines, line)) = Append(counts, line.drops)
  <2>1. PICK more : more = Append(lines, line)
    OBVIOUS
  <2>2. /\ more \in Seq(S) /\ Len(more) = N + 1 /\ more[N + 1] = line
        /\ \A i \in 1..N : more[i] = lines[i]
    BY <1>2, <2>1
  <2>3. PICK d \in Nat : d = line.drops
    OBVIOUS
  <2>4. PICK longer : longer = Append(counts, d)
    OBVIOUS
  <2>5. /\ longer \in Seq(Nat) /\ Len(longer) = N + 1 /\ longer[N + 1] = d
        /\ \A i \in 1..N : longer[i] = counts[i]
    BY <1>3, <2>4
  <2>6. PICK told \in Seq(Nat) : told = DropsOf(more)
    BY <1>1, <2>2
  <2>7. Len(told) = N + 1 /\ \A i \in 1..(N + 1) : told[i] = more[i].drops
    BY <1>1, <2>2, <2>6
  <2>8. ASSUME NEW i \in 1..N PROVE told[i] = longer[i]
    <3>1. i \in 1..(N + 1)
      OBVIOUS
    <3>2. told[i] = lines[i].drops
      BY <2>2, <2>7, <3>1
    <3> QED
      BY <1>3, <2>5, <3>2
  <2>9. \A i \in 1..(N + 1) : told[i] = longer[i]
    <3>1. \A i \in 1..(N + 1) : i \in 1..N \/ i = N + 1
      OBVIOUS
    <3>2. N + 1 \in 1..(N + 1)
      OBVIOUS
    <3>3. told[N + 1] = longer[N + 1]
      BY <2>2, <2>3, <2>5, <2>7, <3>2
    <3> QED
      BY <2>8, <3>1, <3>3
  <2>10. told = longer
    BY <2>5, <2>7, <2>9
  <2> QED
    BY <2>1, <2>3, <2>4, <2>6, <2>10
<1>5. ASSUME NEW rest \in Seq(S)
      PROVE  DropsOf(lines \o rest) = counts \o DropsOf(rest)
  <2>0. PICK all : all = lines \o rest
    OBVIOUS
  <2>1. PICK K \in Nat : K = Len(rest)
    OBVIOUS
  <2>2. /\ all \in Seq(S) /\ Len(all) = N + K
        /\ \A i \in 1..N : all[i] = lines[i]
        /\ \A i \in (N + 1)..(N + K) : all[i] = rest[i - N]
    BY <1>2, <2>0, <2>1
  <2>3. PICK behind \in Seq(Nat) : behind = DropsOf(rest)
    BY <1>1
  <2>4. Len(behind) = K /\ \A i \in 1..K : behind[i] = rest[i].drops
    BY <1>1, <2>1, <2>3
  <2>5. PICK both : both = counts \o behind
    OBVIOUS
  <2>6. /\ both \in Seq(Nat) /\ Len(both) = N + K
        /\ \A i \in 1..N : both[i] = counts[i]
        /\ \A i \in (N + 1)..(N + K) : both[i] = behind[i - N]
    <3>1. N = Len(counts) /\ K = Len(behind) /\ counts \in Seq(Nat) /\ behind \in Seq(Nat)
      BY <1>2, <1>3, <2>3, <2>4
    <3>2. N \in Nat /\ K \in Nat
      BY <1>2, <2>1
    <3> QED
      BY <2>5, <3>1, <3>2, ConcatFacts
  <2>7. PICK told \in Seq(Nat) : told = DropsOf(all)
    BY <1>1, <2>2
  <2>8. Len(told) = N + K /\ \A i \in 1..(N + K) : told[i] = all[i].drops
    BY <1>1, <2>2, <2>7
  <2>9. ASSUME NEW i \in 1..(N + K) PROVE told[i] = both[i]
    <3>1. CASE i \in 1..N
      <4>1. told[i] = lines[i].drops
        BY <2>2, <2>8, <3>1
      <4>2. both[i] = lines[i].drops
        BY <1>3, <2>6, <3>1
      <4> QED
        BY <4>1, <4>2
    <3>2. CASE i \in (N + 1)..(N + K)
      <4>1. i - N \in 1..K
        BY <3>2
      <4> QED
        BY <2>2, <2>4, <2>6, <2>8, <3>2, <4>1
    <3> QED
      BY <3>1, <3>2
  <2>10. told = both
    BY <1>2, <2>1, <2>6, <2>7, <2>8, <2>9
  <2> QED
    BY <2>0, <2>3, <2>5, <2>7, <2>10
<1> QED
  BY <1>1, <1>2, <1>4, <1>5

\* The counts of rollup lines.
LEMMA RollupDrops ==
  ASSUME NEW N \in Nat
  PROVE  \A line \in RollupLines(N) : line.drops \in Nat
BY DEF RollupLines

-----------------------------------------------------------------------------
(* The writer's record.                                                    *)

Tears(N) == UNION {[months -> Nat] : months \in SUBSET (0..N)}

Rollups(N) ==
    [open : Days(N) \cup {{}}, since : 0..(SnapshotEvery - 1),
     pending : {p \in Seq(Days(N)) : Len(p) <= MaxPendingDays},
     chain : [prev : SUBSET (1..N), seq : Nat],
     months : Files(N), torn : Tears(N), partial : Days(N) \cup {{}},
     faults : Nat, left : SUBSET (1..N)]

\* What is no text comes behind some of the lines of its file.
TornIn(torn, months) ==
    /\ DOMAIN torn \subseteq DOMAIN months
    /\ \A m \in DOMAIN torn : torn[m] \in 0..Len(months[m])

\* The lines have no more breaks than there were faults, and tell no more than t
\* drops when the next line has the count n.
Whole(N, n, t) ==
    {r \in Rollups(N) : /\ TornIn(r.torn, r.months)
                        /\ Explained(Lines(r.months), r.faults)
                        /\ Fair(DropsOf(Lines(r.months)), n, t)}

\* The writer: a next line that is a break has had its fault.
Writers(N, n, t) ==
    {r \in Whole(N, n, t) : Expects(r.chain, Lines(r.months), r.faults)}

\* What changes neither the files nor the head.
LEMMA SameFiles ==
  ASSUME NEW N \in Nat, NEW n, NEW t, NEW r, NEW q \in Rollups(N), q.months = r.months,
         q.torn = r.torn, q.faults = r.faults
  PROVE  /\ r \in Whole(N, n, t) => q \in Whole(N, n, t)
         /\ r \in Writers(N, n, t) /\ q.chain = r.chain => q \in Writers(N, n, t)
BY DEF Whole, Writers

\* A day goes to a month that none is behind.
LEMMA FileForFacts ==
  ASSUME NEW N \in Nat, NEW r \in Rollups(N), NEW day \in Days(N)
  PROVE  FileFor(r, day) \in 0..N /\ \A m \in DOMAIN r.months : m <= FileFor(r, day)
<1>1. PICK months \in Files(N) : months = r.months
  BY DEF Rollups
<1>2. PICK S : S = {DayOfSet(day)} \cup DOMAIN months
  OBVIOUS
<1>3. S \in SUBSET (0..N) /\ S # {}
  BY <1>2, FilesFacts, DaySetFacts
<1>4. Max(S) \in S /\ \A y \in S : y <= Max(S)
  BY <1>3, MaxFacts
<1>5. FileFor(r, day) = Max(S)
  BY <1>1, <1>2 DEF FileFor, TargetMonth, MonthOf
<1> QED
  BY <1>1, <1>2, <1>3, <1>4, <1>5

\* The files with a line more: a break only where one has had its fault, and
\* the head of a writer that goes on behind it.
Written(N, n, t, r, day, more) ==
    /\ more \in Files(N)
    /\ WriteLine(r, day, n) = [r EXCEPT !.months = more]
    /\ TornIn(r.torn, more)
    /\ Explained(Lines(more), r.faults)
    /\ Fair(DropsOf(Lines(more)), n, t)
    /\ Leads([prev |-> day, seq |-> r.chain.seq + 1], Lines(more))

LEMMA DayWrittenKeeps ==
  ASSUME NEW N \in Nat, NEW n \in Nat, NEW t \in Nat,
         NEW r \in Writers(N, n, t), NEW day \in Days(N)
  PROVE  \E longer : Written(N, n, t, r, day, longer)
<1>1. r \in Rollups(N) /\ TornIn(r.torn, r.months)
      /\ Explained(Lines(r.months), r.faults)
      /\ Expects(r.chain, Lines(r.months), r.faults)
      /\ Fair(DropsOf(Lines(r.months)), n, t)
  BY DEF Writers, Whole
<1>2. PICK months, chain, faults : months = r.months /\ chain = r.chain /\ faults = r.faults
  OBVIOUS
<1>3. /\ months \in Files(N) /\ chain \in [prev : SUBSET (1..N), seq : Nat] /\ faults \in Nat
      /\ Explained(Lines(months), faults) /\ Expects(chain, Lines(months), faults)
      /\ Fair(DropsOf(Lines(months)), n, t)
  BY <1>1, <1>2 DEF Rollups
<1>4. PICK month \in 0..N : month = FileFor(r, day) /\ \A m \in DOMAIN months : m <= month
  BY <1>1, <1>2, FileForFacts
<1>5. PICK line : line = [windows |-> day, prev |-> chain.prev, seq |-> chain.seq, drops |-> n]
  OBVIOUS
<1>6. line \in RollupLines(N) /\ line.windows = day /\ line.prev = chain.prev
      /\ line.seq = chain.seq /\ line.drops = n
  <2>1. day \in Days(N) /\ chain.prev \in SUBSET (1..N) /\ chain.seq \in Nat
    BY <1>3
  <2> QED
    BY <1>5, <2>1 DEF RollupLines
<1>7. PICK more : more = Filed(months, month, line)
  OBVIOUS
<1>8. more \in Files(N) /\ Lines(more) = Append(Lines(months), line)
  BY <1>3, <1>4, <1>6, <1>7, LinesOfMore
<1>9. PICK lines \in Seq(RollupLines(N)) : lines = Lines(months)
  BY <1>3, LinesAre
<1>10. PICK head : head = [prev |-> day, seq |-> chain.seq + 1]
  OBVIOUS
<1>11. head.prev = line.windows /\ head.seq = line.seq + 1
  BY <1>6, <1>10
<1>12. Explained(Lines(more), faults) /\ Leads(head, Lines(more))
  <2>1. Explained(lines, faults) /\ Expects(line, lines, faults)
    BY <1>3, <1>6, <1>9 DEF Expects, Leads
  <2>2. /\ Explained(Append(lines, line), faults)
        /\ \A c : c.prev = line.windows /\ c.seq = line.seq + 1 => Leads(c, Append(lines, line))
    BY <1>3, <1>6, <2>1, ExplainedAppend
  <2> QED
    BY <1>8, <1>9, <1>11, <2>2
<1>13. Fair(DropsOf(Lines(more)), n, t)
  <2>1. PICK counts \in Seq(Nat) : counts = DropsOf(lines)
    BY RollupDrops, DropsOfFacts
  <2>2. Fair(Append(counts, n), n, t)
    BY <1>3, <1>9, <2>1, FairAppend
  <2>3. DropsOf(Append(lines, line)) = Append(counts, n)
    BY <1>6, <2>1, RollupDrops, DropsOfFacts
  <2> QED
    BY <1>8, <1>9, <2>2, <2>3
<1>14. TornIn(r.torn, more)
  <2>1. /\ DOMAIN r.torn \subseteq DOMAIN months
        /\ \A m \in DOMAIN r.torn : r.torn[m] \in 0..Len(months[m])
    BY <1>1, <1>2 DEF TornIn
  <2>2. PICK L : L = Seq(RollupLines(N))
    OBVIOUS
  <2>3. /\ DOMAIN more = DOMAIN months \cup {month}
        /\ \A m \in DOMAIN months : m # month => more[m] = months[m]
        /\ month \in DOMAIN months => more[month] = Append(months[month], line)
    BY <1>7 DEF Filed
  <2>4. \A m \in DOMAIN months : /\ months[m] \in Seq(RollupLines(N))
                                 /\ Len(Append(months[m], line)) = Len(months[m]) + 1
    BY <1>3, FilesFacts
  <2>5. ASSUME NEW m \in DOMAIN r.torn PROVE r.torn[m] \in 0..Len(more[m])
    <3>1. m \in DOMAIN months /\ r.torn[m] \in 0..Len(months[m]) /\ Len(months[m]) \in Nat
      BY <2>1, <2>4
    <3>2. Len(more[m]) = Len(months[m]) \/ Len(more[m]) = Len(months[m]) + 1
      BY <2>3, <2>4, <3>1
    <3> QED
      BY <3>1, <3>2
  <2> QED
    BY <2>1, <2>3, <2>5 DEF TornIn
<1>15. WriteLine(r, day, n) = [r EXCEPT !.months = more]
  BY <1>2, <1>4, <1>5, <1>7 DEF WriteLine, Filed, LinesIn
<1>16. Written(N, n, t, r, day, more)
  BY <1>2, <1>8, <1>10, <1>12, <1>13, <1>14, <1>15 DEF Written
<1> QED
  BY <1>16

\* An appended line extends the chain, whichever month takes it.
LEMMA AppendKeeps ==
  ASSUME NEW N \in Nat, NEW n \in Nat, NEW t \in Nat,
         NEW r \in Writers(N, n, t), NEW day \in Days(N)
  PROVE  /\ AppendLine(r, day, n) \in Writers(N, n, t)
         /\ AppendLine(r, day, n).torn = r.torn
         /\ AppendLine(r, day, n).faults = r.faults
<1>1. r \in Rollups(N)
  BY DEF Writers, Whole
<1>a. PICK more : Written(N, n, t, r, day, more)
  BY DayWrittenKeeps
<1>2. /\ more \in Files(N)
      /\ WriteLine(r, day, n) = [r EXCEPT !.months = more]
      /\ TornIn(r.torn, more)
      /\ Explained(Lines(more), r.faults)
      /\ Fair(DropsOf(Lines(more)), n, t)
      /\ Leads([prev |-> day, seq |-> r.chain.seq + 1], Lines(more))
  BY <1>a DEF Written
<1>3. PICK head : head = [prev |-> day, seq |-> r.chain.seq + 1]
  OBVIOUS
<1>4. head \in [prev : SUBSET (1..N), seq : Nat]
  <2>1. day \in SUBSET (1..N)
    BY DaySetFacts
  <2>2. r.chain.seq + 1 \in Nat
    BY <1>1 DEF Rollups
  <2> QED
    BY <1>3, <2>1, <2>2
<1>5. PICK q : q = [r EXCEPT !.months = more, !.chain = head]
  OBVIOUS
<1>6. q = AppendLine(r, day, n)
  BY <1>2, <1>3, <1>5 DEF AppendLine
<1>7. /\ q \in Rollups(N) /\ q.months = more /\ q.chain = head
      /\ q.torn = r.torn /\ q.faults = r.faults
  <2>1. more \in Files(N)
    BY <1>2
  <2> QED
    BY <1>1, <1>4, <1>5, <2>1 DEF Rollups
<1>8. q \in Writers(N, n, t)
  BY <1>2, <1>3, <1>7 DEF Writers, Whole, Expects
<1> QED
  BY <1>6, <1>7, <1>8

\* A file is opened, and a part of a line in it is no line.
LEMMA FileKeeps ==
  ASSUME NEW N \in Nat, NEW n \in Nat, NEW t \in Nat,
         NEW r \in Writers(N, n, t), NEW month \in 0..N,
         NEW more, more = OpenMonth(r.months, month),
         NEW torn \in Tears(N), TornIn(torn, more),
         NEW q, q = [r EXCEPT !.months = more, !.torn = torn]
  PROVE  q \in Writers(N, n, t)
<1>1. r \in Rollups(N)
      /\ Explained(Lines(r.months), r.faults)
      /\ Expects(r.chain, Lines(r.months), r.faults)
      /\ Fair(DropsOf(Lines(r.months)), n, t)
  BY DEF Writers, Whole
<1>2. r.months \in Files(N)
  BY <1>1 DEF Rollups
<1>3. more \in Files(N) /\ Lines(more) = Lines(r.months)
  BY <1>2, LinesOfOpened
<1>5. /\ q \in Rollups(N) /\ q.months = more /\ q.torn = torn
      /\ q.chain = r.chain /\ q.faults = r.faults
  BY <1>1, <1>3 DEF Rollups
<1> QED
  BY <1>1, <1>3, <1>5 DEF Writers, Whole

\* An append that fails leaves a file, or a line that counts as a fault.
LEMMA FailKeeps ==
  ASSUME NEW N \in Nat, NEW n \in Nat, NEW t \in Nat,
         NEW r \in Writers(N, n, t), NEW day \in Days(N), NEW left
  PROVE  FailAppend(r, day, n, left) \in Writers(N, n, t)
<1>1. r \in Rollups(N) /\ TornIn(r.torn, r.months)
  BY DEF Writers, Whole
<1>2. PICK month \in 0..N : month = FileFor(r, day)
  BY <1>1, FileForFacts
<1>3. PICK months, torn : months = r.months /\ torn = r.torn
  OBVIOUS
<1>4. months \in Files(N) /\ torn \in Tears(N) /\ TornIn(torn, months)
  BY <1>1, <1>3 DEF Rollups
<1>5. PICK more : more = OpenMonth(months, month)
  OBVIOUS
<1>6. /\ DOMAIN more = DOMAIN months \cup {month}
      /\ \A m \in DOMAIN more : more[m] = LinesIn(months, m)
      /\ \A m \in DOMAIN months : more[m] = months[m]
  BY <1>5 DEF OpenMonth, LinesIn
<1>7. CASE left = "fragment"
  <2>1. TornIn(torn, more)
    <3>1. /\ DOMAIN torn \subseteq DOMAIN months
          /\ \A m \in DOMAIN torn : torn[m] \in 0..Len(months[m])
      BY <1>4 DEF TornIn
    <3> QED
      BY <1>6, <3>1 DEF TornIn
  <2>2. PICK q : q = [r EXCEPT !.months = more, !.torn = torn]
    OBVIOUS
  <2>3. q \in Writers(N, n, t)
    BY <1>3, <1>4, <1>5, <2>1, <2>2, FileKeeps
  <2>4. q = [r EXCEPT !.months = more]
    BY <1>1, <1>3, <2>2 DEF Rollups
  <2> QED
    BY <1>2, <1>3, <1>5, <1>7, <2>3, <2>4 DEF FailAppend
<1>8. CASE left = "torn"
  <2>1. PICK new : new = IF month \in DOMAIN torn THEN torn
                         ELSE [m \in DOMAIN torn \cup {month} |->
                                  IF m = month THEN Len(LinesIn(months, m)) ELSE torn[m]]
    OBVIOUS
  <2>2. /\ DOMAIN torn \subseteq 0..N /\ torn = [m \in DOMAIN torn |-> torn[m]]
        /\ \A m \in DOMAIN torn : torn[m] \in Nat
    BY <1>4 DEF Tears
  <2>3. LinesIn(months, month) \in Seq(RollupLines(N))
    <3>1. \A m \in DOMAIN months : months[m] \in Seq(RollupLines(N))
      BY <1>4, FilesFacts
    <3>2. <<>> \in Seq(RollupLines(N))
      OBVIOUS
    <3> QED
      BY <3>1, <3>2 DEF LinesIn
  <2>4. PICK K \in Nat : K = Len(LinesIn(months, month)) /\ Len(more[month]) = K
    BY <1>6, <2>3
  <2>5. /\ DOMAIN new = DOMAIN torn \cup {month}
        /\ \A m \in DOMAIN torn : new[m] = torn[m]
        /\ month \notin DOMAIN torn => new[month] = K
        /\ new = [m \in DOMAIN torn \cup {month} |-> new[m]]
    <3>1. CASE month \in DOMAIN torn
      <4>1. new = torn /\ DOMAIN torn \cup {month} = DOMAIN torn
        BY <2>1, <3>1
      <4> QED
        BY <2>2, <3>1, <4>1
    <3>2. CASE month \notin DOMAIN torn
      <4>1. new = [m \in DOMAIN torn \cup {month} |->
                      IF m = month THEN Len(LinesIn(months, m)) ELSE torn[m]]
        BY <2>1, <3>2
      <4> QED
        BY <2>4, <3>2, <4>1
    <3> QED
      BY <3>1, <3>2
  <2>6. new \in Tears(N)
    <3>1. PICK D : D = DOMAIN torn \cup {month}
      OBVIOUS
    <3>2. D \in SUBSET (0..N) /\ \A m \in D : new[m] \in Nat
      BY <2>2, <2>4, <2>5, <3>1
    <3>3. new = [m \in D |-> new[m]]
      BY <2>5, <3>1
    <3>4. new \in [D -> Nat]
      BY <3>2, <3>3
    <3> QED
      BY <3>2, <3>4 DEF Tears
  <2>7. TornIn(new, more)
    <3>1. /\ DOMAIN torn \subseteq DOMAIN months
          /\ \A m \in DOMAIN torn : torn[m] \in 0..Len(months[m])
      BY <1>4 DEF TornIn
    <3>2. DOMAIN new \subseteq DOMAIN more
      BY <1>6, <2>5, <3>1
    <3>3. ASSUME NEW m \in DOMAIN new PROVE new[m] \in 0..Len(more[m])
      <4>1. CASE m \in DOMAIN torn
        BY <1>6, <2>5, <3>1, <4>1
      <4>2. CASE m \notin DOMAIN torn
        <5>1. m = month /\ new[m] = K /\ K \in 0..K
          BY <2>5, <4>2
        <5> QED
          BY <2>4, <5>1
      <4> QED
        BY <4>1, <4>2
    <3> QED
      BY <3>2, <3>3 DEF TornIn
  <2>8. PICK q : q = [r EXCEPT !.months = more, !.torn = new]
    OBVIOUS
  <2>9. q \in Writers(N, n, t)
    BY <1>3, <1>5, <2>6, <2>7, <2>8, FileKeeps
  <2>10. q = Tear(r, month)
    BY <1>3, <1>5, <2>1, <2>8 DEF Tear
  <2> QED
    BY <1>2, <1>8, <2>9, <2>10 DEF FailAppend
<1>9. CASE left = "line"
  <2>a. PICK line : Written(N, n, t, r, day, line)
    BY DayWrittenKeeps
  <2>1. /\ line \in Files(N)
        /\ WriteLine(r, day, n) = [r EXCEPT !.months = line]
        /\ TornIn(r.torn, line)
        /\ Explained(Lines(line), r.faults)
        /\ Fair(DropsOf(Lines(line)), n, t)
    BY <2>a DEF Written
  <2>2. PICK q : q = [r EXCEPT !.months = line, !.faults = r.faults + 1,
                               !.left = r.left \cup day]
    OBVIOUS
  <2>3. q = FailAppend(r, day, n, left)
    <3>1. FailAppend(r, day, n, left)
            = [WriteLine(r, day, n) EXCEPT !.faults = @ + 1, !.left = @ \cup day]
      BY <1>9 DEF FailAppend
    <3> QED
      BY <1>1, <2>1, <2>2, <3>1 DEF Rollups
  <2>4. /\ q.months = line /\ q.torn = r.torn /\ q.chain = r.chain
        /\ q.faults = r.faults + 1 /\ r.faults \in Nat
    BY <1>1, <2>2 DEF Rollups
  <2>5. q \in Rollups(N)
    <3>1. r.left \cup day \in SUBSET (1..N)
      BY <1>1, DaySetFacts DEF Rollups
    <3>2. r.faults + 1 \in Nat /\ line \in Files(N)
      BY <2>1, <2>4
    <3> QED
      BY <1>1, <2>2, <3>1, <3>2 DEF Rollups
  <2>6. PICK lines \in Seq(RollupLines(N)) : lines = Lines(line)
    BY <2>1, LinesAre
  <2>7. Cardinality(BreaksIn(lines)) <= r.faults /\ Cardinality(BreaksIn(lines)) \in Nat
    BY <2>1, <2>6, BreaksFacts DEF Explained
  <2>8. /\ Explained(Lines(q.months), q.faults)
        /\ Expects(q.chain, Lines(q.months), q.faults)
    BY <2>4, <2>6, <2>7 DEF Explained, Expects
  <2>9. q \in Writers(N, n, t)
    BY <2>1, <2>4, <2>5, <2>8 DEF Writers, Whole
  <2> QED
    BY <2>3, <2>9
<1>10. CASE left \notin {"fragment", "torn", "line"}
  BY <1>10 DEF FailAppend
<1> QED
  BY <1>7, <1>8, <1>9, <1>10

\* So many of the days that wait go out in order.
LEMMA FlushedKeeps ==
  ASSUME NEW N \in Nat, NEW n \in Nat, NEW t \in Nat,
         NEW r \in Writers(N, n, t), NEW k \in 0..Len(r.pending)
  PROVE  Flushed(r, n, k) \in Writers(N, n, t)
<1>1. PICK pending, U :
          /\ pending = r.pending
          /\ U = {q \in Writers(N, n, t) : q.torn = r.torn /\ q.faults = r.faults}
  OBVIOUS
<1>2. r \in Rollups(N) /\ pending \in Seq(Days(N)) /\ Len(pending) <= MaxPendingDays
  BY <1>1 DEF Writers, Whole, Rollups
<1>3. PICK K \in Nat : K = Len(pending)
  BY <1>2
<1> DEFINE next == [s \in U \X (1..K) |-> AppendLine(s[1], pending[s[2]], n)]
           Recursive(g) == g = [m \in 0..K |->
                                   IF m = 0 THEN r ELSE AppendLine(g[m - 1], pending[m], n)]
<1>4. ASSUME NEW q \in U, NEW m \in 1..K PROVE AppendLine(q, pending[m], n) \in U
  <2>1. PICK day \in Days(N) : day = pending[m]
    BY <1>2, <1>3
  <2>2. q \in Writers(N, n, t) /\ q.torn = r.torn /\ q.faults = r.faults
    BY <1>1
  <2>3. PICK more : more = AppendLine(q, day, n)
    OBVIOUS
  <2>4. more \in Writers(N, n, t) /\ more.torn = q.torn /\ more.faults = q.faults
    BY <2>2, <2>3, AppendKeeps
  <2> QED
    BY <1>1, <2>1, <2>2, <2>3, <2>4
<1>5. next \in [U \X (1..K) -> U]
  BY <1>4
<1>6. \A q \in U, m \in 1..K : next[<<q, m>>] = AppendLine(q, pending[m], n)
  OBVIOUS
<1> HIDE DEF next
<1>7. /\ \E f : Loop(f, K, r, next)
      /\ \A g : Loop(g, K, r, next) => RunsThrough(g, K, U, r, next)
  <2>1. r \in U
    BY <1>1
  <2> QED
    BY <1>5, <2>1, LoopRuns
<1>8. \A m \in 1..K : m \in 0..K /\ m - 1 \in 0..K /\ m # 0
  OBVIOUS
<1>9. PICK f : Loop(f, K, r, next)
  BY <1>7
<1>10. f \in [0..K -> U] /\ f[0] = r /\ \A m \in 1..K : f[m] = AppendLine(f[m - 1], pending[m], n)
  <2>1. f \in [0..K -> U] /\ f[0] = r /\ \A m \in 1..K : f[m] = next[<<f[m - 1], m>>]
    BY <1>7, <1>9 DEF RunsThrough
  <2>2. \A m \in 1..K : f[m - 1] \in U
    BY <1>8, <2>1
  <2> QED
    BY <1>6, <2>1, <2>2
<1>11. Recursive(f)
  <2>1. \A m \in 0..K : m = 0 \/ m \in 1..K
    OBVIOUS
  <2>2. \A m \in 0..K : f[m] = IF m = 0 THEN r ELSE AppendLine(f[m - 1], pending[m], n)
    BY <1>10, <2>1
  <2> QED
    BY <1>10, <2>2
<1>12. PICK g : g = Flushing(r, n)
  OBVIOUS
<1>13. Recursive(g)
  <2>1. Len(r.pending) = K /\ r.pending = pending
    BY <1>1, <1>3
  <2>2. f = [m \in 0..Len(r.pending) |->
                IF m = 0 THEN r ELSE AppendLine(f[m - 1], r.pending[m], n)]
    BY <1>11, <2>1
  <2>3. g = [m \in 0..Len(r.pending) |->
                IF m = 0 THEN r ELSE AppendLine(g[m - 1], r.pending[m], n)]
    BY <1>12, <2>2 DEF Flushing
  <2> QED
    BY <2>1, <2>3
<1>14. \A m \in 0..K : f[m] = g[m]
  <2>1. g[0] = r
    BY <1>13
  <2>2. \A m \in 1..K : g[m] = AppendLine(g[m - 1], pending[m], n)
    BY <1>8, <1>13
  <2>3. \A m \in 1..K : f[m - 1] = g[m - 1] => f[m] = g[m]
    BY <1>10, <2>2
  <2>4. AgreeStepwise(f, g, K)
    BY <1>10, <2>1, <2>3 DEF AgreeStepwise
  <2> QED
    BY <2>4, RecursionsAgree
<1>15. k \in 0..K
  BY <1>1, <1>3
<1>16. PICK flushed : flushed = g[k]
  OBVIOUS
<1>17. /\ flushed \in Writers(N, n, t)
       /\ flushed.torn = r.torn /\ flushed.faults = r.faults
  BY <1>1, <1>10, <1>14, <1>15, <1>16
<1>18. PICK rest : rest = SubSeq(pending, k + 1, K)
  OBVIOUS
<1>19. rest \in Seq(Days(N)) /\ Len(rest) <= MaxPendingDays
  <2>1. rest \in Seq(Days(N)) /\ Len(rest) = K - k
    BY <1>2, <1>3, <1>15, <1>18
  <2>2. MaxPendingDays \in Nat
    BY RollupAssumption
  <2> QED
    BY <1>2, <1>3, <1>15, <2>1, <2>2
<1>20. PICK q : q = [r EXCEPT !.months = flushed.months, !.chain = flushed.chain,
                              !.pending = rest]
  OBVIOUS
<1>21. q = Flushed(r, n, k)
  BY <1>1, <1>3, <1>12, <1>16, <1>18, <1>20 DEF Flushed
<1>22. flushed \in Rollups(N)
  BY <1>17 DEF Writers, Whole
<1>23. /\ q \in Rollups(N) /\ q.months = flushed.months /\ q.chain = flushed.chain
       /\ q.torn = r.torn /\ q.faults = r.faults
  BY <1>2, <1>19, <1>20, <1>22 DEF Rollups
<1>24. q \in Writers(N, n, t)
  BY <1>17, <1>23, SameFiles
<1> QED
  BY <1>21, <1>24

\* They go out until an append fails.
LEMMA FlushKeeps ==
  ASSUME NEW N \in Nat, NEW n \in Nat, NEW t \in Nat,
         NEW r \in Writers(N, n, t), NEW take, take.room \in Nat
  PROVE  FlushPending(r, n, take) \in Writers(N, n, t)
<1>1. PICK pending : pending = r.pending
  OBVIOUS
<1>2. pending \in Seq(Days(N))
  BY <1>1 DEF Writers, Whole, Rollups
<1>3. PICK K \in Nat : K = Len(pending)
  BY <1>2
<1>4. CASE take.room >= K
  <2>1. Flushed(r, n, K) \in Writers(N, n, t)
    <3>1. K \in 0..Len(r.pending)
      BY <1>1, <1>3
    <3> QED
      BY <3>1, FlushedKeeps
  <2> QED
    BY <1>1, <1>3, <1>4, <2>1 DEF FlushPending
<1>5. CASE ~ (take.room >= K)
  <2>1. PICK k \in Nat : k = take.room /\ k < K
    BY <1>5
  <2>2. PICK q \in Writers(N, n, t) : q = Flushed(r, n, k)
    <3>1. k \in 0..Len(r.pending)
      BY <1>1, <1>3, <2>1
    <3> QED
      BY <3>1, FlushedKeeps
  <2>3. PICK day \in Days(N) : day = pending[k + 1]
    BY <1>2, <1>3, <2>1
  <2>4. FailAppend(q, day, n, take.left) \in Writers(N, n, t)
    BY FailKeeps
  <2> QED
    BY <1>1, <1>3, <1>5, <2>1, <2>2, <2>3, <2>4 DEF FlushPending
<1> QED
  BY <1>4, <1>5

\* A day is appended behind those that wait.
LEMMA AppendDayKeeps ==
  ASSUME NEW N \in Nat, NEW n \in Nat, NEW t \in Nat,
         NEW r \in Writers(N, n, t), NEW day \in Days(N),
         NEW take, take.room \in Nat
  PROVE  AppendDay(r, day, n, take) \in Writers(N, n, t)
<1>1. PICK flushed \in Writers(N, n, t) : flushed = FlushPending(r, n, take)
  BY FlushKeeps
<1>2. /\ AppendLine(flushed, day, n) \in Writers(N, n, t)
      /\ FailAppend(flushed, day, n, take.left) \in Writers(N, n, t)
  BY AppendKeeps, FailKeeps
<1>3. AppendDay(r, day, n, take)
        = CASE take.room > Len(r.pending) -> AppendLine(flushed, day, n)
            [] take.room = Len(r.pending) -> FailAppend(flushed, day, n, take.left)
            [] OTHER                      -> flushed
  BY <1>1 DEF AppendDay
<1>4. CASE take.room = Len(r.pending)
  <2>1. ~ (take.room > Len(r.pending))
    BY <1>4
  <2> QED
    BY <1>2, <1>3, <1>4, <2>1
<1>5. CASE take.room # Len(r.pending)
  <2>1. CASE take.room > Len(r.pending)
    BY <1>2, <1>3, <1>5, <2>1
  <2>2. CASE ~ (take.room > Len(r.pending))
    BY <1>1, <1>3, <1>5, <2>2
  <2> QED
    BY <2>1, <2>2
<1> QED
  BY <1>4, <1>5

\* A refused day waits, behind the two months of days at most.
LEMMA KeepPendingKeeps ==
  ASSUME NEW N \in Nat, NEW n \in Nat, NEW t \in Nat,
         NEW r \in Writers(N, n, t), NEW day \in Days(N)
  PROVE  KeepPending(r, day) \in Writers(N, n, t)
<1>1. r \in Rollups(N)
  BY DEF Writers, Whole
<1>2. PICK pending : pending = r.pending
  OBVIOUS
<1>3. pending \in Seq(Days(N)) /\ Len(pending) <= MaxPendingDays /\ MaxPendingDays \in Nat \ {0}
  BY <1>1, <1>2, RollupAssumption DEF Rollups
<1>4. PICK short : short = IF Len(pending) >= MaxPendingDays THEN Tail(pending) ELSE pending
  OBVIOUS
<1>5. short \in Seq(Days(N)) /\ Len(short) + 1 <= MaxPendingDays
  <2>1. CASE Len(pending) >= MaxPendingDays
    <3>1. pending # <<>>
      BY <1>3, <2>1
    <3> QED
      BY <1>3, <1>4, <2>1, <3>1
  <2>2. CASE ~ (Len(pending) >= MaxPendingDays)
    BY <1>3, <1>4, <2>2
  <2> QED
    BY <2>1, <2>2
<1>6. PICK more : more = Append(short, day)
  OBVIOUS
<1>7. more \in Seq(Days(N)) /\ Len(more) <= MaxPendingDays
  BY <1>5, <1>6
<1>8. PICK q : q = [r EXCEPT !.pending = more]
  OBVIOUS
<1>9. q = KeepPending(r, day)
  BY <1>2, <1>4, <1>6, <1>8 DEF KeepPending
<1>10. /\ q \in Rollups(N) /\ q.months = r.months /\ q.chain = r.chain
       /\ q.torn = r.torn /\ q.faults = r.faults
  BY <1>1, <1>7, <1>8 DEF Rollups
<1> QED
  BY <1>9, <1>10, SameFiles

\* The oldest months go, and the others have no more breaks for it.
LEMMA PruneKeeps ==
  ASSUME NEW N \in Nat, NEW n \in Nat, NEW t \in Nat,
         NEW r \in Writers(N, n, t), NEW reference \in Nat
  PROVE  Prune(r, reference) \in Writers(N, n, t)
<1>1. /\ r \in Rollups(N) /\ TornIn(r.torn, r.months)
      /\ Explained(Lines(r.months), r.faults)
      /\ Expects(r.chain, Lines(r.months), r.faults)
      /\ Fair(DropsOf(Lines(r.months)), n, t)
  BY DEF Writers, Whole
<1>2. PICK months, chain, torn, faults : /\ months = r.months /\ chain = r.chain
                                         /\ torn = r.torn /\ faults = r.faults
  OBVIOUS
<1>3. months \in Files(N) /\ torn \in Tears(N) /\ faults \in Nat
  BY <1>1, <1>2 DEF Rollups
<1>4. PICK oldest \in Nat :
          oldest = IF reference >= RetentionDays THEN reference - RetentionDays ELSE 0
  <2>1. RetentionDays \in Nat
    BY RollupAssumption
  <2>2. PICK x : x = IF reference >= RetentionDays THEN reference - RetentionDays ELSE 0
    OBVIOUS
  <2>3. x \in Nat
    BY <2>1, <2>2
  <2> QED
    BY <2>2, <2>3
<1>5. PICK kept : kept = Younger(months, oldest)
  OBVIOUS
<1>6. kept \in Files(N) /\ \E gone \in Seq(RollupLines(N)) : Lines(months) = gone \o Lines(kept)
  <2>1. /\ Younger(months, oldest) \in Files(N)
        /\ \E gone \in Seq(RollupLines(N)) :
              Lines(months) = gone \o Lines(Younger(months, oldest))
    BY <1>3, LinesOfYounger
  <2> QED
    BY <1>5, <2>1
<1>7. PICK gone \in Seq(RollupLines(N)) : Lines(months) = gone \o Lines(kept)
  BY <1>6
<1>8. PICK rest \in Seq(RollupLines(N)) : rest = Lines(kept)
  BY <1>6, LinesAre
<1>9. /\ Explained(gone \o rest, faults) /\ Expects(chain, gone \o rest, faults)
      /\ Fair(DropsOf(gone \o rest), n, t)
  BY <1>1, <1>2, <1>7, <1>8
<1>10. Explained(rest, faults) /\ Expects(chain, rest, faults) /\ Fair(DropsOf(rest), n, t)
  <2>1. PICK old \in Seq(Nat), new \in Seq(Nat) : old = DropsOf(gone) /\ new = DropsOf(rest)
    BY RollupDrops, DropsOfFacts
  <2>2. DropsOf(gone \o rest) = old \o new
    BY <2>1, RollupDrops, DropsOfFacts
  <2>3. Fair(new, n, t)
    BY <1>9, <2>2, FairRest
  <2>4. Explained(rest, faults) /\ Expects(chain, rest, faults)
    BY <1>3, <1>9, ExplainedRest
  <2> QED
    BY <2>1, <2>3, <2>4
<1>11. ASSUME NEW D, D \subseteq 0..N
       PROVE  {m \in D : LastDay(m) + RetentionDays >= reference} = {m \in D : m >= oldest}
  <2>1. \A m \in D : m \in Nat
    BY <1>11
  <2>2. \A m \in D : LastDay(m) + RetentionDays >= reference <=> m >= oldest
    BY <1>4, <2>1, RollupAssumption DEF LastDay
  <2> QED
    BY <2>2
<1>12. PICK young : young = [m \in {m \in DOMAIN torn : m >= oldest} |-> torn[m]]
  OBVIOUS
<1>13. /\ DOMAIN torn \subseteq DOMAIN months /\ DOMAIN months \subseteq 0..N
       /\ \A m \in DOMAIN torn : torn[m] \in Nat /\ torn[m] \in 0..Len(months[m])
  BY <1>1, <1>2, <1>3, FilesFacts DEF TornIn, Tears
<1>14. young \in Tears(N) /\ TornIn(young, kept)
  <2>1. PICK D : D = {m \in DOMAIN torn : m >= oldest}
    OBVIOUS
  <2>2. D \in SUBSET (0..N) /\ young \in [D -> Nat]
    BY <1>12, <1>13, <2>1
  <2>3. \A m \in D : m \in DOMAIN kept /\ kept[m] = months[m]
    BY <1>5, <1>13, <2>1 DEF Younger
  <2>4. DOMAIN young = D /\ \A m \in D : young[m] = torn[m] /\ m \in DOMAIN torn
    BY <1>12, <2>1
  <2>5. DOMAIN young \subseteq DOMAIN kept
    BY <2>3, <2>4
  <2>6. \A m \in DOMAIN young : young[m] \in 0..Len(kept[m])
    BY <1>13, <2>3, <2>4
  <2> QED
    BY <2>2, <2>5, <2>6 DEF Tears, TornIn
<1>15. /\ kept = Restrict(months, {m \in DOMAIN months : LastDay(m) + RetentionDays >= reference})
       /\ young = Restrict(torn, {m \in DOMAIN torn : LastDay(m) + RetentionDays >= reference})
  <2>1. PICK stays, wets :
            /\ stays = {m \in DOMAIN months : LastDay(m) + RetentionDays >= reference}
            /\ wets = {m \in DOMAIN torn : LastDay(m) + RetentionDays >= reference}
    OBVIOUS
  <2>2. stays = {m \in DOMAIN months : m >= oldest} /\ wets = {m \in DOMAIN torn : m >= oldest}
    <3>1. DOMAIN torn \subseteq 0..N
      BY <1>13
    <3> QED
      BY <1>11, <1>13, <2>1, <3>1
  <2>3. stays \subseteq DOMAIN months /\ wets \subseteq DOMAIN torn
    BY <2>2
  <2> QED
    BY <1>5, <1>12, <2>1, <2>2, <2>3 DEF Restrict, Younger
<1>16. PICK q : q = [r EXCEPT !.months = kept, !.torn = young]
  OBVIOUS
<1>17. q = Prune(r, reference)
  BY <1>2, <1>15, <1>16 DEF Prune
<1>18. /\ q \in Rollups(N) /\ q.months = kept /\ q.chain = chain
       /\ q.torn = young /\ q.faults = faults
  BY <1>1, <1>2, <1>6, <1>14, <1>16 DEF Rollups
<1>19. q \in Writers(N, n, t)
  BY <1>8, <1>10, <1>14, <1>18 DEF Writers, Whole
<1> QED
  BY <1>17, <1>19

\* A day is closed behind those that wait.
LEMMA CloseKeeps ==
  ASSUME NEW N \in Nat, NEW n \in Nat, NEW t \in Nat,
         NEW r \in Writers(N, n, t), NEW day \in Days(N),
         NEW take, take.room \in Nat, NEW today \in Nat
  PROVE  Close(r, day, n, take, today) \in Writers(N, n, t)
<1>1. PICK appended \in Writers(N, n, t) : appended = AppendDay(r, day, n, take)
  BY AppendDayKeeps
<1>2. KeepPending(appended, day) \in Writers(N, n, t)
  BY KeepPendingKeeps
<1>3. PICK kept : kept = IF take.room > Len(r.pending) THEN appended
                         ELSE KeepPending(appended, day)
  OBVIOUS
<1>4. kept \in Writers(N, n, t)
  BY <1>2, <1>3
<1>5. PICK reference : reference = Min({DayOfSet(day), today})
  OBVIOUS
<1>6. reference \in Nat
  <2>1. {DayOfSet(day), today} \in SUBSET Nat /\ {DayOfSet(day), today} # {}
    BY DaySetFacts
  <2> QED
    BY <1>5, <2>1, MinFacts
<1>7. Prune(kept, reference) \in Writers(N, n, t)
  BY <1>4, <1>6, PruneKeeps
<1> QED
  BY <1>1, <1>3, <1>5, <1>7 DEF Close

\* A window is folded into its day, or closes another one.
LEMMA FoldKeeps ==
  ASSUME NEW N \in Nat, NEW n \in Nat, NEW t \in Nat,
         NEW r \in Writers(N, n, t), NEW ts \in 1..N, NEW take, take.room \in Nat
  PROVE  FoldWindow(r, ts, n, take) \in Writers(N, n, t)
<1>1. r \in Rollups(N)
  BY DEF Writers, Whole
<1>2. PICK open : open = r.open
  OBVIOUS
<1>3. open \in Days(N) \cup {{}}
  BY <1>1, <1>2 DEF Rollups
<1>4. open \in SUBSET (1..N)
  BY <1>3, DaySetFacts
<1>5. CASE Closes(r, ts)
  <2>1. open \in Days(N)
    BY <1>2, <1>3, <1>5 DEF Closes
  <2>2. {} \cup {ts} \in Days(N)
    BY DayGrows
  <2>3. PICK q : q = [r EXCEPT !.open = {ts}]
    OBVIOUS
  <2>4. /\ q \in Rollups(N) /\ q.months = r.months /\ q.chain = r.chain
        /\ q.torn = r.torn /\ q.faults = r.faults
    BY <1>1, <2>2, <2>3 DEF Rollups
  <2>5. q \in Writers(N, n, t)
    BY <2>4, SameFiles
  <2>6. DayOf(ts) \in Nat
    BY DayFacts
  <2>7. PICK today \in Nat : today = DayOf(ts)
    BY <2>6
  <2>8. Close(q, open, n, take, today) \in Writers(N, n, t)
    BY <2>1, <2>5, CloseKeeps
  <2> QED
    BY <1>2, <1>5, <2>3, <2>7, <2>8 DEF FoldWindow
<1>6. CASE ~ Closes(r, ts)
  <2>1. \A w \in open : DayOf(w) = DayOf(ts)
    <3>1. CASE open = {}
      BY <3>1
    <3>2. CASE open # {}
      <4>1. open \in Days(N) /\ DayOfSet(open) = DayOf(ts)
        BY <1>2, <1>3, <1>6, <3>2 DEF Closes
      <4> QED
        BY <4>1, DaySetFacts
    <3> QED
      BY <3>1, <3>2
  <2>2. open \cup {ts} \in Days(N)
    BY <1>4, <2>1, DayGrows
  <2>3. PICK q : q = [r EXCEPT !.open = open \cup {ts}]
    OBVIOUS
  <2>4. /\ q \in Rollups(N) /\ q.months = r.months /\ q.chain = r.chain
        /\ q.torn = r.torn /\ q.faults = r.faults
    BY <1>1, <2>2, <2>3 DEF Rollups
  <2>5. q \in Writers(N, n, t)
    BY <2>4, SameFiles
  <2> QED
    BY <1>2, <1>6, <2>3, <2>5 DEF FoldWindow
<1> QED
  BY <1>5, <1>6

\* The snapshot is beside the chain.
LEMMA ObserveKeeps ==
  ASSUME NEW N \in Nat, NEW n \in Nat, NEW t \in Nat,
         NEW r \in Writers(N, n, t), NEW ts \in 1..N, NEW take, take.room \in Nat,
         NEW saved \in BOOLEAN
  PROVE  Observe(r, ts, n, take, saved) \in Writers(N, n, t)
<1>1. PICK q \in Writers(N, n, t) : q = FoldWindow(r, ts, n, take)
  BY FoldKeeps
<1>2. q \in Rollups(N) /\ SnapshotEvery \in Nat \ {0}
  BY RollupAssumption DEF Writers, Whole
<1>3. q.since \in 0..(SnapshotEvery - 1) /\ q.open \in Days(N) \cup {{}}
      /\ q.partial \in Days(N) \cup {{}}
  BY <1>2 DEF Rollups
<1>4. CASE q.since + 1 < SnapshotEvery
  <2>1. PICK s : s = [q EXCEPT !.since = q.since + 1]
    OBVIOUS
  <2>2. q.since + 1 \in 0..(SnapshotEvery - 1)
    BY <1>2, <1>3, <1>4
  <2>3. /\ s \in Rollups(N) /\ s.months = q.months /\ s.chain = q.chain
        /\ s.torn = q.torn /\ s.faults = q.faults
    BY <1>2, <2>1, <2>2 DEF Rollups
  <2>4. s \in Writers(N, n, t)
    BY <2>3, SameFiles
  <2> QED
    BY <1>1, <1>4, <2>1, <2>4 DEF Observe, Snapshot
<1>5. CASE ~ (q.since + 1 < SnapshotEvery)
  <2>1. PICK partial : partial = IF saved THEN q.open ELSE q.partial
    OBVIOUS
  <2>2. partial \in Days(N) \cup {{}} /\ 0 \in 0..(SnapshotEvery - 1)
    BY <1>2, <1>3, <2>1
  <2>3. PICK s : s = [q EXCEPT !.since = 0, !.partial = partial]
    OBVIOUS
  <2>4. /\ s \in Rollups(N) /\ s.months = q.months /\ s.chain = q.chain
        /\ s.torn = q.torn /\ s.faults = q.faults
    BY <1>2, <2>2, <2>3 DEF Rollups
  <2>5. s \in Writers(N, n, t)
    BY <2>4, SameFiles
  <2> QED
    BY <1>1, <1>5, <2>1, <2>3, <2>5 DEF Observe, Snapshot
<1> QED
  BY <1>4, <1>5

\* A process that ends leaves its files as they are.
LEMMA ForgetKeeps ==
  ASSUME NEW N \in Nat, NEW n \in Nat, NEW t \in Nat,
         NEW r \in Whole(N, n, t)
  PROVE  Forget(r) \in Whole(N, n, t)
<1>1. r \in Rollups(N) /\ SnapshotEvery \in Nat \ {0} /\ MaxPendingDays \in Nat
  BY RollupAssumption DEF Whole
<1>2. PICK q : q = Forget(r)
  OBVIOUS
<1>3. Chain0 \in [prev : SUBSET (1..N), seq : Nat]
  BY DEF Chain0
<1>4. <<>> \in {p \in Seq(Days(N)) : Len(p) <= MaxPendingDays}
  BY <1>1
<1>5. {} \in Days(N) \cup {{}} /\ 0 \in 0..(SnapshotEvery - 1)
  BY <1>1
<1>6. q = [r EXCEPT !.open = {}, !.since = 0, !.pending = <<>>, !.chain = Chain0]
  BY <1>2 DEF Forget
<1>7. q \in Rollups(N) /\ q.months = r.months /\ q.torn = r.torn /\ q.faults = r.faults
  BY <1>1, <1>3, <1>4, <1>5, <1>6 DEF Rollups
<1> QED
  BY <1>2, <1>7, SameFiles

\* The day so far goes behind the days that wait.
LEMMA AppendOpenKeeps ==
  ASSUME NEW N \in Nat, NEW n \in Nat, NEW t \in Nat,
         NEW r \in Writers(N, n, t), NEW take, take.room \in Nat
  PROVE  AppendOpen(r, n, take) \in Writers(N, n, t)
<1>1. PICK open : open = r.open
  OBVIOUS
<1>2. open \in Days(N) \cup {{}}
  BY <1>1 DEF Writers, Whole, Rollups
<1>3. CASE open = {}
  BY <1>1, <1>3, FlushKeeps DEF AppendOpen
<1>4. CASE open # {}
  <2>1. AppendDay(r, open, n, take) \in Writers(N, n, t)
    BY <1>2, <1>4, AppendDayKeeps
  <2> QED
    BY <1>1, <1>4, <2>1 DEF AppendOpen
<1> QED
  BY <1>3, <1>4

\* A stop closes the day, when the directory takes it.
LEMMA ShutdownKeeps ==
  ASSUME NEW N \in Nat, NEW n \in Nat, NEW t \in Nat,
         NEW r \in Writers(N, n, t), NEW take, take.room \in Nat,
         NEW saved \in BOOLEAN
  PROVE  Shutdown(r, n, take, saved) \in Whole(N, n, t)
<1>1. PICK open : open = r.open
  OBVIOUS
<1>2. open \in Days(N) \cup {{}}
  BY <1>1 DEF Writers, Whole, Rollups
<1>3. PICK appended \in Writers(N, n, t) : appended = AppendOpen(r, n, take)
  BY AppendOpenKeeps
<1>4. PICK refused : refused = (open # {} /\ take.room <= Len(r.pending))
  OBVIOUS
<1>5. PICK closed : closed = IF open = {} \/ refused THEN appended
                             ELSE Prune(appended, DayOfSet(open))
  OBVIOUS
<1>6. closed \in Writers(N, n, t)
  <2>1. CASE open # {}
    <3>1. DayOfSet(open) \in Nat
      BY <1>2, <2>1, DaySetFacts
    <3>2. Prune(appended, DayOfSet(open)) \in Writers(N, n, t)
      BY <3>1, PruneKeeps
    <3> QED
      BY <1>5, <3>2
  <2>2. CASE open = {}
    BY <1>5, <2>2
  <2> QED
    BY <2>1, <2>2
<1>7. PICK partial : partial = IF refused THEN open ELSE {}
  OBVIOUS
<1>8. partial \in Days(N) \cup {{}}
  BY <1>2, <1>4, <1>7
<1>9. PICK left : left = IF saved THEN [closed EXCEPT !.partial = partial] ELSE closed
  OBVIOUS
<1>10. /\ left \in Rollups(N) /\ left.months = closed.months
       /\ left.torn = closed.torn /\ left.faults = closed.faults
  <2>1. closed \in Rollups(N)
    BY <1>6 DEF Writers, Whole
  <2> QED
    BY <1>8, <1>9, <2>1 DEF Rollups
<1>11. left \in Whole(N, n, t)
  BY <1>6, <1>10, SameFiles DEF Writers
<1>12. Forget(left) \in Whole(N, n, t)
  BY <1>11, ForgetKeeps
<1>13. Shutdown(r, n, take, saved) = Forget(left)
  BY <1>1, <1>3, <1>4, <1>5, <1>7, <1>9 DEF Shutdown
<1> QED
  BY <1>12, <1>13

\* The head that some lines leave.
LEMMA ChainAfterFacts ==
  ASSUME NEW N \in Nat, NEW lines \in Seq(RollupLines(N))
  PROVE  /\ ChainAfter(lines) \in [prev : SUBSET (1..N), seq : Nat]
         /\ Leads(ChainAfter(lines), lines)
<1>1. CASE lines = <<>>
  BY <1>1 DEF ChainAfter, Chain0, Leads
<1>2. CASE lines # <<>>
  <2>1. PICK last : last = lines[Len(lines)]
    OBVIOUS
  <2>2. last \in RollupLines(N)
    BY <1>2, <2>1
  <2>3. last.windows \in SUBSET (1..N) /\ last.seq + 1 \in Nat
    <3>1. last.windows \in Days(N) /\ last.seq \in Nat
      BY <2>2 DEF RollupLines
    <3> QED
      BY <3>1, DaySetFacts
  <2>4. ChainAfter(lines) = [prev |-> last.windows, seq |-> last.seq + 1]
    BY <1>2, <2>1 DEF ChainAfter, Last
  <2> QED
    BY <2>1, <2>3, <2>4 DEF Leads
<1> QED
  BY <1>1, <1>2

\* What can be read of the files are files.
LEMMA LegibleFacts ==
  ASSUME NEW N \in Nat, NEW r \in Rollups(N), TornIn(r.torn, r.months)
  PROVE  Legible(r) \in Files(N)
<1>1. PICK months, torn, L : months = r.months /\ torn = r.torn /\ L = RollupLines(N)
  OBVIOUS
<1>2. months \in Files(N)
  BY <1>1 DEF Rollups
<1>3. /\ DOMAIN months \subseteq 0..N
      /\ \A m \in DOMAIN months : months[m] \in Seq(L)
  BY <1>1, <1>2, FilesFacts
<1>4. \A m \in DOMAIN torn : torn[m] \in 0..Len(months[m])
  BY <1>1 DEF TornIn
<1>5. PICK read : read = [m \in DOMAIN months |->
                             IF m \in DOMAIN torn THEN SubSeq(months[m], 1, torn[m])
                             ELSE months[m]]
  OBVIOUS
<1>6. ASSUME NEW m \in DOMAIN months PROVE read[m] \in Seq(L)
  <2>1. CASE m \in DOMAIN torn
    <3>1. PICK lines \in Seq(L), k \in Nat :
              lines = months[m] /\ k = torn[m] /\ k <= Len(lines)
      BY <1>3, <1>4, <2>1
    <3>2. SubSeq(lines, 1, k) \in Seq(L)
      BY <3>1
    <3> QED
      BY <1>5, <2>1, <3>1, <3>2
  <2>2. CASE m \notin DOMAIN torn
    BY <1>3, <1>5, <2>2
  <2> QED
    BY <2>1, <2>2
<1>7. read \in Files(N)
  <2>1. read \in [DOMAIN months -> Seq(L)]
    BY <1>5, <1>6
  <2> QED
    BY <1>1, <1>3, <2>1 DEF Files
<1> QED
  BY <1>1, <1>5, <1>7 DEF Legible

\* A start takes the head from the last line it reads, whichever month holds it;
\* where that is not the last line, the next one has had its fault.
LEMMA ResumedKeeps ==
  ASSUME NEW N \in Nat, NEW n \in Nat, NEW t \in Nat, NEW r \in Whole(N, n, t)
  PROVE  Resumed(r) \in Writers(N, n, t)
<1>1. PICK idle \in Whole(N, n, t) : idle = Forget(r)
  BY ForgetKeeps
<1>2. idle \in Rollups(N) /\ r \in Rollups(N) /\ TornIn(r.torn, r.months)
      /\ TornIn(idle.torn, idle.months)
      /\ Explained(Lines(idle.months), idle.faults)
      /\ Fair(DropsOf(Lines(idle.months)), n, t)
  BY DEF Whole
<1>3. idle.months = r.months
  BY <1>1, <1>2 DEF Forget, Rollups
<1>4. PICK months, faults : months = r.months /\ faults = idle.faults
  OBVIOUS
<1>5. months \in Files(N) /\ faults \in Nat
  BY <1>2, <1>4 DEF Rollups
<1>6. PICK lines \in Seq(RollupLines(N)) : lines = Lines(months)
  BY <1>5, LinesAre
<1>7. PICK read \in Seq(RollupLines(N)) : read = Lines(Legible(r))
  <2>1. Legible(r) \in Files(N)
    BY <1>2, LegibleFacts
  <2> QED
    BY <2>1, LinesAre
<1>8. PICK chain : chain = ChainAfter(read)
  OBVIOUS
<1>9. chain \in [prev : SUBSET (1..N), seq : Nat] /\ Leads(ChainAfter(lines), lines)
  BY <1>8, ChainAfterFacts
<1>10. PICK more \in Nat : more = faults + (IF chain = ChainAfter(lines) THEN 0 ELSE 1)
  <2>1. faults + (IF chain = ChainAfter(lines) THEN 0 ELSE 1) \in Nat
    BY <1>5
  <2> QED
    BY <2>1
<1>11. PICK q : q = [idle EXCEPT !.chain = chain, !.faults = more]
  OBVIOUS
<1>12. q = Resumed(r)
  <2>1. chain = ResumeChain(r)
    BY <1>7, <1>8 DEF ResumeChain
  <2> QED
    BY <1>1, <1>2, <1>4, <1>6, <1>10, <1>11, <2>1 DEF Resumed, Rollups
<1>13. /\ q \in Rollups(N) /\ q.months = months /\ q.torn = idle.torn
       /\ q.chain = chain /\ q.faults = more
  BY <1>2, <1>3, <1>4, <1>9, <1>10, <1>11 DEF Rollups
<1>14. Explained(lines, more) /\ Expects(chain, lines, more)
  <2>1. Cardinality(BreaksIn(lines)) \in Nat /\ Cardinality(BreaksIn(lines)) <= faults
    BY <1>2, <1>3, <1>4, <1>6, BreaksFacts DEF Explained
  <2>2. CASE chain = ChainAfter(lines)
    BY <1>5, <1>9, <1>10, <2>1, <2>2 DEF Explained, Expects
  <2>3. CASE chain # ChainAfter(lines)
    <3>1. more = faults + 1
      BY <1>10, <2>3
    <3> QED
      BY <1>5, <2>1, <3>1 DEF Explained, Expects
  <2> QED
    BY <2>2, <2>3
<1>15. q \in Writers(N, n, t)
  BY <1>2, <1>3, <1>4, <1>6, <1>13, <1>14 DEF Writers, Whole
<1> QED
  BY <1>12, <1>15

\* A start appends the snapshot, keeps it to retry, or drops it.
LEMMA OpenKeeps ==
  ASSUME NEW N \in Nat, NEW n \in Nat, NEW t \in Nat,
         NEW r \in Whole(N, n, t), NEW take, NEW saved \in BOOLEAN
  PROVE  Open(r, n, take, saved) \in Writers(N, n, t)
<1>1. PICK resumed \in Writers(N, n, t) : resumed = Resumed(r)
  BY ResumedKeeps
<1>2. ASSUME NEW q \in Writers(N, n, t) PROVE [q EXCEPT !.partial = {}] \in Writers(N, n, t)
  <2>1. q \in Rollups(N)
    BY DEF Writers, Whole
  <2>2. PICK s : s = [q EXCEPT !.partial = {}]
    OBVIOUS
  <2>3. /\ s \in Rollups(N) /\ s.months = q.months /\ s.chain = q.chain
        /\ s.torn = q.torn /\ s.faults = q.faults
    BY <2>1, <2>2 DEF Rollups
  <2> QED
    BY <2>2, <2>3, SameFiles
<1>3. PICK opened : opened = Open(r, n, take, saved)
  OBVIOUS
<1>4. CASE ~ SnapshotIsOnlyCopy(r)
  <2>1. opened = IF saved THEN [resumed EXCEPT !.partial = {}] ELSE resumed
    BY <1>1, <1>3, <1>4 DEF Open
  <2> QED
    BY <1>2, <1>3, <2>1
<1>5. CASE SnapshotIsOnlyCopy(r)
  <2>1. PICK partial : partial = r.partial
    OBVIOUS
  <2>2. partial \in Days(N)
    BY <1>5, <2>1 DEF SnapshotIsOnlyCopy, Rollups, Whole
  <2>3. PICK added \in Writers(N, n, t) : added = AppendLine(resumed, partial, n)
    BY <2>2, AppendKeeps
  <2>4. PICK failed \in Writers(N, n, t) : failed = FailAppend(resumed, partial, n, take.left)
    BY <2>2, FailKeeps
  <2>5. PICK kept \in Writers(N, n, t) : kept = KeepPending(failed, partial)
    BY <2>2, KeepPendingKeeps
  <2>6. opened = IF take.room > 0
                 THEN IF saved THEN [added EXCEPT !.partial = {}] ELSE added
                 ELSE kept
    BY <1>1, <1>3, <1>5, <2>1, <2>3, <2>4, <2>5 DEF Open
  <2> QED
    BY <1>2, <1>3, <2>3, <2>5, <2>6
<1> QED
  BY <1>4, <1>5

\* The daemon drops a window, or a new one counts from nothing.
LEMMA DropsKeep ==
  ASSUME NEW N \in Nat, NEW n \in Nat, NEW t \in Nat, NEW r \in Whole(N, n, t)
  PROVE  r \in Whole(N, n + 1, t + 1) /\ r \in Whole(N, 0, t)
<1>1. r \in Rollups(N) /\ Fair(DropsOf(Lines(r.months)), n, t)
  BY DEF Whole
<1>2. PICK months : months = r.months
  OBVIOUS
<1>3. months \in Files(N)
  BY <1>1, <1>2 DEF Rollups
<1>4. PICK lines \in Seq(RollupLines(N)) : lines = Lines(months)
  BY <1>3, LinesAre
<1>5. PICK counts \in Seq(Nat) : counts = DropsOf(lines)
  BY RollupDrops, DropsOfFacts
<1>6. Fair(counts, n + 1, t + 1) /\ Fair(counts, 0, t)
  BY <1>1, <1>2, <1>4, <1>5, FairMoves
<1> QED
  BY <1>1, <1>2, <1>4, <1>5, <1>6 DEF Whole

-----------------------------------------------------------------------------
(* The rollups of the archive.                                             *)

Latest == DayLength * setup.days

RollupInv ==
    /\ rollup \in Whole(Latest, drops, lost)
    /\ running => rollup \in Writers(Latest, drops, lost)
    /\ starts \in 1..MaxStarts

\* The timestamps end with the last day.
LEMMA LatestFacts ==
  ASSUME setup \in Setups
  PROVE  Latest \in Nat /\ Stamps = 1..Latest
<1>1. PICK d : d = setup.days
  OBVIOUS
<1>2. d \in Nat /\ DayLength \in Nat
  BY <1>1, ArchiveAssumption, RollupAssumption
<1>3. DayLength * d \in Nat
  BY <1>2
<1> QED
  BY <1>1, <1>3 DEF Latest, Stamps

\* There is nothing in the first files, and nothing waits.
LEMMA RollupInvInit == Init => RollupInv
<1> SUFFICES ASSUME Init PROVE RollupInv
  OBVIOUS
<1>1. PICK N \in Nat : N = Latest
  BY LatestFacts DEF Init
<1>2. PICK r : r = NewRollup
  OBVIOUS
<1>3. PICK months : months = NoMonths
  OBVIOUS
<1>4. months \in Files(N) /\ DOMAIN months = {}
  <2>1. months \in [{} -> Seq(RollupLines(N))] /\ DOMAIN months = {}
    BY <1>3 DEF NoMonths
  <2> QED
    BY <2>1 DEF Files
<1>5. Lines(months) = <<>>
  <2>1. PICK f : f = Reading(months, N + 1)
    OBVIOUS
  <2>2. PICK k \in Nat : k = N + 1
    OBVIOUS
  <2>3. Reads(f, N, months, k)
    BY <1>4, <2>1, <2>2, ReadingSteps
  <2>4. f[0] = <<>> /\ \A n \in 1..k : f[n] = f[n - 1]
    BY <1>4, <2>3 DEF Reads
  <2>5. PICK g : g = [n \in 0..k |-> <<>>]
    OBVIOUS
  <2>6. AgreeStepwise(f, g, k)
    BY <2>4, <2>5 DEF AgreeStepwise
  <2>7. \A n \in 0..k : f[n] = g[n]
    BY <2>6, RecursionsAgree
  <2> QED
    BY <1>4, <2>1, <2>2, <2>5, <2>7, LinesAre
<1>6. r = [open |-> {}, since |-> 0, pending |-> <<>>, chain |-> Chain0,
           months |-> months, torn |-> NoMonths, partial |-> {},
           faults |-> 0, left |-> {}]
  BY <1>2, <1>3 DEF NewRollup
<1>7. Chain0 \in [prev : SUBSET (1..N), seq : Nat]
  BY DEF Chain0
<1>8. <<>> \in {p \in Seq(Days(N)) : Len(p) <= MaxPendingDays} /\ 0 \in 0..(SnapshotEvery - 1)
  BY RollupAssumption
<1>a. NoMonths \in Tears(N) /\ TornIn(NoMonths, months)
  <2>1. NoMonths \in [{} -> Nat] /\ DOMAIN NoMonths = {}
    BY DEF NoMonths
  <2> QED
    BY <2>1 DEF Tears, TornIn
<1>9. r \in Rollups(N) /\ r.months = months /\ r.torn = NoMonths /\ r.faults = 0
  BY <1>4, <1>6, <1>7, <1>8, <1>a DEF Rollups
<1>10. r \in Writers(N, drops, lost)
  <2>1. DropsOf(<<>>) = <<>>
    BY DEF DropsOf
  <2>2. Cardinality(BreaksIn(<<>>)) = 0
    <3>1. BreaksIn(<<>>) = {}
      BY DEF BreaksIn
    <3> QED
      BY <3>1, FS_EmptySet
  <2>3. Explained(<<>>, 0) /\ Expects(r.chain, <<>>, 0)
    BY <2>2 DEF Explained, Expects, Leads
  <2> QED
    BY <1>5, <1>9, <1>a, <2>1, <2>3, FairNothing DEF Writers, Whole
<1> QED
  BY <1>1, <1>2, <1>10, ArchiveAssumption DEF Init, RollupInv, Writers

\* What a step counts as dropped.
LEMMA DropsMove ==
  ASSUME [Next]_vars
  PROVE  \/ drops' = drops /\ lost' = lost
         \/ drops' = drops + 1 /\ lost' = lost + 1
         \/ drops' = 0 /\ lost' = lost
BY DEF Next, vars, Produce, RollUpOnly, WriteWindow, WriteFails, Stop, Crash, Restart

\* Every call of the rollup writer accounts for its breaks.
LEMMA RollupInvStep == FileInv /\ RollupInv /\ [Next]_vars => RollupInv'
<1> SUFFICES ASSUME FileInv, RollupInv, [Next]_vars PROVE RollupInv'
  OBVIOUS
<1>1. PICK N \in Nat : N = Latest /\ Stamps = 1..N
  BY LatestFacts DEF FileInv, ChannelRanges
<1>2. PICK r : r = rollup
  OBVIOUS
<1>3. /\ r \in Whole(N, drops, lost) /\ (running => r \in Writers(N, drops, lost))
      /\ starts \in 1..MaxStarts
  BY <1>1, <1>2 DEF RollupInv
<1>4. setup' = setup
  BY DEF Next, vars, Produce, RollUpOnly, WriteWindow, WriteFails, Stop, Crash, Restart
<1>5. Latest' = N
  BY <1>1, <1>4 DEF Latest
<1>6. drops \in Nat /\ lost \in Nat /\ MaxStarts \in Nat
  BY UsedFacts, ArchiveAssumption DEF FileInv, ChannelRanges
<1>20. ASSUME NEW q \in Whole(N, drops, lost)
       PROVE  /\ q \in Whole(N, drops', lost')
              /\ q \in Writers(N, drops, lost) => q \in Writers(N, drops', lost')
  <2>1. q \in Whole(N, drops + 1, lost + 1) /\ q \in Whole(N, 0, lost)
    BY <1>6, DropsKeep
  <2>2. q \in Whole(N, drops', lost')
    BY <2>1, DropsMove
  <2> QED
    BY <2>2 DEF Writers
<1>7. PICK K \in Nat : K = Len(r.pending)
  BY <1>3 DEF Whole, Rollups
<1>8. /\ \A take \in Appends \cup CutShort : take.room \in Nat
      /\ Saved \subseteq BOOLEAN
  <2>1. PICK all \in Nat : all = Len(rollup.pending) + 1
    BY <1>2, <1>7
  <2>2. {all} \subseteq Nat /\ 0..(all - 1) \subseteq Nat /\ 0..all \subseteq Nat
    BY <2>1
  <2>3. \A rooms, leftover : rooms \subseteq Nat =>
            \A take \in Takes(rooms, leftover) : take.room \in Nat
    BY DEF Takes
  <2>4. \A take \in Appends : take.room \in Nat
    BY <2>1, <2>2, <2>3 DEF Appends
  <2>5. \A take \in CutShort : take.room \in Nat
    BY <2>1, <2>2, <2>3 DEF CutShort
  <2> QED
    BY <2>4, <2>5 DEF Saved
<1>9. channel # <<>> => Head(channel) \in 1..N
  BY <1>1 DEF FileInv, ChannelRanges
<1>10. ASSUME rollup' = rollup, running' = running, starts' = starts PROVE RollupInv'
  BY <1>2, <1>3, <1>5, <1>10, <1>20 DEF RollupInv
<1>11. ASSUME running, running' = running, starts' = starts, channel # <<>>,
              RollupsObserve(Head(channel))
       PROVE  RollupInv'
  <2>1. PICK take \in Appends, saved \in Saved :
            rollup' = Observe(r, Head(channel), drops, take, saved)
    BY <1>2, <1>11 DEF RollupsObserve
  <2>2. take.room \in Nat /\ saved \in BOOLEAN
    BY <1>8
  <2>3. rollup' \in Writers(N, drops, lost)
    BY <1>3, <1>6, <1>9, <1>11, <2>1, <2>2, ObserveKeeps
  <2>4. rollup' \in Whole(N, drops', lost') /\ rollup' \in Writers(N, drops', lost')
    BY <1>20, <2>3 DEF Writers
  <2> QED
    BY <1>3, <1>5, <1>11, <2>4 DEF RollupInv
<1>12. ASSUME rollup' \in Whole(N, drops, lost), running' = FALSE, starts' = starts PROVE RollupInv'
  BY <1>3, <1>5, <1>12, <1>20 DEF RollupInv
<1>13. CASE Stop
  <2>1. PICK take \in Appends, saved \in Saved : rollup' = Shutdown(r, drops, take, saved)
    BY <1>2, <1>13 DEF Stop
  <2>2. take.room \in Nat /\ saved \in BOOLEAN /\ r \in Writers(N, drops, lost)
    BY <1>3, <1>8, <1>13 DEF Stop
  <2>3. rollup' \in Whole(N, drops, lost)
    BY <1>6, <2>1, <2>2, ShutdownKeeps
  <2> QED
    BY <1>12, <1>13, <2>3 DEF Stop
<1>14. CASE Crash
  <2>1. running /\ running' = FALSE /\ starts' = starts /\ (DiesInRollups \/ DiesInWrite)
    BY <1>14 DEF Crash
  <2>2. r \in Writers(N, drops, lost)
    BY <1>3, <2>1
  <2>3. \A q \in Writers(N, drops, lost) : Forget(q) \in Whole(N, drops, lost)
    BY <1>6, ForgetKeeps DEF Writers
  <2>4. ASSUME DiesInRollups PROVE rollup' \in Whole(N, drops, lost)
    <3>1. CASE rollup' = Forget(r)
      BY <2>2, <2>3, <3>1
    <3>2. ASSUME NEW take \in CutShort, rollup' = Forget(AppendOpen(r, drops, take))
          PROVE  rollup' \in Whole(N, drops, lost)
      <4>1. AppendOpen(r, drops, take) \in Writers(N, drops, lost)
        BY <1>6, <1>8, <2>2, AppendOpenKeeps
      <4> QED
        BY <2>3, <3>2, <4>1
    <3>3. ASSUME channel # <<>>, NEW take \in Appends,
                 rollup' = Forget(FoldWindow(r, Head(channel), drops, take))
          PROVE  rollup' \in Whole(N, drops, lost)
      <4>1. FoldWindow(r, Head(channel), drops, take) \in Writers(N, drops, lost)
        BY <1>6, <1>8, <1>9, <2>2, <3>3, FoldKeeps
      <4> QED
        BY <2>3, <3>3, <4>1
    <3> QED
      BY <1>2, <2>4, <3>1, <3>2, <3>3 DEF DiesInRollups
  <2>5. ASSUME DiesInWrite PROVE rollup' \in Whole(N, drops, lost)
    <3>1. PICK take \in Appends, saved \in Saved :
              channel # <<>> /\ rollup' = Forget(Observe(r, Head(channel), drops, take, saved))
      BY <1>2, <2>5 DEF DiesInWrite
    <3>2. take.room \in Nat /\ saved \in BOOLEAN
      BY <1>8
    <3>3. Observe(r, Head(channel), drops, take, saved) \in Writers(N, drops, lost)
      BY <1>6, <1>9, <2>2, <3>1, <3>2, ObserveKeeps
    <3> QED
      BY <2>3, <3>1, <3>3
  <2> QED
    BY <1>12, <2>1, <2>4, <2>5
<1>15. CASE Restart
  <2>1. PICK take \in Appends, saved \in Saved : rollup' = Open(r, drops, take, saved)
    BY <1>2, <1>15 DEF Restart
  <2>2. take.room \in Nat /\ saved \in BOOLEAN
    BY <1>8
  <2>3. rollup' \in Writers(N, drops, lost)
    BY <1>3, <1>6, <2>1, <2>2, OpenKeeps
  <2>4. starts' \in 1..MaxStarts
    BY <1>3, <1>6, <1>15 DEF Restart
  <2>5. rollup' \in Whole(N, drops', lost') /\ rollup' \in Writers(N, drops', lost')
    BY <1>20, <2>3 DEF Writers
  <2> QED
    BY <1>5, <2>4, <2>5 DEF RollupInv
<1>16. CASE UNCHANGED vars \/ Produce
  BY <1>10, <1>16 DEF vars, Produce
<1>17. CASE RollUpOnly
  BY <1>11, <1>17 DEF RollUpOnly
<1>18. CASE WriteWindow
  BY <1>11, <1>18 DEF WriteWindow
<1>19. CASE WriteFails
  BY <1>11, <1>19 DEF WriteFails
<1> QED
  BY <1>13, <1>14, <1>15, <1>16, <1>17, <1>18, <1>19 DEF Next

\* The rollup files read in the order of their names (rollup_writer), across
\* months, restarts, refusals, retention and a clock that steps back, have no
\* more breaks than there were appends that failed and left their whole line
\* and starts that resumed before the last line.
THEOREM RollupBreaksExplained == Spec => []RollupBreaksAreFaults
<1>1. RollupInv => RollupBreaksAreFaults
  BY DEF RollupInv, Whole, Explained, RollupBreaks, RollupBreaksAreFaults
<1> QED
  BY <1>1, FilesHold, RollupInvInit, RollupInvStep, PTL DEF Spec

\* What waits, the files, the rollup writer and the history are typed and keep
\* to their bounds (archive.rs, rollup_writer.rs).
THEOREM ArchiveTypes == Spec => []TypeOK
<1>1. ASSUME FileInv, RollupInv PROVE TypeOK
  <2>1. PICK N \in Nat : N = Latest /\ Stamps = 1..N
    BY <1>1, LatestFacts DEF FileInv, ChannelRanges
  <2>2. PICK most : most = setup.most
    OBVIOUS
  <2>3. most \in Nat /\ Cardinality(produced) <= most
    BY <1>1, <2>2, ArchiveAssumption DEF FileInv, ChannelRanges
  <2>4. Used \in Nat /\ Used <= most /\ IsFiniteSet(produced)
    <3>1. IsFiniteSet(produced) /\ Cardinality(produced) \in Nat
      <4>1. IsFiniteSet(1..N)
        BY FS_Interval
      <4>2. produced \subseteq 1..N
        BY <1>1, <2>1 DEF FileInv, ChannelRanges
      <4> QED
        BY <4>1, <4>2, FS_Subset, FS_CardinalityType
    <3>2. Used \in Nat /\ Len(channel) \in Nat
      BY <1>1, UsedFacts DEF FileInv, ChannelRanges
    <3> QED
      BY <2>3, <3>1, <3>2 DEF Used
  <2>5. PieceSet(Stamps, Used) \subseteq Pieces
    <3>1. 0..(Used - 1) \subseteq 0..most /\ 0..Used \subseteq 0..most
      BY <2>3, <2>4
    <3>2. LineSet(Stamps, Used) \subseteq Pieces
      BY <2>2, <3>1 DEF LineSet, Pieces
    <3> QED
      BY <3>2 DEF PieceSet, Pieces
  <2>6. disk \in Seq(Seq(Pieces))
    <3>1. PICK A, B : A = Seq(PieceSet(Stamps, Used)) /\ B = Seq(Pieces)
      OBVIOUS
    <3>2. A \subseteq B
      BY <2>5, <3>1
    <3>3. disk \in Seq(A)
      BY <1>1, <3>1 DEF FileInv, FileRanges
    <3>4. disk \in Seq(B)
      BY <3>2, <3>3
    <3> QED
      BY <3>1, <3>4
  <2>7. IsRollup(rollup, Stamps)
    <3>1. PICK r : r = rollup
      OBVIOUS
    <3>2. r \in Rollups(N) /\ TornIn(r.torn, r.months)
      BY <1>1, <2>1, <3>1 DEF RollupInv, Whole
    <3>3. \A day \in Days(N) : IsDay(day, Stamps)
      BY <2>1 DEF Days
    <3>4. r.open = {} \/ IsDay(r.open, Stamps)
      BY <3>2, <3>3 DEF Rollups
    <3>5. r.partial = {} \/ IsDay(r.partial, Stamps)
      BY <3>2, <3>3 DEF Rollups
    <3>6. r.since \in 0..(SnapshotEvery - 1)
      BY <3>2 DEF Rollups
    <3>7. r.pending \in Seq(Days(N)) /\ Len(r.pending) <= MaxPendingDays
      BY <3>2 DEF Rollups
    <3>8. \A i \in DOMAIN r.pending : IsDay(r.pending[i], Stamps)
      <4>1. PICK pending : pending = r.pending
        OBVIOUS
      <4>2. \A i \in DOMAIN pending : pending[i] \in Days(N)
        BY <3>7, <4>1
      <4> QED
        BY <3>3, <4>1, <4>2
    <3>9. PICK months \in Files(N) : months = r.months
      BY <3>2 DEF Rollups
    <3>10. ASSUME NEW m \in DOMAIN months, NEW i \in DOMAIN months[m]
           PROVE  /\ IsDay(months[m][i].windows, Stamps)
                  /\ months[m][i].seq \in Nat /\ months[m][i].drops \in Nat
      <4>1. PICK lines \in Seq(RollupLines(N)) : lines = months[m]
        BY FilesFacts
      <4>2. PICK line \in RollupLines(N) : line = lines[i]
        BY <3>10, <4>1
      <4>3. line.windows \in Days(N) /\ line.seq \in Nat /\ line.drops \in Nat
        BY DEF RollupLines
      <4> QED
        BY <3>3, <4>1, <4>2, <4>3
    <3>11. r.faults \in Nat /\ r.left \subseteq Stamps
      BY <2>1, <3>2 DEF Rollups
    <3>12. /\ DOMAIN r.torn \subseteq DOMAIN r.months
           /\ \A m \in DOMAIN r.torn : r.torn[m] \in 0..Len(r.months[m])
      BY <3>2 DEF TornIn
    <3> QED
      BY <3>1, <3>4, <3>5, <3>6, <3>7, <3>8, <3>9, <3>10, <3>11, <3>12 DEF IsRollup
  <2>8. /\ setup \in Setups
        /\ produced \subseteq Stamps /\ Cardinality(produced) <= setup.most
        /\ channel \in Seq(Stamps) /\ Len(channel) <= ChannelCapacity
        /\ pruned \subseteq DOMAIN disk
        /\ atPath \in {NoFile} \cup DOMAIN disk
        /\ fd \in DOMAIN disk \ pruned
        /\ readable \in BOOLEAN
        /\ counted \in Nat
        /\ running \in BOOLEAN
        /\ written \subseteq Stamps \X DOMAIN disk
        /\ damaged \subseteq DOMAIN disk
    BY <1>1 DEF FileInv, ChannelRanges, FileRanges
  <2>9. /\ prev \in Stamps \cup {Seed} /\ seq \in 0..setup.most
        /\ drops \in 0..setup.most /\ lost \in drops..setup.most
    <3>1. /\ prev \in Stamps \cup {Seed} /\ seq \in 0..Used
          /\ drops \in 0..lost /\ lost \in 0..Used
      BY <1>1 DEF FileInv, ChannelRanges, FileRanges
    <3> QED
      BY <2>2, <2>3, <2>4, <3>1
  <2>10. starts \in 1..MaxStarts
    BY <1>1 DEF RollupInv
  <2> QED
    BY <2>6, <2>7, <2>8, <2>9, <2>10 DEF TypeOK
<1> QED
  BY <1>1, FilesHold, RollupInvInit, RollupInvStep, PTL DEF Spec

-----------------------------------------------------------------------------
(* The drop counts in the window files.                                    *)

\* The line in place i of file f has the count c.
Has(dir, f, i, c) ==
    /\ f \in DOMAIN dir /\ i \in DOMAIN dir[f]
    /\ dir[f][i].what = "line" /\ dir[f][i].drops = c

Before(f, i, g, j) == f < g \/ (f = g /\ i < j)

\* A line of count d whose mark is total fits behind all lines.
Behind(dir, mark, d, total) ==
    \A f \in Nat, i \in Nat, c \in Nat :
        Has(dir, f, i, c) => mark[<<f, i>>] + Loss(c, d) <= total

\* The marks of the lines' places: between any two lines no more is told than
\* between their marks.
Marked(dir, mark) ==
    /\ mark \in [Nat \X Nat -> Nat]
    /\ \A f \in Nat, i \in Nat, c \in Nat, g \in Nat, j \in Nat, e \in Nat :
          Has(dir, f, i, c) /\ Has(dir, g, j, e) /\ Before(f, i, g, j)
          => mark[<<f, i>>] + Loss(c, e) <= mark[<<g, j>>]

\* The files tell no more than total, now and after a line of count d.
Told(dir, d, total) == \E mark : Marked(dir, mark) /\ Behind(dir, mark, d, total)

\* The lines of new are those of dir and one of count d in a place behind them.
LineMore(dir, new, g, j, d) ==
    \A f \in Nat, i \in Nat, c \in Nat :
        /\ Has(dir, f, i, c) => Before(f, i, g, j)
        /\ Has(new, f, i, c) => Has(dir, f, i, c) \/ (f = g /\ i = j /\ c = d)

\* One line more, behind the others and with the present count, is told from
\* the present total.
LEMMA ToldMore ==
  ASSUME NEW dir, NEW new, NEW d \in Nat, NEW total \in Nat, Told(dir, d, total),
         NEW g \in Nat, NEW j \in Nat, LineMore(dir, new, g, j, d)
  PROVE  Told(new, d, total)
<1>1. PICK mark : Marked(dir, mark) /\ Behind(dir, mark, d, total)
  BY DEF Told
<1>2. mark \in [Nat \X Nat -> Nat]
  BY <1>1 DEF Marked
<1>3. PICK later : later = [mark EXCEPT ![<<g, j>>] = total]
  OBVIOUS
<1>4. /\ later \in [Nat \X Nat -> Nat] /\ later[<<g, j>>] = total
      /\ \A f \in Nat, i \in Nat : (f = g /\ i = j) \/ later[<<f, i>>] = mark[<<f, i>>]
  BY <1>2, <1>3
<1>5. \A f \in Nat, i \in Nat, c \in Nat : Has(dir, f, i, c) => ~ (f = g /\ i = j)
  BY DEF Before, LineMore
<1>6. \A f \in Nat, i \in Nat, c \in Nat :
         Has(dir, f, i, c) => /\ later[<<f, i>>] = mark[<<f, i>>]
                              /\ later[<<f, i>>] + Loss(c, d) <= total
  BY <1>1, <1>4, <1>5 DEF Behind
<1>7. Loss(d, d) = 0 /\ total + 0 <= total
  BY LossFacts
<1>8. Behind(new, later, d, total)
  BY <1>4, <1>6, <1>7 DEF Behind, LineMore
<1>9. ASSUME NEW f \in Nat, NEW i \in Nat, NEW c \in Nat,
             NEW h \in Nat, NEW k \in Nat, NEW e \in Nat,
             Has(new, f, i, c), Has(new, h, k, e), Before(f, i, h, k)
      PROVE  later[<<f, i>>] + Loss(c, e) <= later[<<h, k>>]
  <2>1. CASE Has(dir, f, i, c) /\ Has(dir, h, k, e)
    <3>1. mark[<<f, i>>] + Loss(c, e) <= mark[<<h, k>>]
      BY <1>1, <1>9, <2>1 DEF Marked
    <3>2. later[<<f, i>>] = mark[<<f, i>>] /\ later[<<h, k>>] = mark[<<h, k>>]
      BY <1>6, <2>1
    <3> QED
      BY <3>1, <3>2
  <2>2. CASE Has(dir, f, i, c) /\ h = g /\ k = j /\ e = d
    BY <1>4, <1>6, <2>2
  <2>3. CASE f = g /\ i = j /\ Has(dir, h, k, e)
    <3>1. Before(h, k, g, j) /\ Before(g, j, h, k)
      BY <1>9, <2>3 DEF LineMore
    <3> QED
      BY <3>1 DEF Before
  <2>4. CASE f = g /\ i = j /\ h = g /\ k = j
    BY <1>9, <2>4 DEF Before
  <2> QED
    BY <1>9, <2>1, <2>2, <2>3, <2>4 DEF LineMore
<1>10. Marked(new, later)
  BY <1>4, <1>9 DEF Marked
<1> QED
  BY <1>8, <1>10 DEF Told

\* The count moves as the daemon's does.
LEMMA ToldMoves ==
  ASSUME NEW dir, NEW d \in Nat, NEW total \in Nat, Told(dir, d, total)
  PROVE  Told(dir, d + 1, total + 1) /\ Told(dir, 0, total)
<1>1. PICK mark : Marked(dir, mark) /\ Behind(dir, mark, d, total)
  BY DEF Told
<1>2. mark \in [Nat \X Nat -> Nat]
  BY <1>1 DEF Marked
<1>3. ASSUME NEW f \in Nat, NEW i \in Nat, NEW c \in Nat, Has(dir, f, i, c)
      PROVE  /\ mark[<<f, i>>] + Loss(c, d + 1) <= total + 1
             /\ mark[<<f, i>>] + Loss(c, 0) <= total
  <2>1. PICK m \in Nat : m = mark[<<f, i>>]
    BY <1>2
  <2>2. m + Loss(c, d) <= total
    BY <1>1, <1>3, <2>1 DEF Behind
  <2>3. d + 1 \in Nat
    OBVIOUS
  <2>4. PICK x \in Nat, y \in Nat : x = Loss(c, d) /\ y = Loss(c, d + 1)
    BY <2>3, LossFacts
  <2>5. y <= x + 1 /\ Loss(c, 0) = 0
    BY <2>4, LossFacts
  <2>6. m + x <= total
    BY <2>2, <2>4
  <2>7. m + y <= total + 1 /\ m + 0 <= total
    BY <2>5, <2>6
  <2> QED
    BY <2>1, <2>4, <2>5, <2>7
<1>4. Behind(dir, mark, d + 1, total + 1) /\ Behind(dir, mark, 0, total)
  BY <1>3 DEF Behind
<1> QED
  BY <1>1, <1>4 DEF Told

DropsInv == Told(disk, drops, lost)

\* The first file holds nothing.
LEMMA DropsInvInit == Init => DropsInv
<1> SUFFICES ASSUME Init PROVE DropsInv
  OBVIOUS
<1>1. PICK mark : mark = [place \in Nat \X Nat |-> 0]
  OBVIOUS
<1>2. \A f, i, c : ~ Has(disk, f, i, c)
  BY DEF Init, Has
<1>3. mark \in [Nat \X Nat -> Nat]
  BY <1>1
<1>4. Marked(disk, mark) /\ Behind(disk, mark, drops, lost)
  BY <1>2, <1>3 DEF Marked, Behind
<1> QED
  BY <1>4 DEF DropsInv, Told

\* A line is written behind all others, with the present count.
LEMMA DropsInvStep == FileInv /\ DropsInv /\ [Next]_vars => DropsInv'
<1> SUFFICES ASSUME FileInv, DropsInv, [Next]_vars PROVE DropsInv'
  OBVIOUS
<1>1. drops \in Nat /\ lost \in Nat
  BY UsedFacts DEF FileInv, ChannelRanges
<1>2. Told(disk', drops, lost)
  <2>1. CASE disk' = disk
    BY <2>1 DEF DropsInv
  <2>2. ASSUME NEW W, DiskStep(W) PROVE Told(disk', drops, lost)
    <3>1. PICK L \in Nat : L = fd /\ DOMAIN disk = 1..L /\ fd \in 1..L
      BY OpenFile DEF FileInv
    <3>2. PICK open \in Seq(PieceSet(Stamps, Used)) : open = disk[fd]
      BY <3>1 DEF FileInv, FileRanges
    <3>3. PICK K \in Nat : K = Len(open) /\ DOMAIN open = 1..K
      OBVIOUS
    <3>4. PICK j \in Nat : j = K + 1
      OBVIOUS
    <3>5. ASSUME NEW f \in Nat, NEW i \in Nat, NEW c \in Nat, Has(disk, f, i, c)
          PROVE  Before(f, i, L, j)
      <4>1. f \in 1..L /\ (f = L => i \in 1..K)
        BY <3>1, <3>2, <3>3, <3>5 DEF Has
      <4> QED
        BY <3>4, <4>1 DEF Before
    <3>6. ASSUME NEW f \in Nat, NEW i \in Nat, NEW c \in Nat, Has(disk', f, i, c)
          PROVE  Has(disk, f, i, c) \/ (f = L /\ i = j /\ c = drops)
      <4>1. CASE f = fd
        <5>1. i \in DOMAIN disk'[fd] /\ disk'[fd][i].what = "line" /\ disk'[fd][i].drops = c
          BY <3>6, <4>1 DEF Has
        <5>2. \/ /\ i \in DOMAIN disk[fd] /\ disk[fd][i].what = "line"
                 /\ disk[fd][i].drops = disk'[fd][i].drops
              \/ i = Len(disk[fd]) + 1 /\ disk'[fd][i].drops = drops
          BY <2>2, <5>1 DEF DiskStep, OneMore
        <5> QED
          BY <3>1, <3>2, <3>3, <3>4, <4>1, <5>1, <5>2 DEF Has
      <4>2. CASE f # fd
        BY <2>2, <3>6, <4>2 DEF DiskStep, Has
      <4> QED
        BY <4>1, <4>2
    <3>7. Told(disk, drops, lost) /\ L \in Nat /\ j \in Nat
      BY DEF DropsInv
    <3>8. LineMore(disk, disk', L, j, drops)
      BY <3>5, <3>6 DEF LineMore
    <3>9. PICK new : new = disk'
      OBVIOUS
    <3>10. PICK d \in Nat, total \in Nat : d = drops /\ total = lost
      BY <1>1
    <3>11. Told(new, d, total)
      BY <3>7, <3>8, <3>9, <3>10, ToldMore
    <3> QED
      BY <3>9, <3>10, <3>11
  <2> QED
    BY <2>1, <2>2, StepKeeps DEF DiskGrows
<1>3. Told(disk', drops + 1, lost + 1) /\ Told(disk', 0, lost)
  BY <1>1, <1>2, ToldMoves
<1> QED
  BY <1>2, <1>3, DropsMove DEF DropsInv

-----------------------------------------------------------------------------
(* A disclosure reads the window files.                                    *)

\* The lines read so far fit before those from place i of file f on, and before
\* a line of count d whose mark is total.
Ahead(dir, mark, d, total, counts, f, i) ==
    \E marks :
        /\ Fits(counts, marks) /\ Below(counts, marks, d, total)
        /\ \A g \in Nat, j \in Nat, e \in Nat :
              Has(dir, g, j, e) /\ ~ Before(g, j, f, i) => Below(counts, marks, e, mark[<<g, j>>])

\* Whatever is left out, they fit before what comes later.
LEMMA AheadLater ==
  ASSUME NEW dir, NEW mark, NEW d, NEW total, NEW counts,
         NEW f \in Nat, NEW i \in Nat, Ahead(dir, mark, d, total, counts, f, i),
         NEW h \in Nat, NEW k \in Nat, Before(f, i, h, k)
  PROVE  Ahead(dir, mark, d, total, counts, h, k)
<1>1. \A g \in Nat, j \in Nat : ~ Before(g, j, h, k) => ~ Before(g, j, f, i)
  BY DEF Before
<1> QED
  BY <1>1 DEF Ahead

\* The line at hand is read, too.
LEMMA AheadTakes ==
  ASSUME NEW dir, NEW mark, NEW d \in Nat, NEW total \in Nat,
         Marked(dir, mark), Behind(dir, mark, d, total),
         NEW counts \in Seq(Nat), NEW f \in Nat, NEW i \in Nat, NEW c \in Nat,
         Has(dir, f, i, c), Ahead(dir, mark, d, total, counts, f, i)
  PROVE  Ahead(dir, mark, d, total, Append(counts, c), f, i + 1)
<1>1. PICK marks :
          /\ Fits(counts, marks) /\ Below(counts, marks, d, total)
          /\ \A g \in Nat, j \in Nat, e \in Nat :
                Has(dir, g, j, e) /\ ~ Before(g, j, f, i) => Below(counts, marks, e, mark[<<g, j>>])
  BY DEF Ahead
<1>2. marks \in Seq(Nat) /\ Len(marks) = Len(counts)
  BY <1>1 DEF Fits
<1>3. mark \in [Nat \X Nat -> Nat]
  BY DEF Marked
<1>4. PICK m \in Nat : m = mark[<<f, i>>]
  BY <1>3
<1>5. PICK more, later : more = Append(counts, c) /\ later = Append(marks, m)
  OBVIOUS
<1>6. Below(counts, marks, c, m)
  <2>1. ~ Before(f, i, f, i)
    BY DEF Before
  <2> QED
    BY <1>1, <1>4, <2>1
<1>7. Fits(more, later)
  BY <1>1, <1>5, <1>6, FitsAppend
<1>8. Below(more, later, d, total)
  <2>1. m + Loss(c, d) <= total
    BY <1>4 DEF Behind
  <2> QED
    BY <1>1, <1>2, <1>5, <2>1, BelowAppend
<1>9. ASSUME NEW g \in Nat, NEW j \in Nat, NEW e \in Nat,
             Has(dir, g, j, e), ~ Before(g, j, f, i + 1)
      PROVE  Below(more, later, e, mark[<<g, j>>])
  <2>1. Before(f, i, g, j) /\ ~ Before(g, j, f, i)
    BY <1>9 DEF Before
  <2>2. PICK n \in Nat : n = mark[<<g, j>>]
    BY <1>3
  <2>3. Below(counts, marks, e, n)
    BY <1>1, <1>9, <2>1, <2>2
  <2>4. m + Loss(c, e) <= n
    BY <1>4, <1>9, <2>1, <2>2 DEF Marked
  <2>5. Below(more, later, e, n)
    BY <1>2, <1>5, <2>3, <2>4, BelowAppend
  <2> QED
    BY <2>2, <2>5
<1> QED
  BY <1>5, <1>7, <1>8, <1>9 DEF Ahead

\* One file is read.
LEMMA AheadReads ==
  ASSUME NEW T, NEW K \in Nat, NEW dir \in Seq(Seq(PieceSet(T, K))), NEW mark,
         NEW d \in Nat, NEW total \in Nat, Marked(dir, mark), Behind(dir, mark, d, total),
         NEW counts \in Seq(Nat), NEW f \in Nat, f \in DOMAIN dir,
         Ahead(dir, mark, d, total, counts, f, 1)
  PROVE  Ahead(dir, mark, d, total, counts \o DropsOf(LinesOf(dir[f])), f + 1, 1)
<1>1. PICK pieces \in Seq(PieceSet(T, K)) : pieces = dir[f]
  OBVIOUS
<1>2. PICK N \in Nat : N = Len(pieces) /\ DOMAIN pieces = 1..N
  OBVIOUS
<1>3. PICK g : g = Gathering(pieces)
  OBVIOUS
<1>4. /\ g \in [0..N -> Seq(LineSet(T, K))] /\ g[0] = <<>>
      /\ \A n \in 1..N : g[n] = IF Stands(pieces, n) THEN Append(g[n - 1], pieces[n])
                                ELSE g[n - 1]
  <2>1. Gathering(pieces) \in [0..Len(pieces) -> Seq(LineSet(T, K))]
    BY <1>1, GatheringSteps
  <2>2. /\ Gathering(pieces)[0] = <<>>
        /\ \A n \in 1..Len(pieces) :
               Gathering(pieces)[n] = IF Stands(pieces, n)
                                      THEN Append(Gathering(pieces)[n - 1], pieces[n])
                                      ELSE Gathering(pieces)[n - 1]
    BY <1>1, GatheringSteps
  <2> QED
    BY <1>2, <1>3, <2>1, <2>2
<1>5. \A line \in LineSet(T, K) : line.drops \in Nat
  BY DEF LineSet
<1> DEFINE S == {n \in Nat : n <= N =>
                    Ahead(dir, mark, d, total, counts \o DropsOf(g[n]), f, n + 1)}
<1>6. 0 \in S
  <2>1. PICK none : none = DropsOf(g[0])
    OBVIOUS
  <2>2. none = <<>>
    BY <1>4, <2>1 DEF DropsOf
  <2>3. counts \o none = counts
    BY <2>2
  <2>4. 0 + 1 = 1
    OBVIOUS
  <2>5. Ahead(dir, mark, d, total, counts \o DropsOf(g[0]), f, 0 + 1)
    BY <2>1, <2>3, <2>4
  <2> QED
    BY <2>5
<1>7. ASSUME NEW n \in 0..(N - 1), n \in S PROVE n + 1 \in S
  <2>1. PICK k \in 1..N : k = n + 1 /\ k - 1 = n
    BY <1>2
  <2>2. PICK lines \in Seq(LineSet(T, K)) : lines = g[n]
    <3>1. n \in 0..N
      BY <1>2, <1>7
    <3>2. g[n] \in Seq(LineSet(T, K))
      BY <1>4, <3>1
    <3> QED
      BY <3>2
  <2>3. PICK told \in Seq(Nat) : told = DropsOf(lines)
    BY <1>5, DropsOfFacts
  <2>4. PICK all \in Seq(Nat) : all = counts \o told
    <3>1. PICK A \in Nat, B \in Nat : A = Len(counts) /\ B = Len(told)
      BY <2>3
    <3>2. counts \o told \in Seq(Nat)
      BY <2>3, <3>1, ConcatFacts
    <3> QED
      BY <3>2
  <2>5. Ahead(dir, mark, d, total, all, f, k)
    BY <1>7, <2>1, <2>2, <2>3, <2>4
  <2>6. k \in Nat /\ k + 1 \in Nat /\ Before(f, k, f, k + 1)
    BY DEF Before
  <2>7. CASE Stands(pieces, k)
    <3>1. PICK p : p = pieces[k]
      OBVIOUS
    <3>2. p \in PieceSet(T, K) /\ p.what = "line"
      BY <1>2, <2>7, <3>1 DEF Stands
    <3>3. p \in LineSet(T, K)
      BY <3>2, PieceFacts
    <3>4. PICK c \in Nat : c = p.drops
      BY <1>5, <3>3
    <3>5. Has(dir, f, k, c)
      BY <1>1, <1>2, <3>1, <3>2, <3>4 DEF Has
    <3>6. Ahead(dir, mark, d, total, Append(all, c), f, k + 1)
      BY <2>5, <2>6, <3>5, AheadTakes
    <3>7. DropsOf(Append(lines, p)) = Append(told, c)
      BY <1>5, <2>3, <3>3, <3>4, DropsOfFacts
    <3>8. g[k] = Append(lines, p)
      BY <1>4, <2>1, <2>2, <2>7, <3>1
    <3>9. counts \o Append(told, c) = Append(all, c)
      <4>1. Regroups(counts, told, c)
        BY <2>3, <3>4, RegroupsAll
      <4> QED
        BY <2>4, <4>1 DEF Regroups
    <3>10. counts \o DropsOf(g[k]) = Append(all, c)
      BY <3>7, <3>8, <3>9
    <3>11. Ahead(dir, mark, d, total, counts \o DropsOf(g[n + 1]), f, (n + 1) + 1)
      BY <2>1, <3>6, <3>10
    <3> QED
      BY <3>11
  <2>8. CASE ~ Stands(pieces, k)
    <3>1. g[k] = lines
      BY <1>4, <2>1, <2>2, <2>8
    <3>2. Ahead(dir, mark, d, total, all, f, k + 1)
      BY <2>5, <2>6, AheadLater
    <3> QED
      BY <2>1, <2>3, <2>4, <3>1, <3>2
  <2> QED
    BY <2>7, <2>8
<1> HIDE DEF S
<1>8. N \in S
  <2>1. 0..N \subseteq S
    BY <1>6, <1>7, BoundedInduction
  <2> QED
    BY <2>1
<1>9. LinesOf(pieces) = g[N]
  BY <1>2, <1>3 DEF LinesOf, LinesUpTo
<1>10. PICK all : all = counts \o DropsOf(LinesOf(pieces))
  OBVIOUS
<1>11. Ahead(dir, mark, d, total, all, f, N + 1)
  BY <1>8, <1>9, <1>10 DEF S
<1>12. N + 1 \in Nat /\ f + 1 \in Nat /\ 1 \in Nat /\ Before(f, N + 1, f + 1, 1)
  BY DEF Before
<1>13. Ahead(dir, mark, d, total, all, f + 1, 1)
  BY <1>11, <1>12, AheadLater
<1> QED
  BY <1>1, <1>10, <1>13

ReadsFiles(read, L, U) ==
    /\ read \in [0..L -> U]
    /\ read[0] = <<>>
    /\ \A n \in 1..L : read[n] = IF n \in pruned THEN read[n - 1]
                                 ELSE read[n - 1] \o LinesOf(disk[n])

\* The window files are read one after the other.
LEMMA ReadingFilesSteps ==
  ASSUME FileRanges, Used \in Nat, NEW L \in Nat, L = Len(disk)
  PROVE  ReadsFiles(ReadingFiles, L, Seq(LineSet(Stamps, Used)))
<1>1. PICK U : U = Seq(LineSet(Stamps, Used))
  OBVIOUS
<1> DEFINE Read(lines, n) == IF n \in pruned THEN lines ELSE lines \o LinesOf(disk[n])
           next == [s \in U \X (1..L) |-> Read(s[1], s[2])]
           Recursive(g) == g = [n \in 0..L |->
                                   IF n = 0 THEN <<>>
                                   ELSE IF n \in pruned THEN g[n - 1]
                                   ELSE g[n - 1] \o LinesOf(disk[n])]
<1>2. ASSUME NEW lines \in U, NEW n \in 1..L PROVE Read(lines, n) \in U
  <2>1. disk[n] \in Seq(PieceSet(Stamps, Used))
    BY DEF FileRanges
  <2>2. LinesOf(disk[n]) \in U
    BY <1>1, <2>1, LinesOfType
  <2>3. \A more \in U : lines \o more \in U
    BY <1>1
  <2> QED
    BY <2>2, <2>3
<1>3. next \in [U \X (1..L) -> U]
  BY <1>2
<1>4. \A lines \in U, n \in 1..L : next[<<lines, n>>] = Read(lines, n)
  OBVIOUS
<1>5. <<>> \in U
  BY <1>1
<1> HIDE DEF next
<1>6. PICK base : base = <<>>
  OBVIOUS
<1>7. /\ \E f : Loop(f, L, base, next)
      /\ \A g : Loop(g, L, base, next) => RunsThrough(g, L, U, base, next)
  <2>1. base \in U
    BY <1>5, <1>6
  <2> QED
    BY <1>3, <2>1, LoopRuns
<1>8. \A n \in 1..L : n \in 0..L /\ n - 1 \in 0..L /\ n # 0
  OBVIOUS
<1>9. PICK f : Loop(f, L, base, next)
  BY <1>7
<1>10. /\ f \in [0..L -> U] /\ f[0] = base
       /\ \A n \in 1..L : f[n] = Read(f[n - 1], n)
  <2>1. f \in [0..L -> U] /\ f[0] = base /\ \A n \in 1..L : f[n] = next[<<f[n - 1], n>>]
    BY <1>7, <1>9 DEF RunsThrough
  <2>2. \A n \in 1..L : f[n - 1] \in U
    BY <1>8, <2>1
  <2> QED
    BY <1>4, <2>1, <2>2
<1>11. Recursive(f)
  <2>1. \A n \in 0..L : n = 0 \/ n \in 1..L
    OBVIOUS
  <2>2. \A n \in 0..L : f[n] = IF n = 0 THEN <<>>
                               ELSE IF n \in pruned THEN f[n - 1]
                               ELSE f[n - 1] \o LinesOf(disk[n])
    BY <1>6, <1>10, <2>1
  <2> QED
    BY <1>10, <2>2
<1>12. PICK g : g = ReadingFiles
  OBVIOUS
<1>13. Recursive(g)
  <2>1. f = [n \in 0..Len(disk) |-> IF n = 0 THEN <<>>
                                    ELSE IF n \in pruned THEN f[n - 1]
                                    ELSE f[n - 1] \o LinesOf(disk[n])]
    BY <1>11
  <2>2. g = [n \in 0..Len(disk) |-> IF n = 0 THEN <<>>
                                    ELSE IF n \in pruned THEN g[n - 1]
                                    ELSE g[n - 1] \o LinesOf(disk[n])]
    BY <1>12, <2>1 DEF ReadingFiles
  <2> QED
    BY <2>2
<1>14. g = [n \in 0..L |-> g[n]] /\ g[0] = <<>>
  BY <1>13
<1>15. \A n \in 1..L : g[n] = Read(g[n - 1], n)
  BY <1>8, <1>13
<1>16. \A n \in 1..L : f[n - 1] = g[n - 1] => f[n] = g[n]
  BY <1>10, <1>15
<1>17. \A n \in 0..L : f[n] = g[n]
  <2>1. AgreeStepwise(f, g, L)
    BY <1>6, <1>10, <1>14, <1>16 DEF AgreeStepwise
  <2> QED
    BY <2>1, RecursionsAgree
<1>18. g \in [0..L -> U]
  BY <1>10, <1>14, <1>17
<1> QED
  BY <1>1, <1>12, <1>14, <1>15, <1>18 DEF ReadsFiles

\* What is read of files that tell no more than the total tells no more.
LEMMA WindowsFair ==
  ASSUME FileInv, DropsInv
  PROVE  Fair(DropsOf(WindowLines), drops, lost) /\ DropsOf(WindowLines) \in Seq(Nat)
<1>1. PICK L \in Nat : L = Len(disk) /\ DOMAIN disk = 1..L
  BY OpenFile DEF FileInv
<1>2. PICK K \in Nat : K = Used
  BY UsedFacts DEF FileInv
<1>3. PICK r : r = ReadingFiles
  OBVIOUS
<1>4. PICK B : B = LineSet(Stamps, K)
  OBVIOUS
<1>5. ReadsFiles(r, L, Seq(B))
  BY <1>1, <1>2, <1>3, <1>4, ReadingFilesSteps DEF FileInv
<1>6. /\ r \in [0..L -> Seq(B)] /\ r[0] = <<>>
      /\ \A n \in 1..L : r[n] = IF n \in pruned THEN r[n - 1] ELSE r[n - 1] \o LinesOf(disk[n])
  BY <1>5 DEF ReadsFiles
<1>7. PICK dir \in Seq(Seq(PieceSet(Stamps, K))) : dir = disk
  BY <1>2 DEF FileInv, FileRanges
<1>8. PICK d \in Nat, total \in Nat : d = drops /\ total = lost
  BY UsedFacts DEF FileInv, ChannelRanges
<1>9. PICK mark : Marked(dir, mark) /\ Behind(dir, mark, d, total)
  BY <1>7, <1>8 DEF DropsInv, Told
<1>10. \A line \in B : line.drops \in Nat
  BY <1>4 DEF LineSet
<1> DEFINE S == {n \in Nat : n <= L => Ahead(dir, mark, d, total, DropsOf(r[n]), n + 1, 1)}
<1>11. 0 \in S
  <2>1. PICK none : none = DropsOf(r[0])
    OBVIOUS
  <2>2. none = <<>>
    BY <1>6, <2>1 DEF DropsOf
  <2>3. Fits(none, none) /\ \A e, m : Below(none, none, e, m)
    BY <2>2 DEF Fits, Below
  <2>4. Ahead(dir, mark, d, total, none, 0 + 1, 1)
    BY <2>3 DEF Ahead
  <2> QED
    BY <2>1, <2>4
<1>12. ASSUME NEW n \in 0..(L - 1), n \in S PROVE n + 1 \in S
  <2>1. PICK f \in 1..L : f = n + 1 /\ f - 1 = n /\ n \in 0..L
    BY <1>1
  <2>2. f \in Nat /\ f + 1 \in Nat /\ 1 \in Nat /\ Before(f, 1, f + 1, 1)
    BY DEF Before
  <2>3. PICK lines \in Seq(B) : lines = r[n]
    <3>1. r[n] \in Seq(B)
      BY <1>6, <2>1
    <3> QED
      BY <3>1
  <2>4. PICK counts \in Seq(Nat) : counts = DropsOf(lines)
    BY <1>10, DropsOfFacts
  <2>5. Ahead(dir, mark, d, total, counts, f, 1)
    BY <1>12, <2>1, <2>3, <2>4
  <2>6. Ahead(dir, mark, d, total, DropsOf(r[f]), f + 1, 1)
    <3>1. CASE f \in pruned
      <4>1. r[f] = lines
        BY <1>6, <2>1, <2>3, <3>1
      <4> QED
        BY <2>2, <2>4, <2>5, <4>1, AheadLater
    <3>2. CASE f \notin pruned
      <4>1. PICK rest \in Seq(B) : rest = LinesOf(dir[f])
        <5>1. dir[f] \in Seq(PieceSet(Stamps, K))
          BY <1>1, <1>7
        <5>2. LinesOf(dir[f]) \in Seq(B)
          BY <1>4, <5>1, LinesOfType
        <5> QED
          BY <5>2
      <4>2. f \in DOMAIN dir
        BY <1>1, <1>7
      <4>3. Ahead(dir, mark, d, total, counts \o DropsOf(LinesOf(dir[f])), f + 1, 1)
        BY <1>9, <2>2, <2>5, <4>2, AheadReads
      <4>4. r[f] = lines \o rest
        BY <1>6, <1>7, <2>1, <2>3, <3>2, <4>1
      <4>5. DropsOf(lines \o rest) = counts \o DropsOf(rest)
        BY <1>10, <2>4, DropsOfFacts
      <4> QED
        BY <4>1, <4>3, <4>4, <4>5
    <3> QED
      BY <3>1, <3>2
  <2> QED
    BY <2>1, <2>6
<1> HIDE DEF S
<1>13. L \in S
  <2>1. 0..L \subseteq S
    BY <1>11, <1>12, BoundedInduction
  <2> QED
    BY <2>1
<1>14. WindowLines = r[L]
  BY <1>1, <1>3 DEF WindowLines
<1>15. PICK lines \in Seq(B) : lines = r[L]
  <2>1. r[L] \in Seq(B)
    BY <1>6
  <2> QED
    BY <2>1
<1>16. DropsOf(lines) \in Seq(Nat)
  BY <1>10, DropsOfFacts
<1>17. Fair(DropsOf(lines), d, total)
  <2>1. Ahead(dir, mark, d, total, DropsOf(lines), L + 1, 1)
    BY <1>13, <1>15 DEF S
  <2> QED
    BY <2>1 DEF Ahead, Fair
<1> QED
  BY <1>8, <1>14, <1>15, <1>16, <1>17

\* What a family of lines publishes as its loss is a lower bound of the windows
\* dropped (Builder::fold_drops), when a disclosure can be made, across queues,
\* rotations, pruned files and restarts, whatever the faults.
THEOREM LossIsALowerBound == Spec => []LossNotOverstated
<1>1. ASSUME FileInv, RollupInv, DropsInv PROVE LossNotOverstated
  <2>1. drops \in Nat /\ lost \in Nat
    BY <1>1, UsedFacts DEF FileInv, ChannelRanges
  <2>2. ReportedLoss(DropsOf(WindowLines)) <= lost
    BY <1>1, <2>1, WindowsFair, FairReads
  <2>3. PICK N \in Nat : N = Latest
    BY <1>1, LatestFacts DEF FileInv, ChannelRanges
  <2>4. PICK months : months = rollup.months
    OBVIOUS
  <2>5. months \in Files(N) /\ Fair(DropsOf(Lines(months)), drops, lost)
    BY <1>1, <2>3, <2>4 DEF RollupInv, Whole, Rollups
  <2>6. PICK lines \in Seq(RollupLines(N)) : lines = Lines(months)
    BY <2>5, LinesAre
  <2>7. DropsOf(lines) \in Seq(Nat)
    BY RollupDrops, DropsOfFacts
  <2>8. ReportedLoss(DropsOf(Lines(months))) <= lost
    BY <2>1, <2>5, <2>6, <2>7, FairReads
  <2> QED
    BY <2>2, <2>4, <2>8 DEF LossNotOverstated
<1> QED
  BY <1>1, FilesHold, RollupInvInit, RollupInvStep, DropsInvInit, DropsInvStep, PTL DEF Spec
=============================================================================
