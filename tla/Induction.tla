----------------------------- MODULE Induction ------------------------------
(***************************************************************************)
(* Induction over the natural numbers, and over a sequence that is folded, *)
(* stated about sets and functions: the provers instantiate these lemmas,  *)
(* which they cannot do for the library's theorems about operators.        *)
(***************************************************************************)
EXTENDS Integers, Sequences, SequenceTheorems, WellFoundedInduction, TLAPS

\* Any set of natural numbers has a least element.
LEMMA LeastNatural ==
  ASSUME NEW T \in SUBSET Nat, T # {}
  PROVE  \E n \in T : \A m \in T : n <= m
<1>1. \E n \in T : \A m \in T : <<m, n>> \notin OpToRel(<, Nat)
  BY NatLessThanWellFounded, WFMin, Zenon
<1>2. PICK n \in T : \A m \in T : <<m, n>> \notin OpToRel(<, Nat)
  BY <1>1
<1>3. ASSUME NEW m \in T PROVE ~ (m < n)
  <2>1. <<m, n>> \in Nat \X Nat
    OBVIOUS
  <2>2. <<m, n>>[1] = m /\ <<m, n>>[2] = n
    OBVIOUS
  <2> QED
    BY <1>2, <2>1, <2>2, Zenon DEF OpToRel
<1> QED
  BY <1>3

\* A set that holds 0 and the successor of each of its members holds them all.
LEMMA SetInduction ==
  ASSUME NEW S, 0 \in S, \A n \in Nat : n \in S => n + 1 \in S
  PROVE  Nat \subseteq S
<1> SUFFICES ASSUME Nat \ S # {} PROVE FALSE
  OBVIOUS
<1>1. PICK n \in Nat \ S : \A m \in Nat \ S : n <= m
  BY LeastNatural
<1>2. n - 1 \in Nat /\ n = (n - 1) + 1
  BY <1>1
<1> QED
  BY <1>1, <1>2

\* The same, up to a bound.
LEMMA BoundedInduction ==
  ASSUME NEW N \in Nat, NEW S, 0 \in S,
         \A n \in 0..(N - 1) : n \in S => n + 1 \in S
  PROVE  0..N \subseteq S
<1> DEFINE T == {n \in Nat : n <= N => n \in S}
<1>1. 0 \in T
  OBVIOUS
<1>2. ASSUME NEW n \in Nat, n \in T PROVE n + 1 \in T
  BY <1>2
<1> HIDE DEF T
<1>3. Nat \subseteq T
  BY <1>1, <1>2, SetInduction
<1> QED
  BY <1>3 DEF T

\* A recursion of N steps over U: next takes a result of step n - 1, which lies
\* in family[n - 1], to one of step n, which lies in family[n].
Recursion(N, U, family, base, next) ==
    /\ N \in Nat
    /\ family \in [0..N -> SUBSET U]
    /\ base \in family[0]
    /\ \A n \in 1..N : \A a \in family[n - 1] : next[<<a, n>>] \in family[n]

\* Its results, step by step.
Results(f, N, U, family, base, next) ==
    /\ f \in [0..N -> U]
    /\ f[0] = base
    /\ \A n \in 1..N : f[n] = next[<<f[n - 1], n>>]
    /\ \A n \in 0..N : f[n] \in family[n]

\* A recursion whose every result lies where the next step expects it has a
\* function, and its results lie there.
LEMMA RecursionExists ==
  ASSUME NEW N, NEW U, NEW family, NEW base, NEW next,
         Recursion(N, U, family, base, next)
  PROVE  \E f : Results(f, N, U, family, base, next)
<1> USE DEF Recursion
<1> DEFINE Upto(n) == {g \in [0..n -> U] :
                          /\ g[0] = base
                          /\ \A i \in 1..n : g[i] = next[<<g[i - 1], i>>]
                          /\ \A i \in 0..n : g[i] \in family[i]}
           S == {n \in Nat : Upto(n) # {}}
<1>1. 0 \in S
  <2>1. [i \in 0..0 |-> base] \in Upto(0)
    OBVIOUS
  <2> QED
    BY <2>1
<1>2. ASSUME NEW n \in 0..(N - 1), n \in S PROVE n + 1 \in S
  <2>1. PICK g \in Upto(n) : TRUE
    BY <1>2
  <2> DEFINE x == next[<<g[n], n + 1>>]
             h == [i \in 0..(n + 1) |-> IF i = n + 1 THEN x ELSE g[i]]
  <2>2. x \in family[n + 1] /\ x \in U
    <3>1. n + 1 \in 1..N /\ (n + 1) - 1 = n /\ g[n] \in family[n]
      BY <2>1
    <3> QED
      BY <3>1
  <2>3. /\ \A i \in 0..n : h[i] = g[i]
        /\ h[n + 1] = x
    OBVIOUS
  <2>4. h \in [0..(n + 1) -> U]
    BY <2>1, <2>2
  <2> HIDE DEF h
  <2>5. ASSUME NEW i \in 1..(n + 1) PROVE h[i] = next[<<h[i - 1], i>>]
    <3>1. CASE i = n + 1
      BY <3>1, <2>3 DEF x
    <3>2. CASE i # n + 1
      <4>1. i \in 1..n /\ h[i] = g[i] /\ h[i - 1] = g[i - 1]
        BY <3>2, <2>3
      <4> QED
        BY <4>1, <2>1
    <3> QED
      BY <3>1, <3>2
  <2>6. ASSUME NEW i \in 0..(n + 1) PROVE h[i] \in family[i]
    <3>1. i \in 0..n \/ i = n + 1
      OBVIOUS
    <3> QED
      BY <3>1, <2>1, <2>2, <2>3
  <2>7. h[0] = base
    BY <2>1, <2>3
  <2>8. h \in Upto(n + 1)
    BY <2>4, <2>5, <2>6, <2>7
  <2> QED
    BY <2>8
<1> HIDE DEF S
<1>3. N \in S
  <2>1. 0..N \subseteq S
    BY <1>1, <1>2, BoundedInduction
  <2> QED
    BY <2>1
<1>4. PICK g \in Upto(N) : TRUE
  BY <1>3 DEF S
<1> QED
  BY <1>4 DEF Results

\* Two functions that agree at 0, and at each number when they do at the one
\* before, agree.
AgreeStepwise(f, g, N) ==
    /\ N \in Nat
    /\ f[0] = g[0]
    /\ \A n \in 1..N : f[n - 1] = g[n - 1] => f[n] = g[n]

\* By induction on the number, then.
LEMMA RecursionsAgree ==
  ASSUME NEW N, NEW f, NEW g, AgreeStepwise(f, g, N)
  PROVE  \A n \in 0..N : f[n] = g[n]
<1> USE DEF AgreeStepwise
<1> DEFINE S == {n \in Nat : f[n] = g[n]}
<1>1. 0 \in S
  OBVIOUS
<1>2. ASSUME NEW n \in 0..(N - 1), n \in S PROVE n + 1 \in S
  <2>1. n + 1 \in 1..N /\ (n + 1) - 1 = n /\ f[n] = g[n]
    BY <1>2
  <2> QED
    BY <2>1
<1> HIDE DEF S
<1>3. 0..N \subseteq S
  BY <1>1, <1>2, BoundedInduction
<1> QED
  BY <1>3 DEF S

-----------------------------------------------------------------------------
(* A loop whose step stays in a set.                                       *)

Loop(f, N, base, next) ==
    f = [n \in 0..N |-> IF n = 0 THEN base ELSE next[<<f[n - 1], n>>]]

\* Its results, in the set.
RunsThrough(g, N, U, base, next) ==
    /\ g \in [0..N -> U]
    /\ g[0] = base
    /\ \A n \in 1..N : g[n] = next[<<g[n - 1], n>>]

\* A loop has a function, and any function of the loop goes through the set.
LEMMA LoopRuns ==
  ASSUME NEW N \in Nat, NEW U, NEW base \in U, NEW next \in [U \X (1..N) -> U]
  PROVE  /\ \E f : Loop(f, N, base, next)
         /\ \A g : Loop(g, N, base, next) => RunsThrough(g, N, U, base, next)
<1> DEFINE family == [n \in 0..N |-> U]
<1>1. \A n \in 0..N : family[n] = U
  OBVIOUS
<1>2. family \in [0..N -> SUBSET U] /\ base \in family[0]
  OBVIOUS
<1>3. \A n \in 1..N : n \in 0..N /\ n - 1 \in 0..N /\ n # 0
  OBVIOUS
<1> HIDE DEF family
<1>4. \A n \in 1..N : \A a \in family[n - 1] : next[<<a, n>>] \in family[n]
  <2> SUFFICES ASSUME NEW n \in 1..N, NEW a \in family[n - 1] PROVE next[<<a, n>>] \in family[n]
    OBVIOUS
  <2>1. a \in U /\ family[n] = U
    BY <1>1, <1>3
  <2> QED
    BY <2>1
<1>5. PICK f : Results(f, N, U, family, base, next)
  <2>1. Recursion(N, U, family, base, next)
    BY <1>2, <1>4 DEF Recursion
  <2> QED
    BY <2>1, RecursionExists
<1>6. f \in [0..N -> U] /\ f[0] = base /\ \A n \in 1..N : f[n] = next[<<f[n - 1], n>>]
  BY <1>5 DEF Results
<1>7. Loop(f, N, base, next)
  <2>1. \A n \in 0..N : n = 0 \/ n \in 1..N
    OBVIOUS
  <2>2. \A n \in 0..N : f[n] = IF n = 0 THEN base ELSE next[<<f[n - 1], n>>]
    BY <1>6, <2>1
  <2> QED
    BY <1>6, <2>2 DEF Loop
<1>8. ASSUME NEW g, Loop(g, N, base, next)
      PROVE  RunsThrough(g, N, U, base, next)
  <2>1. g = [n \in 0..N |-> g[n]] /\ g[0] = base
    BY <1>8 DEF Loop
  <2>2. \A n \in 1..N : g[n] = next[<<g[n - 1], n>>]
    BY <1>3, <1>8 DEF Loop
  <2>3. AgreeStepwise(f, g, N)
    BY <1>6, <2>1, <2>2 DEF AgreeStepwise
  <2>4. \A n \in 0..N : f[n] = g[n]
    BY <2>3, RecursionsAgree
  <2> QED
    BY <1>6, <2>1, <2>2, <2>4 DEF RunsThrough
<1> QED
  BY <1>7, <1>8

-----------------------------------------------------------------------------
(* Folds.  What a recursive definition over a sequence goes through is the *)
(* function of its intermediate results.                                   *)

IsFold(fold, step, base, seq) ==
    fold = [i \in 0..Len(seq) |-> IF i = 0 THEN base ELSE step[<<fold[i - 1], seq[i]>>]]

\* A fold whose step stays in a set has all its intermediate results there.
LEMMA FoldExists ==
  ASSUME NEW A, NEW B, NEW base \in A, NEW step \in [A \X B -> A], NEW seq \in Seq(B)
  PROVE  \E fold \in [0..Len(seq) -> A] : IsFold(fold, step, base, seq)
<1> DEFINE Upto(n) == {g \in [0..n -> A] :
                          g[0] = base /\ \A i \in 1..n : g[i] = step[<<g[i - 1], seq[i]>>]}
           S == {n \in Nat : Upto(n) # {}}
<1>1. Len(seq) \in Nat
  OBVIOUS
<1>2. 0 \in S
  <2>1. [i \in 0..0 |-> base] \in Upto(0)
    OBVIOUS
  <2> QED
    BY <2>1
<1>3. ASSUME NEW n \in 0..(Len(seq) - 1), n \in S PROVE n + 1 \in S
  <2>1. PICK g \in Upto(n) : TRUE
    BY <1>3
  <2> DEFINE h == [i \in 0..(n + 1) |->
                      IF i = n + 1 THEN step[<<g[n], seq[n + 1]>>] ELSE g[i]]
  <2>2. g[n] \in A /\ seq[n + 1] \in B
    BY <1>1, <2>1
  <2>3. step[<<g[n], seq[n + 1]>>] \in A
    BY <2>2
  <2>4. h \in [0..(n + 1) -> A] /\ h[0] = base
    BY <2>1, <2>3
  <2>5. ASSUME NEW i \in 1..(n + 1) PROVE h[i] = step[<<h[i - 1], seq[i]>>]
    <3>1. CASE i = n + 1
      <4>1. h[i] = step[<<g[n], seq[n + 1]>>] /\ h[i - 1] = g[n]
        BY <3>1
      <4> QED
        BY <3>1, <4>1
    <3>2. CASE i # n + 1
      <4>1. i \in 1..n /\ h[i] = g[i] /\ h[i - 1] = g[i - 1]
        BY <3>2
      <4> QED
        BY <4>1, <2>1
    <3> QED
      BY <3>1, <3>2
  <2> HIDE DEF h
  <2>6. h \in Upto(n + 1)
    BY <2>4, <2>5
  <2> QED
    BY <2>6
<1> HIDE DEF S
<1>4. Len(seq) \in S
  <2>1. 0..Len(seq) \subseteq S
    BY <1>1, <1>2, <1>3, BoundedInduction
  <2> QED
    BY <2>1, <1>1
<1>5. PICK g \in Upto(Len(seq)) : TRUE
  BY <1>4 DEF S
<1>6. g = [i \in 0..Len(seq) |-> IF i = 0 THEN base ELSE step[<<g[i - 1], seq[i]>>]]
  BY <1>5, <1>1
<1> QED
  BY <1>5, <1>6 DEF IsFold

\* A fold stays in a set its step does not leave.
LEMMA FoldStays ==
  ASSUME NEW B, NEW base, NEW step, NEW seq \in Seq(B), NEW fold,
         IsFold(fold, step, base, seq),
         NEW G, base \in G, \A a \in G, b \in B : step[<<a, b>>] \in G
  PROVE  \A i \in 0..Len(seq) : fold[i] \in G
<1> DEFINE S == {n \in Nat : n <= Len(seq) => fold[n] \in G}
<1>1. Len(seq) \in Nat
  OBVIOUS
<1>2. 0 \in S
  BY DEF IsFold
<1>3. ASSUME NEW n \in 0..(Len(seq) - 1), n \in S PROVE n + 1 \in S
  <2>1. fold[n] \in G /\ seq[n + 1] \in B
    BY <1>3, <1>1
  <2>2. fold[n + 1] = step[<<fold[n], seq[n + 1]>>]
    BY <1>1 DEF IsFold
  <2> QED
    BY <2>1, <2>2
<1> HIDE DEF S
<1>4. 0..Len(seq) \subseteq S
  BY <1>1, <1>2, <1>3, BoundedInduction
<1> QED
  BY <1>4, <1>1 DEF S

\* The folds of two sequences agree as long as the sequences do.
LEMMA FoldsAgree ==
  ASSUME NEW B, NEW base, NEW step, NEW seq \in Seq(B), NEW other \in Seq(B),
         NEW fold, IsFold(fold, step, base, seq),
         NEW rival, IsFold(rival, step, base, other),
         NEW N \in Nat, N <= Len(seq), N <= Len(other),
         \A i \in 1..N : seq[i] = other[i]
  PROVE  \A i \in 0..N : fold[i] = rival[i]
<1> DEFINE S == {n \in Nat : n <= N => fold[n] = rival[n]}
<1>1. Len(seq) \in Nat /\ Len(other) \in Nat
  OBVIOUS
<1>2. 0 \in S
  BY <1>1 DEF IsFold
<1>3. ASSUME NEW n \in 0..(N - 1), n \in S PROVE n + 1 \in S
  <2>1. fold[n] = rival[n] /\ seq[n + 1] = other[n + 1]
    BY <1>3, <1>1
  <2>2. n + 1 \in 0..Len(seq) /\ n + 1 \in 0..Len(other) /\ n + 1 # 0 /\ (n + 1) - 1 = n
    BY <1>1
  <2>3. fold[n + 1] = step[<<fold[n], seq[n + 1]>>]
    BY <2>2 DEF IsFold
  <2>4. rival[n + 1] = step[<<rival[n], other[n + 1]>>]
    BY <2>2 DEF IsFold
  <2> QED
    BY <2>1, <2>3, <2>4
<1> HIDE DEF S
<1>4. 0..N \subseteq S
  BY <1>2, <1>3, BoundedInduction
<1> QED
  BY <1>4, <1>1 DEF S

\* One more element is one more step.
LEMMA FoldOfAppend ==
  ASSUME NEW B, NEW base, NEW step, NEW seq \in Seq(B), NEW x \in B,
         NEW fold, IsFold(fold, step, base, seq),
         NEW rival, IsFold(rival, step, base, Append(seq, x))
  PROVE  rival[Len(seq) + 1] = step[<<fold[Len(seq)], x>>]
<1> DEFINE other == Append(seq, x)
<1>1. /\ Len(seq) \in Nat /\ other \in Seq(B)
      /\ Len(other) = Len(seq) + 1
      /\ other[Len(seq) + 1] = x
      /\ \A i \in 1..Len(seq) : seq[i] = other[i]
  OBVIOUS
<1>2. IsFold(rival, step, base, other)
  OBVIOUS
<1> HIDE DEF other
<1>3. Len(seq) <= Len(seq) /\ Len(seq) <= Len(other)
  BY <1>1
<1>4. \A i \in 0..Len(seq) : fold[i] = rival[i]
  BY <1>1, <1>2, <1>3, FoldsAgree
<1>5. /\ Len(seq) + 1 \in 0..Len(other) /\ Len(seq) + 1 # 0
      /\ (Len(seq) + 1) - 1 = Len(seq) /\ Len(seq) \in 0..Len(seq)
  BY <1>1
<1>6. rival[Len(seq) + 1] = step[<<rival[Len(seq)], other[Len(seq) + 1]>>]
  BY <1>2, <1>5 DEF IsFold
<1> QED
  BY <1>1, <1>4, <1>5, <1>6
=============================================================================
