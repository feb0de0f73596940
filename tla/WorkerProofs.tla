---------------------------- MODULE WorkerProofs ----------------------------
(***************************************************************************)
(* Proofs about the worker: its accounting of broker energy, what an       *)
(* incident captures of the findings ring, and what the slow window        *)
(* reports; for any scrape interval and billing limits, any caps and       *)
(* windows, and any batches.                                               *)
(***************************************************************************)
EXTENDS Worker, Induction, FiniteSetTheorems, TLAPS

-----------------------------------------------------------------------------
(* Broker energy.  A take of it reads the series of the scraper in several *)
(* steps while the scraper goes on, yet bills no unit of time twice: the   *)
(* marker of the declared energy separates what was measured from what was *)
(* declared.                                                               *)

\* The series has no sample that a take at t finds recent, unless it came at
\* t or after.
StaleBefore(t) ==
    \/ ~ series.everSampled
    \/ series.lastSample + Staleness < t
    \/ series.lastSample >= t

BrokerType ==
    /\ clock \in Nat
    /\ series \in [cumulative : SUBSET Nat, consumed : SUBSET Nat, lastUpdate : Nat,
                   lastSample : Nat, everSampled : BOOLEAN]
    /\ declared \in [last : Nat, outage : BOOLEAN]
    /\ scraper \in [step : {"wait", "banked", "updated"}, at : Nat]
    /\ take \in [step : {"idle", "recover", "own", "drop", "bank", "declare"}, at : Nat]
    /\ measuredBilled \subseteq Nat
    /\ declaredBilled \subseteq Nat

\* The marks of the scraper and of the take are the clock while they work, and
\* never ahead of it.
BrokerMarks ==
    /\ scraper.at <= clock /\ declared.last <= clock
    /\ series.lastSample <= scraper.at
    /\ scraper.step # "wait" => scraper.at = clock
    /\ take.step # "idle" => take.at = clock
    /\ \A t \in series.cumulative : t <= clock

\* The declared marker separates the two: nothing declared is past it, and
\* measured energy is past it by less than the shortest bill.
MarkerBetween ==
    /\ \A t \in declaredBilled : t <= declared.last
    /\ \A t \in measuredBilled : t < declared.last + MinBillable
    /\ declared.last \notin measuredBilled \cap declaredBilled

\* What the series holds to be taken was not declared, or an outage is on and
\* it will be discarded first.
PendingNotDeclared ==
    /\ ~ declared.outage =>
          /\ \A t \in declaredBilled : t <= scraper.at
          /\ (series.cumulative \ series.consumed) \cap declaredBilled = {}
    /\ declared.outage => take.step \notin {"own", "bank"} /\ StaleBefore(declared.last)
    /\ take.step = "recover" => /\ declared.outage
                                /\ \A t \in declaredBilled : t <= scraper.at
    /\ take.step = "drop" => declared.outage
    /\ take.step \in {"drop", "bank", "declare"} => StaleBefore(take.at)

BrokerInv == BrokerType /\ BrokerMarks /\ MarkerBetween /\ PendingNotDeclared /\ BilledOnce

\* Before the first scrape and the first take nothing is billed.
LEMMA BrokerInitInv == BrokerInit => BrokerInv
BY BrokerAssumption DEF BrokerInit, BrokerInv, BrokerType, BrokerMarks, MarkerBetween,
   PendingNotDeclared, BilledOnce, StaleBefore

\* A scrape covers the units after the last one landed, up to the clock.
LEMMA ScrapeUnits ==
  ASSUME BrokerInv, clock >= scraper.at + ScrapeInterval
  PROVE  /\ Units(clock - ScrapeInterval, clock) \subseteq Nat
         /\ \A t \in Units(clock - ScrapeInterval, clock) : scraper.at < t /\ t <= clock
BY BrokerAssumption DEF BrokerInv, BrokerType, Units

\* The steps of the scraper: what it banks is newer than anything declared by
\* a take that saw it alive.
LEMMA ScraperSteps ==
  ASSUME BrokerInv, BankSample \/ StampUpdate \/ StampSample \/ MarkAlive
  PROVE  BrokerInv'
<1> USE BrokerAssumption DEF BrokerInv
<1>1. CASE BankSample
  <2> USE DEF BankSample
  <2>1. BrokerType' /\ BrokerMarks'
    BY <1>1, ScrapeUnits DEF BrokerType, BrokerMarks
  <2>2. MarkerBetween' /\ BilledOnce'
    BY <1>1 DEF MarkerBetween, BilledOnce
  <2>3. PendingNotDeclared'
    BY <1>1, ScrapeUnits DEF BrokerType, BrokerMarks, PendingNotDeclared, StaleBefore, Staleness
  <2> QED BY <2>1, <2>2, <2>3
<1>2. CASE StampUpdate
  <2> USE DEF StampUpdate
  <2>1. BrokerType' /\ BrokerMarks'
    BY <1>2 DEF BrokerType, BrokerMarks
  <2>2. MarkerBetween' /\ BilledOnce'
    BY <1>2 DEF MarkerBetween, BilledOnce
  <2>3. PendingNotDeclared'
    BY <1>2 DEF BrokerType, PendingNotDeclared, StaleBefore, Staleness
  <2> QED BY <2>1, <2>2, <2>3
<1>3. CASE StampSample
  <2> USE DEF StampSample
  <2>1. BrokerType' /\ BrokerMarks'
    BY <1>3 DEF BrokerType, BrokerMarks
  <2>2. MarkerBetween' /\ BilledOnce'
    BY <1>3 DEF MarkerBetween, BilledOnce
  <2>3. series'.lastSample = clock /\ (take.step # "idle" => take.at = clock) /\ declared.last <= clock
    BY <1>3 DEF BrokerType, BrokerMarks
  <2>4. PendingNotDeclared'
    BY <1>3, <2>3 DEF BrokerType, PendingNotDeclared, StaleBefore, Staleness
  <2> QED BY <2>1, <2>2, <2>4
<1>4. CASE MarkAlive
  <2> USE DEF MarkAlive
  <2>1. BrokerType' /\ BrokerMarks'
    BY <1>4 DEF BrokerType, BrokerMarks
  <2>2. MarkerBetween' /\ BilledOnce'
    BY <1>4 DEF MarkerBetween, BilledOnce
  <2>3. PendingNotDeclared'
    BY <1>4 DEF BrokerType, BrokerMarks, PendingNotDeclared, StaleBefore, Staleness
  <2> QED BY <2>1, <2>2, <2>3
<1> QED BY <1>1, <1>2, <1>3, <1>4

\* A take looks at the series, and goes the measured or the declared way.
LEMMA LookStep ==
  ASSUME BrokerInv, LookAtSeries
  PROVE  BrokerInv'
<1> USE BrokerAssumption DEF BrokerInv, LookAtSeries
<1>1. BrokerType' /\ BrokerMarks'
  BY DEF BrokerType, BrokerMarks
<1>2. MarkerBetween' /\ BilledOnce'
  BY DEF MarkerBetween, BilledOnce
<1>3. HasRecentSample(clock) \/ StaleBefore(clock)
  BY DEF HasRecentSample, StaleBefore, Elapsed, BrokerType, BrokerMarks, Staleness
<1>4. ASSUME HasRecentSample(clock), declared.outage
      PROVE  \A t \in declaredBilled : t <= scraper.at
  BY <1>4 DEF HasRecentSample, StaleBefore, Elapsed, BrokerType, BrokerMarks, Staleness,
     MarkerBetween, PendingNotDeclared
<1>5. PendingNotDeclared'
  BY <1>3, <1>4 DEF PendingNotDeclared, StaleBefore, BrokerType, BrokerMarks, Staleness
<1> QED BY <1>1, <1>2, <1>5

\* What was measured across an outage is discarded, not billed.
LEMMA DiscardStep ==
  ASSUME BrokerInv, DiscardPending
  PROVE  BrokerInv'
<1> USE BrokerAssumption DEF BrokerInv, DiscardPending
<1>1. BrokerType' /\ BrokerMarks'
  BY DEF BrokerType, BrokerMarks
<1>2. MarkerBetween' /\ BilledOnce'
  BY DEF BrokerType, MarkerBetween, BilledOnce
<1>3. PendingNotDeclared'
  BY DEF BrokerType, PendingNotDeclared, StaleBefore, Staleness
<1> QED BY <1>1, <1>2, <1>3

\* What a take would declare lies after the marker, which then moves to the
\* take, unless the take comes too soon to bill.
LEMMA DeclaredWindow ==
  ASSUME BrokerInv, take.step # "idle"
  PROVE  \/ /\ WindowDeclared = {}
            /\ AdvanceDeclared = declared
            /\ clock < declared.last + MinBillable
         \/ /\ WindowDeclared # {}
            /\ WindowDeclared \subseteq Nat
            /\ \A t \in WindowDeclared : declared.last < t /\ t <= clock
            /\ AdvanceDeclared = [declared EXCEPT !.last = clock]
            /\ declared.last + MinBillable <= clock
<1> USE BrokerAssumption DEF BrokerInv, BrokerType, BrokerMarks
<1> DEFINE elapsed == clock - declared.last
           reach == IF elapsed <= MaxBillable THEN elapsed ELSE MaxBillable
<1>1. take.at = clock /\ Elapsed(declared.last, take.at) = elapsed /\ elapsed \in Nat
  BY DEF Elapsed
<1>2. CASE elapsed < MinBillable
  BY <1>1, <1>2 DEF WindowDeclared, AdvanceDeclared
<1>3. CASE ~ (elapsed < MinBillable)
  <2>1. WindowDeclared = Units(clock - reach, clock)
    BY <1>1, <1>3 DEF WindowDeclared
  <2>2. reach \in Nat /\ reach > 0 /\ reach <= elapsed
    BY <1>1, <1>3
  <2>3. clock \in WindowDeclared
    BY <2>1, <2>2 DEF Units
  <2>4. \A t \in WindowDeclared : t \in Nat /\ declared.last < t /\ t <= clock
    BY <2>1, <2>2, <1>1 DEF Units
  <2>5. AdvanceDeclared = [declared EXCEPT !.last = clock]
    BY <2>3, <1>1 DEF AdvanceDeclared
  <2> QED BY <2>3, <2>4, <2>5, <1>1, <1>3
<1> QED BY <1>2, <1>3

\* Energy that was not declared is measured.
LEMMA MeasuredStep ==
  ASSUME BrokerInv, ~ declared.outage, TakeSeries,
         take.step # "idle",
         \/ declared' = AdvanceDeclared
         \/ declared' = declared /\ WindowBanked = {},
         take' \in [step : {"idle", "declare"}, at : {take.at}],
         take'.step = "declare" => StaleBefore(take.at),
         UNCHANGED <<clock, scraper, declaredBilled>>
  PROVE  BrokerInv'
<1> USE BrokerAssumption DEF BrokerInv, TakeSeries
<1>1. /\ WindowBanked \subseteq series.cumulative \ series.consumed
      /\ series' \in {series, [series EXCEPT !.consumed = series.cumulative]}
  BY DEF WindowBanked
<1>2. WindowBanked \cap declaredBilled = {} /\ \A t \in WindowBanked : t <= clock
  BY <1>1 DEF PendingNotDeclared, BrokerMarks
<1>3. /\ declared'.last \in {declared.last, clock} /\ declared'.outage = declared.outage
      /\ declared' \in [last : Nat, outage : BOOLEAN]
      /\ declared'.last = declared.last => WindowBanked = {} \/ clock < declared.last + MinBillable
      /\ declared'.last # declared.last => declared.last + MinBillable <= declared'.last
  BY DeclaredWindow DEF BrokerType, BrokerMarks
<1>4. BrokerType' /\ BrokerMarks'
  BY <1>1, <1>3 DEF BrokerType, BrokerMarks
<1>5. BilledOnce'
  <2> SUFFICES ASSUME NEW t \in measuredBilled \cup WindowBanked,
                      Units(t - 1, t - 1 + MinBillable)
                         \subseteq (measuredBilled \cup WindowBanked) \cap declaredBilled
               PROVE  FALSE
    BY DEF BilledOnce
  <2>1. Units(t - 1, t - 1 + MinBillable) \subseteq measuredBilled \cap declaredBilled
    BY <1>2
  <2>2. t \in Units(t - 1, t - 1 + MinBillable)
    BY <1>1 DEF BrokerType, Units
  <2> QED BY <2>1, <2>2 DEF BilledOnce
<1>6. MarkerBetween'
  BY <1>2, <1>3, <1>1 DEF BrokerType, BrokerMarks, MarkerBetween
<1>7. PendingNotDeclared'
  BY <1>1, <1>3 DEF BrokerType, PendingNotDeclared, StaleBefore, Staleness
<1> QED BY <1>4, <1>5, <1>6, <1>7

\* A take that finds no recent sample declares the energy past the marker.
LEMMA DeclaredStep ==
  ASSUME BrokerInv, TakeDeclared
  PROVE  BrokerInv'
<1> USE BrokerAssumption DEF BrokerInv
<1>1. /\ take.step = "declare" /\ take' = [take EXCEPT !.step = "idle"]
      /\ declaredBilled' = declaredBilled \cup WindowDeclared
      /\ UNCHANGED <<clock, series, scraper, measuredBilled>>
  BY DEF TakeDeclared
<1>2. CASE WindowDeclared = {}
  <2>1. declared' = declared /\ declaredBilled' = declaredBilled
    BY <1>2, DeclaredWindow DEF TakeDeclared, BrokerType
  <2> QED BY <1>1, <2>1 DEF BrokerType, BrokerMarks, MarkerBetween, PendingNotDeclared,
             BilledOnce, StaleBefore, Staleness
<1>3. CASE WindowDeclared # {}
  <2>1. /\ WindowDeclared \subseteq Nat
        /\ \A t \in WindowDeclared : declared.last < t /\ t <= clock
        /\ declared.last + MinBillable <= clock
    BY <1>1, <1>3, DeclaredWindow
  <2>2. declared' = [last |-> clock, outage |-> TRUE]
    BY <1>1, <1>3, DeclaredWindow DEF TakeDeclared, BrokerType
  <2>3. BrokerType' /\ BrokerMarks'
    BY <1>1, <2>1, <2>2 DEF BrokerType, BrokerMarks
  <2>4. MarkerBetween'
    BY <1>1, <2>1, <2>2 DEF BrokerType, BrokerMarks, MarkerBetween
  <2>5. PendingNotDeclared'
    BY <1>1, <2>1, <2>2 DEF BrokerType, BrokerMarks, PendingNotDeclared, StaleBefore, Staleness
  <2>6. BilledOnce'
    <3> SUFFICES ASSUME NEW t \in measuredBilled,
                        Units(t - 1, t - 1 + MinBillable)
                           \subseteq measuredBilled \cap (declaredBilled \cup WindowDeclared)
                 PROVE  FALSE
      BY <1>1 DEF BilledOnce
    <3>1. t \in Nat /\ t + MinBillable - 1 \in measuredBilled
      BY DEF BrokerType, Units
    <3>2. t + MinBillable - 1 < declared.last + MinBillable
      BY <3>1 DEF MarkerBetween
    <3>3. t <= declared.last
      BY <3>1, <3>2 DEF BrokerType
    <3>4. CASE t + MinBillable - 1 < declared.last
      BY <3>1, <3>4, <2>1 DEF BilledOnce, Units, BrokerType
    <3>5. CASE t + MinBillable - 1 >= declared.last
      <4>1. declared.last \in Units(t - 1, t - 1 + MinBillable)
        BY <3>1, <3>3, <3>5 DEF Units, BrokerType
      <4> QED BY <4>1, <2>1 DEF MarkerBetween, BrokerType
    <3> QED BY <3>1, <3>4, <3>5 DEF BrokerType
  <2> QED BY <2>3, <2>4, <2>5, <2>6
<1> QED BY <1>2, <1>3

\* Every step of the broker energy, and every step that leaves it alone,
\* keeps its invariant.
LEMMA BrokerStep ==
  ASSUME BrokerInv, BrokerNext \/ AdvanceClock \/ UNCHANGED brokerVars
  PROVE  BrokerInv'
<1>1. CASE TakeMeasured
  <2>1. ~ declared.outage
    BY <1>1 DEF TakeMeasured, BrokerInv, PendingNotDeclared
  <2> QED BY <1>1, <2>1, MeasuredStep DEF TakeMeasured, BrokerInv, BrokerType
<1>2. CASE TakeBanked
  <2>1. ~ declared.outage /\ StaleBefore(take.at)
    BY <1>2 DEF TakeBanked, BrokerInv, PendingNotDeclared
  <2> QED BY <1>2, <2>1, MeasuredStep DEF TakeBanked, BrokerInv, BrokerType
<1>3. CASE AdvanceClock
  BY <1>3, BrokerAssumption DEF AdvanceClock, BrokerInv, BrokerType, BrokerMarks, MarkerBetween,
     PendingNotDeclared, BilledOnce, StaleBefore, Staleness
<1>4. CASE UNCHANGED brokerVars
  BY <1>4 DEF brokerVars, BrokerInv, BrokerType, BrokerMarks, MarkerBetween,
     PendingNotDeclared, BilledOnce, StaleBefore, Staleness
<1> QED BY <1>1, <1>2, <1>3, <1>4, ScraperSteps, LookStep, DiscardStep, DeclaredStep DEF BrokerNext

\* No unit of time is billed both as measured and as declared broker energy,
\* whatever the scraper does between the reads of a take.
THEOREM EnergyBilledOnce == Spec => []BilledOnce
<1>1. Init => BrokerInv
  BY BrokerInitInv DEF Init
<1>2. BrokerInv /\ [Next]_vars => BrokerInv'
  <2> SUFFICES ASSUME BrokerInv, [Next]_vars PROVE BrokerInv'
    OBVIOUS
  <2>1. Next => BrokerNext \/ AdvanceClock \/ UNCHANGED brokerVars
    BY DEF Next, Analyse, StoreFindings, RetainTraces, IngestFindings, ChargeServices, FreezeCapture,
       SettleCapture, ObserveEpisodes, DrainEpisodes, BillBroker, Tick, brokerVars
  <2>2. UNCHANGED vars => UNCHANGED brokerVars
    BY DEF vars
  <2> QED BY <2>1, <2>2, BrokerStep
<1>3. BrokerInv => BilledOnce
  BY DEF BrokerInv
<1> QED BY <1>1, <1>2, <1>3, PTL DEF Spec

-----------------------------------------------------------------------------
(* Finite sets and sequences.                                              *)

\* The least of some natural numbers is one of them.
LEMMA MinIsLeast ==
  ASSUME NEW T \in SUBSET Nat, T # {}
  PROVE  Min(T) \in T /\ \A n \in T : Min(T) <= n
BY LeastNatural DEF Min

\* A number of a set that none of it is below is its least.
LEMMA LeastIsMin ==
  ASSUME NEW T \in SUBSET Nat, NEW m \in T, \A n \in T : m <= n
  PROVE  Min(T) = m
<1>1. PICK x : x = Min(T)
  OBVIOUS
<1>2. x \in T /\ \A n \in T : x <= n
  BY <1>1, MinIsLeast
<1>3. x <= m /\ m <= x /\ x \in Nat
  BY <1>2
<1> QED BY <1>1, <1>3

\* So is the greatest of some that are bounded.
LEMMA MaxIsGreatest ==
  ASSUME NEW B \in Nat, NEW T \in SUBSET (0..B), T # {}
  PROVE  Max(T) \in T /\ \A n \in T : n <= Max(T)
<1> DEFINE below == {B - n : n \in T}
<1>1. below \in SUBSET Nat /\ below # {}
  <2>1. \A n \in T : B - n \in Nat
    OBVIOUS
  <2>2. \A d \in below : d \in Nat
    BY <2>1
  <2>3. PICK n \in T : TRUE
    OBVIOUS
  <2>4. B - n \in below
    OBVIOUS
  <2> QED BY <2>2, <2>4
<1>2. PICK d \in below : \A e \in below : d <= e
  BY <1>1, LeastNatural
<1>3. PICK m \in T : d = B - m
  OBVIOUS
<1>4. \A n \in T : n <= m
  <2> TAKE n \in T
  <2>1. B - n \in below
    OBVIOUS
  <2> QED BY <2>1, <1>2, <1>3
<1>5. \E x \in T : \A y \in T : x >= y
  BY <1>3, <1>4
<1> QED BY <1>5 DEF Max

\* A number of a bounded set that none of it is above is its greatest.
LEMMA GreatestIsMax ==
  ASSUME NEW B \in Nat, NEW T \in SUBSET (0..B), NEW m \in T, \A n \in T : n <= m
  PROVE  Max(T) = m
<1>1. PICK x : x = Max(T)
  OBVIOUS
<1>2. x \in T /\ \A n \in T : n <= x
  BY <1>1, MaxIsGreatest
<1>3. x <= m /\ m <= x /\ x \in Nat
  BY <1>2
<1> QED BY <1>1, <1>3

\* The values of a function with finitely many arguments are finitely many.
LEMMA FiniteImage ==
  ASSUME NEW S, IsFiniteSet(S), NEW f, DOMAIN f = S
  PROVE  /\ IsFiniteSet({f[x] : x \in S})
         /\ Cardinality({f[x] : x \in S}) <= Cardinality(S)
<1> DEFINE T == {f[x] : x \in S}
           g == [x \in S |-> f[x]]
<1>1. g \in Surjection(S, T)
  BY DEF Surjection
<1> QED BY <1>1, FS_Surjection

\* There are n numbers from 1 to n.
LEMMA FirstNumbers ==
  ASSUME NEW n \in Nat
  PROVE  IsFiniteSet(1..n) /\ Cardinality(1..n) = n
BY FS_Interval

\* Arguments of different values are as many as the values.
LEMMA DistinctImage ==
  ASSUME NEW S, IsFiniteSet(S), NEW f, DOMAIN f = S, \A x, y \in S : f[x] = f[y] => x = y
  PROVE  Cardinality({f[x] : x \in S}) = Cardinality(S)
<1> DEFINE T == {f[x] : x \in S}
           g == [x \in S |-> f[x]]
<1>1. g \in Surjection(S, T) /\ g \in Injection(S, T)
  BY DEF Surjection, Injection, IsInjective
<1> QED BY <1>1, FS_Surjection

\* A sequence has finitely many places and elements.
LEMMA FiniteSequence ==
  ASSUME NEW A, NEW seq \in Seq(A)
  PROVE  /\ Len(seq) \in Nat /\ DOMAIN seq = 1..Len(seq)
         /\ IsFiniteSet(DOMAIN seq) /\ Cardinality(DOMAIN seq) = Len(seq)
         /\ IsFiniteSet(Range(seq)) /\ Range(seq) \subseteq A
         /\ seq \in Seq(Range(seq))
<1>1. Len(seq) \in Nat /\ DOMAIN seq = 1..Len(seq)
  OBVIOUS
<1>2. IsFiniteSet(DOMAIN seq) /\ Cardinality(DOMAIN seq) = Len(seq)
  BY <1>1, FS_Interval
<1>3. Range(seq) = {seq[i] : i \in DOMAIN seq}
  BY DEF Range
<1>4. IsFiniteSet(Range(seq))
  BY <1>2, <1>3, FiniteImage
<1>5. \A i \in 1..Len(seq) : seq[i] \in A /\ seq[i] \in Range(seq)
  BY <1>1, <1>3
<1>6. Range(seq) \subseteq A
  BY <1>1, <1>3, <1>5
<1>7. seq \in Seq(Range(seq))
  BY <1>1, <1>5
<1> QED BY <1>1, <1>2, <1>4, <1>6, <1>7

-----------------------------------------------------------------------------
(* Sifting a sequence.                                                     *)

\* Which element of a sequence each one of the result is.
Sifting(seq, set, result, n, place) ==
    /\ place \in [DOMAIN result -> 1..n]
    /\ \A i, j \in DOMAIN result : i < j => place[i] < place[j]
    /\ \A i \in DOMAIN result : result[i] = seq[place[i]] /\ result[i] \in set
    /\ \A k \in 1..n : seq[k] \in set => \E i \in DOMAIN result : place[i] = k

SiftStep(seq, set, kept, n) == IF seq[n] \in set THEN Append(kept, seq[n]) ELSE kept

SiftLoop(f, seq, set) ==
    f = [i \in 0..Len(seq) |->
           IF i = 0 THEN <<>>
           ELSE IF seq[i] \in set THEN Append(f[i - 1], seq[i]) ELSE f[i - 1]]

SiftRun(f, A, seq, set) ==
    /\ Sifted(seq, set) = f[Len(seq)]
    /\ f \in [0..Len(seq) -> Seq(A)]
    /\ f[0] = <<>>
    /\ \A n \in 1..Len(seq) : f[n] = SiftStep(seq, set, f[n - 1], n)

\* A sieve is a run over the sequence, one element after the other.
LEMMA SiftRuns ==
  ASSUME NEW A, NEW seq \in Seq(A), NEW set
  PROVE  \E f : SiftRun(f, A, seq, set)
<1>1. PICK K \in Nat : K = Len(seq)
  OBVIOUS
<1> DEFINE U == Seq(A)
           next == [s \in U \X (1..K) |-> SiftStep(seq, set, s[1], s[2])]
<1>2. <<>> \in U
  OBVIOUS
<1>3. ASSUME NEW kept \in U, NEW n \in 1..K PROVE SiftStep(seq, set, kept, n) \in U
  BY <1>1 DEF SiftStep
<1>4. next \in [U \X (1..K) -> U]
  BY <1>3
<1>5. \A kept \in U, n \in 1..K : next[<<kept, n>>] = SiftStep(seq, set, kept, n)
  OBVIOUS
<1> HIDE DEF U, next
<1>6. /\ \E f : Loop(f, K, <<>>, next)
      /\ \A g : Loop(g, K, <<>>, next) => RunsThrough(g, K, U, <<>>, next)
  BY <1>2, <1>4, LoopRuns
<1>7. \A n \in 1..K : n \in 0..K /\ n - 1 \in 0..K /\ n # 0
  OBVIOUS
<1>8. PICK f : Loop(f, K, <<>>, next)
  BY <1>6
<1>9. f \in [0..K -> U] /\ f[0] = <<>> /\ \A n \in 1..K : f[n] = SiftStep(seq, set, f[n - 1], n)
  <2>1. f \in [0..K -> U] /\ f[0] = <<>> /\ \A n \in 1..K : f[n] = next[<<f[n - 1], n>>]
    BY <1>6, <1>8 DEF RunsThrough
  <2>2. \A n \in 1..K : f[n - 1] \in U
    BY <1>7, <2>1
  <2> QED BY <1>5, <2>1, <2>2
<1>10. SiftLoop(f, seq, set)
  <2>1. \A n \in 0..K : n = 0 \/ n \in 1..K
    OBVIOUS
  <2>2. \A n \in 0..K : f[n] = IF n = 0 THEN <<>>
                               ELSE IF seq[n] \in set THEN Append(f[n - 1], seq[n]) ELSE f[n - 1]
    BY <1>9, <2>1 DEF SiftStep
  <2> QED BY <1>1, <1>9, <2>2 DEF SiftLoop
<1>11. PICK g : g = CHOOSE h : SiftLoop(h, seq, set)
  OBVIOUS
<1>12. SiftLoop(g, seq, set)
  BY <1>10, <1>11
<1>13. Sifted(seq, set) = g[Len(seq)]
  BY <1>11 DEF Sifted, SiftLoop
<1>14. g[0] = <<>> /\ \A n \in 1..K : g[n] = SiftStep(seq, set, g[n - 1], n)
  <2>1. g = [i \in 0..K |->
               IF i = 0 THEN <<>>
               ELSE IF seq[i] \in set THEN Append(g[i - 1], seq[i]) ELSE g[i - 1]]
    BY <1>1, <1>12 DEF SiftLoop
  <2>2. g[0] = <<>>
    BY <2>1
  <2>3. ASSUME NEW n \in 1..K PROVE g[n] = SiftStep(seq, set, g[n - 1], n)
    BY <2>1, <1>7 DEF SiftStep
  <2> QED BY <2>2, <2>3
<1>15. \A n \in 0..K : f[n] = g[n]
  <2>1. \A n \in 1..K : f[n - 1] = g[n - 1] => f[n] = g[n]
    BY <1>9, <1>14
  <2>2. AgreeStepwise(f, g, K)
    BY <1>9, <1>14, <2>1 DEF AgreeStepwise
  <2> QED BY <2>2, RecursionsAgree
<1>16. Sifted(seq, set) = f[Len(seq)]
  BY <1>1, <1>13, <1>15
<1> QED BY <1>1, <1>9, <1>16 DEF U, SiftRun

\* Sifting keeps every element in the set, each where it was among the others.
LEMMA SiftedFacts ==
  ASSUME NEW A, NEW seq \in Seq(A), NEW set
  PROVE  /\ Sifted(seq, set) \in Seq(A)
         /\ \E place : Sifting(seq, set, Sifted(seq, set), Len(seq), place)
<1>0. PICK f : SiftRun(f, A, seq, set)
  BY SiftRuns
<1>1. /\ Sifted(seq, set) = f[Len(seq)]
      /\ f \in [0..Len(seq) -> Seq(A)]
      /\ f[0] = <<>>
      /\ \A n \in 1..Len(seq) : f[n] = SiftStep(seq, set, f[n - 1], n)
  BY <1>0 DEF SiftRun
<1>2. PICK K \in Nat : K = Len(seq)
  OBVIOUS
<1> DEFINE S == {n \in 0..K : \E place : Sifting(seq, set, f[n], n, place)}
<1>3. 0 \in S
  <2>1. Sifting(seq, set, <<>>, 0, <<>>)
    BY DEF Sifting
  <2> QED BY <2>1, <1>1, <1>2
<1>4. ASSUME NEW n \in 0..(K - 1), n \in S PROVE n + 1 \in S
  <2>1. PICK place : Sifting(seq, set, f[n], n, place)
    BY <1>4
  <2>2. PICK kept \in Seq(A) : kept = f[n]
    BY <1>1, <1>2
  <2>3. n + 1 \in 1..K /\ (n + 1) - 1 = n
    OBVIOUS
  <2>4. f[n + 1] = SiftStep(seq, set, kept, n + 1)
    BY <1>1, <1>2, <2>2, <2>3
  <2>5. CASE seq[n + 1] \notin set
    <3>1. f[n + 1] = kept
      BY <2>4, <2>5 DEF SiftStep
    <3>2. Sifting(seq, set, kept, n + 1, place)
      BY <2>1, <2>2, <2>5 DEF Sifting
    <3> QED BY <3>1, <3>2, <2>3
  <2>6. CASE seq[n + 1] \in set
    <3>1. PICK L \in Nat : L = Len(kept) /\ DOMAIN kept = 1..L
      OBVIOUS
    <3>2. PICK x \in A : x = seq[n + 1]
      BY <2>3, <1>2
    <3>3. PICK more : more = Append(kept, x)
      OBVIOUS
    <3>4. DOMAIN more = 1..(L + 1) /\ more[L + 1] = x /\ \A i \in 1..L : more[i] = kept[i]
      BY <3>1, <3>3
    <3>5. f[n + 1] = more
      BY <2>4, <2>6, <3>2, <3>3 DEF SiftStep
    <3>6. PICK wider : wider = [i \in 1..(L + 1) |-> IF i = L + 1 THEN n + 1 ELSE place[i]]
      OBVIOUS
    <3>7. /\ place \in [1..L -> 1..n]
          /\ \A i, j \in 1..L : i < j => place[i] < place[j]
          /\ \A i \in 1..L : kept[i] = seq[place[i]] /\ kept[i] \in set
          /\ \A k \in 1..n : seq[k] \in set => \E i \in 1..L : place[i] = k
      BY <2>1, <2>2, <3>1 DEF Sifting
    <3>8. /\ wider \in [1..(L + 1) -> 1..(n + 1)]
          /\ wider[L + 1] = n + 1 /\ \A i \in 1..L : wider[i] = place[i] /\ wider[i] < n + 1
      BY <3>6, <3>7
    <3>13. \A i \in 1..(L + 1) : i = L + 1 \/ i \in 1..L
      OBVIOUS
    <3>9. ASSUME NEW i \in 1..(L + 1), NEW j \in 1..(L + 1), i < j
          PROVE  wider[i] < wider[j]
      <4>1. i \in 1..L
        BY <3>9
      <4>2. CASE j = L + 1
        BY <4>1, <4>2, <3>8
      <4>3. CASE j \in 1..L
        BY <4>1, <4>3, <3>7, <3>8, <3>9
      <4> QED BY <4>2, <4>3, <3>13
    <3>10. ASSUME NEW i \in 1..(L + 1) PROVE more[i] = seq[wider[i]] /\ more[i] \in set
      <4>1. CASE i = L + 1
        BY <4>1, <3>4, <3>8, <3>2, <2>6
      <4>2. CASE i \in 1..L
        BY <4>2, <3>4, <3>7, <3>8
      <4> QED BY <4>1, <4>2, <3>13
    <3>11. \A k \in 1..(n + 1) : seq[k] \in set => \E i \in 1..(L + 1) : wider[i] = k
      <4> TAKE k \in 1..(n + 1)
      <4>1. CASE k = n + 1
        BY <4>1, <3>8
      <4>2. CASE k \in 1..n
        BY <4>2, <3>7, <3>8
      <4> QED BY <4>1, <4>2
    <3>12. Sifting(seq, set, more, n + 1, wider)
      BY <3>4, <3>8, <3>9, <3>10, <3>11 DEF Sifting
    <3> QED BY <3>5, <3>12, <2>3
  <2> QED BY <2>5, <2>6
<1> HIDE DEF S
<1>5. 0..K \subseteq S
  BY <1>3, <1>4, BoundedInduction
<1>6. \E place : Sifting(seq, set, f[K], K, place)
  BY <1>5 DEF S
<1> QED BY <1>1, <1>2, <1>6

\* Its elements are those of the sequence in the set.
LEMMA SiftedRange ==
  ASSUME NEW A, NEW seq \in Seq(A), NEW set
  PROVE  /\ Sifted(seq, set) \in Seq(A)
         /\ Range(Sifted(seq, set)) = Range(seq) \cap set
         /\ Sifted(seq, set) \in Seq(Range(seq) \cap set)
         /\ Len(Sifted(seq, set)) <= Len(seq)
<1>1. PICK result \in Seq(A) : result = Sifted(seq, set)
  BY SiftedFacts
<1>2. PICK place : Sifting(seq, set, result, Len(seq), place)
  BY <1>1, SiftedFacts
<1>3. PICK K \in Nat : K = Len(seq) /\ DOMAIN seq = 1..K
  OBVIOUS
<1>4. PICK L \in Nat : L = Len(result) /\ DOMAIN result = 1..L
  OBVIOUS
<1>5. /\ place \in [1..L -> 1..K]
      /\ \A i, j \in 1..L : i < j => place[i] < place[j]
      /\ \A i \in 1..L : result[i] = seq[place[i]] /\ result[i] \in set
      /\ \A k \in 1..K : seq[k] \in set => \E i \in 1..L : place[i] = k
  BY <1>2, <1>3, <1>4 DEF Sifting
<1>6. Range(result) = Range(seq) \cap set
  <2>1. Range(result) = {result[i] : i \in 1..L} /\ Range(seq) = {seq[k] : k \in 1..K}
    BY <1>3, <1>4 DEF Range
  <2>2. \A i \in 1..L : result[i] \in {seq[k] : k \in 1..K} /\ result[i] \in set
    BY <1>5
  <2>3. ASSUME NEW k \in 1..K, seq[k] \in set PROVE seq[k] \in {result[i] : i \in 1..L}
    <3>1. PICK i \in 1..L : place[i] = k
      BY <2>3, <1>5
    <3>2. result[i] = seq[k]
      BY <3>1, <1>5
    <3> QED BY <3>2
  <2> QED BY <2>1, <2>2, <2>3
<1>7. L <= K
  <2>1. \A i, j \in 1..L : place[i] = place[j] => i = j
    <3> TAKE i, j \in 1..L
    <3>1. place[i] \in 1..K /\ place[j] \in 1..K
      BY <1>5
    <3>2. (i < j => place[i] < place[j]) /\ (j < i => place[j] < place[i])
      BY <1>5
    <3> QED BY <3>1, <3>2
  <2>2. place \in Injection(1..L, 1..K)
    BY <1>5, <2>1 DEF Injection, IsInjective
  <2>3. IsFiniteSet(1..K) /\ Cardinality(1..K) = K /\ Cardinality(1..L) = L
    BY FS_Interval
  <2>4. Cardinality(1..L) <= Cardinality(1..K)
    BY <2>2, <2>3, FS_Injection
  <2> QED BY <2>3, <2>4
<1>8. result \in Seq(Range(seq) \cap set)
  <2>1. \A i \in 1..L : result[i] \in Range(seq) \cap set
    BY <1>4, <1>6 DEF Range
  <2> QED BY <2>1, <1>4
<1> QED BY <1>1, <1>3, <1>4, <1>6, <1>7, <1>8

-----------------------------------------------------------------------------
(* Arranging a set.                                                        *)

\* Some element of every part of a set has none of that part before it.
Wellordered(set, before) ==
    \A T \in SUBSET set : T # {} => \E x \in T : \A y \in T : <<y, x>> \notin before

InOrderOf(seq, before) == \A i, j \in DOMAIN seq : <<seq[i], seq[j]>> \in before => i < j

\* Then the elements of a finite set can be put in order one at a time.
LEMMA ArrangementExists ==
  ASSUME NEW set, IsFiniteSet(set), NEW before, Wellordered(set, before)
  PROVE  \E seq \in SetToSeqs(set) : InOrderOf(seq, before)
<1> DEFINE Good(T) == \E seq \in SetToSeqs(T) : InOrderOf(seq, before)
           S == {n \in Nat : \A T \in SUBSET set : Cardinality(T) = n => Good(T)}
<1>1. 0 \in S
  <2> SUFFICES ASSUME NEW T \in SUBSET set, Cardinality(T) = 0 PROVE Good(T)
    OBVIOUS
  <2>1. IsFiniteSet(T)
    BY FS_Subset
  <2>2. T = {}
    BY <2>1, FS_EmptySet
  <2>3. <<>> \in SetToSeqs(T)
    BY <2>2, FS_EmptySet DEF SetToSeqs
  <2>4. InOrderOf(<<>>, before)
    BY DEF InOrderOf
  <2> QED BY <2>3, <2>4
<1>2. ASSUME NEW n \in Nat, n \in S PROVE n + 1 \in S
  <2> SUFFICES ASSUME NEW T \in SUBSET set, Cardinality(T) = n + 1 PROVE Good(T)
    OBVIOUS
  <2>1. IsFiniteSet(T)
    BY FS_Subset
  <2>2. T # {}
    BY <2>1, FS_EmptySet
  <2>3. PICK x \in T : \A y \in T : <<y, x>> \notin before
    BY <2>2 DEF Wellordered
  <2>4. PICK rest : rest = T \ {x}
    OBVIOUS
  <2>5. Cardinality(rest) = n /\ rest \in SUBSET set
    <3>1. Cardinality(rest) = Cardinality(T) - 1
      BY <2>1, <2>3, <2>4, FS_RemoveElement
    <3> QED BY <3>1, <2>4
  <2>6. Good(rest)
    BY <1>2, <2>5
  <2>7. PICK seq \in SetToSeqs(rest) : InOrderOf(seq, before)
    BY <2>6
  <2>8. /\ seq \in [1..n -> rest]
        /\ \A i, j \in 1..n : i # j => seq[i] # seq[j]
        /\ \A i, j \in 1..n : <<seq[i], seq[j]>> \in before => i < j
    BY <2>5, <2>7 DEF SetToSeqs, InOrderOf
  <2>9. PICK more : more = [i \in 1..(n + 1) |-> IF i = 1 THEN x ELSE seq[i - 1]]
    OBVIOUS
  <2>10. \A i \in 1..(n + 1) : i = 1 \/ (i # 1 /\ i - 1 \in 1..n)
    OBVIOUS
  <2>11. /\ more[1] = x /\ DOMAIN more = 1..(n + 1)
         /\ \A i \in 1..(n + 1) : i # 1 => more[i] = seq[i - 1]
    BY <2>9
  <2>12. ASSUME NEW i \in 1..(n + 1) PROVE more[i] \in T /\ (i # 1 => more[i] # x)
    BY <2>4, <2>8, <2>10, <2>11
  <2>13. ASSUME NEW i \in 1..(n + 1), NEW j \in 1..(n + 1), i # j PROVE more[i] # more[j]
    <3>1. CASE i = 1
      BY <3>1, <2>11, <2>12, <2>13
    <3>2. CASE j = 1
      BY <3>2, <2>11, <2>12, <2>13
    <3>3. CASE i # 1 /\ j # 1
      <4>1. i - 1 \in 1..n /\ j - 1 \in 1..n /\ i - 1 # j - 1
        BY <3>3, <2>10, <2>13
      <4> QED BY <3>3, <4>1, <2>8, <2>11
    <3> QED BY <3>1, <3>2, <3>3
  <2>14. ASSUME NEW i \in 1..(n + 1), NEW j \in 1..(n + 1), <<more[i], more[j]>> \in before
         PROVE  i < j
    <3>1. j # 1
      BY <2>3, <2>11, <2>12, <2>14
    <3>2. CASE i = 1
      BY <3>1, <3>2
    <3>3. CASE i # 1
      <4>1. i - 1 \in 1..n /\ j - 1 \in 1..n
        BY <3>1, <3>3, <2>10
      <4>2. i - 1 < j - 1
        BY <3>1, <3>3, <4>1, <2>8, <2>11, <2>14
      <4> QED BY <4>2
    <3> QED BY <3>2, <3>3
  <2>15. more \in [1..(n + 1) -> T]
    BY <2>9, <2>12
  <2>16. more \in SetToSeqs(T)
    BY <2>13, <2>15 DEF SetToSeqs
  <2>17. InOrderOf(more, before)
    BY <2>11, <2>14 DEF InOrderOf
  <2> QED BY <2>16, <2>17
<1> HIDE DEF S
<1>3. Nat \subseteq S
  BY <1>1, <1>2, SetInduction
<1>4. Cardinality(set) \in S
  BY <1>3, FS_CardinalityType
<1> QED BY <1>4 DEF S

\* The arrangement of a finite set is a sequence of its elements in order.
LEMMA ArrangedFacts ==
  ASSUME NEW set, IsFiniteSet(set), NEW before, Wellordered(set, before)
  PROVE  /\ Arranged(set, before) \in Seq(set)
         /\ Len(Arranged(set, before)) = Cardinality(set)
         /\ Range(Arranged(set, before)) = set
         /\ \A i, j \in DOMAIN Arranged(set, before) :
               i # j => Arranged(set, before)[i] # Arranged(set, before)[j]
         /\ InOrderOf(Arranged(set, before), before)
<1>1. PICK seq : seq = Arranged(set, before)
  OBVIOUS
<1>2. seq \in SetToSeqs(set) /\ InOrderOf(seq, before)
  BY <1>1, ArrangementExists DEF Arranged, InOrderOf
<1>3. PICK n \in Nat : n = Cardinality(set)
  BY FS_CardinalityType
<1>4. seq \in [1..n -> set] /\ \A i, j \in 1..n : i # j => seq[i] # seq[j]
  BY <1>2, <1>3 DEF SetToSeqs
<1>5. seq \in Seq(set) /\ Len(seq) = n /\ DOMAIN seq = 1..n
  BY <1>4
<1>6. Range(seq) = set
  <2>1. seq \in Injection(1..n, set)
    BY <1>4 DEF Injection, IsInjective
  <2>2. Cardinality(1..n) = Cardinality(set)
    BY <1>3, FS_Interval
  <2>3. seq \in Surjection(1..n, set)
    BY <2>1, <2>2, FS_Injection
  <2> QED BY <2>3, <1>5 DEF Surjection, Range
<1> QED BY <1>1, <1>2, <1>3, <1>4, <1>5, <1>6

-----------------------------------------------------------------------------
(* Folding a sequence from the left.                                       *)

\* Of the places up to n, the last, and the ones before it.
LEMMA LastPlace ==
  ASSUME NEW n \in Nat, n # 0
  PROVE  Max(1..n) = n /\ 1..n # {} /\ (1..n) \ {n} = 1..(n - 1)
<1>1. 1..n \in SUBSET (0..n) /\ n \in 1..n
  OBVIOUS
<1>2. \A k \in 1..n : k <= n
  OBVIOUS
<1>3. Max(1..n) = n
  BY <1>1, <1>2, GreatestIsMax
<1> QED BY <1>1, <1>3

\* A function on the sets of the first n places, and its values on those with
\* one place more.
Extends(g, f, v, n) ==
    \A t \in SUBSET (1..(n + 1)) :
       /\ t # {} => g[t \ {Max(t)}] = f[t \ {Max(t)}] /\ t \ {Max(t)} \in SUBSET (1..n)
       /\ \/ t \in SUBSET (1..n) /\ g[t] = f[t]
          \/ t # {} /\ Max(t) = n + 1 /\ g[t] = v[t \ {Max(t)}]

\* A fold over one place more, from the fold over the places before.
LEMMA FoldExtends ==
  ASSUME NEW n \in Nat, NEW f, NEW v, NEW g,
         g = [t \in SUBSET (1..(n + 1)) |-> IF n + 1 \in t THEN v[t \ {n + 1}] ELSE f[t]]
  PROVE  Extends(g, f, v, n)
<1>1. PICK m \in Nat \ {0} : m = n + 1
  OBVIOUS
<1>2. g = [t \in SUBSET (1..m) |-> IF m \in t THEN v[t \ {m}] ELSE f[t]]
  BY <1>1
<1>3. ASSUME NEW t \in SUBSET (1..m)
      PROVE  /\ t # {} => g[t \ {Max(t)}] = f[t \ {Max(t)}] /\ t \ {Max(t)} \in SUBSET (1..n)
             /\ \/ t \in SUBSET (1..n) /\ g[t] = f[t]
                \/ t # {} /\ Max(t) = m /\ g[t] = v[t \ {Max(t)}]
  <2>1. t \in SUBSET (0..m) /\ \A k \in t : k <= m
    OBVIOUS
  <2>2. CASE m \in t
    <3>1. Max(t) = m
      BY <2>1, <2>2, GreatestIsMax
    <3>2. PICK u : u = t \ {m}
      OBVIOUS
    <3>3. u \in SUBSET (1..n) /\ u \in SUBSET (1..m) /\ m \notin u
      BY <1>1, <3>2
    <3> QED BY <1>2, <2>2, <3>1, <3>2, <3>3
  <2>3. CASE m \notin t
    <3>1. t \in SUBSET (1..n)
      BY <1>1, <2>3
    <3>2. PICK u : u = t \ {Max(t)}
      OBVIOUS
    <3>3. u \in SUBSET (1..n) /\ u \in SUBSET (1..m) /\ m \notin u
      BY <2>3, <3>1, <3>2
    <3> QED BY <1>2, <2>3, <3>1, <3>2, <3>3
  <2> QED BY <2>2, <2>3
<1> QED BY <1>1, <1>3 DEF Extends

\* The elements of two sequences, one after the other.
LEMMA ConcatRange ==
  ASSUME NEW A, NEW s \in Seq(A), NEW t \in Seq(A)
  PROVE  /\ s \o t \in Seq(A) /\ Range(s \o t) = Range(s) \cup Range(t)
         /\ Len(s \o t) = Len(s) + Len(t)
<1>1. PICK m \in Nat, n \in Nat : /\ m = Len(s) /\ n = Len(t)
                                  /\ DOMAIN s = 1..m /\ DOMAIN t = 1..n
  OBVIOUS
<1>2. PICK r \in Seq(A) : r = s \o t
  <2>1. s \o t \in Seq(A)
    BY ConcatProperties
  <2> QED BY <2>1
<1>3. DOMAIN r = 1..(m + n) /\ Len(r) = m + n
  BY <1>1, <1>2
<1>4. /\ \A i \in 1..m : r[i] = s[i]
      /\ \A i \in 1..n : r[m + i] = t[i]
      /\ \A i \in 1..(m + n) : i \notin 1..m => r[i] = t[i - m]
  BY <1>1, <1>2
<1>5. Range(r) \subseteq Range(s) \cup Range(t)
  <2> SUFFICES ASSUME NEW i \in 1..(m + n) PROVE r[i] \in Range(s) \cup Range(t)
    BY <1>3 DEF Range
  <2>1. CASE i \in 1..m
    BY <2>1, <1>1, <1>4 DEF Range
  <2>2. CASE i \notin 1..m
    <3>1. i - m \in 1..n
      BY <2>2
    <3> QED BY <3>1, <2>2, <1>1, <1>4 DEF Range
  <2> QED BY <2>1, <2>2
<1>6. Range(s) \subseteq Range(r)
  <2> SUFFICES ASSUME NEW i \in 1..m PROVE s[i] \in Range(r)
    BY <1>1 DEF Range
  <2>1. i \in 1..(m + n)
    OBVIOUS
  <2> QED BY <2>1, <1>3, <1>4 DEF Range
<1>7. Range(t) \subseteq Range(r)
  <2> SUFFICES ASSUME NEW i \in 1..n PROVE t[i] \in Range(r)
    BY <1>1 DEF Range
  <2>1. m + i \in 1..(m + n)
    OBVIOUS
  <2> QED BY <2>1, <1>3, <1>4 DEF Range
<1>8. Range(r) = Range(s) \cup Range(t)
  BY <1>5, <1>6, <1>7
<1> QED BY <1>1, <1>2, <1>3, <1>8

FlattenLoop(f, seqs) ==
    f = [i \in 1..Len(seqs) |-> IF i = 1 THEN seqs[i] ELSE f[i - 1] \o seqs[i]]

\* All the elements of a sequence of sequences, in one.
LEMMA FlattenFacts ==
  ASSUME NEW A, NEW seqs \in Seq(Seq(A))
  PROVE  /\ FlattenSeq(seqs) \in Seq(A)
         /\ Range(FlattenSeq(seqs)) = UNION {Range(seqs[i]) : i \in DOMAIN seqs}
<1>1. PICK N \in Nat : N = Len(seqs) /\ DOMAIN seqs = 1..N
  OBVIOUS
<1>2. CASE N = 0
  <2>1. seqs = <<>> /\ FlattenSeq(seqs) = seqs
    BY <1>1, <1>2 DEF FlattenSeq
  <2>2. Range(seqs) = {} /\ DOMAIN seqs = {}
    BY <1>1, <1>2 DEF Range
  <2>3. seqs \in Seq(A)
    BY <2>1
  <2> QED BY <2>1, <2>2, <2>3
<1>3. CASE N # 0
  <2> DEFINE next == [s \in Seq(A) \X (1..N) |-> s[1] \o seqs[s[2]]]
  <2>1. next \in [Seq(A) \X (1..N) -> Seq(A)]
    BY <1>1
  <2>2. \A a \in Seq(A), n \in 1..N : next[<<a, n>>] = a \o seqs[n]
    OBVIOUS
  <2>3. <<>> \in Seq(A)
    OBVIOUS
  <2> HIDE DEF next
  <2>4. PICK loop : Loop(loop, N, <<>>, next)
    BY <2>1, <2>3, LoopRuns
  <2>5. RunsThrough(loop, N, Seq(A), <<>>, next)
    BY <2>1, <2>3, <2>4, LoopRuns
  <2>6. \A n \in 1..N : n \in 0..N /\ n - 1 \in 0..N
    OBVIOUS
  <2>7. /\ loop \in [0..N -> Seq(A)] /\ loop[0] = <<>>
        /\ \A n \in 1..N : loop[n] = loop[n - 1] \o seqs[n]
    <3>1. loop \in [0..N -> Seq(A)] /\ loop[0] = <<>>
      BY <2>5 DEF RunsThrough
    <3>2. ASSUME NEW n \in 1..N PROVE loop[n] = loop[n - 1] \o seqs[n]
      <4>1. loop[n - 1] \in Seq(A)
        BY <3>1, <2>6
      <4> QED BY <4>1, <2>2, <2>5 DEF RunsThrough
    <3> QED BY <3>1, <3>2
  <2>8. PICK f : f = [n \in 1..N |-> loop[n]]
    OBVIOUS
  <2>9. loop[1] = seqs[1]
    <3>1. 1 \in 1..N /\ loop[1] = loop[0] \o seqs[1] /\ seqs[1] \in Seq(A)
      <4>1. 1 \in 1..N /\ 1 - 1 = 0
        BY <1>3
      <4>2. loop[1] = loop[1 - 1] \o seqs[1]
        BY <4>1, <2>7
      <4> QED BY <4>1, <4>2, <1>1
    <3>2. <<>> \o seqs[1] = seqs[1]
      BY <3>1
    <3> QED BY <3>1, <3>2, <2>7
  <2>10. FlattenLoop(f, seqs)
    <3>1. \A n \in 1..N : f[n] = IF n = 1 THEN seqs[n] ELSE f[n - 1] \o seqs[n]
      <4> TAKE n \in 1..N
      <4>1. CASE n = 1
        BY <4>1, <2>8, <2>9
      <4>2. CASE n # 1
        <5>1. n - 1 \in 1..N
          BY <4>2
        <5> QED BY <5>1, <4>2, <2>7, <2>8
      <4> QED BY <4>1, <4>2
    <3>2. f = [n \in 1..N |-> IF n = 1 THEN seqs[n] ELSE f[n - 1] \o seqs[n]]
      BY <2>8, <3>1
    <3> QED BY <3>2, <1>1 DEF FlattenLoop
  <2>11. PICK g : g = CHOOSE h : FlattenLoop(h, seqs)
    OBVIOUS
  <2>12. FlattenLoop(g, seqs)
    BY <2>10, <2>11
  <2>13. FlattenSeq(seqs) = g[N]
    BY <2>11, <1>1, <1>3 DEF FlattenSeq, FlattenLoop
  <2>14. /\ g[1] = seqs[1]
         /\ \A n \in 1..N : n # 1 => g[n] = g[n - 1] \o seqs[n]
    <3>1. g = [n \in 1..N |-> IF n = 1 THEN seqs[n] ELSE g[n - 1] \o seqs[n]]
      BY <2>12, <1>1 DEF FlattenLoop
    <3>2. 1 \in 1..N
      BY <1>3
    <3> QED BY <3>1, <3>2
  <2> DEFINE S == {n \in 0..N : n # 0 => g[n] = loop[n] /\ Range(loop[n]) = (UNION {Range(seqs[i]) : i \in 1..n})}
  <2>15. 0 \in S
    OBVIOUS
  <2>16. ASSUME NEW n \in 0..(N - 1), n \in S PROVE n + 1 \in S
    <3>1. n + 1 \in 1..N /\ n + 1 \in 0..N
      OBVIOUS
    <3>2. CASE n = 0
      <4>1. {Range(seqs[i]) : i \in 1..1} = {Range(seqs[1])}
        OBVIOUS
      <4> QED BY <4>1, <3>1, <3>2, <2>9, <2>14
    <3>3. CASE n # 0
      <4>1. g[n] = loop[n] /\ Range(loop[n]) = UNION {Range(seqs[i]) : i \in 1..n}
        BY <2>16, <3>3
      <4>6. (n + 1) - 1 = n /\ n + 1 # 1 /\ n \in 0..N
        BY <3>3
      <4>2. loop[n + 1] = loop[n] \o seqs[n + 1] /\ g[n + 1] = g[n] \o seqs[n + 1]
        <5>1. loop[n + 1] = loop[(n + 1) - 1] \o seqs[n + 1]
          BY <3>1, <2>7
        <5>2. g[n + 1] = g[(n + 1) - 1] \o seqs[n + 1]
          BY <3>1, <4>6, <2>14
        <5> QED BY <5>1, <5>2, <4>6
      <4>3. loop[n] \in Seq(A) /\ seqs[n + 1] \in Seq(A)
        <5>1. loop[n] \in Seq(A)
          BY <2>7, <4>6
        <5>2. seqs[n + 1] \in Seq(A)
          BY <3>1, <1>1
        <5> QED BY <5>1, <5>2
      <4>4. Range(loop[n + 1]) = Range(loop[n]) \cup Range(seqs[n + 1])
        BY <4>2, <4>3, ConcatRange
      <4>5. UNION {Range(seqs[i]) : i \in 1..(n + 1)}
              = (UNION {Range(seqs[i]) : i \in 1..n}) \cup Range(seqs[n + 1])
        <5>1. \A i \in 1..(n + 1) : i = n + 1 \/ i \in 1..n
          OBVIOUS
        <5>2. n + 1 \in 1..(n + 1) /\ \A i \in 1..n : i \in 1..(n + 1)
          OBVIOUS
        <5> QED BY <5>1, <5>2
      <4> QED BY <4>1, <4>2, <4>4, <4>5, <3>1
    <3> QED BY <3>2, <3>3
  <2> HIDE DEF S
  <2>17. 0..N \subseteq S
    BY <2>15, <2>16, BoundedInduction
  <2>18. g[N] = loop[N] /\ Range(loop[N]) = UNION {Range(seqs[i]) : i \in 1..N}
    <3>1. N \in 0..N
      OBVIOUS
    <3>2. N \in S
      BY <2>17, <3>1
    <3> QED BY <3>2, <1>3 DEF S
  <2>19. loop[N] \in Seq(A)
    BY <2>7
  <2> QED BY <2>13, <2>18, <2>19, <1>1
<1> QED BY <1>2, <1>3

\* Finitely many natural numbers have a bound.
LEMMA BoundExists ==
  ASSUME NEW T \in SUBSET Nat, IsFiniteSet(T)
  PROVE  \E B \in Nat : T \in SUBSET (0..B)
<1> DEFINE S == {n \in Nat : \A X \in SUBSET T : Cardinality(X) = n =>
                               \E B \in Nat : X \in SUBSET (0..B)}
<1>1. 0 \in S
  <2> SUFFICES ASSUME NEW X \in SUBSET T, Cardinality(X) = 0
               PROVE  \E B \in Nat : X \in SUBSET (0..B)
    OBVIOUS
  <2>1. IsFiniteSet(X)
    BY FS_Subset
  <2>2. X = {}
    BY <2>1, FS_EmptySet
  <2> QED BY <2>2
<1>2. ASSUME NEW n \in Nat, n \in S PROVE n + 1 \in S
  <2> SUFFICES ASSUME NEW X \in SUBSET T, Cardinality(X) = n + 1
               PROVE  \E B \in Nat : X \in SUBSET (0..B)
    OBVIOUS
  <2>1. IsFiniteSet(X)
    BY FS_Subset
  <2>2. X # {}
    BY <2>1, FS_EmptySet
  <2>3. PICK x \in X : TRUE
    BY <2>2
  <2>4. Cardinality(X \ {x}) = n /\ X \ {x} \in SUBSET T
    <3>1. Cardinality(X \ {x}) = Cardinality(X) - 1
      BY <2>1, <2>3, FS_RemoveElement
    <3> QED BY <3>1
  <2>5. PICK B \in Nat : X \ {x} \in SUBSET (0..B)
    BY <1>2, <2>4
  <2>6. x \in Nat
    BY <2>3
  <2>7. \A y \in X : y \in 0..(B + x)
    BY <2>5, <2>6
  <2>8. B + x \in Nat
    BY <2>6
  <2> QED BY <2>7, <2>8
<1> HIDE DEF S
<1>3. Nat \subseteq S
  BY <1>1, <1>2, SetInduction
<1>4. Cardinality(T) \in S
  BY <1>3, FS_CardinalityType
<1> QED BY <1>4 DEF S

-----------------------------------------------------------------------------
(* What detection and the slow window are given and find.                  *)

\* The keys of the spans of every batch that may come in.
AllKeys ==
    UNION {UNION {UNION {{s.key : s \in Range(trace.spans)} : trace \in Range(batch)} :
                    batch \in Setups[name].batches} : name \in DOMAIN Setups}

SlowSpan == [trace : Nat, start : Nat, key : AllKeys, dur : Nat]

IsDated(batch) ==
    /\ batch \in Seq(Range(batch))
    /\ \A trace \in Range(batch) :
          /\ trace.id \in Nat /\ trace.start \in Nat
          /\ IsFiniteSet(trace.others) /\ \A o \in trace.others : o.severity \in Nat
          /\ trace.spans \in Seq(Range(trace.spans))
          /\ \A s \in Range(trace.spans) : s.dur \in Nat /\ s.key \in AllKeys

IsFinding(f) == f.severity \in Nat /\ f.trace \in Nat /\ f.first \in Nat

AreFindings(set) == IsFiniteSet(set) /\ \A f \in set : IsFinding(f)

\* A batch dated by the clock.
LEMMA DatedBatch ==
  ASSUME NEW name \in DOMAIN Setups, NEW b \in Setups[name].batches, clock \in Nat
  PROVE  IsDated(Dated(b))
<1>1. IsBatch(b)
  BY WorkerAssumption
<1>2. PICK n \in Nat : n = Len(b) /\ DOMAIN b = 1..n
  BY <1>1 DEF IsBatch
<1>3. PICK batch : batch = Dated(b)
  OBVIOUS
<1>4. /\ DOMAIN batch = 1..n
      /\ \A i \in 1..n : batch[i] = [id |-> b[i].id, spans |-> b[i].spans, others |-> b[i].others,
                                     start |-> IF b[i].age > Now THEN 0 ELSE Now - b[i].age]
  BY <1>2, <1>3 DEF Dated
<1>5. batch \in Seq(Range(batch))
  <2>1. \A i \in 1..n : batch[i] \in Range(batch)
    BY <1>4 DEF Range
  <2>2. batch = [i \in 1..n |-> batch[i]]
    BY <1>2, <1>3 DEF Dated
  <2> QED BY <2>1, <2>2
<1>6. ASSUME NEW i \in 1..n
      PROVE  /\ batch[i].id \in Nat /\ batch[i].start \in Nat
             /\ IsFiniteSet(batch[i].others) /\ \A o \in batch[i].others : o.severity \in Nat
             /\ batch[i].spans \in Seq(Range(batch[i].spans))
             /\ \A s \in Range(batch[i].spans) : s.dur \in Nat /\ s.key \in AllKeys
  <2>1. PICK t : t = b[i]
    OBVIOUS
  <2>2. t \in Range(b)
    BY <1>2, <2>1 DEF Range
  <2>3. /\ t.id \in Nat /\ t.age \in Nat
        /\ IsFiniteSet(t.others) /\ \A o \in t.others : o.severity \in Nat
        /\ t.spans \in Seq(Range(t.spans))
        /\ \A s \in Range(t.spans) : s.dur \in Nat
    BY <1>1, <2>2 DEF IsBatch
  <2>4. /\ batch[i].id = t.id /\ batch[i].spans = t.spans /\ batch[i].others = t.others
        /\ batch[i].start = IF t.age > Now THEN 0 ELSE Now - t.age
    BY <1>4, <2>1
  <2>5. batch[i].start \in Nat
    BY <2>3, <2>4 DEF Now
  <2>6. \A s \in Range(t.spans) : s.key \in AllKeys
    BY <2>2 DEF AllKeys
  <2> QED BY <2>3, <2>4, <2>5, <2>6
<1>7. \A t \in Range(batch) : \E i \in 1..n : t = batch[i]
  BY <1>4 DEF Range
<1>8. IsDated(batch)
  BY <1>5, <1>6, <1>7 DEF IsDated
<1> QED BY <1>3, <1>8

\* The longest of some slow spans is one of them.
LEMMA WorstIsOne ==
  ASSUME NEW spans \in Seq(SlowSpan), spans # <<>>
  PROVE  Worst(spans) \in Range(spans)
<1>1. /\ IsFiniteSet(Range(spans)) /\ Range(spans) \in SUBSET SlowSpan
      /\ Range(spans) # {}
  <2>1. IsFiniteSet(Range(spans)) /\ Range(spans) \subseteq SlowSpan /\ DOMAIN spans = 1..Len(spans)
        /\ Len(spans) \in Nat
    BY FiniteSequence
  <2>2. 1 \in DOMAIN spans
    BY <2>1
  <2> QED BY <2>1, <2>2 DEF Range
<1>2. PICK R : R = Range(spans)
  OBVIOUS
<1>3. PICK durs : durs = {s.dur : s \in R}
  OBVIOUS
<1>4. durs \in SUBSET Nat /\ durs # {} /\ IsFiniteSet(durs)
  <2>1. \A s \in R : s.dur \in Nat
    BY <1>1, <1>2 DEF SlowSpan
  <2>2. PICK f : f = [s \in R |-> s.dur]
    OBVIOUS
  <2>3. IsFiniteSet({f[s] : s \in R})
    BY <1>1, <1>2, <2>2, FiniteImage
  <2>4. durs = {f[s] : s \in R}
    BY <1>3, <2>2
  <2> QED BY <1>1, <1>2, <1>3, <2>1, <2>3, <2>4
<1>5. PICK B \in Nat : durs \in SUBSET (0..B)
  BY <1>4, BoundExists
<1>6. PICK d \in durs : \A e \in durs : e <= d
  BY <1>4, <1>5, MaxIsGreatest
<1>7. PICK longest : longest = {s \in R : s.dur = d}
  OBVIOUS
<1>8. PICK ids : ids = {s.trace : s \in longest}
  OBVIOUS
<1>9. ids \in SUBSET Nat /\ ids # {}
  BY <1>1, <1>2, <1>3, <1>6, <1>7, <1>8 DEF SlowSpan
<1>10. PICK t \in ids : \A u \in ids : t <= u
  BY <1>9, LeastNatural
<1>11. PICK s \in longest : s.trace = t
  BY <1>8, <1>10
<1>12. s \in R /\ \A o \in R : o.dur < s.dur \/ (o.dur = s.dur /\ s.trace <= o.trace)
  <2> SUFFICES ASSUME NEW o \in R
               PROVE  o.dur < s.dur \/ (o.dur = s.dur /\ s.trace <= o.trace)
    BY <1>7
  <2>1. s.dur = d /\ o.dur <= d /\ o.dur \in Nat /\ d \in Nat
    BY <1>1, <1>2, <1>3, <1>4, <1>6, <1>7
  <2>2. CASE o.dur = d
    <3>1. o.trace \in ids
      BY <2>2, <1>7, <1>8
    <3> QED BY <3>1, <2>1, <2>2, <1>10, <1>11
  <2>3. CASE o.dur # d
    BY <2>1, <2>3
  <2> QED BY <2>2, <2>3
<1>13. PICK w : w = Worst(spans)
  OBVIOUS
<1>14. w \in R
  BY <1>2, <1>12, <1>13 DEF Worst
<1> QED BY <1>2, <1>13, <1>14

\* What slow spans make is a finding.
LEMMA SlowFindingIsOne ==
  ASSUME NEW spans \in Seq(SlowSpan), spans # <<>>, NEW service, NEW trace \in Nat, NEW across
  PROVE  IsFinding(SlowFinding(spans, service, trace, across))
<1>1. PICK starts : starts = {spans[i].start : i \in DOMAIN spans}
  OBVIOUS
<1>2. starts \in SUBSET Nat /\ starts # {}
  <2>1. DOMAIN spans = 1..Len(spans) /\ Len(spans) \in Nat /\ Len(spans) # 0
    OBVIOUS
  <2>2. \A i \in DOMAIN spans : spans[i] \in SlowSpan
    OBVIOUS
  <2>3. \A i \in DOMAIN spans : spans[i].start \in Nat
    BY <2>2 DEF SlowSpan
  <2>4. 1 \in DOMAIN spans
    BY <2>1
  <2> QED BY <1>1, <2>3, <2>4
<1>3. PICK first \in Nat : first = Min(starts)
  <2>1. Min(starts) \in Nat
    BY <1>2, MinIsLeast
  <2> QED BY <2>1
<1>4. PICK f : f = SlowFinding(spans, service, trace, across)
  OBVIOUS
<1>5. f.severity \in {1, 2} /\ f.trace = trace /\ f.first = first
  BY <1>1, <1>3, <1>4 DEF SlowFinding
<1> QED BY <1>4, <1>5 DEF IsFinding

\* The slow spans of a batch.
LEMMA SlowSpansTyped ==
  ASSUME NEW batch, IsDated(batch)
  PROVE  SlowSpans(batch) \in Seq(SlowSpan)
<1>1. PICK n \in Nat : n = Len(batch) /\ DOMAIN batch = 1..n
  BY DEF IsDated
<1>2. PICK seqs : seqs = [i \in DOMAIN batch |->
                            [j \in DOMAIN batch[i].spans |->
                               [trace |-> batch[i].id, start |-> batch[i].start,
                                key |-> batch[i].spans[j].key, dur |-> batch[i].spans[j].dur]]]
  OBVIOUS
<1>3. ASSUME NEW i \in 1..n PROVE seqs[i] \in Seq(SlowSpan)
  <2>1. PICK t : t = batch[i]
    OBVIOUS
  <2>2. t \in Range(batch)
    BY <1>1, <2>1 DEF Range
  <2>3. /\ t.id \in Nat /\ t.start \in Nat /\ t.spans \in Seq(Range(t.spans))
        /\ \A s \in Range(t.spans) : s.dur \in Nat /\ s.key \in AllKeys
    BY <2>2 DEF IsDated
  <2>4. PICK spans : spans = t.spans
    OBVIOUS
  <2>5. PICK m \in Nat : m = Len(spans) /\ DOMAIN spans = 1..m
    BY <2>3, <2>4
  <2>6. \A j \in 1..m : spans[j].dur \in Nat /\ spans[j].key \in AllKeys
    BY <2>3, <2>4, <2>5 DEF Range
  <2>7. seqs[i] = [j \in 1..m |-> [trace |-> t.id, start |-> t.start,
                                   key |-> spans[j].key, dur |-> spans[j].dur]]
    BY <1>1, <1>2, <2>1, <2>4, <2>5
  <2>8. \A j \in 1..m : [trace |-> t.id, start |-> t.start,
                         key |-> spans[j].key, dur |-> spans[j].dur] \in SlowSpan
    BY <2>3, <2>6 DEF SlowSpan
  <2> QED BY <2>7, <2>8
<1>4. seqs \in Seq(Seq(SlowSpan))
  BY <1>1, <1>2, <1>3
<1>5. PICK spans \in Seq(SlowSpan) : spans = FlattenSeq(seqs)
  BY <1>4, FlattenFacts
<1>6. PICK slowOnes : slowOnes = {s \in Range(spans) : s.dur > SlowThreshold}
  OBVIOUS
<1>7. Sifted(spans, slowOnes) \in Seq(SlowSpan)
  BY SiftedRange
<1>8. SlowSpans(batch) = Sifted(spans, slowOnes)
  BY <1>2, <1>5, <1>6 DEF SlowSpans
<1> QED BY <1>7, <1>8

\* So are what a batch reports of them ...
LEMMA BatchFindings ==
  ASSUME NEW batch, IsDated(batch)
  PROVE  AreFindings(BatchSlowFindings(batch))
<1>1. PICK spans \in Seq(SlowSpan) : spans = SlowSpans(batch)
  BY SlowSpansTyped
<1> DEFINE templates == {spans[i].key.template : i \in DOMAIN spans}
           Of(template) == Sifted(spans, {s \in Range(spans) : s.key.template = template})
           In(template, t) == Sifted(Of(template), {s \in Range(spans) : s.trace = t})
           Ps == {q \in templates \X TracesOf(spans) : Len(In(q[1], q[2])) >= SlowMinOccurrences}
           Ts == {p \in templates : SpansTraces(Of(p))}
           One(p) == SlowFinding(In(p[1], p[2]), In(p[1], p[2])[1].key.service, p[2], FALSE)
           All(template) == SlowFinding(Of(template), Worst(Of(template)).key.service,
                                        Worst(Of(template)).trace, TRUE)
<1>2. BatchSlowFindings(batch) = {One(p) : p \in Ps} \cup {All(p) : p \in Ts}
  BY <1>1 DEF BatchSlowFindings
<1>3. IsFiniteSet(DOMAIN spans)
  BY FiniteSequence
<1>4. IsFiniteSet(templates) /\ IsFiniteSet(TracesOf(spans)) /\ TracesOf(spans) \subseteq Nat
  <2>1. PICK f : f = [i \in DOMAIN spans |-> spans[i].key.template]
    OBVIOUS
  <2>2. PICK g : g = [i \in DOMAIN spans |-> spans[i].trace]
    OBVIOUS
  <2>3. IsFiniteSet({f[i] : i \in DOMAIN spans}) /\ IsFiniteSet({g[i] : i \in DOMAIN spans})
    BY <1>3, <2>1, <2>2, FiniteImage
  <2>4. templates = {f[i] : i \in DOMAIN spans} /\ TracesOf(spans) = {g[i] : i \in DOMAIN spans}
    BY <2>1, <2>2 DEF TracesOf
  <2>5. \A i \in DOMAIN spans : spans[i] \in SlowSpan
    OBVIOUS
  <2>6. \A i \in DOMAIN spans : spans[i].trace \in Nat
    BY <2>5 DEF SlowSpan
  <2> QED BY <2>3, <2>4, <2>6 DEF TracesOf
<1>5. \A template : Of(template) \in Seq(SlowSpan)
  BY SiftedRange
<1> HIDE DEF Of, templates
<1>6. \A template, t : In(template, t) \in Seq(SlowSpan)
  BY <1>5, SiftedRange
<1> HIDE DEF In
<1>7. ASSUME NEW p \in Ps PROVE IsFinding(One(p))
  <2>1. PICK seq \in Seq(SlowSpan) : seq = In(p[1], p[2])
    BY <1>6
  <2>2. p[2] \in Nat
    BY <1>4
  <2>3. seq # <<>>
    BY <2>1, SlowAssumption
  <2>4. PICK service : service = seq[1].key.service
    OBVIOUS
  <2>5. IsFinding(SlowFinding(seq, service, p[2], FALSE))
    BY <2>2, <2>3, SlowFindingIsOne
  <2> QED BY <2>1, <2>4, <2>5
<1>8. ASSUME NEW p \in Ts PROVE IsFinding(All(p))
  <2>1. PICK seq \in Seq(SlowSpan) : seq = Of(p)
    BY <1>5
  <2>2. seq # <<>>
    BY <2>1, SlowAssumption DEF SpansTraces
  <2>3. Worst(seq) \in SlowSpan
    BY <2>2, WorstIsOne, FiniteSequence
  <2>4. PICK w \in SlowSpan : w = Worst(seq)
    BY <2>3
  <2>5. w.trace \in Nat
    BY <2>4 DEF SlowSpan
  <2>6. IsFinding(SlowFinding(seq, w.key.service, w.trace, TRUE))
    <3>1. PICK service : service = w.key.service
      OBVIOUS
    <3>2. PICK t \in Nat : t = w.trace
      BY <2>5
    <3> QED BY <3>1, <3>2, <2>2, SlowFindingIsOne
  <2> QED BY <2>1, <2>4, <2>6
<1>9. IsFiniteSet(Ps) /\ IsFiniteSet(Ts)
  <2>1. IsFiniteSet(templates \X TracesOf(spans))
    BY <1>4, FS_Product
  <2>2. Ps \subseteq templates \X TracesOf(spans) /\ Ts \subseteq templates
    OBVIOUS
  <2> HIDE DEF Ps, Ts
  <2> QED BY <1>4, <2>1, <2>2, FS_Subset
<1> HIDE DEF Ps, Ts, One, All
<1>10. IsFiniteSet({One(p) : p \in Ps}) /\ IsFiniteSet({All(p) : p \in Ts})
  <2>1. PICK f : f = [p \in Ps |-> One(p)]
    OBVIOUS
  <2>2. PICK g : g = [p \in Ts |-> All(p)]
    OBVIOUS
  <2>3. IsFiniteSet({f[p] : p \in Ps}) /\ IsFiniteSet({g[p] : p \in Ts})
    BY <1>9, <2>1, <2>2, FiniteImage
  <2>4. {One(p) : p \in Ps} = {f[p] : p \in Ps} /\ {All(p) : p \in Ts} = {g[p] : p \in Ts}
    BY <2>1, <2>2
  <2> QED BY <2>3, <2>4
<1>11. IsFiniteSet({One(p) : p \in Ps} \cup {All(p) : p \in Ts})
  BY <1>10, FS_Union
<1>12. \A f \in {One(p) : p \in Ps} \cup {All(p) : p \in Ts} : IsFinding(f)
  BY <1>7, <1>8
<1> QED BY <1>2, <1>11, <1>12 DEF AreFindings

\* ... and what the other detectors do.
LEMMA OthersAreFindings ==
  ASSUME NEW batch, IsDated(batch)
  PROVE  AreFindings(OtherFindings(batch))
<1>1. PICK n \in Nat : n = Len(batch) /\ DOMAIN batch = 1..n
  BY DEF IsDated
<1> DEFINE One(i, o) == [type |-> "other", service |-> o.service, template |-> o.template,
                         severity |-> o.severity, trace |-> batch[i].id, first |-> batch[i].start,
                         across |-> FALSE]
           Of(i) == {One(i, o) : o \in batch[i].others}
<1>2. OtherFindings(batch) = UNION {Of(i) : i \in DOMAIN batch}
  BY DEF OtherFindings
<1>3. ASSUME NEW i \in DOMAIN batch PROVE AreFindings(Of(i))
  <2>1. PICK t : t = batch[i]
    OBVIOUS
  <2>2. t \in Range(batch)
    BY <2>1 DEF Range
  <2>3. /\ t.id \in Nat /\ t.start \in Nat
        /\ IsFiniteSet(t.others) /\ \A o \in t.others : o.severity \in Nat
    BY <2>2 DEF IsDated
  <2>4. \A o \in t.others : IsFinding(One(i, o))
    BY <2>1, <2>3 DEF IsFinding
  <2>5. IsFiniteSet(Of(i))
    <3>1. PICK others : others = t.others
      OBVIOUS
    <3>2. PICK f : f = [o \in others |-> One(i, o)]
      OBVIOUS
    <3>5. IsFiniteSet(others) /\ DOMAIN f = others
      BY <2>3, <3>1, <3>2
    <3>3. IsFiniteSet({f[o] : o \in others})
      BY <3>5, FiniteImage
    <3>4. Of(i) = {f[o] : o \in others}
      BY <2>1, <3>1, <3>2
    <3> QED BY <3>3, <3>4
  <2> QED BY <2>1, <2>4, <2>5 DEF AreFindings
<1> HIDE DEF Of
<1>4. PICK sets : sets = {Of(i) : i \in DOMAIN batch}
  OBVIOUS
<1>5. IsFiniteSet(sets)
  <2>1. PICK f : f = [i \in DOMAIN batch |-> Of(i)]
    OBVIOUS
  <2>2. IsFiniteSet(DOMAIN batch)
    BY <1>1, FS_Interval
  <2>3. IsFiniteSet({f[i] : i \in DOMAIN batch})
    BY <2>1, <2>2, FiniteImage
  <2>4. sets = {f[i] : i \in DOMAIN batch}
    BY <1>4, <2>1
  <2> QED BY <2>3, <2>4
<1>6. \A X \in sets : AreFindings(X)
  BY <1>3, <1>4
<1>7. IsFiniteSet(UNION sets)
  BY <1>5, <1>6, FS_UNION DEF AreFindings
<1>8. AreFindings(UNION sets)
  BY <1>6, <1>7 DEF AreFindings
<1> QED BY <1>2, <1>4, <1>8

\* The findings come sorted by three ranks, of which some finding of any set
\* has the least.
LEMMA SortedFindings ==
  ASSUME NEW found, AreFindings(found)
  PROVE  /\ SortFindings(found) \in Seq(found)
         /\ Range(SortFindings(found)) = found
<1> DEFINE Kind(f) == IF f.type = "other" THEN 1 ELSE 2
           Rank(f) == <<Kind(f), f.severity, f.trace>>
           Before(a, b) == \E n \in 1..3 : /\ Rank(a)[n] < Rank(b)[n]
                                           /\ \A k \in 1..(n - 1) : Rank(a)[k] = Rank(b)[k]
<1>1. PICK before : before = {p \in found \X found : Before(p[1], p[2])}
  OBVIOUS
<1>2. SortFindings(found) = Arranged(found, before)
  BY <1>1 DEF SortFindings
<1>3. ASSUME NEW a \in found, NEW b \in found, <<a, b>> \in before
      PROVE  \/ Kind(a) < Kind(b)
             \/ Kind(a) = Kind(b) /\ a.severity < b.severity
             \/ Kind(a) = Kind(b) /\ a.severity = b.severity /\ a.trace < b.trace
  <2>1. PICK n \in 1..3 : /\ Rank(a)[n] < Rank(b)[n]
                          /\ \A k \in 1..(n - 1) : Rank(a)[k] = Rank(b)[k]
    BY <1>1, <1>3
  <2>2. /\ Rank(a)[1] = Kind(a) /\ Rank(a)[2] = a.severity /\ Rank(a)[3] = a.trace
        /\ Rank(b)[1] = Kind(b) /\ Rank(b)[2] = b.severity /\ Rank(b)[3] = b.trace
    OBVIOUS
  <2> HIDE DEF Rank
  <2>3. CASE n = 1
    BY <2>1, <2>2, <2>3
  <2>4. CASE n = 2
    <3>1. 1 \in 1..(2 - 1)
      OBVIOUS
    <3> QED BY <2>1, <2>2, <2>4, <3>1
  <2>5. CASE n = 3
    <3>1. 1 \in 1..(3 - 1) /\ 2 \in 1..(3 - 1)
      OBVIOUS
    <3> QED BY <2>1, <2>2, <2>5, <3>1
  <2> QED BY <2>1, <2>3, <2>4, <2>5
<1>4. \A f \in found : Kind(f) \in Nat /\ f.severity \in Nat /\ f.trace \in Nat
  BY DEF AreFindings, IsFinding
<1> HIDE DEF Kind, Before
<1>5. ASSUME NEW T \in SUBSET found, T # {}
      PROVE  \E x \in T : \A y \in T : <<y, x>> \notin before
  <2>1. PICK kinds : kinds = {Kind(f) : f \in T}
    OBVIOUS
  <2>2. kinds \in SUBSET Nat /\ kinds # {}
    BY <1>4, <1>5, <2>1
  <2>3. PICK k \in kinds : \A j \in kinds : k <= j
    BY <2>2, LeastNatural
  <2>4. PICK severities : severities = {f.severity : f \in {g \in T : Kind(g) = k}}
    OBVIOUS
  <2>5. severities \in SUBSET Nat /\ severities # {}
    <3>1. \A f \in T : f.severity \in Nat
      BY <1>4
    <3>2. PICK g \in T : Kind(g) = k
      BY <2>1
    <3> QED BY <2>4, <3>1, <3>2
  <2>6. PICK s \in severities : \A u \in severities : s <= u
    BY <2>5, LeastNatural
  <2>7. PICK traces : traces = {f.trace : f \in {g \in T : Kind(g) = k /\ g.severity = s}}
    OBVIOUS
  <2>8. traces \in SUBSET Nat /\ traces # {}
    <3>1. \A f \in T : f.trace \in Nat
      BY <1>4
    <3>2. PICK g \in T : Kind(g) = k /\ g.severity = s
      BY <2>4
    <3> QED BY <2>7, <3>1, <3>2
  <2>9. PICK t \in traces : \A u \in traces : t <= u
    BY <2>8, LeastNatural
  <2>10. PICK x \in T : Kind(x) = k /\ x.severity = s /\ x.trace = t
    BY <2>7
  <2>11. ASSUME NEW y \in T PROVE <<y, x>> \notin before
    <3> SUFFICES ASSUME <<y, x>> \in before PROVE FALSE
      OBVIOUS
    <3>1. \/ Kind(y) < Kind(x)
          \/ Kind(y) = Kind(x) /\ y.severity < x.severity
          \/ Kind(y) = Kind(x) /\ y.severity = x.severity /\ y.trace < x.trace
      BY <1>3
    <3>2. Kind(y) \in kinds /\ k <= Kind(y)
      BY <2>1, <2>3
    <3>3. Kind(y) = k => s <= y.severity
      BY <2>4, <2>6
    <3>4. Kind(y) = k /\ y.severity = s => t <= y.trace
      BY <2>7, <2>9
    <3>5. /\ Kind(y) \in Nat /\ y.severity \in Nat /\ y.trace \in Nat
          /\ k \in Nat /\ s \in Nat /\ t \in Nat
      BY <1>4, <2>2, <2>5, <2>8
    <3> QED BY <3>1, <3>2, <3>3, <3>4, <3>5, <2>10
  <2> QED BY <2>10, <2>11
<1>6. Wellordered(found, before)
  BY <1>5 DEF Wellordered
<1>7. IsFiniteSet(found)
  BY DEF AreFindings
<1> QED BY <1>2, <1>6, <1>7, ArrangedFacts

\* What a batch finds of its own.
LEMMA DetectedFindings ==
  ASSUME NEW batch, IsDated(batch)
  PROVE  /\ Detected(batch) \in Seq(Range(Detected(batch)))
         /\ \A f \in Range(Detected(batch)) : IsFinding(f)
<1>1. PICK found : found = OtherFindings(batch) \cup BatchSlowFindings(batch)
  OBVIOUS
<1>2. AreFindings(OtherFindings(batch)) /\ AreFindings(BatchSlowFindings(batch))
  BY OthersAreFindings, BatchFindings
<1>3. AreFindings(found)
  BY <1>1, <1>2, FS_Union DEF AreFindings
<1>4. PICK sorted : sorted = SortFindings(found)
  OBVIOUS
<1>5. sorted \in Seq(found) /\ Range(sorted) = found
  BY <1>3, <1>4, SortedFindings
<1> QED BY <1>1, <1>3, <1>4, <1>5 DEF Detected, AreFindings

-----------------------------------------------------------------------------
(* The slow window.                                                        *)

Episode(now) == [start : 1..now, worst : SlowSpan]

SlowEntry(now) ==
    {e \in [episodes : Seq(Episode(now)), reported : 0..now] : e.episodes # <<>> \/ e.reported # 0}

\* A slow window of any keys, within its cap.
SlowWindows(now) ==
    {w \in UNION {[K -> SlowEntry(now)] : K \in SUBSET AllKeys} :
        IsFiniteSet(DOMAIN w) /\ Cardinality(DOMAIN w) <= MaxSlowWindowKeys}

\* What a slow window of a type is made of; it is one that keeps its bounds.
LEMMA SlowWindowFacts ==
  ASSUME NEW now \in Nat, NEW w \in SlowWindows(now)
  PROVE  /\ DOMAIN w \in SUBSET AllKeys /\ IsFiniteSet(DOMAIN w)
         /\ Cardinality(DOMAIN w) <= MaxSlowWindowKeys
         /\ \A key \in DOMAIN w : /\ w[key] \in SlowEntry(now)
                                  /\ w[key].episodes \in Seq(Episode(now))
                                  /\ w[key].reported \in 0..now
         /\ IsSlowWindow(w, now)
<1>1. PICK K \in SUBSET AllKeys : w \in [K -> SlowEntry(now)]
  BY DEF SlowWindows
<1>2. /\ DOMAIN w \in SUBSET AllKeys /\ IsFiniteSet(DOMAIN w)
      /\ Cardinality(DOMAIN w) <= MaxSlowWindowKeys
  BY <1>1 DEF SlowWindows
<1>3. ASSUME NEW key \in DOMAIN w
      PROVE  /\ w[key] \in SlowEntry(now)
             /\ w[key].episodes \in Seq(Episode(now))
             /\ w[key].reported \in Never..now
             /\ w[key].episodes # <<>> \/ w[key].reported # Never
             /\ \A i \in DOMAIN w[key].episodes : w[key].episodes[i].start \in 1..now
  <2>1. PICK e : e = w[key]
    OBVIOUS
  <2>2. e \in SlowEntry(now)
    BY <1>1, <2>1
  <2>3. PICK eps \in Seq(Episode(now)) : eps = e.episodes
    BY <2>2 DEF SlowEntry
  <2>4. \A i \in DOMAIN eps : eps[i] \in Episode(now)
    OBVIOUS
  <2>5. \A i \in DOMAIN eps : eps[i].start \in 1..now
    BY <2>4 DEF Episode
  <2>6. e.reported \in 0..now /\ (e.episodes # <<>> \/ e.reported # 0)
    BY <2>2 DEF SlowEntry
  <2> QED BY <2>1, <2>2, <2>3, <2>5, <2>6 DEF Never
<1> QED BY <1>2, <1>3 DEF IsSlowWindow, Never

\* One that has been is one later on.
LEMMA SlowWindowAges ==
  ASSUME NEW now \in Nat, NEW later \in Nat, now <= later, NEW w \in SlowWindows(now)
  PROVE  w \in SlowWindows(later)
<1>1. PICK K \in SUBSET AllKeys : w \in [K -> SlowEntry(now)]
  BY DEF SlowWindows
<1>2. Episode(now) \subseteq Episode(later)
  BY DEF Episode
<1>3. SlowEntry(now) \subseteq SlowEntry(later)
  <2> SUFFICES ASSUME NEW e \in SlowEntry(now) PROVE e \in SlowEntry(later)
    OBVIOUS
  <2>1. e \in [episodes : Seq(Episode(now)), reported : 0..now] /\ (e.episodes # <<>> \/ e.reported # 0)
    BY DEF SlowEntry
  <2>2. e.episodes \in Seq(Episode(later))
    BY <1>2, <2>1
  <2>3. e \in [episodes : Seq(Episode(later)), reported : 0..later]
    BY <2>1, <2>2
  <2> QED BY <2>1, <2>3 DEF SlowEntry
<1>4. w \in [K -> SlowEntry(later)]
  BY <1>1, <1>3
<1> QED BY <1>4 DEF SlowWindows

\* An empty window is one.
LEMMA NoKeysIsOne ==
  ASSUME NEW now \in Nat
  PROVE  NoKeys \in SlowWindows(now)
<1>1. PICK w : w = NoKeys
  OBVIOUS
<1>2. w \in [{} -> SlowEntry(now)] /\ DOMAIN w = {}
  BY <1>1 DEF NoKeys
<1>3. IsFiniteSet({}) /\ Cardinality({}) = 0
  BY FS_EmptySet
<1>4. w \in UNION {[K -> SlowEntry(now)] : K \in SUBSET AllKeys}
  BY <1>2
<1> QED BY <1>1, <1>2, <1>3, <1>4, SlowAssumption DEF SlowWindows

\* A slow span opens an episode or goes to the open one.
LEMMA RecordTyped ==
  ASSUME NEW now \in Nat \ {0}, NEW episodes \in Seq(Episode(now)), NEW span \in SlowSpan
  PROVE  /\ RecordEpisode(episodes, span, now) \in Seq(Episode(now))
         /\ RecordEpisode(episodes, span, now) # <<>>
<1>1. PICK n \in Nat : n = Len(episodes) /\ DOMAIN episodes = 1..n
  OBVIOUS
<1>2. [start |-> now, worst |-> span] \in Episode(now)
  BY DEF Episode
<1>3. PICK result : result = RecordEpisode(episodes, span, now)
  OBVIOUS
<1>4. CASE ~ (episodes # <<>> /\ now - Last(episodes).start < SlowEpisodeMs)
  <2>1. result = Append(episodes, [start |-> now, worst |-> span])
    BY <1>3, <1>4 DEF RecordEpisode
  <2>2. result \in Seq(Episode(now)) /\ Len(result) = n + 1
    BY <1>1, <1>2, <2>1
  <2> QED BY <1>1, <1>3, <2>2
<1>5. CASE episodes # <<>> /\ now - Last(episodes).start < SlowEpisodeMs
  <2>1. n # 0 /\ n \in 1..n
    BY <1>1, <1>5
  <2>2. CASE result = episodes
    BY <1>3, <1>5, <2>2
  <2>3. CASE result # episodes
    <3>1. result = [episodes EXCEPT ![n].worst = span]
      BY <1>1, <1>3, <1>5, <2>3 DEF RecordEpisode
    <3>2. episodes[n] \in Episode(now)
      BY <1>1, <2>1
    <3>3. PICK e \in Episode(now) : e = [episodes[n] EXCEPT !.worst = span]
      <4>1. [episodes[n] EXCEPT !.worst = span] \in Episode(now)
        BY <3>2 DEF Episode
      <4> QED BY <4>1
    <3>4. result = [i \in 1..n |-> IF i = n THEN e ELSE episodes[i]]
      BY <1>1, <3>1, <3>3
    <3>5. \A i \in 1..n : episodes[i] \in Episode(now)
      BY <1>1
    <3>6. \A i \in 1..n : (IF i = n THEN e ELSE episodes[i]) \in Episode(now)
      BY <3>5
    <3>7. result \in Seq(Episode(now)) /\ Len(result) = n
      BY <3>4, <3>6
    <3> QED BY <1>3, <2>1, <3>7
  <2> QED BY <2>2, <2>3
<1> QED BY <1>4, <1>5

\* One slow span keeps the window one.
LEMMA FeedSpanTyped ==
  ASSUME NEW now \in Nat \ {0}, NEW w \in SlowWindows(now), NEW span \in SlowSpan, NEW reported
  PROVE  FeedSpan(w, span, reported, now) \in SlowWindows(now)
<1>1. PICK key : key = span.key
  OBVIOUS
<1>2. key \in AllKeys
  BY <1>1 DEF SlowSpan
<1>3. /\ DOMAIN w \in SUBSET AllKeys /\ IsFiniteSet(DOMAIN w)
      /\ Cardinality(DOMAIN w) <= MaxSlowWindowKeys
      /\ \A k \in DOMAIN w : /\ w[k] \in SlowEntry(now)
                             /\ w[k].episodes \in Seq(Episode(now))
                             /\ w[k].reported \in 0..now
  BY SlowWindowFacts
<1>4. CASE ~ HasRoom(w, key)
  BY <1>1, <1>4 DEF FeedSpan
<1>5. CASE HasRoom(w, key)
  <2>1. PICK entry : entry = EntryOf(w, key)
    OBVIOUS
  <2>2. entry \in [episodes : Seq(Episode(now)), reported : 0..now]
    <3>1. CASE key \in DOMAIN w
      <4>1. entry = w[key]
        BY <2>1, <3>1 DEF EntryOf
      <4> QED BY <4>1, <3>1, <1>3 DEF SlowEntry
    <3>2. CASE key \notin DOMAIN w
      <4>1. entry = [episodes |-> <<>>, reported |-> 0]
        BY <2>1, <3>2 DEF EntryOf, Never
      <4>2. <<>> \in Seq(Episode(now)) /\ 0 \in 0..now
        OBVIOUS
      <4> QED BY <4>1, <4>2
    <3> QED BY <3>1, <3>2
  <2>3. PICK eps \in Seq(Episode(now)) : eps = RecordEpisode(entry.episodes, span, now) /\ eps # <<>>
    <3>1. entry.episodes \in Seq(Episode(now))
      BY <2>2
    <3>2. PICK old \in Seq(Episode(now)) : old = entry.episodes
      BY <3>1
    <3> QED BY <3>2, RecordTyped
  <2>4. PICK new : new = IF key.template \in reported
                         THEN [episodes |-> <<>>, reported |-> now]
                         ELSE [entry EXCEPT !.episodes = RecordEpisode(@, span, now)]
    OBVIOUS
  <2>5. new \in SlowEntry(now)
    <3>1. CASE key.template \in reported
      <4>1. <<>> \in Seq(Episode(now)) /\ now \in 0..now /\ now # 0
        OBVIOUS
      <4> QED BY <2>4, <3>1, <4>1 DEF SlowEntry
    <3>2. CASE key.template \notin reported
      <4>1. new = [entry EXCEPT !.episodes = eps]
        BY <2>3, <2>4, <3>2
      <4>2. new \in [episodes : Seq(Episode(now)), reported : 0..now] /\ new.episodes = eps
        BY <2>2, <4>1
      <4> QED BY <2>3, <4>2 DEF SlowEntry
    <3> QED BY <3>1, <3>2
  <2>6. PICK next : next = FeedSpan(w, span, reported, now)
    OBVIOUS
  <2>7. next = Put(w, key, new)
    BY <1>1, <1>5, <2>1, <2>4, <2>6 DEF FeedSpan
  <2>8. PICK K : K = DOMAIN w \cup {key}
    OBVIOUS
  <2>9. next = [k \in K |-> IF k = key THEN new ELSE w[k]]
    BY <2>7, <2>8 DEF Put
  <2>10. \A k \in K : (IF k = key THEN new ELSE w[k]) \in SlowEntry(now)
    BY <1>3, <2>5, <2>8
  <2>11. next \in [K -> SlowEntry(now)] /\ DOMAIN next = K /\ K \in SUBSET AllKeys
    BY <1>2, <1>3, <2>8, <2>9, <2>10
  <2>12. IsFiniteSet(K) /\ Cardinality(K) <= MaxSlowWindowKeys
    <3>1. PICK D : D = DOMAIN w
      OBVIOUS
    <3>2. IsFiniteSet(D) /\ Cardinality(D) <= MaxSlowWindowKeys /\ K = D \cup {key}
      BY <1>3, <2>8, <3>1
    <3>3. IsFiniteSet(D \cup {key})
          /\ Cardinality(D \cup {key}) = IF key \in D THEN Cardinality(D) ELSE Cardinality(D) + 1
      BY <3>2, FS_AddElement
    <3>4. Cardinality(D) \in Nat
      BY <3>2, FS_CardinalityType
    <3>5. key \in D \/ Cardinality(D) < MaxSlowWindowKeys
      BY <1>5, <3>1 DEF HasRoom
    <3> QED BY <3>2, <3>3, <3>4, <3>5, SlowAssumption
  <2>13. next \in UNION {[L -> SlowEntry(now)] : L \in SUBSET AllKeys}
    BY <2>11
  <2> QED BY <2>6, <2>11, <2>12, <2>13 DEF SlowWindows
<1> QED BY <1>4, <1>5

FeedAll(w, spans, reported, now) ==
    FoldLeft(LAMBDA acc, span : FeedSpan(acc, span, reported, now), w, spans)

FeedsUpTo(n, f, w, spans, reported, now) ==
    f = [t \in SUBSET (1..n) |->
           IF t = {} THEN w ELSE FeedSpan(f[t \ {Max(t)}], spans[Max(t)], reported, now)]

\* Feeding one span more goes on from the spans before.
LEMMA FeedsGrow ==
  ASSUME NEW n \in Nat, NEW f, NEW w, NEW spans, NEW reported, NEW now, FeedsUpTo(n, f, w, spans, reported, now)
  PROVE  \E g : FeedsUpTo(n + 1, g, w, spans, reported, now)
<1>1. PICK v : v = [t \in SUBSET (1..n) |-> FeedSpan(f[t], spans[n + 1], reported, now)]
  OBVIOUS
<1>2. PICK g : g = [t \in SUBSET (1..(n + 1)) |-> IF n + 1 \in t THEN v[t \ {n + 1}] ELSE f[t]]
  OBVIOUS
<1>3. Extends(g, f, v, n)
  BY <1>2, FoldExtends
<1>4. ASSUME NEW t \in SUBSET (1..(n + 1))
      PROVE  g[t] = IF t = {} THEN w ELSE FeedSpan(g[t \ {Max(t)}], spans[Max(t)], reported, now)
  BY <1>1, <1>3 DEF Extends, FeedsUpTo
<1>5. g = [t \in SUBSET (1..(n + 1)) |->
             IF t = {} THEN w ELSE FeedSpan(g[t \ {Max(t)}], spans[Max(t)], reported, now)]
  BY <1>2, <1>4
<1> QED BY <1>5 DEF FeedsUpTo

FeedRun(f, w, spans, reported, now) ==
    /\ FeedAll(w, spans, reported, now) = f[Len(spans)]
    /\ f[0] = w
    /\ \A n \in 1..Len(spans) : f[n] = FeedSpan(f[n - 1], spans[n], reported, now)

\* Feeding a batch is a run over its spans.
LEMMA FeedRuns ==
  ASSUME NEW w, NEW spans, NEW reported, NEW now, spans \in Seq(Range(spans))
  PROVE  \E f : FeedRun(f, w, spans, reported, now)
<1>1. PICK N \in Nat : N = Len(spans) /\ DOMAIN spans = 1..N
  OBVIOUS
<1> DEFINE S == {n \in Nat : \E f : FeedsUpTo(n, f, w, spans, reported, now)}
<1>2. 0 \in S
  <2>1. PICK f : f = [t \in SUBSET (1..0) |-> w]
    OBVIOUS
  <2>2. \A t \in SUBSET (1..0) : t = {}
    OBVIOUS
  <2>3. FeedsUpTo(0, f, w, spans, reported, now)
    BY <2>1, <2>2 DEF FeedsUpTo
  <2> QED BY <2>3
<1>3. ASSUME NEW n \in Nat, n \in S PROVE n + 1 \in S
  <2>1. PICK f : FeedsUpTo(n, f, w, spans, reported, now)
    BY <1>3
  <2>2. \E g : FeedsUpTo(n + 1, g, w, spans, reported, now)
    BY <2>1, FeedsGrow
  <2> QED BY <2>2
<1> HIDE DEF S
<1>4. N \in S
  BY <1>2, <1>3, SetInduction
<1>5. PICK h : h = CHOOSE f : FeedsUpTo(N, f, w, spans, reported, now)
  OBVIOUS
<1>6. FeedsUpTo(N, h, w, spans, reported, now)
  BY <1>4, <1>5 DEF S
<1>7. FeedAll(w, spans, reported, now) = h[1..N]
  BY <1>1, <1>5 DEF FeedAll, FoldLeft, MapThenFoldSet, FeedsUpTo
<1>8. PICK f : f = [n \in 0..N |-> h[1..n]]
  OBVIOUS
<1>9. \A t \in SUBSET (1..N) :
         h[t] = IF t = {} THEN w ELSE FeedSpan(h[t \ {Max(t)}], spans[Max(t)], reported, now)
  BY <1>6 DEF FeedsUpTo
<1>10. f[0] = w /\ f[N] = h[1..N]
  BY <1>8, <1>9
<1>11. ASSUME NEW n \in 1..N PROVE f[n] = FeedSpan(f[n - 1], spans[n], reported, now)
  <2>1. 1..n \in SUBSET (1..N) /\ n \in 0..N /\ n - 1 \in 0..N
    OBVIOUS
  <2>2. Max(1..n) = n /\ 1..n # {} /\ (1..n) \ {n} = 1..(n - 1)
    BY LastPlace
  <2>3. h[1..n] = FeedSpan(h[1..(n - 1)], spans[n], reported, now)
    BY <1>9, <2>1, <2>2
  <2> QED BY <1>8, <2>1, <2>3
<1> QED BY <1>1, <1>7, <1>10, <1>11 DEF FeedRun

\* So do all the spans of a batch, one after the other ...
LEMMA FedTyped ==
  ASSUME NEW now \in Nat \ {0}, NEW w \in SlowWindows(now), NEW spans \in Seq(SlowSpan),
         NEW reported, NEW f, FeedRun(f, w, spans, reported, now)
  PROVE  \A n \in 0..Len(spans) : f[n] \in SlowWindows(now)
<1>1. PICK N \in Nat : N = Len(spans) /\ DOMAIN spans = 1..N
  OBVIOUS
<1> DEFINE S == {n \in 0..N : f[n] \in SlowWindows(now)}
<1>2. 0 \in S
  BY DEF FeedRun
<1>3. ASSUME NEW n \in 0..(N - 1), n \in S PROVE n + 1 \in S
  <2>1. n + 1 \in 1..N /\ n + 1 \in 0..N /\ (n + 1) - 1 = n
    OBVIOUS
  <2>2. f[n + 1] = FeedSpan(f[n], spans[n + 1], reported, now)
    BY <1>1, <2>1 DEF FeedRun
  <2>3. PICK v \in SlowWindows(now), span \in SlowSpan : v = f[n] /\ span = spans[n + 1]
    BY <1>1, <1>3, <2>1
  <2>4. FeedSpan(v, span, reported, now) \in SlowWindows(now)
    BY <2>3, FeedSpanTyped
  <2> QED BY <2>1, <2>2, <2>3, <2>4
<1> HIDE DEF S
<1>4. 0..N \subseteq S
  BY <1>2, <1>3, BoundedInduction
<1> QED BY <1>1, <1>4 DEF S

\* ... and the batch.
LEMMA FeedTyped ==
  ASSUME NEW now \in Nat \ {0}, NEW w \in SlowWindows(now), NEW batch, IsDated(batch)
  PROVE  Feed(w, batch, now) \in SlowWindows(now)
<1>1. PICK spans \in Seq(SlowSpan) : spans = SlowSpans(batch)
  BY SlowSpansTyped
<1>2. PICK N \in Nat : N = Len(spans) /\ DOMAIN spans = 1..N
  OBVIOUS
<1>3. PICK reported : reported = {f.template : f \in BatchSlowFindings(batch)}
  OBVIOUS
<1>4. Feed(w, batch, now) = FeedAll(w, spans, reported, now)
  BY <1>1, <1>3 DEF Feed, FeedAll
<1>5. spans \in Seq(Range(spans))
  BY <1>2 DEF Range
<1>6. PICK f : FeedRun(f, w, spans, reported, now)
  BY <1>5, FeedRuns
<1>7. \A n \in 0..N : f[n] \in SlowWindows(now)
  BY <1>2, <1>6, FedTyped
<1> QED BY <1>2, <1>4, <1>6, <1>7 DEF FeedRun

\* What is left of an entry when the window moves on.
LEMMA ExpireTyped ==
  ASSUME NEW now \in Nat \ {0}, NEW e \in SlowEntry(now)
  PROVE  Expire(e, now) \in [episodes : Seq(Episode(now)), reported : 0..now]
<1>1. e \in [episodes : Seq(Episode(now)), reported : 0..now]
  BY DEF SlowEntry
<1>2. PICK eps \in Seq(Episode(now)) : eps = e.episodes
  BY <1>1
<1>3. PICK young : young = {x \in Range(eps) : now < x.start + SlowWindowMs}
  OBVIOUS
<1>4. Sifted(eps, young) \in Seq(Episode(now))
  BY SiftedRange
<1>5. (IF InCooldown(e, now) THEN e.reported ELSE Never) \in 0..now
  BY <1>1 DEF Never
<1> QED BY <1>2, <1>3, <1>4, <1>5 DEF Expire

\* A sweep keeps the window one, and what it finds are findings.
LEMMA SweepTyped ==
  ASSUME NEW now \in Nat \ {0}, NEW w \in SlowWindows(now)
  PROVE  Sweep(w, now).entries \in SlowWindows(now) /\ AreFindings(Sweep(w, now).found)
<1> DEFINE expired == [key \in DOMAIN w |-> Expire(w[key], now)]
           recurring == {key \in DOMAIN w : Recurs(expired[key], now)}
           swept == [key \in DOMAIN w |->
                       IF key \in recurring THEN [episodes |-> <<>>, reported |-> now]
                       ELSE expired[key]]
           left == {key \in DOMAIN w : swept[key].episodes # <<>> \/ swept[key].reported # Never}
           entries == Restrict(swept, left)
           One(key) == SlowFinding(EpisodeSpans(expired[key]), key.service,
                                   Last(expired[key].episodes).worst.trace, TRUE)
           found == {One(key) : key \in recurring}
<1>1. Sweep(w, now).entries = entries /\ Sweep(w, now).found = found
  BY DEF Sweep
<1>2. /\ DOMAIN w \in SUBSET AllKeys /\ IsFiniteSet(DOMAIN w)
      /\ Cardinality(DOMAIN w) <= MaxSlowWindowKeys
      /\ \A key \in DOMAIN w : w[key] \in SlowEntry(now)
  BY SlowWindowFacts
<1>3. \A key \in DOMAIN w : expired[key] \in [episodes : Seq(Episode(now)), reported : 0..now]
  BY <1>2, ExpireTyped
<1> HIDE DEF expired
<1>4. ASSUME NEW key \in recurring PROVE IsFinding(One(key))
  <2>1. PICK e \in [episodes : Seq(Episode(now)), reported : 0..now] : e = expired[key]
    BY <1>3
  <2>2. PICK eps \in Seq(Episode(now)) : eps = e.episodes /\ eps # <<>>
    BY <2>1 DEF Recurs
  <2>3. PICK n \in Nat : n = Len(eps) /\ DOMAIN eps = 1..n /\ n # 0
    BY <2>2
  <2>4. PICK spans : spans = EpisodeSpans(e)
    OBVIOUS
  <2>5. spans = [i \in 1..n |-> eps[i].worst]
    BY <2>2, <2>3, <2>4 DEF EpisodeSpans
  <2>6. \A i \in 1..n : eps[i] \in Episode(now)
    BY <2>3
  <2>7. \A i \in 1..n : eps[i].worst \in SlowSpan
    BY <2>6 DEF Episode
  <2>8. spans \in Seq(SlowSpan) /\ spans # <<>>
    BY <2>3, <2>5, <2>7
  <2>9. PICK trace : trace = Last(eps).worst.trace
    OBVIOUS
  <2>10. trace \in Nat
    <3>1. Last(eps) = eps[n] /\ n \in 1..n
      BY <2>3 DEF Last
    <3>2. eps[n].worst \in SlowSpan
      BY <3>1, <2>7
    <3> QED BY <3>1, <3>2, <2>9 DEF SlowSpan
  <2>11. PICK service : service = key.service
    OBVIOUS
  <2>12. IsFinding(SlowFinding(spans, service, trace, TRUE))
    BY <2>8, <2>10, SlowFindingIsOne
  <2> QED BY <2>1, <2>2, <2>4, <2>9, <2>11, <2>12
<1>5. IsFiniteSet(recurring)
  BY <1>2, FS_Subset
<1>6. ASSUME NEW key \in left PROVE swept[key] \in SlowEntry(now)
  <2>1. CASE key \in recurring
    <3>1. <<>> \in Seq(Episode(now)) /\ now \in 0..now /\ now # 0
      OBVIOUS
    <3>2. swept[key] = [episodes |-> <<>>, reported |-> now]
      BY <2>1
    <3>3. [episodes |-> <<>>, reported |-> now] \in [episodes : Seq(Episode(now)), reported : 0..now]
      BY <3>1
    <3>4. PICK e \in [episodes : Seq(Episode(now)), reported : 0..now] :
            e = swept[key] /\ e.reported = now
      BY <3>2, <3>3
    <3> QED BY <3>4 DEF SlowEntry
  <2>2. CASE key \notin recurring
    <3>1. swept[key] = expired[key] /\ (swept[key].episodes # <<>> \/ swept[key].reported # 0)
      BY <2>2 DEF Never
    <3> QED BY <3>1, <1>3 DEF SlowEntry
  <2> QED BY <2>1, <2>2
<1>7. left \subseteq DOMAIN w
  OBVIOUS
<1> HIDE DEF recurring, swept, left
<1>8. entries \in [left -> SlowEntry(now)] /\ DOMAIN entries = left
  BY <1>6 DEF Restrict
<1>9. IsFiniteSet(left) /\ Cardinality(left) <= MaxSlowWindowKeys
  <2>1. IsFiniteSet(left) /\ Cardinality(left) <= Cardinality(DOMAIN w)
    BY <1>2, <1>7, FS_Subset
  <2>2. Cardinality(left) \in Nat /\ Cardinality(DOMAIN w) \in Nat
    BY <1>2, <2>1, FS_CardinalityType
  <2> QED BY <1>2, <2>1, <2>2, SlowAssumption
<1>10. entries \in SlowWindows(now)
  <2>1. left \in SUBSET AllKeys
    BY <1>2, <1>7
  <2>2. PICK x : x = entries
    OBVIOUS
  <2>3. x \in UNION {[K -> SlowEntry(now)] : K \in SUBSET AllKeys}
    BY <1>8, <2>1, <2>2
  <2> QED BY <1>8, <1>9, <2>2, <2>3 DEF SlowWindows
<1> HIDE DEF One
<1>11. AreFindings(found)
  <2>1. PICK f : f = [key \in recurring |-> One(key)]
    OBVIOUS
  <2>2. IsFiniteSet({f[key] : key \in recurring})
    BY <1>5, <2>1, FiniteImage
  <2>3. found = {f[key] : key \in recurring}
    BY <2>1
  <2> QED BY <1>4, <2>2, <2>3 DEF AreFindings
<1> HIDE DEF entries, found
<1> QED BY <1>1, <1>10, <1>11

-----------------------------------------------------------------------------
(* What the worker has in hand.                                            *)

\* A batch in hand, when it was analysed, and what was found in it.
WorkInv ==
    /\ work.step \in {"idle", "findings", "traces", "correlator", "waste"}
    /\ work.step # "idle" =>
          /\ IsDated(work.batch)
          /\ work.findings \in Seq(Range(work.findings))
          /\ \A f \in Range(work.findings) : IsFinding(f)
          /\ work.at \in 1..Now
          /\ On(work.step)

SetupInv == setup \in DOMAIN Setups /\ clock \in Nat

SlowInv == slow \in SlowWindows(Now)

FoundInv == SetupInv /\ WorkInv /\ SlowInv

\* A batch goes to one of the stores left to it, or nowhere.
LEMMA ThroughFacts ==
  ASSUME NEW A, NEW stores \in Seq(A), NEW batch, NEW findings, NEW at
  PROVE  \/ Through(stores, batch, findings, at) = Idle
         \/ \E step \in Range(stores) :
              /\ On(step)
              /\ Through(stores, batch, findings, at)
                   = [step |-> step, batch |-> batch, findings |-> findings, at |-> at]
<1>1. PICK kept : kept = {store \in Range(stores) : On(store)}
  OBVIOUS
<1>2. PICK on : on = Sifted(stores, kept)
  OBVIOUS
<1>3. on \in Seq(Range(stores) \cap kept)
  BY <1>2, SiftedRange
<1>4. Through(stores, batch, findings, at)
        = IF on = <<>> THEN Idle
          ELSE [step |-> Head(on), batch |-> batch, findings |-> findings, at |-> at]
  BY <1>1, <1>2 DEF Through
<1>5. on # <<>> => Head(on) \in Range(stores) \cap kept
  <2>1. Len(on) \in Nat /\ DOMAIN on = 1..Len(on)
    BY <1>3
  <2>2. on # <<>> => 1 \in 1..Len(on) /\ Head(on) = on[1]
    BY <1>3, <2>1
  <2> QED BY <1>3, <2>1, <2>2
<1> QED BY <1>1, <1>4, <1>5

\* A batch on its way, through stores of these kinds.
LEMMA ThroughTyped ==
  ASSUME NEW stores \in Seq({"findings", "traces", "correlator", "waste"}),
         NEW batch, IsDated(batch), NEW findings, findings \in Seq(Range(findings)),
         \A f \in Range(findings) : IsFinding(f), NEW at \in 1..Now,
         setup' = setup, clock' = clock,
         work' = Through(stores, batch, findings, at)
  PROVE  WorkInv'
<1>1. CASE work' = Idle
  BY <1>1 DEF WorkInv, Idle
<1>2. ASSUME NEW step \in Range(stores), On(step),
             work' = [step |-> step, batch |-> batch, findings |-> findings, at |-> at]
      PROVE  WorkInv'
  <2>1. step \in {"findings", "traces", "correlator", "waste"}
    BY FiniteSequence
  <2>2. work'.step = step /\ work'.batch = batch /\ work'.findings = findings /\ work'.at = at
    BY <1>2
  <2>3. On(step)' /\ Now' = Now
    BY <1>2 DEF On, Now
  <2> QED BY <2>1, <2>2, <2>3 DEF WorkInv
<1> QED BY <1>1, <1>2, ThroughFacts

\* What is left of the batch in hand goes on as it is.
LEMMA OnwardTyped ==
  ASSUME FoundInv, work.step # "idle", NEW stores \in Seq({"traces", "correlator", "waste"}),
         setup' = setup, clock' = clock, slow' = slow, work' = Onward(stores)
  PROVE  FoundInv'
<1>1. stores \in Seq({"findings", "traces", "correlator", "waste"})
  OBVIOUS
<1>2. PICK batch, findings, at : batch = work.batch /\ findings = work.findings /\ at = work.at
  OBVIOUS
<1>3. /\ IsDated(batch) /\ findings \in Seq(Range(findings))
      /\ \A f \in Range(findings) : IsFinding(f)
      /\ at \in 1..Now /\ work' = Through(stores, batch, findings, at)
  BY <1>2 DEF FoundInv, WorkInv, Onward
<1>4. WorkInv'
  BY <1>1, <1>3, ThroughTyped
<1> QED BY <1>4 DEF FoundInv, SetupInv, SlowInv, Now

\* Two sequences of findings make one.
LEMMA FindingsJoin ==
  ASSUME NEW s, s \in Seq(Range(s)), \A f \in Range(s) : IsFinding(f),
         NEW t, t \in Seq(Range(t)), \A f \in Range(t) : IsFinding(f)
  PROVE  s \o t \in Seq(Range(s \o t)) /\ \A f \in Range(s \o t) : IsFinding(f)
<1>1. PICK A : A = Range(s) \cup Range(t)
  OBVIOUS
<1>2. s \in Seq(A) /\ t \in Seq(A)
  BY <1>1
<1>3. s \o t \in Seq(A) /\ Range(s \o t) = A
  BY <1>1, <1>2, ConcatRange
<1> QED BY <1>1, <1>3

\* What becomes of the batch taken up, and of the slow window.
TakenUp(batch) ==
    LET fed == IF On("slow") THEN Feed(slow, batch, Now) ELSE slow
        swept == Sweep(fed, Now)
        findings == Detected(batch) \o
                    (IF On("slow") THEN SortFindings(swept.found) ELSE <<>>)
        stores == IF findings = <<>> THEN <<"correlator", "waste">>
                  ELSE <<"findings", "traces", "correlator", "waste">>
    IN  /\ work' = Through(stores, batch, findings, Now)
        /\ slow' = IF On("slow") THEN swept.entries ELSE slow

\* The batch taken up is dated, its findings are findings, and the slow window
\* it was fed to remains one.
LEMMA AnalyseFound ==
  ASSUME FoundInv, Analyse
  PROVE  FoundInv'
<1>1. setup' = setup /\ clock' = clock /\ Now \in Nat \ {0}
  BY DEF Analyse, brokerVars, FoundInv, SetupInv, Now
<1>2. PICK b \in Setups[setup].batches : TakenUp(Dated(b))
  BY DEF Analyse, TakenUp
<1>3. PICK batch : batch = Dated(b)
  OBVIOUS
<1>4. PICK fed : fed = IF On("slow") THEN Feed(slow, batch, Now) ELSE slow
  OBVIOUS
<1>5. PICK swept : swept = Sweep(fed, Now)
  OBVIOUS
<1>6. PICK own, more : own = Detected(batch)
                       /\ more = IF On("slow") THEN SortFindings(swept.found) ELSE <<>>
  OBVIOUS
<1>7. PICK findings : findings = own \o more
  OBVIOUS
<1>8. IsDated(batch)
  BY <1>3, DatedBatch DEF FoundInv, SetupInv
<1>9. fed \in SlowWindows(Now)
  BY <1>1, <1>4, <1>8, FeedTyped DEF FoundInv, SlowInv
<1>10. swept.entries \in SlowWindows(Now) /\ AreFindings(swept.found)
  BY <1>1, <1>5, <1>9, SweepTyped
<1>11. own \in Seq(Range(own)) /\ \A f \in Range(own) : IsFinding(f)
  BY <1>6, <1>8, DetectedFindings
<1>12. more \in Seq(Range(more)) /\ \A f \in Range(more) : IsFinding(f)
  <2>1. CASE On("slow")
    <3>1. PICK found : found = swept.found
      OBVIOUS
    <3>2. more \in Seq(found) /\ Range(more) = found
      BY <1>6, <1>10, <2>1, <3>1, SortedFindings
    <3> QED BY <1>10, <3>1, <3>2 DEF AreFindings
  <2>2. CASE ~ On("slow")
    <3>1. more = <<>> /\ Range(<<>>) = {} /\ <<>> \in Seq({})
      BY <1>6, <2>2 DEF Range
    <3> QED BY <3>1
  <2> QED BY <2>1, <2>2
<1>13. findings \in Seq(Range(findings)) /\ \A f \in Range(findings) : IsFinding(f)
  BY <1>7, <1>11, <1>12, FindingsJoin
<1>14. PICK stores : stores = IF findings = <<>> THEN <<"correlator", "waste">>
                              ELSE <<"findings", "traces", "correlator", "waste">>
  OBVIOUS
<1>15. stores \in Seq({"findings", "traces", "correlator", "waste"})
  <2>1. <<"correlator", "waste">> \in Seq({"findings", "traces", "correlator", "waste"})
    OBVIOUS
  <2>2. <<"findings", "traces", "correlator", "waste">>
           \in Seq({"findings", "traces", "correlator", "waste"})
    OBVIOUS
  <2> QED BY <1>14, <2>1, <2>2
<1>16. work' = Through(stores, batch, findings, Now)
  BY <1>2, <1>3, <1>4, <1>5, <1>6, <1>7, <1>14 DEF TakenUp
<1>17. slow' = IF On("slow") THEN swept.entries ELSE slow
  BY <1>2, <1>3, <1>4, <1>5 DEF TakenUp
<1>18. PICK now \in 1..Now : now = Now
  BY <1>1
<1>19. WorkInv'
  BY <1>1, <1>8, <1>13, <1>15, <1>16, <1>18, ThroughTyped
<1>20. SlowInv'
  <2>1. Now' = Now /\ slow' \in SlowWindows(Now)
    BY <1>1, <1>10, <1>17 DEF Now, FoundInv, SlowInv
  <2> QED BY <2>1 DEF SlowInv
<1> QED BY <1>1, <1>19, <1>20 DEF FoundInv, SetupInv

\* The steps of the broker's energy leave the clock.
LEMMA BrokerKeepsTime ==
  ASSUME BrokerNext
  PROVE  clock' = clock
BY DEF BrokerNext, BankSample, StampUpdate, StampSample, MarkAlive, LookAtSeries,
   DiscardPending, TakeMeasured, TakeBanked, TakeDeclared

\* The worker's batch and the slow window keep their types.
LEMMA FoundStep ==
  ASSUME FoundInv, [Next]_vars
  PROVE  FoundInv'
<1>1. CASE Analyse
  BY <1>1, AnalyseFound
<1>2. CASE StoreFindings
  <2>1. <<"traces", "correlator", "waste">> \in Seq({"traces", "correlator", "waste"})
    OBVIOUS
  <2> QED BY <1>2, <2>1, OnwardTyped DEF StoreFindings, brokerVars
<1>3. CASE RetainTraces
  <2>1. <<"correlator", "waste">> \in Seq({"traces", "correlator", "waste"})
    OBVIOUS
  <2> QED BY <1>3, <2>1, OnwardTyped DEF RetainTraces, brokerVars
<1>4. CASE IngestFindings
  <2>1. <<"waste">> \in Seq({"traces", "correlator", "waste"})
    OBVIOUS
  <2> QED BY <1>4, <2>1, OnwardTyped DEF IngestFindings, brokerVars
<1>5. CASE ChargeServices
  BY <1>5 DEF ChargeServices, brokerVars, FoundInv, SetupInv, WorkInv, SlowInv, Now, Idle
<1>6. CASE /\ work' = work /\ slow' = slow /\ setup' = setup /\ clock' = clock
  BY <1>6 DEF FoundInv, SetupInv, WorkInv, SlowInv, Now, On
<1>7. CASE FreezeCapture \/ SettleCapture \/ ObserveEpisodes \/ DrainEpisodes \/ UNCHANGED vars
  BY <1>6, <1>7 DEF FreezeCapture, SettleCapture, ObserveEpisodes, DrainEpisodes, brokerVars, vars
<1>8. CASE BillBroker
  BY <1>6, <1>8, BrokerKeepsTime DEF BillBroker, storeVars
<1>9. CASE Tick
  <2>1. work' = work /\ slow' = slow /\ setup' = setup /\ clock' = clock + 1 /\ clock \in Nat
    BY <1>9 DEF Tick, AdvanceClock, storeVars, FoundInv, SetupInv
  <2>2. Now \in Nat /\ Now' \in Nat /\ Now <= Now'
    BY <2>1 DEF Now
  <2>3. SlowInv'
    BY <2>1, <2>2, SlowWindowAges DEF FoundInv, SlowInv
  <2>4. WorkInv'
    <3>1. \A at \in 1..Now : at \in 1..Now'
      BY <2>2
    <3> QED BY <2>1, <3>1 DEF FoundInv, WorkInv, On
  <2>5. SetupInv'
    BY <2>1 DEF FoundInv, SetupInv
  <2> QED BY <2>3, <2>4, <2>5 DEF FoundInv
<1> QED BY <1>1, <1>2, <1>3, <1>4, <1>5, <1>7, <1>8, <1>9 DEF Next

\* Nothing is found before the first batch.
LEMMA FoundInit == Init => FoundInv
<1> SUFFICES ASSUME Init PROVE FoundInv
  OBVIOUS
<1>1. SetupInv /\ Now \in Nat
  BY DEF Init, BrokerInit, SetupInv, Now
<1>2. WorkInv
  BY DEF Init, WorkInv, Idle
<1>3. SlowInv
  BY <1>1, NoKeysIsOne DEF Init, SlowInv
<1> QED BY <1>1, <1>2, <1>3 DEF FoundInv

\* Where the elements of the two are.
LEMMA ConcatAt ==
  ASSUME NEW A, NEW s \in Seq(A), NEW t \in Seq(A)
  PROVE  /\ \A i \in 1..Len(s) : (s \o t)[i] = s[i]
         /\ \A i \in 1..Len(t) : (s \o t)[Len(s) + i] = t[i]
OBVIOUS

-----------------------------------------------------------------------------
(* The ring of findings.                                                   *)

\* The last k elements of a sequence.
LastOnes(s, k) == [i \in 1..k |-> s[Len(s) - k + i]]

HeldOf(length) == IF length > MaxRetainedFindings THEN MaxRetainedFindings ELSE length

\* A ring holds the last of what was stored.
LEMMA NewestAreLast ==
  ASSUME NEW A, NEW s \in Seq(A)
  PROVE  /\ HeldOf(Len(s)) \in 0..Len(s)
         /\ Newest(s, MaxRetainedFindings) = LastOnes(s, HeldOf(Len(s)))
         /\ Newest(s, MaxRetainedFindings) \in Seq(A)
         /\ Len(Newest(s, MaxRetainedFindings)) = HeldOf(Len(s))
<1>1. PICK n \in Nat : n = Len(s) /\ DOMAIN s = 1..n
  OBVIOUS
<1>2. PICK k \in 0..n : k = HeldOf(n)
  BY FindingsAssumption DEF HeldOf
<1>3. PICK r : r = Newest(s, MaxRetainedFindings)
  OBVIOUS
<1>4. r = SubSeq(s, n - k + 1, n)
  <2>1. PICK from : from = IF Len(s) > MaxRetainedFindings
                           THEN Len(s) - MaxRetainedFindings + 1 ELSE 1
    OBVIOUS
  <2>2. from = n - k + 1
    BY <1>1, <1>2, <2>1, FindingsAssumption DEF HeldOf
  <2>3. r = SubSeq(s, from, n)
    BY <1>1, <1>3, <2>1 DEF Newest
  <2> QED BY <2>2, <2>3
<1>5. r = [i \in 1..k |-> s[n - k + i]]
  <2>1. SubSeq(s, n - k + 1, n) = [i \in 1..(1 + n - (n - k + 1)) |-> s[i + (n - k + 1) - 1]]
    BY <1>1
  <2>2. 1 + n - (n - k + 1) = k /\ \A i \in 1..k : i + (n - k + 1) - 1 = n - k + i
    OBVIOUS
  <2> QED BY <1>4, <2>1, <2>2
<1>6. \A i \in 1..k : n - k + i \in 1..n
  OBVIOUS
<1>7. r \in Seq(A) /\ Len(r) = k
  BY <1>1, <1>5, <1>6
<1> QED BY <1>1, <1>2, <1>3, <1>5, <1>7 DEF LastOnes

\* Cutting what is left after each batch leaves what cutting it all would.
LEMMA NewestOfMore ==
  ASSUME NEW A, NEW s \in Seq(A), NEW t \in Seq(A)
  PROVE  Newest(Newest(s, MaxRetainedFindings) \o t, MaxRetainedFindings)
           = Newest(s \o t, MaxRetainedFindings)
<1>1. PICK m \in Nat, n \in Nat : /\ m = Len(s) /\ DOMAIN s = 1..m
                                  /\ n = Len(t) /\ DOMAIN t = 1..n
  OBVIOUS
<1>2. PICK k \in 0..m : k = HeldOf(m)
  BY FindingsAssumption DEF HeldOf
<1>3. PICK r \in Seq(A) : /\ r = Newest(s, MaxRetainedFindings) /\ Len(r) = k
                          /\ r = LastOnes(s, k)
  BY <1>1, <1>2, NewestAreLast
<1>4. PICK both \in Seq(A) : both = s \o t /\ Len(both) = m + n
  BY <1>1, ConcatRange
<1>5. PICK rest \in Seq(A) : rest = r \o t /\ Len(rest) = k + n
  BY <1>1, <1>3, ConcatRange
<1>6. PICK h \in 0..(m + n) : h = HeldOf(m + n)
  BY FindingsAssumption DEF HeldOf
<1>7. h = HeldOf(k + n) /\ h <= k + n
  BY <1>2, <1>6, FindingsAssumption DEF HeldOf
<1>8. LastOnes(rest, h) = LastOnes(both, h)
  <2>1. ASSUME NEW i \in 1..h PROVE rest[k + n - h + i] = both[m + n - h + i]
    <3>1. k + n - h + i \in 1..(k + n) /\ m + n - h + i \in 1..(m + n)
      <4>1. h <= k + n /\ h <= m + n /\ h \in Nat /\ i >= 1 /\ i <= h
        BY <1>7
      <4> QED BY <4>1
    <3>2. \A j \in 1..k : r[j] = s[m - k + j]
      BY <1>1, <1>3 DEF LastOnes
    <3>3. CASE k + n - h + i > k
      <4>1. n - h + i \in 1..n /\ k + n - h + i = k + (n - h + i) /\ m + n - h + i = m + (n - h + i)
        BY <3>1, <3>3
      <4>2. rest[k + (n - h + i)] = t[n - h + i] /\ both[m + (n - h + i)] = t[n - h + i]
        <5>1. PICK j \in 1..n : j = n - h + i
          BY <4>1
        <5>2. rest[k + j] = t[j] /\ both[m + j] = t[j]
          BY <1>1, <1>3, <1>4, <1>5, ConcatAt
        <5> QED BY <5>1, <5>2
      <4> QED BY <4>1, <4>2
    <3>4. CASE k + n - h + i <= k
      <4>1. PICK j \in 1..k : j = k + n - h + i
        BY <3>1, <3>4
      <4>2. m - k + j = m + n - h + i /\ m - k + j \in 1..m
        <5>1. k \in Nat /\ k <= m /\ h \in Nat /\ i \in Nat
          BY <1>2, <1>6
        <5>2. m - k + j = m + n - h + i
          BY <4>1, <5>1
        <5>3. m - k + j >= 1 /\ m - k + j <= m /\ m - k + j \in Int
          BY <4>1, <5>1
        <5> QED BY <5>2, <5>3
      <4>3. rest[j] = r[j] /\ both[m - k + j] = s[m - k + j]
        BY <4>2, <1>1, <1>3, <1>4, <1>5, ConcatAt
      <4> QED BY <4>1, <4>2, <4>3, <3>2
    <3> QED BY <3>1, <3>3, <3>4
  <2>2. LastOnes(rest, h) = [i \in 1..h |-> rest[k + n - h + i]]
    <3>1. LastOnes(rest, h) = [i \in 1..h |-> rest[Len(rest) - h + i]]
      BY DEF LastOnes
    <3>2. Len(rest) = k + n
      BY <1>5
    <3> QED BY <3>1, <3>2
  <2>3. LastOnes(both, h) = [i \in 1..h |-> both[m + n - h + i]]
    BY <1>4 DEF LastOnes
  <2> QED BY <2>1, <2>2, <2>3
<1>9. Newest(rest, MaxRetainedFindings) = LastOnes(rest, h)
  BY <1>5, <1>7, NewestAreLast
<1>10. Newest(both, MaxRetainedFindings) = LastOnes(both, h)
  BY <1>4, <1>6, NewestAreLast
<1> QED BY <1>3, <1>4, <1>5, <1>8, <1>9, <1>10

StartsWith(p, A, s, n) == p \in Seq(A) /\ Len(p) = n /\ \A i \in 1..n : p[i] = s[i]

EndsWith(r, A, s, n) ==
    /\ r \in Seq(A) /\ Len(r) = HeldOf(n)
    /\ \A i \in 1..HeldOf(n) : r[i] = s[n - HeldOf(n) + i]

\* What the ring held at a length it has passed is told by what was stored.
LEMMA RingThen ==
  ASSUME NEW A, NEW s \in Seq(A), NEW n \in 0..Len(s)
  PROVE  /\ StartsWith(SubSeq(s, 1, n), A, s, n)
         /\ EndsWith(RingAt(s, n), A, s, n) /\ HeldOf(n) \in 0..n
<1>1. PICK r : r = SubSeq(s, 1, n)
  OBVIOUS
<1>2. r \in Seq(A) /\ Len(r) = n /\ \A i \in 1..n : r[i] = s[i]
  <2>1. r = [i \in 1..n |-> s[i]]
    <3>1. r = [i \in 1..(1 + n - 1) |-> s[i + 1 - 1]]
      BY <1>1
    <3>2. 1 + n - 1 = n /\ \A i \in 1..n : i + 1 - 1 = i
      OBVIOUS
    <3> QED BY <3>1, <3>2
  <2>2. \A i \in 1..n : s[i] \in A
    OBVIOUS
  <2> QED BY <2>1, <2>2
<1>3. PICK k \in 0..n : k = HeldOf(n)
  BY FindingsAssumption DEF HeldOf
<1>4. PICK g : g = RingAt(s, n)
  OBVIOUS
<1>5. g = Newest(r, MaxRetainedFindings)
  BY <1>1, <1>4 DEF RingAt
<1>6. g \in Seq(A) /\ Len(g) = k /\ g = LastOnes(r, k)
  BY <1>2, <1>3, <1>5, NewestAreLast
<1>7. \A i \in 1..k : g[i] = s[n - k + i]
  <2> TAKE i \in 1..k
  <2>1. n - k + i \in 1..n
    OBVIOUS
  <2> QED BY <1>2, <1>6, <2>1 DEF LastOnes
<1> QED BY <1>1, <1>2, <1>3, <1>4, <1>6, <1>7 DEF StartsWith, EndsWith

\* Storing more does not change what the ring held before.
LEMMA RingBefore ==
  ASSUME NEW A, NEW s \in Seq(A), NEW t \in Seq(A), NEW n \in 0..Len(s)
  PROVE  RingAt(s \o t, n) = RingAt(s, n) /\ SubSeq(s \o t, 1, n) = SubSeq(s, 1, n)
<1>1. PICK both : both = s \o t
  OBVIOUS
<1>2. both \in Seq(A) /\ Len(both) = Len(s) + Len(t) /\ \A i \in 1..Len(s) : both[i] = s[i]
  BY <1>1, ConcatRange
<1>3. n \in 0..Len(both)
  BY <1>2
<1>4. SubSeq(both, 1, n) = [i \in 1..n |-> both[i]] /\ SubSeq(s, 1, n) = [i \in 1..n |-> s[i]]
  BY <1>2, <1>3
<1>5. SubSeq(both, 1, n) = SubSeq(s, 1, n)
  BY <1>2, <1>4
<1> QED BY <1>1, <1>5 DEF RingAt

\* Now it holds the last of all that was stored.
LEMMA RingNow ==
  ASSUME NEW A, NEW s \in Seq(A)
  PROVE  RingAt(s, Len(s)) = Newest(s, MaxRetainedFindings)
<1>1. SubSeq(s, 1, Len(s)) = s
  OBVIOUS
<1> QED BY <1>1 DEF RingAt

-----------------------------------------------------------------------------
(* What an incident captures.                                              *)

\* Entries of the ring: a finding, and a stamp up to a bound.
AreEntries(X, now) == \A e \in X : IsFinding(e.finding) /\ e.at \in 1..now

Signed(X, sig) == {e \in X : Signature(e.finding) = sig}

\* A row stands for some entries: their worst, their first and their last.
RowTrue(row, X) ==
    /\ row.rep \in {e.finding : e \in X}
    /\ \A e \in X : row.rep.severity <= e.finding.severity
    /\ row.first \in {e.at : e \in X} /\ \A e \in X : row.first <= e.at
    /\ row.last \in {e.at : e \in X} /\ \A e \in X : e.at <= row.last

RowsTrue(rows, X) ==
    /\ DOMAIN rows = {Signature(e.finding) : e \in X}
    /\ \A sig \in DOMAIN rows : RowTrue(rows[sig], Signed(X, sig))

Seen(entries, service, from, to) ==
    {e \in Range(entries) : e.at \in from..to /\ e.finding.service = service}

\* The row of a group of places in a ring stands for what is there.
LEMMA RowOfGroup ==
  ASSUME NEW now \in Nat, NEW A, NEW entries \in Seq(A), AreEntries(Range(entries), now),
         NEW group \in SUBSET (1..Len(entries)), group # {},
         NEW row, row.rep = Representative(entries, group),
         row.first = Min({entries[i].at : i \in group}),
         row.last = Max({entries[i].at : i \in group})
  PROVE  RowTrue(row, {entries[i] : i \in group})
<1>1. PICK n \in Nat : n = Len(entries) /\ DOMAIN entries = 1..n
  OBVIOUS
<1>2. ASSUME NEW i \in group
      PROVE  /\ entries[i].finding.severity \in Nat /\ entries[i].at \in 1..now
  <2>1. entries[i] \in Range(entries)
    BY <1>1 DEF Range
  <2> QED BY <2>1 DEF AreEntries, IsFinding
<1>3. PICK severities : severities = {entries[i].finding.severity : i \in group}
  OBVIOUS
<1>4. severities \in SUBSET Nat /\ severities # {}
  BY <1>2, <1>3
<1>5. PICK worst \in severities : worst = Min(severities) /\ \A s \in severities : worst <= s
  BY <1>4, MinIsLeast
<1>6. PICK those : those = {i \in group : entries[i].finding.severity = worst}
  OBVIOUS
<1>7. those \in SUBSET (0..n) /\ those # {}
  <2>1. \E i \in group : entries[i].finding.severity = worst
    BY <1>3
  <2>2. those # {}
    BY <1>6, <2>1
  <2>3. \A i \in those : i \in 0..n
    BY <1>1, <1>6
  <2> QED BY <2>2, <2>3
<1>8. PICK m \in those : m = Max(those)
  BY <1>7, MaxIsGreatest
<1>9. row.rep = entries[m].finding
  BY <1>3, <1>5, <1>6, <1>8 DEF Representative
<1>10. /\ row.rep \in {e.finding : e \in {entries[i] : i \in group}}
       /\ \A i \in group : row.rep.severity <= entries[i].finding.severity
  <2>1. m \in group /\ entries[m].finding.severity = worst
    BY <1>6
  <2>2. \A i \in group : entries[i].finding.severity \in severities
    BY <1>3
  <2> QED BY <1>5, <1>9, <2>1, <2>2
<1>11. PICK stamps : stamps = {entries[i].at : i \in group}
  OBVIOUS
<1>12. stamps \in SUBSET Nat /\ stamps \in SUBSET (0..now) /\ stamps # {}
  <2>1. \A i \in group : entries[i].at \in 0..now /\ entries[i].at \in Nat
    BY <1>2
  <2>2. \A s \in stamps : s \in 0..now /\ s \in Nat
    BY <1>11, <2>1
  <2>3. stamps # {}
    BY <1>11
  <2> QED BY <2>2, <2>3
<1>13. PICK first : first = Min(stamps)
  OBVIOUS
<1>14. PICK last : last = Max(stamps)
  OBVIOUS
<1>15. first \in stamps /\ \A s \in stamps : first <= s
  BY <1>12, <1>13, MinIsLeast
<1>16. last \in stamps /\ \A s \in stamps : s <= last
  BY <1>12, <1>14, MaxIsGreatest
<1>17. row.first = first /\ row.last = last
  BY <1>11, <1>13, <1>14
<1>18. \A i \in group : entries[i].at \in stamps
  BY <1>11
<1>19. \A s \in stamps : s \in {e.at : e \in {entries[i] : i \in group}}
  BY <1>11
<1>20. \A e \in {entries[i] : i \in group} : /\ row.rep.severity <= e.finding.severity
                                          /\ row.first <= e.at /\ e.at <= row.last
  BY <1>10, <1>15, <1>16, <1>17, <1>18
<1> QED BY <1>10, <1>15, <1>16, <1>17, <1>19, <1>20 DEF RowTrue

\* The rows a window of the ring is folded into stand for what is in it.
LEMMA CoalesceTrue ==
  ASSUME NEW now \in Nat, NEW A, NEW entries \in Seq(A), AreEntries(Range(entries), now),
         NEW service, NEW from, NEW to
  PROVE  RowsTrue(Coalesce(entries, service, from, to), Seen(entries, service, from, to))
<1>1. PICK n \in Nat : n = Len(entries) /\ DOMAIN entries = 1..n
  OBVIOUS
<1>2. PICK inWindow : inWindow = {i \in DOMAIN entries :
                        entries[i].at \in from..to /\ entries[i].finding.service = service}
  OBVIOUS
<1> DEFINE Group(sig) == {i \in inWindow : Signature(entries[i].finding) = sig}
<1>3. PICK rows : rows = Coalesce(entries, service, from, to)
  OBVIOUS
<1>4. rows = [sig \in {Signature(entries[i].finding) : i \in inWindow} |->
                [rep |-> Representative(entries, Group(sig)),
                 seen |-> Cardinality(Group(sig)),
                 first |-> Min({entries[i].at : i \in Group(sig)}),
                 last |-> Max({entries[i].at : i \in Group(sig)})]]
  BY <1>2, <1>3 DEF Coalesce
<1>5. PICK X : X = Seen(entries, service, from, to)
  OBVIOUS
<1>6. X = {entries[i] : i \in inWindow}
  BY <1>1, <1>2, <1>5 DEF Seen, Range
<1>7. \A sig : Signed(X, sig) = {entries[i] : i \in Group(sig)}
  BY <1>6 DEF Signed
<1>8. DOMAIN rows = {Signature(e.finding) : e \in X}
  BY <1>4, <1>6
<1>9. ASSUME NEW sig \in DOMAIN rows PROVE RowTrue(rows[sig], Signed(X, sig))
  <2>1. PICK group : group = Group(sig)
    OBVIOUS
  <2>2. PICK i \in inWindow : Signature(entries[i].finding) = sig
    BY <1>4
  <2>3. group \in SUBSET (1..Len(entries)) /\ group # {}
    BY <1>1, <1>2, <2>1, <2>2
  <2>4. PICK row : row = rows[sig]
    OBVIOUS
  <2>5. row.rep = Representative(entries, group)
        /\ row.first = Min({entries[j].at : j \in group})
        /\ row.last = Max({entries[j].at : j \in group})
    BY <1>4, <2>1, <2>4
  <2>6. RowTrue(row, {entries[j] : j \in group})
    BY <2>3, <2>5, RowOfGroup
  <2> QED BY <1>7, <2>1, <2>4, <2>6
<1> QED BY <1>3, <1>5, <1>8, <1>9 DEF RowsTrue

\* The numbers MergeRow takes of a pair.
LEMMA OfTwo ==
  ASSUME NEW a \in Nat, NEW b \in Nat
  PROVE  /\ Min({a, b}) = IF a <= b THEN a ELSE b
         /\ Max({a, b}) = IF a <= b THEN b ELSE a
<1>1. PICK pair : pair = {a, b}
  OBVIOUS
<1>2. pair \in SUBSET Nat /\ pair \in SUBSET (0..(a + b)) /\ pair # {}
  BY <1>1
<1>3. PICK m : m = Min(pair)
  OBVIOUS
<1>4. PICK g : g = Max(pair)
  OBVIOUS
<1>5. m \in pair /\ \A x \in pair : m <= x
  BY <1>2, <1>3, MinIsLeast
<1>6. a + b \in Nat
  OBVIOUS
<1>7. g \in pair /\ \A x \in pair : x <= g
  BY <1>2, <1>4, <1>6, MaxIsGreatest
<1>8. m = IF a <= b THEN a ELSE b
  BY <1>1, <1>5
<1>9. g = IF a <= b THEN b ELSE a
  BY <1>1, <1>7
<1> QED BY <1>1, <1>3, <1>4, <1>8, <1>9

\* A row merged from two stands for what they stood for.
LEMMA MergedRowTrue ==
  ASSUME NEW now \in Nat, NEW X, AreEntries(X, now), NEW Y, AreEntries(Y, now),
         NEW row, RowTrue(row, X), NEW later, RowTrue(later, Y)
  PROVE  RowTrue(MergeRow(row, later), X \cup Y)
<1>1. PICK m : m = MergeRow(row, later)
  OBVIOUS
<1>2. /\ m.rep = IF later.rep.severity < row.rep.severity THEN later.rep ELSE row.rep
      /\ m.first = Min({row.first, later.first}) /\ m.last = Max({row.last, later.last})
  BY <1>1 DEF MergeRow
<1>3. \A e \in X \cup Y : e.finding.severity \in Nat /\ e.at \in Nat
  BY DEF AreEntries, IsFinding
<1>4. PICK x \in X : row.rep = x.finding
  BY DEF RowTrue
<1>5. PICK y \in Y : later.rep = y.finding
  BY DEF RowTrue
<1>6. PICK a \in Nat, b \in Nat, c \in Nat, d \in Nat :
        a = row.first /\ b = later.first /\ c = row.last /\ d = later.last
  BY <1>3 DEF RowTrue
<1>7. m.first = (IF a <= b THEN a ELSE b) /\ m.last = IF c <= d THEN d ELSE c
  BY <1>2, <1>6, OfTwo
<1>8. /\ m.rep \in {e.finding : e \in X \cup Y}
      /\ \A e \in X \cup Y : m.rep.severity <= e.finding.severity
  <2>1. row.rep.severity \in Nat /\ later.rep.severity \in Nat
    BY <1>3, <1>4, <1>5
  <2>2. \A e \in X : row.rep.severity <= e.finding.severity
    BY DEF RowTrue
  <2>3. \A e \in Y : later.rep.severity <= e.finding.severity
    BY DEF RowTrue
  <2>4. CASE later.rep.severity < row.rep.severity
    <3>1. m.rep = later.rep
      BY <1>2, <2>4
    <3> QED BY <1>3, <1>5, <2>1, <2>2, <2>3, <2>4, <3>1
  <2>5. CASE ~ (later.rep.severity < row.rep.severity)
    <3>1. m.rep = row.rep
      BY <1>2, <2>5
    <3> QED BY <1>3, <1>4, <2>1, <2>2, <2>3, <2>5, <3>1
  <2> QED BY <2>4, <2>5
<1>9. a \in {e.at : e \in X} /\ c \in {e.at : e \in X} /\ \A e \in X : a <= e.at /\ e.at <= c
  BY <1>6 DEF RowTrue
<1>10. b \in {e.at : e \in Y} /\ d \in {e.at : e \in Y} /\ \A e \in Y : b <= e.at /\ e.at <= d
  BY <1>6 DEF RowTrue
<1>11. m.first \in {e.at : e \in X \cup Y} /\ m.last \in {e.at : e \in X \cup Y}
  BY <1>7, <1>9, <1>10
<1>12. ASSUME NEW e \in X \cup Y PROVE m.first <= e.at /\ e.at <= m.last
  BY <1>3, <1>7, <1>9, <1>10
<1> QED BY <1>1, <1>8, <1>11, <1>12 DEF RowTrue

\* So do the rows of two folds.
LEMMA MergedRowsTrue ==
  ASSUME NEW now \in Nat, NEW X, AreEntries(X, now), NEW Y, AreEntries(Y, now),
         NEW rows, RowsTrue(rows, X), NEW later, RowsTrue(later, Y)
  PROVE  RowsTrue(MergeFolded(rows, later), X \cup Y)
<1>1. PICK m : m = MergeFolded(rows, later)
  OBVIOUS
<1>2. m = [sig \in DOMAIN rows \cup DOMAIN later |->
             CASE sig \notin DOMAIN later -> rows[sig]
               [] sig \notin DOMAIN rows  -> later[sig]
               [] OTHER -> MergeRow(rows[sig], later[sig])]
  BY <1>1 DEF MergeFolded
<1>3. /\ DOMAIN rows = {Signature(e.finding) : e \in X}
      /\ DOMAIN later = {Signature(e.finding) : e \in Y}
      /\ \A sig \in DOMAIN rows : RowTrue(rows[sig], Signed(X, sig))
      /\ \A sig \in DOMAIN later : RowTrue(later[sig], Signed(Y, sig))
  BY DEF RowsTrue
<1>4. DOMAIN m = {Signature(e.finding) : e \in X \cup Y}
  BY <1>2, <1>3
<1>5. ASSUME NEW sig \in DOMAIN m PROVE RowTrue(m[sig], Signed(X \cup Y, sig))
  <2>1. Signed(X \cup Y, sig) = Signed(X, sig) \cup Signed(Y, sig)
    BY DEF Signed
  <2>2. CASE sig \notin DOMAIN later
    <3>1. m[sig] = rows[sig] /\ sig \in DOMAIN rows
      BY <1>2, <2>2
    <3>2. Signed(Y, sig) = {}
      BY <1>3, <2>2 DEF Signed
    <3>3. Signed(X \cup Y, sig) = Signed(X, sig)
      BY <2>1, <3>2
    <3> QED BY <1>3, <3>1, <3>3
  <2>3. CASE sig \in DOMAIN later /\ sig \notin DOMAIN rows
    <3>1. m[sig] = later[sig]
      BY <1>2, <2>3
    <3>2. Signed(X, sig) = {}
      BY <1>3, <2>3 DEF Signed
    <3>3. Signed(X \cup Y, sig) = Signed(Y, sig)
      BY <2>1, <3>2
    <3> QED BY <1>3, <2>3, <3>1, <3>3
  <2>4. CASE sig \in DOMAIN later /\ sig \in DOMAIN rows
    <3>1. m[sig] = MergeRow(rows[sig], later[sig])
      BY <1>2, <2>4
    <3>2. PICK S, T : S = Signed(X, sig) /\ T = Signed(Y, sig)
      OBVIOUS
    <3>3. AreEntries(S, now) /\ AreEntries(T, now)
      BY <3>2 DEF AreEntries, Signed
    <3>4. PICK a, b : a = rows[sig] /\ b = later[sig]
      OBVIOUS
    <3>5. RowTrue(a, S) /\ RowTrue(b, T)
      BY <1>3, <2>4, <3>2, <3>4
    <3>6. RowTrue(MergeRow(a, b), S \cup T)
      BY <3>3, <3>5, MergedRowTrue
    <3> QED BY <2>1, <3>1, <3>2, <3>4, <3>6
  <2> QED BY <2>2, <2>3, <2>4
<1> QED BY <1>1, <1>4, <1>5 DEF RowsTrue

\* What was stored, in the order of its stamps.
IsStored(stored, now) ==
    /\ stored \in Seq(Range(stored))
    /\ AreEntries(Range(stored), now)
    /\ \A i, j \in 1..Len(stored) : i <= j => stored[i].at <= stored[j].at

\* A capture read at some lengths, of which the least was the first.
IsCapture(c, stored, kept) ==
    /\ DOMAIN c = {"service", "from", "to", "oldest", "rows"}
    /\ c.from \in Nat /\ c.to \in Nat
    /\ kept \in SUBSET (0..Len(stored)) /\ kept # {}
    /\ RowsTrue(c.rows, Witnessed(c, stored, kept))
    /\ Min(kept) = 0 \/ c.oldest = OldestStamp(RingAt(stored, Min(kept)))

\* What the ring held was stored.
LEMMA RingWasStored ==
  ASSUME NEW A, NEW s \in Seq(A), NEW n \in 0..Len(s)
  PROVE  Range(RingAt(s, n)) \subseteq Range(s)
<1>1. PICK r \in Seq(A), k \in 0..n :
        /\ r = RingAt(s, n) /\ k = HeldOf(n) /\ Len(r) = k
        /\ \A i \in 1..k : r[i] = s[n - k + i]
  <2>1. PICK r : r = RingAt(s, n)
    OBVIOUS
  <2>2. EndsWith(r, A, s, n) /\ HeldOf(n) \in 0..n
    BY <2>1, RingThen
  <2>3. PICK k \in 0..n : k = HeldOf(n)
    BY <2>2
  <2> QED BY <2>1, <2>2, <2>3 DEF EndsWith
<1>2. DOMAIN r = 1..k /\ DOMAIN s = 1..Len(s)
  BY <1>1
<1>3. ASSUME NEW i \in 1..k PROVE r[i] \in Range(s)
  <2>1. n - k + i \in 1..Len(s)
    OBVIOUS
  <2> QED BY <1>1, <1>2, <2>1 DEF Range
<1> QED BY <1>1, <1>2, <1>3 DEF Range

\* What was stored between two moments is a set of entries.
LEMMA WitnessedEntries ==
  ASSUME NEW now \in Nat, NEW c, NEW stored, IsStored(stored, now),
         NEW kept \in SUBSET (0..Len(stored))
  PROVE  AreEntries(Witnessed(c, stored, kept), now)
<1>1. PICK A : A = Range(stored)
  OBVIOUS
<1>2. stored \in Seq(A) /\ AreEntries(A, now)
  BY <1>1 DEF IsStored
<1>3. \A n \in kept : Range(RingAt(stored, n)) \subseteq A
  BY <1>1, <1>2, RingWasStored
<1>4. \A e \in Witnessed(c, stored, kept) : e \in A
  BY <1>3 DEF Witnessed
<1> QED BY <1>2, <1>4 DEF AreEntries

\* Storing more leaves what a capture witnessed.
LEMMA WitnessedBefore ==
  ASSUME NEW c, NEW A, NEW s \in Seq(A), NEW t \in Seq(A), NEW kept \in SUBSET (0..Len(s)),
         IsCapture(c, s, kept)
  PROVE  IsCapture(c, s \o t, kept)
<1>1. PICK both : both = s \o t
  OBVIOUS
<1>2. Len(both) = Len(s) + Len(t) /\ Len(t) \in Nat /\ Len(s) \in Nat
  BY <1>1, ConcatRange
<1>3. \A n \in kept : RingAt(both, n) = RingAt(s, n)
  BY <1>1, RingBefore
<1>4. Witnessed(c, both, kept) = Witnessed(c, s, kept)
  BY <1>3 DEF Witnessed
<1>5. kept \in SUBSET (0..Len(both))
  BY <1>2
<1>6. PICK n0 : n0 = Min(kept)
  OBVIOUS
<1>7. n0 \in kept
  <2>1. kept \in SUBSET Nat /\ kept # {}
    BY DEF IsCapture
  <2> QED BY <1>6, <2>1, MinIsLeast
<1>8. RingAt(both, n0) = RingAt(s, n0)
  BY <1>3, <1>7
<1> QED BY <1>1, <1>4, <1>5, <1>6, <1>8 DEF IsCapture

\* A capture is one when it is frozen ...
LEMMA FreezeIsCapture ==
  ASSUME NEW now \in Nat, NEW stored, IsStored(stored, now),
         NEW r, r = Newest(stored, MaxRetainedFindings),
         NEW service, NEW from \in Nat, NEW to \in Nat
  PROVE  IsCapture(FreezeWindow(r, service, from, to), stored, {Len(stored)})
<1>1. PICK A : A = Range(stored)
  OBVIOUS
<1>2. stored \in Seq(A) /\ AreEntries(A, now)
  BY <1>1 DEF IsStored
<1>3. PICK n \in Nat : n = Len(stored)
  BY <1>2
<1>4. r = RingAt(stored, n)
  BY <1>2, <1>3, RingNow
<1>5. r \in Seq(A) /\ Range(r) \subseteq A
  BY <1>1, <1>2, <1>3, <1>4, RingThen, RingWasStored DEF EndsWith
<1>6. AreEntries(Range(r), now)
  BY <1>2, <1>5 DEF AreEntries
<1>7. PICK c : c = FreezeWindow(r, service, from, to)
  OBVIOUS
<1>8. /\ DOMAIN c = {"service", "from", "to", "oldest", "rows"}
      /\ c.service = service /\ c.from = from /\ c.to = to
      /\ c.oldest = OldestStamp(r) /\ c.rows = Coalesce(r, service, from, to)
  BY <1>7 DEF FreezeWindow
<1>9. Witnessed(c, stored, {n}) = Seen(r, service, from, to)
  <2>1. PICK X : X = {e \in Range(r) : InWindow(c, e)}
    OBVIOUS
  <2>2. Witnessed(c, stored, {n}) = X
    BY <1>4, <2>1 DEF Witnessed
  <2>3. X = Seen(r, service, from, to)
    BY <1>8, <2>1 DEF Seen, InWindow
  <2> QED BY <2>2, <2>3
<1>10. RowsTrue(c.rows, Witnessed(c, stored, {n}))
  BY <1>5, <1>6, <1>8, <1>9, CoalesceTrue
<1>11. Min({n}) = n
  <2>1. {n} \in SUBSET Nat /\ n \in {n}
    OBVIOUS
  <2> QED BY <2>1, LeastIsMin
<1>12. {n} \in SUBSET (0..n) /\ {n} # {}
  OBVIOUS
<1> QED BY <1>3, <1>4, <1>7, <1>8, <1>10, <1>11, <1>12 DEF IsCapture

\* The oldest stamp of a ring that has been filled moves forward.
LEMMA OldestMoves ==
  ASSUME NEW now \in Nat, NEW stored, IsStored(stored, now),
         NEW m \in 0..Len(stored), m # 0
  PROVE  LET a == OldestStamp(RingAt(stored, m))
             b == OldestStamp(RingAt(stored, Len(stored)))
         IN  a = (IF a = 0 \/ b = 0 THEN Max({a, b}) ELSE Min({a, b}))
<1>1. PICK A : A = Range(stored)
  OBVIOUS
<1>2. stored \in Seq(A) /\ AreEntries(A, now)
  BY <1>1 DEF IsStored
<1>3. PICK n \in Nat : n = Len(stored) /\ DOMAIN stored = 1..n /\ m <= n
  BY <1>2
<1>4. PICK x : x = OldestStamp(RingAt(stored, m))
  OBVIOUS
<1>5. PICK y : y = OldestStamp(RingAt(stored, n))
  OBVIOUS
<1>6. PICK r : /\ r = RingAt(stored, m) /\ r \in Seq(A) /\ Len(r) = HeldOf(m)
               /\ \A i \in 1..HeldOf(m) : r[i] = stored[m - HeldOf(m) + i]
  BY <1>2, RingThen DEF EndsWith
<1>7. PICK q : /\ q = RingAt(stored, n) /\ q \in Seq(A) /\ Len(q) = HeldOf(n)
               /\ \A i \in 1..HeldOf(n) : q[i] = stored[n - HeldOf(n) + i]
  <2>1. n \in 0..Len(stored)
    BY <1>3
  <2> QED BY <1>2, <2>1, RingThen DEF EndsWith
<1>8. CASE MaxRetainedFindings = 0
  <2>1. HeldOf(m) = 0 /\ HeldOf(n) = 0
    BY <1>3, <1>8 DEF HeldOf
  <2>2. r = <<>> /\ q = <<>>
    BY <1>6, <1>7, <2>1
  <2>3. x = 0 /\ y = 0
    BY <1>4, <1>5, <1>6, <1>7, <2>2 DEF OldestStamp
  <2>4. Max({0, 0}) = 0
    BY OfTwo
  <2> QED BY <1>3, <1>4, <1>5, <2>3, <2>4
<1>9. CASE MaxRetainedFindings # 0
  <2>1. PICK h \in 1..m, k \in 1..n : h = HeldOf(m) /\ k = HeldOf(n) /\ m - h <= n - k
    <3>1. HeldOf(m) \in 1..m /\ HeldOf(n) \in 1..n /\ m - HeldOf(m) <= n - HeldOf(n)
      BY <1>3, <1>9, FindingsAssumption DEF HeldOf
    <3> QED BY <3>1
  <2>2. r # <<>> /\ q # <<>> /\ 1 \in 1..h /\ 1 \in 1..k
    BY <1>6, <1>7, <2>1
  <2>3. x = stored[m - h + 1].at /\ y = stored[n - k + 1].at
    <3>1. r[1] = stored[m - h + 1] /\ q[1] = stored[n - k + 1]
      BY <1>6, <1>7, <2>1, <2>2
    <3> QED BY <1>4, <1>5, <1>6, <1>7, <2>2, <3>1 DEF OldestStamp
  <2>4. m - h + 1 \in 1..n /\ n - k + 1 \in 1..n /\ m - h + 1 <= n - k + 1
    BY <1>3, <2>1
  <2>5. x <= y
    BY <1>3, <2>3, <2>4 DEF IsStored
  <2>6. x \in 1..now /\ y \in 1..now
    <3>1. stored[m - h + 1] \in A /\ stored[n - k + 1] \in A
      BY <1>2, <1>3, <2>4
    <3> QED BY <1>2, <2>3, <3>1 DEF AreEntries
  <2>7. x \in Nat /\ y \in Nat /\ x # 0 /\ y # 0
    BY <2>6
  <2>8. Min({x, y}) = x
    BY <2>5, <2>7, OfTwo
  <2> QED BY <1>3, <1>4, <1>5, <2>7, <2>8
<1> QED BY <1>8, <1>9

\* ... and when what a later freeze of its window returns is merged into it.
LEMMA MergeIsCapture ==
  ASSUME NEW now \in Nat, NEW stored, IsStored(stored, now),
         NEW r, r = Newest(stored, MaxRetainedFindings),
         NEW c, NEW kept, IsCapture(c, stored, kept)
  PROVE  IsCapture(MergeCapture(c, FreezeWindow(r, c.service, c.from, c.to)),
                   stored, kept \cup {Len(stored)})
<1>1. PICK n \in Nat : n = Len(stored)
  BY DEF IsStored
<1>2. PICK service : service = c.service
  OBVIOUS
<1>3. PICK from \in Nat, to \in Nat : from = c.from /\ to = c.to
  BY DEF IsCapture
<1>4. PICK later : later = FreezeWindow(r, service, from, to)
  OBVIOUS
<1>5. IsCapture(later, stored, {n})
  BY <1>1, <1>4, FreezeIsCapture
<1>6. later.rows = Coalesce(r, service, from, to) /\ later.oldest = OldestStamp(r)
      /\ later.service = service /\ later.from = from /\ later.to = to
  BY <1>4 DEF FreezeWindow
<1>7. PICK m : m = MergeCapture(c, later)
  OBVIOUS
<1>8. /\ DOMAIN m = DOMAIN c /\ m.service = service /\ m.from = from /\ m.to = to
      /\ m.rows = MergeFolded(c.rows, later.rows)
      /\ m.oldest = IF c.oldest = 0 \/ later.oldest = 0 THEN Max({c.oldest, later.oldest})
                    ELSE Min({c.oldest, later.oldest})
  BY <1>2, <1>3, <1>7 DEF MergeCapture, IsCapture
<1>9. PICK all : all = kept \cup {n}
  OBVIOUS
<1>10. kept \in SUBSET (0..n) /\ kept # {}
  BY <1>1 DEF IsCapture
<1>11. all \in SUBSET (0..n) /\ all # {}
  BY <1>9, <1>10
<1>12. PICK X, Y : X = Witnessed(c, stored, kept) /\ Y = Witnessed(later, stored, {n})
  OBVIOUS
<1>13. Witnessed(m, stored, all) = X \cup Y
  <2>1. \A e : InWindow(m, e) <=> InWindow(c, e)
    BY <1>2, <1>3, <1>8 DEF InWindow
  <2>2. \A e : InWindow(m, e) <=> InWindow(later, e)
    BY <1>6, <1>8 DEF InWindow
  <2>3. Witnessed(m, stored, kept) = X
    BY <1>12, <2>1 DEF Witnessed
  <2>4. Witnessed(m, stored, {n}) = Y
    BY <1>12, <2>2 DEF Witnessed
  <2>5. Witnessed(m, stored, all) = Witnessed(m, stored, kept) \cup Witnessed(m, stored, {n})
    BY <1>9 DEF Witnessed
  <2> QED BY <2>3, <2>4, <2>5
<1>14. AreEntries(X, now) /\ AreEntries(Y, now)
  <2>1. {n} \in SUBSET (0..Len(stored)) /\ kept \in SUBSET (0..Len(stored))
    BY <1>1, <1>10
  <2> QED BY <1>12, <2>1, WitnessedEntries
<1>15. RowsTrue(c.rows, X) /\ RowsTrue(later.rows, Y)
  BY <1>5, <1>12 DEF IsCapture
<1>16. RowsTrue(m.rows, X \cup Y)
  <2>1. PICK a, b : a = c.rows /\ b = later.rows
    OBVIOUS
  <2>2. RowsTrue(MergeFolded(a, b), X \cup Y)
    BY <1>14, <1>15, <2>1, MergedRowsTrue
  <2> QED BY <1>8, <2>1, <2>2
<1>17. PICK first : first = Min(kept)
  OBVIOUS
<1>18. first \in kept /\ \A k \in kept : first <= k
  <2>1. kept \in SUBSET Nat
    BY <1>10
  <2> QED BY <1>10, <1>17, <2>1, MinIsLeast
<1>19. Min(all) = first
  <2>1. all \in SUBSET Nat /\ first \in all /\ \A k \in all : first <= k
    BY <1>9, <1>10, <1>11, <1>18
  <2> QED BY <2>1, LeastIsMin
<1>20. first = 0 \/ m.oldest = OldestStamp(RingAt(stored, first))
  <2> SUFFICES ASSUME first # 0 PROVE m.oldest = OldestStamp(RingAt(stored, first))
    OBVIOUS
  <2>1. c.oldest = OldestStamp(RingAt(stored, first))
    BY <1>17 DEF IsCapture
  <2>2. r = RingAt(stored, Len(stored))
    BY RingNow DEF IsStored
  <2>3. later.oldest = OldestStamp(RingAt(stored, Len(stored)))
    BY <1>6, <2>2
  <2>4. first \in 0..Len(stored)
    BY <1>1, <1>10, <1>18
  <2>5. PICK a : a = OldestStamp(RingAt(stored, first))
    OBVIOUS
  <2>6. PICK b : b = OldestStamp(RingAt(stored, Len(stored)))
    OBVIOUS
  <2>7. a = (IF a = 0 \/ b = 0 THEN Max({a, b}) ELSE Min({a, b}))
    BY <2>4, <2>5, <2>6, OldestMoves
  <2> QED BY <1>8, <2>1, <2>3, <2>5, <2>6, <2>7
<1>21. IsCapture(m, stored, all)
  BY <1>1, <1>3, <1>8, <1>11, <1>13, <1>16, <1>19, <1>20 DEF IsCapture
<1> QED BY <1>1, <1>2, <1>3, <1>4, <1>7, <1>9, <1>21

\* Such a capture is true.
LEMMA CaptureHolds ==
  ASSUME NEW now \in Nat, NEW stored, IsStored(stored, now),
         NEW c, NEW kept, IsCapture(c, stored, kept)
  PROVE  CaptureIsTrue(c, stored, kept)
<1>1. PICK A : A = Range(stored)
  OBVIOUS
<1>2. stored \in Seq(A) /\ AreEntries(A, now)
  BY <1>1 DEF IsStored
<1>3. PICK n \in Nat : n = Len(stored) /\ DOMAIN stored = 1..n
  BY <1>2
<1>4. kept \in SUBSET (0..n) /\ kept # {}
  BY <1>3 DEF IsCapture
<1>5. PICK seen : seen = Witnessed(c, stored, kept)
  OBVIOUS
<1>6. AreEntries(seen, now)
  BY <1>3, <1>4, <1>5, WitnessedEntries
<1>7. RowsTrue(c.rows, seen)
  BY <1>5 DEF IsCapture
<1>8. ASSUME NEW sig \in DOMAIN c.rows
      PROVE  LET row == c.rows[sig]
                 X == Signed(seen, sig)
             IN  /\ row.rep.severity = Min({e.finding.severity : e \in X})
                 /\ row.rep \in {e.finding : e \in X}
                 /\ row.first = Min({e.at : e \in X})
                 /\ row.last = Max({e.at : e \in X})
  <2>1. PICK row : row = c.rows[sig]
    OBVIOUS
  <2>2. PICK X : X = Signed(seen, sig)
    OBVIOUS
  <2>3. RowTrue(row, X)
    BY <1>7, <2>1, <2>2 DEF RowsTrue
  <2>4. \A e \in X : e.finding.severity \in Nat /\ e.at \in 0..now /\ e.at \in Nat
    BY <1>6, <2>2 DEF Signed, AreEntries, IsFinding
  <2>5. PICK severities : severities = {e.finding.severity : e \in X}
    OBVIOUS
  <2>6. PICK stamps : stamps = {e.at : e \in X}
    OBVIOUS
  <2>7. PICK s : s = row.rep.severity
    OBVIOUS
  <2>8. Min(severities) = s
    <3>1. s \in severities /\ \A x \in severities : s <= x
      BY <2>3, <2>5, <2>7 DEF RowTrue
    <3>2. severities \in SUBSET Nat
      BY <2>4, <2>5
    <3> QED BY <3>1, <3>2, LeastIsMin
  <2>9. PICK a, b : a = row.first /\ b = row.last
    OBVIOUS
  <2>10. a \in stamps /\ b \in stamps /\ \A x \in stamps : a <= x /\ x <= b
    BY <2>3, <2>6, <2>9 DEF RowTrue
  <2>11. stamps \in SUBSET Nat /\ stamps \in SUBSET (0..now)
    BY <2>4, <2>6
  <2>12. Min(stamps) = a
    BY <2>10, <2>11, LeastIsMin
  <2>13. Max(stamps) = b
    BY <2>10, <2>11, GreatestIsMax
  <2>14. row.rep \in {e.finding : e \in X}
    BY <2>3 DEF RowTrue
  <2> QED BY <2>1, <2>2, <2>5, <2>6, <2>7, <2>8, <2>9, <2>12, <2>13, <2>14
<1>9. ASSUME c.oldest # 0, c.oldest < c.from
      PROVE  {e \in Range(SubSeq(stored, 1, Min(kept))) : InWindow(c, e)} \subseteq seen
  <2>1. PICK m : m = Min(kept)
    OBVIOUS
  <2>2. m \in kept /\ m \in 0..Len(stored)
    <3>1. kept \in SUBSET Nat
      BY <1>4
    <3>2. m \in kept
      BY <1>4, <2>1, <3>1, MinIsLeast
    <3> QED BY <1>3, <1>4, <3>2
  <2>3. PICK before : /\ before = SubSeq(stored, 1, m) /\ before \in Seq(A) /\ Len(before) = m
                      /\ \A i \in 1..m : before[i] = stored[i]
    BY <1>2, <2>2, RingThen DEF StartsWith
  <2>4. PICK h \in 0..m : h = HeldOf(m)
    BY <1>2, <2>2, RingThen
  <2>5. PICK r : /\ r = RingAt(stored, m) /\ r \in Seq(A) /\ Len(r) = h
                 /\ \A i \in 1..h : r[i] = stored[m - h + i]
    <3>1. PICK r : r = RingAt(stored, m)
      OBVIOUS
    <3>2. EndsWith(r, A, stored, m)
      BY <1>2, <2>2, <3>1, RingThen
    <3> QED BY <2>4, <3>1, <3>2 DEF EndsWith
  <2> SUFFICES ASSUME NEW e \in Range(before), InWindow(c, e)
               PROVE  e \in seen
    BY <2>1, <2>3
  <2>6. PICK j \in 1..m : e = stored[j]
    BY <2>3 DEF Range
  <2>7. c.oldest = OldestStamp(r)
    BY <2>1, <2>5, <2>6 DEF IsCapture
  <2>8. r # <<>> /\ c.oldest = r[1].at
    BY <1>9, <2>7 DEF OldestStamp
  <2>9. h # 0 /\ 1 \in 1..h /\ r[1] = stored[m - h + 1]
    BY <2>5, <2>8
  <2>10. CASE j > m - h
    <3>5. m \in Nat /\ h \in Nat /\ j \in Nat /\ h <= m /\ j <= m
      BY <2>2
    <3>1. PICK i \in 1..h : i = j - (m - h)
      BY <2>10, <3>5
    <3>2. m - h + i = j
      BY <3>1, <3>5
    <3>3. r[i] = e
      BY <2>5, <2>6, <3>2
    <3>4. e \in Range(r)
      BY <2>5, <3>3 DEF Range
    <3> QED BY <1>5, <2>2, <2>5, <3>4 DEF Witnessed
  <2>11. CASE j <= m - h
    <3>1. j \in 1..Len(stored) /\ m - h + 1 \in 1..Len(stored) /\ j <= m - h + 1
      BY <2>2, <2>9, <2>11
    <3>2. e.at <= c.oldest
      BY <2>6, <2>8, <2>9, <3>1 DEF IsStored
    <3>3. e.at >= c.from
      BY DEF InWindow, IsCapture
    <3>4. e.at \in Nat /\ c.oldest \in Nat /\ c.from \in Nat
      <4>1. stored[j] \in A /\ stored[m - h + 1] \in A
        BY <1>2, <3>1
      <4>2. e.at \in 1..now /\ stored[m - h + 1].at \in 1..now
        BY <1>2, <2>6, <4>1 DEF AreEntries
      <4> QED BY <2>8, <2>9, <4>2 DEF IsCapture
    <3> QED BY <1>9, <3>2, <3>3, <3>4
  <2>12. j > m - h \/ j <= m - h
    <3>1. m \in Nat /\ h \in Nat /\ j \in Nat
      BY <2>2
    <3> QED BY <3>1
  <2> QED BY <2>10, <2>11, <2>12
<1>10. DOMAIN c.rows = {Signature(e.finding) : e \in seen}
  BY <1>7 DEF RowsTrue
<1> QED BY <1>5, <1>8, <1>9, <1>10 DEF CaptureIsTrue, Signed

PastFields ==
    {"flushes", "slowSpans", "reports", "turnedAway", "stored", "kept", "seen", "refusedLast",
     "refusedEver", "copies", "calls", "analysed", "chains", "pools"}

\* Every step leaves the history the fields it has.
PastShape == DOMAIN past = PastFields

\* No step adds a field to the history or drops one.
LEMMA PastStep ==
  ASSUME PastShape, [Next]_vars
  PROVE  PastShape'
<1> USE DEF PastShape
<1>1. CASE Analyse
  BY <1>1 DEF Analyse, RememberSlow, RememberStructure
<1>2. CASE StoreFindings
  BY <1>2 DEF StoreFindings
<1>3. CASE RetainTraces
  BY <1>3 DEF RetainTraces
<1>4. CASE IngestFindings
  BY <1>4 DEF IngestFindings
<1>5. CASE ChargeServices
  BY <1>5 DEF ChargeServices, RememberWaste
<1>6. CASE FreezeCapture
  BY <1>6 DEF FreezeCapture
<1>7. CASE SettleCapture
  BY <1>7 DEF SettleCapture
<1>8. CASE ObserveEpisodes
  BY <1>8 DEF ObserveEpisodes
<1>9. CASE DrainEpisodes
  BY <1>9 DEF DrainEpisodes
<1>10. CASE past' = past
  BY <1>10
<1>11. CASE BillBroker \/ Tick \/ UNCHANGED vars
  BY <1>10, <1>11 DEF BillBroker, Tick, storeVars, vars
<1> QED BY <1>1, <1>2, <1>3, <1>4, <1>5, <1>6, <1>7, <1>8, <1>9, <1>11 DEF Next

\* What the findings in hand follow in the ring, and what was captured of it.
RingInv ==
    /\ IsStored(past.stored, Now)
    /\ ring = Newest(past.stored, MaxRetainedFindings)
    /\ work.step = "findings" => \A e \in Range(past.stored) : e.at <= work.at

CaptureInv == capture = <<>> \/ \E c : capture = <<c>> /\ IsCapture(c, past.stored, past.kept)

FindingsInv == FoundInv /\ PastShape /\ RingInv /\ CaptureInv

\* A batch that goes on has its findings stored.
LEMMA OnwardStep ==
  ASSUME NEW stores \in Seq({"traces", "correlator", "waste"}), work' = Onward(stores)
  PROVE  work'.step # "findings"
<1>1. CASE work' = Idle
  BY <1>1 DEF Idle
<1>2. CASE work' # Idle
  <2>1. PICK batch, findings, at : work' = Through(stores, batch, findings, at)
    BY DEF Onward
  <2>2. PICK step \in Range(stores) :
          work' = [step |-> step, batch |-> batch, findings |-> findings, at |-> at]
    BY <1>2, <2>1, ThroughFacts
  <2>3. step \in {"traces", "correlator", "waste"}
    BY FiniteSequence
  <2> QED BY <2>2, <2>3
<1> QED BY <1>1, <1>2

\* A step that leaves the ring and the capture.
LEMMA RingUntouched ==
  ASSUME RingInv, CaptureInv, clock \in Nat,
         ring' = ring, capture' = capture, past'.stored = past.stored, past'.kept = past.kept,
         clock' \in {clock, clock + 1},
         work'.step = "findings" => \A e \in Range(past.stored) : e.at <= work'.at
  PROVE  RingInv' /\ CaptureInv'
<1>1. Now \in Nat /\ Now' \in Nat /\ Now <= Now'
  <2>1. Now = clock + 1 /\ Now' = clock' + 1
    BY DEF Now
  <2>2. CASE clock' = clock
    BY <2>1, <2>2
  <2>3. CASE clock' = clock + 1
    BY <2>1, <2>3
  <2> QED BY <2>2, <2>3
<1>2. \A at \in 1..Now : at \in 1..Now'
  BY <1>1
<1>3. IsStored(past.stored, Now')
  BY <1>2 DEF RingInv, IsStored, AreEntries
<1>4. RingInv'
  BY <1>3 DEF RingInv
<1>5. CaptureInv'
  BY DEF CaptureInv
<1> QED BY <1>4, <1>5

\* A batch taken up is later than anything stored.
LEMMA AnalyseRing ==
  ASSUME FindingsInv, Analyse
  PROVE  RingInv' /\ CaptureInv'
<1>1. ring' = ring /\ capture' = capture /\ clock' = clock /\ clock \in Nat
  BY DEF Analyse, brokerVars, FindingsInv, FoundInv, SetupInv
<1>2. past'.stored = past.stored /\ past'.kept = past.kept
  BY DEF Analyse, RememberSlow, RememberStructure, FindingsInv, PastShape, PastFields
<1>3. PICK b \in Setups[setup].batches : TakenUp(Dated(b))
  BY DEF Analyse, TakenUp
<1>4. PICK stores, batch, findings : /\ work' = Through(stores, batch, findings, Now)
                                     /\ stores \in Seq({"findings", "traces", "correlator", "waste"})
  <2>1. <<"correlator", "waste">> \in Seq({"findings", "traces", "correlator", "waste"})
    OBVIOUS
  <2>2. <<"findings", "traces", "correlator", "waste">>
           \in Seq({"findings", "traces", "correlator", "waste"})
    OBVIOUS
  <2> QED BY <1>3, <2>1, <2>2 DEF TakenUp
<1>5. work'.step = "findings" => work'.at = Now
  <2>1. PICK now : now = Now
    OBVIOUS
  <2>2. \/ work' = Idle
        \/ \E step : work' = [step |-> step, batch |-> batch, findings |-> findings, at |-> now]
    BY <1>4, <2>1, ThroughFacts
  <2> QED BY <2>1, <2>2 DEF Idle
<1>6. \A e \in Range(past.stored) : e.at <= Now
  <2>1. \A e \in Range(past.stored) : e.at \in 1..Now
    BY DEF FindingsInv, RingInv, IsStored, AreEntries
  <2> QED BY <1>1, <2>1 DEF Now
<1> QED BY <1>1, <1>2, <1>5, <1>6, RingUntouched DEF FindingsInv

\* The findings of a batch are stored under one stamp, later than the others.
LEMMA StoreRing ==
  ASSUME FindingsInv, StoreFindings
  PROVE  RingInv' /\ CaptureInv'
<1>1. PICK found, at : found = work.findings /\ at = work.at
  OBVIOUS
<1>2. /\ found \in Seq(Range(found)) /\ \A f \in Range(found) : IsFinding(f)
      /\ at \in 1..Now /\ Now' = Now
  BY <1>1 DEF StoreFindings, brokerVars, FindingsInv, FoundInv, WorkInv, Now
<1>3. PICK n \in Nat : n = Len(found) /\ DOMAIN found = 1..n
  BY <1>2
<1>4. PICK t : t = [i \in 1..n |-> [finding |-> found[i], at |-> at]]
  OBVIOUS
<1>5. PICK s : s = past.stored
  OBVIOUS
<1>6. past'.stored = s \o t /\ past'.kept = past.kept /\ capture' = capture
  BY <1>1, <1>3, <1>4, <1>5 DEF StoreFindings, FindingsInv, PastShape, PastFields
<1>7. IsStored(s, Now) /\ ring = Newest(s, MaxRetainedFindings)
      /\ \A e \in Range(s) : e.at <= at
  BY <1>1, <1>5 DEF StoreFindings, FindingsInv, RingInv
<1>8. \A i \in 1..n : t[i].at = at /\ t[i].finding = found[i] /\ IsFinding(t[i].finding)
  <2> TAKE i \in 1..n
  <2>1. t[i] = [finding |-> found[i], at |-> at]
    BY <1>4
  <2>2. found[i] \in Range(found)
    BY <1>3 DEF Range
  <2> QED BY <1>2, <2>1, <2>2
<1>9. PICK A : A = Range(s) \cup {t[i] : i \in 1..n}
  OBVIOUS
<1>10. s \in Seq(A) /\ t \in Seq(A) /\ Len(t) = n
  <2>1. s \in Seq(Range(s))
    BY <1>7 DEF IsStored
  <2>2. s \in Seq(A)
    BY <1>9, <2>1
  <2>3. t = [i \in 1..n |-> t[i]] /\ \A i \in 1..n : t[i] \in A
    BY <1>4, <1>9
  <2> QED BY <2>2, <2>3
<1>11. \A e \in A : IsFinding(e.finding) /\ e.at \in 1..Now
  BY <1>2, <1>7, <1>8, <1>9 DEF IsStored, AreEntries
<1>12. PICK both \in Seq(A) : both = s \o t /\ Range(both) = Range(s) \cup Range(t)
                              /\ Len(both) = Len(s) + n
  BY <1>10, ConcatRange
<1>13. Range(both) \subseteq A /\ both \in Seq(Range(both))
  BY FiniteSequence
<1>14. \A i, j \in 1..Len(both) : i <= j => both[i].at <= both[j].at
  <2>1. PICK m \in Nat : m = Len(s) /\ DOMAIN s = 1..m
    BY <1>10
  <2>2. \A i \in 1..m : both[i] = s[i]
    BY <1>10, <1>12, <2>1, ConcatAt
  <2>3. \A i \in 1..n : both[m + i] = t[i]
    BY <1>10, <1>12, <2>1, ConcatAt
  <2>4. ASSUME NEW i \in 1..(m + n), NEW j \in 1..(m + n), i <= j
        PROVE  both[i].at <= both[j].at
    <3>1. CASE j \in 1..m
      <4>1. i \in 1..m
        BY <2>4, <3>1
      <4> QED BY <1>7, <2>1, <2>2, <2>4, <3>1, <4>1 DEF IsStored
    <3>2. CASE j \notin 1..m
      <4>1. PICK k \in 1..n : k = j - m
        BY <3>2
      <4>2. both[j].at = at
        <5>1. m + k = j
          BY <4>1
        <5> QED BY <1>8, <2>3, <4>1, <5>1
      <4>3. CASE i \in 1..m
        <5>1. s[i] \in Range(s)
          BY <2>1, <4>3 DEF Range
        <5> QED BY <1>7, <2>2, <4>2, <4>3, <5>1
      <4>4. CASE i \notin 1..m
        <5>1. PICK l \in 1..n : l = i - m
          BY <4>4
        <5>2. m + l = i
          BY <5>1
        <5>3. both[i].at = at
          BY <1>8, <2>3, <5>1, <5>2
        <5> QED BY <1>2, <4>2, <5>3
      <4> QED BY <4>3, <4>4
    <3> QED BY <3>1, <3>2
  <2> QED BY <1>12, <2>1, <2>4
<1>15. IsStored(both, Now)
  BY <1>11, <1>13, <1>14 DEF IsStored, AreEntries
<1>16. ring' = Newest(both, MaxRetainedFindings)
  <2>1. CASE MaxRetainedFindings = 0
    <3>1. ring' = ring
      BY <2>1 DEF StoreFindings, PushBatch
    <3>2. \A u \in Seq(A) : Newest(u, MaxRetainedFindings) = <<>>
      <4> TAKE u \in Seq(A)
      <4>1. PICK v : v = Newest(u, MaxRetainedFindings)
        OBVIOUS
      <4>2. v \in Seq(A) /\ Len(v) = HeldOf(Len(u)) /\ Len(u) \in Nat
        BY <4>1, NewestAreLast
      <4>3. Len(v) = 0
        BY <2>1, <4>2 DEF HeldOf
      <4> QED BY <4>1, <4>2, <4>3
    <3> QED BY <1>7, <1>10, <3>1, <3>2
  <2>2. CASE MaxRetainedFindings # 0
    <3>1. ring' = Newest(ring \o t, MaxRetainedFindings)
      BY <1>1, <1>3, <1>4, <2>2 DEF StoreFindings, PushBatch
    <3>2. Newest(Newest(s, MaxRetainedFindings) \o t, MaxRetainedFindings)
            = Newest(s \o t, MaxRetainedFindings)
      BY <1>10, NewestOfMore
    <3> QED BY <1>7, <1>12, <3>1, <3>2
  <2> QED BY <2>1, <2>2
<1>17. work'.step # "findings"
  <2>1. <<"traces", "correlator", "waste">> \in Seq({"traces", "correlator", "waste"})
    OBVIOUS
  <2> QED BY <2>1, OnwardStep DEF StoreFindings
<1>18. RingInv'
  BY <1>2, <1>6, <1>12, <1>15, <1>16, <1>17 DEF RingInv
<1>19. CaptureInv'
  <2>1. CASE capture = <<>>
    BY <1>6, <2>1 DEF CaptureInv
  <2>2. ASSUME NEW c, capture = <<c>>, IsCapture(c, past.stored, past.kept)
        PROVE  CaptureInv'
    <3>1. PICK kept : kept = past.kept
      OBVIOUS
    <3>2. kept \in SUBSET (0..Len(s)) /\ IsCapture(c, s, kept)
      BY <1>5, <2>2, <3>1 DEF IsCapture
    <3>3. IsCapture(c, s \o t, kept)
      BY <1>10, <3>2, WitnessedBefore
    <3> QED BY <1>6, <2>2, <3>1, <3>3 DEF CaptureInv
  <2> QED BY <2>1, <2>2 DEF FindingsInv, CaptureInv
<1> QED BY <1>18, <1>19

\* An incident freezes its window ...
LEMMA FreezeRing ==
  ASSUME FindingsInv, FreezeCapture
  PROVE  RingInv' /\ CaptureInv'
<1>1. PICK window \in Setups[setup].windows :
        capture' = <<FreezeWindow(ring, window.service, window.from, window.to)>>
  BY DEF FreezeCapture
<1>2. PICK service, from, to : service = window.service /\ from = window.from /\ to = window.to
  OBVIOUS
<1>3. from \in Nat /\ to \in Nat
  BY <1>2, WorkerAssumption DEF FindingsInv, FoundInv, SetupInv
<1>4. /\ past'.stored = past.stored /\ past'.kept = {Len(past.stored)}
      /\ ring' = ring /\ work' = work /\ clock' = clock
  BY DEF FreezeCapture, brokerVars, FindingsInv, PastShape, PastFields
<1>5. PICK s : s = past.stored
  OBVIOUS
<1>6. IsStored(s, Now) /\ ring = Newest(s, MaxRetainedFindings) /\ Now \in Nat
  BY <1>5 DEF FindingsInv, RingInv, FoundInv, SetupInv, Now
<1>7. PICK c : c = FreezeWindow(ring, service, from, to)
  OBVIOUS
<1>8. IsCapture(c, s, {Len(s)})
  BY <1>3, <1>6, <1>7, FreezeIsCapture
<1>9. CaptureInv'
  BY <1>1, <1>2, <1>4, <1>5, <1>7, <1>8 DEF CaptureInv
<1>10. RingInv'
  BY <1>4 DEF FindingsInv, RingInv, Now
<1> QED BY <1>9, <1>10

\* ... and merges it again.
LEMMA SettleRing ==
  ASSUME FindingsInv, SettleCapture
  PROVE  RingInv' /\ CaptureInv'
<1>1. PICK c : capture = <<c>> /\ IsCapture(c, past.stored, past.kept)
  BY DEF SettleCapture, FindingsInv, CaptureInv
<1>2. /\ past'.stored = past.stored /\ past'.kept = past.kept \cup {Len(past.stored)}
      /\ ring' = ring /\ work' = work /\ clock' = clock
  BY DEF SettleCapture, brokerVars, FindingsInv, PastShape, PastFields
<1>3. PICK s, kept : s = past.stored /\ kept = past.kept
  OBVIOUS
<1>4. IsStored(s, Now) /\ ring = Newest(s, MaxRetainedFindings) /\ Now \in Nat
  BY <1>3 DEF FindingsInv, RingInv, FoundInv, SetupInv, Now
<1>5. PICK m : m = MergeCapture(c, FreezeWindow(ring, c.service, c.from, c.to))
  OBVIOUS
<1>6. IsCapture(m, s, kept \cup {Len(s)})
  BY <1>1, <1>3, <1>4, <1>5, MergeIsCapture
<1>7. capture' = <<m>>
  BY <1>1, <1>5 DEF SettleCapture
<1>8. CaptureInv'
  BY <1>2, <1>3, <1>6, <1>7 DEF CaptureInv
<1>9. RingInv'
  BY <1>2 DEF FindingsInv, RingInv, Now
<1> QED BY <1>8, <1>9

\* Every step keeps the ring the newest findings stored, and the capture
\* true of them.
LEMMA FindingsStep ==
  ASSUME FindingsInv, [Next]_vars
  PROVE  FindingsInv'
<1>1. FoundInv' /\ PastShape' /\ clock \in Nat
  BY FoundStep, PastStep DEF FindingsInv, FoundInv, SetupInv
<1>2. CASE Analyse \/ StoreFindings \/ FreezeCapture \/ SettleCapture
  BY <1>1, <1>2, AnalyseRing, StoreRing, FreezeRing, SettleRing DEF FindingsInv
<1>3. ASSUME ring' = ring, capture' = capture, past'.stored = past.stored, past'.kept = past.kept,
             clock' \in {clock, clock + 1},
             work' = work \/ work'.step # "findings"
      PROVE  FindingsInv'
  <2>1. work'.step = "findings" => \A e \in Range(past.stored) : e.at <= work'.at
    BY <1>3 DEF FindingsInv, RingInv
  <2> QED BY <1>1, <1>3, <2>1, RingUntouched DEF FindingsInv
<1>4. CASE RetainTraces
  <2>1. <<"correlator", "waste">> \in Seq({"traces", "correlator", "waste"})
    OBVIOUS
  <2>2. work'.step # "findings"
    BY <1>4, <2>1, OnwardStep DEF RetainTraces
  <2> QED BY <1>3, <1>4, <2>2 DEF RetainTraces, brokerVars, FindingsInv, PastShape, PastFields
<1>5. CASE IngestFindings
  <2>1. <<"waste">> \in Seq({"traces", "correlator", "waste"})
    OBVIOUS
  <2>2. work'.step # "findings"
    BY <1>5, <2>1, OnwardStep DEF IngestFindings
  <2> QED BY <1>3, <1>5, <2>2 DEF IngestFindings, brokerVars, FindingsInv, PastShape, PastFields
<1>6. CASE ChargeServices
  BY <1>3, <1>6 DEF ChargeServices, RememberWaste, Idle, brokerVars, FindingsInv, PastShape, PastFields
<1>7. CASE ObserveEpisodes \/ DrainEpisodes
  BY <1>3, <1>7 DEF ObserveEpisodes, DrainEpisodes, brokerVars, FindingsInv, PastShape, PastFields
<1>8. CASE BillBroker
  BY <1>3, <1>8, BrokerKeepsTime DEF BillBroker, storeVars
<1>9. CASE Tick
  BY <1>3, <1>9 DEF Tick, AdvanceClock, storeVars
<1>10. CASE UNCHANGED vars
  BY <1>3, <1>10 DEF vars, brokerVars
<1> QED BY <1>2, <1>4, <1>5, <1>6, <1>7, <1>8, <1>9, <1>10 DEF Next

\* It starts so.
LEMMA FindingsInit == Init => FindingsInv
<1> SUFFICES ASSUME Init PROVE FindingsInv
  OBVIOUS
<1>1. FoundInv /\ PastShape /\ CaptureInv
  BY FoundInit DEF Init, PastShape, PastFields, CaptureInv
<1>2. past.stored = <<>> /\ ring = <<>> /\ work.step = "idle"
  BY DEF Init, Idle
<1>3. IsStored(<<>>, Now)
  <2>1. Range(<<>>) = {} /\ <<>> \in Seq({})
    BY DEF Range
  <2> QED BY <2>1 DEF IsStored, AreEntries
<1>4. Newest(<<>>, MaxRetainedFindings) = <<>>
  BY FindingsAssumption DEF Newest
<1> QED BY <1>1, <1>2, <1>3, <1>4 DEF FindingsInv, RingInv

\* What an incident captured of its window is what the ring held of it when it
\* was frozen and when it settled (freeze_window, merge_then), for any cap of
\* the ring and any batches.
THEOREM CapturesAreTrue == Spec => []CaptureTrue
<1>1. FindingsInv => CaptureTrue
  <2> SUFFICES ASSUME FindingsInv, NEW i \in DOMAIN capture
               PROVE  CaptureIsTrue(capture[i], past.stored, past.kept)
    BY DEF CaptureTrue
  <2>1. PICK c : capture = <<c>> /\ IsCapture(c, past.stored, past.kept)
    BY DEF FindingsInv, CaptureInv
  <2>2. capture[i] = c
    BY <2>1
  <2>3. PICK s, kept : s = past.stored /\ kept = past.kept
    OBVIOUS
  <2>4. IsStored(s, Now) /\ Now \in Nat
    BY <2>3 DEF FindingsInv, RingInv, FoundInv, SetupInv, Now
  <2>5. CaptureIsTrue(c, s, kept)
    BY <2>1, <2>3, <2>4, CaptureHolds
  <2> QED BY <2>2, <2>3, <2>5
<1> QED BY <1>1, FindingsInit, FindingsStep, PTL DEF Spec

-----------------------------------------------------------------------------
(* Recurrences of slow templates: what the window holds of one key,        *)
(* against the slow spans of the key it counted, A, and the instants it    *)
(* was reported, B.                                                        *)

IsApart(A) == \A a, b \in A : a.at < b.at => a.at + SlowEpisodeMs <= b.at

\* Each episode starts when the key was slow and ends in a trace that was slow
\* in it, and the episodes do not overlap.
Holds(eps, A) ==
    \A i \in 1..Len(eps) :
       /\ \E a \in A : a.at = eps[i].start
       /\ \E a \in A : /\ a.trace = eps[i].worst.trace
                       /\ eps[i].start <= a.at /\ a.at < eps[i].start + SlowEpisodeMs
       /\ \A j \in 1..Len(eps) : i < j => eps[i].start + SlowEpisodeMs <= eps[j].start

\* The last report is one, and the others have left the window or came before.
Marks(rep, B, now) ==
    /\ rep # Never => rep \in B
    /\ \A r \in B : r <= rep \/ r + SlowWindowMs <= now

\* What was slow in the window and not reported since has its episode.
Whole(eps, A, B, now) ==
    IsApart(A) =>
       \A a \in A : \/ a.at + SlowWindowMs <= now
                    \/ \E r \in B : a.at <= r
                    \/ \E i \in 1..Len(eps) : eps[i].start = a.at

\* Episodes start at instants up to now.
LEMMA EpisodeStarts ==
  ASSUME NEW now \in Nat, NEW eps \in Seq(Episode(now))
  PROVE  \A i \in 1..Len(eps) : eps[i].start \in 1..now /\ eps[i].worst \in SlowSpan
<1> TAKE i \in 1..Len(eps)
<1>1. PICK e \in Episode(now) : e = eps[i]
  OBVIOUS
<1> QED BY <1>1 DEF Episode

\* Episodes before and after a slow span: one more, or another worst in the
\* last.
Recorded(r, eps, n, span, now) ==
    \/ /\ Len(r) = n + 1 /\ r[n + 1].start = now /\ r[n + 1].worst = span
       /\ \A i \in 1..n : r[i] = eps[i]
       /\ n # 0 => eps[n].start + SlowEpisodeMs <= now
    \/ /\ n # 0 /\ Len(r) = n /\ now < eps[n].start + SlowEpisodeMs
       /\ \A i \in 1..n : r[i].start = eps[i].start
       /\ \A i \in 1..n : r[i].worst = eps[i].worst \/ (i = n /\ r[i].worst = span)

\* A slow span opens an episode or goes to the open one.
LEMMA RecordIs ==
  ASSUME NEW now \in Nat \ {0}, NEW eps \in Seq(Episode(now)), NEW span \in SlowSpan
  PROVE  Recorded(RecordEpisode(eps, span, now), eps, Len(eps), span, now)
<1>1. PICK n \in Nat : n = Len(eps) /\ DOMAIN eps = 1..n
  OBVIOUS
<1>2. PICK r : r = RecordEpisode(eps, span, now)
  OBVIOUS
<1>3. \A i \in 1..n : eps[i].start \in 1..now
  BY EpisodeStarts, <1>1
<1>4. n # 0 => Last(eps) = eps[n] /\ n \in 1..n
  BY <1>1 DEF Last
<1>5. CASE ~ (eps # <<>> /\ now - Last(eps).start < SlowEpisodeMs)
  <2>1. PICK new : new = [start |-> now, worst |-> span]
    OBVIOUS
  <2>2. r = Append(eps, new)
    BY <1>2, <1>5, <2>1 DEF RecordEpisode
  <2>3. Len(r) = n + 1 /\ r[n + 1] = new /\ \A i \in 1..n : r[i] = eps[i]
    BY <1>1, <2>2
  <2>4. n # 0 => eps[n].start + SlowEpisodeMs <= now
    BY <1>1, <1>3, <1>4, <1>5, SlowAssumption
  <2> QED BY <1>1, <1>2, <2>1, <2>3, <2>4 DEF Recorded
<1>6. CASE eps # <<>> /\ now - Last(eps).start < SlowEpisodeMs
  <2>1. n # 0 /\ n \in 1..n /\ now < eps[n].start + SlowEpisodeMs
    BY <1>1, <1>3, <1>4, <1>6, SlowAssumption
  <2>2. CASE r = eps
    BY <1>1, <1>2, <2>1, <2>2 DEF Recorded
  <2>3. CASE r # eps
    <3>1. r = [eps EXCEPT ![n].worst = span]
      BY <1>1, <1>2, <1>6, <2>3 DEF RecordEpisode
    <3>2. PICK last \in Episode(now) : last = eps[n]
      BY <1>1, <2>1
    <3>3. last \in [start : 1..now, worst : SlowSpan]
      BY DEF Episode
    <3>4. PICK e : e = [last EXCEPT !.worst = span]
      OBVIOUS
    <3>5. e.start = last.start /\ e.worst = span
      BY <3>3, <3>4
    <3>6. r = [i \in 1..n |-> IF i = n THEN e ELSE eps[i]]
      BY <1>1, <3>1, <3>2, <3>4
    <3>7. Len(r) = n
      BY <3>6
    <3>8. ASSUME NEW i \in 1..n
          PROVE  r[i].start = eps[i].start
                 /\ (r[i].worst = eps[i].worst \/ (i = n /\ r[i].worst = span))
      BY <3>2, <3>5, <3>6
    <3> QED BY <1>1, <1>2, <2>1, <3>7, <3>8 DEF Recorded
  <2> QED BY <2>2, <2>3
<1> QED BY <1>5, <1>6

\* What a slow span counted leaves the window with.
LEMMA RecordHolds ==
  ASSUME NEW now \in Nat \ {0}, NEW eps \in Seq(Episode(now)), NEW span \in SlowSpan,
         NEW A, \A a \in A : a.at \in 1..now, NEW B, Holds(eps, A),
         NEW rec, rec.at = now, rec.trace = span.trace
  PROVE  /\ Holds(RecordEpisode(eps, span, now), A \cup {rec})
         /\ Whole(eps, A, B, now) => Whole(RecordEpisode(eps, span, now), A \cup {rec}, B, now)
<1>1. PICK n \in Nat : n = Len(eps) /\ DOMAIN eps = 1..n
  OBVIOUS
<1>2. PICK r : r = RecordEpisode(eps, span, now)
  OBVIOUS
<1>3. \A i \in 1..n : eps[i].start \in 1..now
  BY EpisodeStarts, <1>1
<1>4. Recorded(r, eps, n, span, now)
  BY <1>1, <1>2, RecordIs
<1>5. PICK C : C = A \cup {rec}
  OBVIOUS
<1>6. /\ \A i \in 1..n : \E a \in A : a.at = eps[i].start
      /\ \A i \in 1..n : \E a \in A : /\ a.trace = eps[i].worst.trace
                                      /\ eps[i].start <= a.at /\ a.at < eps[i].start + SlowEpisodeMs
      /\ \A i, j \in 1..n : i < j => eps[i].start + SlowEpisodeMs <= eps[j].start
  BY <1>1 DEF Holds
<1>7. rec \in C /\ A \subseteq C
  BY <1>5
<1>8. ASSUME Len(r) = n + 1, r[n + 1].start = now, r[n + 1].worst = span,
             \A i \in 1..n : r[i] = eps[i], n # 0 => eps[n].start + SlowEpisodeMs <= now
      PROVE  Holds(r, C) /\ (Whole(eps, A, B, now) => Whole(r, C, B, now))
  <2>1. ASSUME NEW i \in 1..(n + 1)
        PROVE  /\ \E a \in C : a.at = r[i].start
               /\ \E a \in C : /\ a.trace = r[i].worst.trace
                               /\ r[i].start <= a.at /\ a.at < r[i].start + SlowEpisodeMs
    <3>1. CASE i = n + 1
      BY <1>7, <1>8, <3>1, SlowAssumption
    <3>2. CASE i # n + 1
      <4>1. i \in 1..n
        BY <3>2
      <4> QED BY <1>6, <1>7, <1>8, <4>1
    <3> QED BY <3>1, <3>2
  <2>2. ASSUME NEW i \in 1..(n + 1), NEW j \in 1..(n + 1), i < j
        PROVE  r[i].start + SlowEpisodeMs <= r[j].start
    <3>1. i \in 1..n /\ n \in 1..n
      BY <2>2
    <3>2. CASE j = n + 1
      <4>1. eps[i].start <= eps[n].start
        BY <1>3, <1>6, <3>1, SlowAssumption
      <4>2. eps[i].start \in Nat /\ eps[n].start \in Nat
        BY <1>3, <3>1
      <4> QED BY <1>8, <3>1, <3>2, <4>1, <4>2, SlowAssumption
    <3>3. CASE j # n + 1
      <4>1. j \in 1..n
        BY <3>3
      <4> QED BY <1>6, <1>8, <2>2, <3>1, <4>1
    <3> QED BY <3>2, <3>3
  <2>3. Holds(r, C)
    BY <1>8, <2>1, <2>2 DEF Holds
  <2>4. ASSUME Whole(eps, A, B, now), IsApart(C), NEW a \in C
        PROVE  \/ a.at + SlowWindowMs <= now
               \/ \E b \in B : a.at <= b
               \/ \E i \in 1..(n + 1) : r[i].start = a.at
    <3>1. CASE a = rec
      <4>1. n + 1 \in 1..(n + 1)
        OBVIOUS
      <4> QED BY <1>8, <3>1, <4>1
    <3>2. CASE a \in A
      <4>1. IsApart(A)
        BY <1>7, <2>4 DEF IsApart
      <4>2. \/ a.at + SlowWindowMs <= now
            \/ \E b \in B : a.at <= b
            \/ \E i \in 1..n : eps[i].start = a.at
        BY <1>1, <2>4, <3>2, <4>1 DEF Whole
      <4>3. \A i \in 1..n : i \in 1..(n + 1)
        OBVIOUS
      <4> QED BY <1>8, <4>2, <4>3
    <3> QED BY <1>5, <3>1, <3>2
  <2> QED BY <1>8, <2>3, <2>4 DEF Whole
<1>9. ASSUME n # 0, Len(r) = n, now < eps[n].start + SlowEpisodeMs,
             \A i \in 1..n : r[i].start = eps[i].start,
             \A i \in 1..n : r[i].worst = eps[i].worst \/ (i = n /\ r[i].worst = span)
      PROVE  Holds(r, C) /\ (Whole(eps, A, B, now) => Whole(r, C, B, now))
  <2>1. n \in 1..n /\ eps[n].start \in 1..now
    BY <1>3, <1>9
  <2>2. ASSUME NEW i \in 1..n
        PROVE  \E a \in C : /\ a.trace = r[i].worst.trace
                            /\ r[i].start <= a.at /\ a.at < r[i].start + SlowEpisodeMs
    <3>1. CASE r[i].worst = eps[i].worst
      BY <1>6, <1>7, <1>9, <3>1
    <3>2. CASE i = n /\ r[i].worst = span
      BY <1>7, <1>9, <2>1, <3>2
    <3> QED BY <1>9, <3>1, <3>2
  <2>3. \A i \in 1..n : \E a \in C : a.at = r[i].start
    BY <1>6, <1>7, <1>9
  <2>4. \A i, j \in 1..n : i < j => r[i].start + SlowEpisodeMs <= r[j].start
    BY <1>6, <1>9
  <2>5. Holds(r, C)
    BY <1>9, <2>2, <2>3, <2>4 DEF Holds
  <2>6. ASSUME Whole(eps, A, B, now), IsApart(C), NEW a \in C
        PROVE  \/ a.at + SlowWindowMs <= now
               \/ \E b \in B : a.at <= b
               \/ \E i \in 1..n : r[i].start = a.at
    <3>1. CASE a = rec
      <4>1. PICK b \in A : b.at = eps[n].start
        BY <1>6, <2>1
      <4>2. b.at < rec.at => b.at + SlowEpisodeMs <= rec.at
        BY <1>7, <2>6, <4>1 DEF IsApart
      <4>3. eps[n].start = now
        BY <1>9, <2>1, <4>1, <4>2, SlowAssumption
      <4> QED BY <1>9, <2>1, <3>1, <4>3
    <3>2. CASE a \in A
      <4>1. IsApart(A)
        BY <1>7, <2>6 DEF IsApart
      <4>2. \/ a.at + SlowWindowMs <= now
            \/ \E b \in B : a.at <= b
            \/ \E i \in 1..n : eps[i].start = a.at
        BY <1>1, <2>6, <3>2, <4>1 DEF Whole
      <4> QED BY <1>9, <4>2
    <3> QED BY <1>5, <3>1, <3>2
  <2> QED BY <1>9, <2>5, <2>6 DEF Whole
<1>10. Holds(r, C) /\ (Whole(eps, A, B, now) => Whole(r, C, B, now))
  BY <1>4, <1>8, <1>9 DEF Recorded
<1> QED BY <1>2, <1>5, <1>10

\* An entry of the window, or none, of a key slow at A and reported at B.
IsEntry(e, A, B, now) ==
    /\ e \in [episodes : Seq(Episode(now)), reported : 0..now]
    /\ \A a \in A : a.at \in 1..now
    /\ B \in SUBSET (1..now)
    /\ Holds(e.episodes, A)
    /\ Marks(e.reported, B, now)

RecordedEntry(e, span, now) == [e EXCEPT !.episodes = RecordEpisode(@, span, now)]

ReportedEntry(now) == [episodes |-> <<>>, reported |-> now]

\* An entry that counts a slow span ...
LEMMA EntryRecorded ==
  ASSUME NEW now \in Nat \ {0}, NEW e, NEW A, NEW B, IsEntry(e, A, B, now),
         NEW span \in SlowSpan, NEW rec, rec.at = now, rec.trace = span.trace
  PROVE  /\ IsEntry(RecordedEntry(e, span, now), A \cup {rec}, B, now)
         /\ Whole(e.episodes, A, B, now)
              => Whole(RecordedEntry(e, span, now).episodes, A \cup {rec}, B, now)
<1>1. e \in [episodes : Seq(Episode(now)), reported : 0..now]
  BY DEF IsEntry
<1>2. PICK eps \in Seq(Episode(now)) : eps = e.episodes
  BY <1>1
<1>3. PICK r : r = RecordEpisode(eps, span, now)
  OBVIOUS
<1>4. r \in Seq(Episode(now))
  BY <1>3, RecordTyped
<1>5. PICK f : f = RecordedEntry(e, span, now)
  OBVIOUS
<1>6. f = [e EXCEPT !.episodes = r]
  BY <1>2, <1>3, <1>5 DEF RecordedEntry
<1>7. /\ f \in [episodes : Seq(Episode(now)), reported : 0..now]
      /\ f.episodes = r /\ f.reported = e.reported
  BY <1>1, <1>4, <1>6
<1>8. (\A a \in A : a.at \in 1..now) /\ Holds(eps, A)
  BY <1>2 DEF IsEntry
<1>9. PICK C : C = A \cup {rec}
  OBVIOUS
<1>10. Holds(r, C) /\ (Whole(eps, A, B, now) => Whole(r, C, B, now))
  BY <1>3, <1>8, <1>9, RecordHolds
<1>11. \A a \in C : a.at \in 1..now
  BY <1>8, <1>9
<1>12. IsEntry(f, C, B, now)
  BY <1>7, <1>10, <1>11 DEF IsEntry
<1> QED BY <1>2, <1>5, <1>7, <1>9, <1>10, <1>12

\* ... that is reported ...
LEMMA EntryReported ==
  ASSUME NEW now \in Nat \ {0}, NEW e, NEW A, NEW B, IsEntry(e, A, B, now)
  PROVE  /\ IsEntry(ReportedEntry(now), A, B \cup {now}, now)
         /\ Whole(ReportedEntry(now).episodes, A, B \cup {now}, now)
<1>1. PICK f : f = ReportedEntry(now)
  OBVIOUS
<1>2. f.episodes = <<>> /\ f.reported = now
  BY <1>1 DEF ReportedEntry
<1>3. f \in [episodes : Seq(Episode(now)), reported : 0..now]
  <2>1. <<>> \in Seq(Episode(now)) /\ now \in 0..now
    OBVIOUS
  <2> QED BY <1>1, <2>1 DEF ReportedEntry
<1>4. PICK C : C = B \cup {now}
  OBVIOUS
<1>5. (\A a \in A : a.at \in 1..now) /\ C \in SUBSET (1..now)
  BY <1>4 DEF IsEntry
<1>6. PICK eps : eps = <<>>
  OBVIOUS
<1>7. Len(eps) = 0 /\ 1..0 = {}
  BY <1>6
<1>8. Holds(eps, A)
  BY <1>7 DEF Holds
<1>9. Marks(now, C, now)
  BY <1>4, <1>5 DEF Marks
<1>10. Whole(eps, A, C, now)
  BY <1>4, <1>5 DEF Whole
<1>11. IsEntry(f, A, C, now)
  BY <1>2, <1>3, <1>5, <1>6, <1>8, <1>9 DEF IsEntry
<1> QED BY <1>1, <1>2, <1>4, <1>6, <1>10, <1>11

\* ... that the window leaves behind ...
LEMMA EntryExpired ==
  ASSUME NEW now \in Nat \ {0}, NEW e, NEW A, NEW B, IsEntry(e, A, B, now)
  PROVE  /\ IsEntry(Expire(e, now), A, B, now)
         /\ Whole(e.episodes, A, B, now) => Whole(Expire(e, now).episodes, A, B, now)
<1>1. e \in [episodes : Seq(Episode(now)), reported : 0..now]
  BY DEF IsEntry
<1>2. PICK eps \in Seq(Episode(now)) : eps = e.episodes
  BY <1>1
<1>3. PICK n \in Nat : n = Len(eps) /\ DOMAIN eps = 1..n
  OBVIOUS
<1>4. PICK young : young = {x \in Range(eps) : now < x.start + SlowWindowMs}
  OBVIOUS
<1>5. PICK r \in Seq(Episode(now)) : r = Sifted(eps, young)
  BY SiftedFacts
<1>6. PICK place : Sifting(eps, young, r, n, place)
  BY <1>3, <1>5, SiftedFacts
<1>7. PICK m \in Nat : m = Len(r) /\ DOMAIN r = 1..m
  OBVIOUS
<1>8. /\ \A i \in 1..m : place[i] \in 1..n /\ r[i] = eps[place[i]]
      /\ \A i, j \in 1..m : i < j => place[i] < place[j]
      /\ \A k \in 1..n : eps[k] \in young => \E i \in 1..m : place[i] = k
  BY <1>6, <1>7 DEF Sifting
<1>9. PICK f : f = Expire(e, now)
  OBVIOUS
<1>10. PICK rep : rep = IF InCooldown(e, now) THEN e.reported ELSE Never
  OBVIOUS
<1>11. f.episodes = r /\ f.reported = rep
  BY <1>2, <1>4, <1>5, <1>9, <1>10 DEF Expire
<1>12. e.reported \in 0..now /\ rep \in 0..now
  BY <1>1, <1>10 DEF Never
<1>13. f \in [episodes : Seq(Episode(now)), reported : 0..now]
  BY <1>2, <1>4, <1>5, <1>9, <1>10, <1>12 DEF Expire
<1>14. /\ \A i \in 1..n : \E a \in A : a.at = eps[i].start
       /\ \A i \in 1..n : \E a \in A : /\ a.trace = eps[i].worst.trace
                                       /\ eps[i].start <= a.at /\ a.at < eps[i].start + SlowEpisodeMs
       /\ \A i, j \in 1..n : i < j => eps[i].start + SlowEpisodeMs <= eps[j].start
  BY <1>2, <1>3 DEF IsEntry, Holds
<1>15. Holds(r, A)
  <2>1. ASSUME NEW i \in 1..m
        PROVE  /\ \E a \in A : a.at = r[i].start
               /\ \E a \in A : /\ a.trace = r[i].worst.trace
                               /\ r[i].start <= a.at /\ a.at < r[i].start + SlowEpisodeMs
    <3>1. PICK k \in 1..n : k = place[i] /\ r[i] = eps[k]
      BY <1>8
    <3> QED BY <1>14, <3>1
  <2>2. ASSUME NEW i \in 1..m, NEW j \in 1..m, i < j
        PROVE  r[i].start + SlowEpisodeMs <= r[j].start
    <3>1. PICK k \in 1..n : k = place[i] /\ r[i] = eps[k]
      BY <1>8
    <3>2. PICK l \in 1..n : l = place[j] /\ r[j] = eps[l]
      BY <1>8
    <3> QED BY <1>8, <1>14, <2>2, <3>1, <3>2
  <2> QED BY <1>7, <2>1, <2>2 DEF Holds
<1>16. (\A a \in A : a.at \in 1..now) /\ B \in SUBSET (1..now) /\ Marks(e.reported, B, now)
  BY DEF IsEntry
<1>17. Marks(rep, B, now)
  <2>1. CASE InCooldown(e, now)
    BY <1>10, <1>16, <2>1
  <2>2. CASE ~ InCooldown(e, now)
    <3>1. rep = Never /\ (e.reported = Never \/ e.reported + SlowWindowMs <= now)
      BY <1>10, <1>12, <2>2, SlowAssumption DEF InCooldown
    <3>2. ASSUME NEW r1 \in B PROVE r1 + SlowWindowMs <= now
      <4>1. r1 \in 1..now /\ (r1 <= e.reported \/ r1 + SlowWindowMs <= now)
        BY <1>16 DEF Marks
      <4> QED BY <1>12, <3>1, <4>1, SlowAssumption DEF Never
    <3> QED BY <3>1, <3>2 DEF Marks
  <2> QED BY <2>1, <2>2
<1>18. IsEntry(f, A, B, now)
  BY <1>11, <1>13, <1>15, <1>16, <1>17 DEF IsEntry
<1>19. ASSUME Whole(eps, A, B, now), IsApart(A), NEW a \in A
       PROVE  \/ a.at + SlowWindowMs <= now
              \/ \E b \in B : a.at <= b
              \/ \E i \in 1..m : r[i].start = a.at
  <2>1. CASE \E i \in 1..n : eps[i].start = a.at
    <3>1. PICK k \in 1..n : eps[k].start = a.at
      BY <2>1
    <3>2. CASE eps[k] \in young
      <4>1. PICK i \in 1..m : place[i] = k
        BY <1>8, <3>2
      <4> QED BY <1>8, <3>1, <4>1
    <3>3. CASE eps[k] \notin young
      <4>1. eps[k] \in Range(eps)
        BY <1>3 DEF Range
      <4>2. ~ (now < a.at + SlowWindowMs)
        BY <1>4, <3>1, <3>3, <4>1
      <4> QED BY <1>16, <4>2, SlowAssumption
    <3> QED BY <3>2, <3>3
  <2> QED BY <1>3, <1>19, <2>1 DEF Whole
<1>20. Whole(eps, A, B, now) => Whole(r, A, B, now)
  BY <1>7, <1>19 DEF Whole
<1> QED BY <1>2, <1>9, <1>11, <1>18, <1>20

\* ... or that only grows older.
LEMMA EntryAges ==
  ASSUME NEW now \in Nat, NEW later \in Nat, now <= later,
         NEW e, NEW A, NEW B, IsEntry(e, A, B, now)
  PROVE  /\ IsEntry(e, A, B, later)
         /\ Whole(e.episodes, A, B, now) => Whole(e.episodes, A, B, later)
<1>1. /\ e \in [episodes : Seq(Episode(now)), reported : 0..now]
      /\ \A a \in A : a.at \in 1..now
      /\ B \in SUBSET (1..now)
      /\ Holds(e.episodes, A)
      /\ Marks(e.reported, B, now)
  BY DEF IsEntry
<1>2. Episode(now) \subseteq Episode(later)
  BY DEF Episode
<1>3. e.episodes \in Seq(Episode(later))
  BY <1>1, <1>2
<1>4. e \in [episodes : Seq(Episode(later)), reported : 0..later]
  BY <1>1, <1>3
<1>5. (\A a \in A : a.at \in 1..later) /\ B \in SUBSET (1..later)
  BY <1>1
<1>6. Marks(e.reported, B, later)
  BY <1>1, SlowAssumption DEF Marks
<1>7. IsEntry(e, A, B, later)
  BY <1>1, <1>4, <1>5, <1>6 DEF IsEntry
<1>8. Whole(e.episodes, A, B, now) => Whole(e.episodes, A, B, later)
  <2>1. \A a \in A : a.at + SlowWindowMs <= now => a.at + SlowWindowMs <= later
    BY <1>1, SlowAssumption
  <2> QED BY <2>1 DEF Whole
<1> QED BY <1>7, <1>8

\* What a slow span does to the entry of a key.
LEMMA FedEntry ==
  ASSUME NEW w, NEW span, NEW reported, NEW now, NEW v, v = FeedSpan(w, span, reported, now), NEW key
  PROVE  /\ DOMAIN w \subseteq DOMAIN v
         /\ key # span.key \/ ~ HasRoom(w, span.key) => EntryOf(v, key) = EntryOf(w, key)
         /\ key = span.key /\ HasRoom(w, key) =>
              EntryOf(v, key) = IF key.template \in reported THEN ReportedEntry(now)
                                ELSE RecordedEntry(EntryOf(w, key), span, now)
<1>1. CASE ~ HasRoom(w, span.key)
  BY <1>1 DEF FeedSpan
<1>2. CASE HasRoom(w, span.key)
  <2>1. PICK k, new : /\ k = span.key
                      /\ new = IF k.template \in reported THEN ReportedEntry(now)
                               ELSE RecordedEntry(EntryOf(w, k), span, now)
    OBVIOUS
  <2>2. v = Put(w, k, new)
    BY <1>2, <2>1 DEF FeedSpan, ReportedEntry, RecordedEntry
  <2>3. v = [x \in DOMAIN w \cup {k} |-> IF x = k THEN new ELSE w[x]]
    BY <2>2 DEF Put
  <2>4. DOMAIN v = DOMAIN w \cup {k} /\ v[k] = new
        /\ \A x \in DOMAIN w : x # k => v[x] = w[x]
    BY <2>3
  <2>5. EntryOf(v, k) = new
    BY <2>4 DEF EntryOf
  <2>6. key # k => EntryOf(v, key) = EntryOf(w, key)
    BY <2>4 DEF EntryOf
  <2> QED BY <1>2, <2>1, <2>4, <2>5, <2>6
<1> QED BY <1>1, <1>2

\* The window only takes keys in while it is fed.
LEMMA FedKeysStay ==
  ASSUME NEW w, NEW spans \in Seq(SlowSpan), NEW reported, NEW now, NEW f,
         FeedRun(f, w, spans, reported, now)
  PROVE  \A n \in 0..Len(spans) : DOMAIN f[n] \subseteq DOMAIN f[Len(spans)]
<1>1. PICK N \in Nat : N = Len(spans) /\ DOMAIN spans = 1..N
  OBVIOUS
<1> DEFINE S == {k \in 0..N : \A n \in 0..k : DOMAIN f[n] \subseteq DOMAIN f[k]}
<1>2. 0 \in S
  OBVIOUS
<1>3. ASSUME NEW k \in 0..(N - 1), k \in S PROVE k + 1 \in S
  <2>1. k + 1 \in 1..N /\ k + 1 \in 0..N /\ (k + 1) - 1 = k
    OBVIOUS
  <2>2. f[k + 1] = FeedSpan(f[k], spans[k + 1], reported, now)
    BY <1>1, <2>1 DEF FeedRun
  <2>3. PICK v, u, span : v = f[k] /\ u = f[k + 1] /\ span = spans[k + 1]
    OBVIOUS
  <2>4. DOMAIN v \subseteq DOMAIN u
    <3>1. u = FeedSpan(v, span, reported, now)
      BY <2>2, <2>3
    <3> QED BY <3>1, FedEntry
  <2>5. ASSUME NEW n \in 0..(k + 1) PROVE DOMAIN f[n] \subseteq DOMAIN f[k + 1]
    <3>1. n = k + 1 \/ n \in 0..k
      OBVIOUS
    <3> QED BY <1>3, <2>3, <2>4, <3>1
  <2> QED BY <2>1, <2>5
<1> HIDE DEF S
<1>4. N \in S
  <2>1. 0..N \subseteq S
    BY <1>2, <1>3, BoundedInduction
  <2> QED BY <2>1
<1> QED BY <1>1, <1>4 DEF S

\* A key the window has in the end had room whenever it came: a full window
\* takes in no other.
LEMMA FedHadRoom ==
  ASSUME NEW now \in Nat \ {0}, NEW w \in SlowWindows(now), NEW spans \in Seq(SlowSpan),
         NEW reported, NEW f, FeedRun(f, w, spans, reported, now),
         NEW n \in 1..Len(spans), spans[n].key \in DOMAIN f[Len(spans)]
  PROVE  HasRoom(f[n - 1], spans[n].key)
<1>1. PICK N \in Nat : N = Len(spans)
  OBVIOUS
<1>2. n - 1 \in 0..N /\ N \in 0..N
  BY <1>1
<1>3. PICK D, C : D = DOMAIN f[n - 1] /\ C = DOMAIN f[N]
  OBVIOUS
<1>4. IsFiniteSet(D) /\ IsFiniteSet(C) /\ Cardinality(C) <= MaxSlowWindowKeys
  <2>1. f[n - 1] \in SlowWindows(now) /\ f[N] \in SlowWindows(now)
    BY <1>1, <1>2, FedTyped
  <2> QED BY <1>3, <2>1, SlowWindowFacts
<1>5. D \subseteq C
  BY <1>1, <1>2, <1>3, FedKeysStay
<1>6. Cardinality(D) \in Nat /\ Cardinality(C) \in Nat /\ Cardinality(D) <= Cardinality(C)
      /\ (Cardinality(D) = Cardinality(C) => D = C)
  BY <1>4, <1>5, FS_CardinalityType, FS_Subset
<1>7. Cardinality(D) < MaxSlowWindowKeys \/ D = C
  BY <1>4, <1>6, SlowAssumption
<1> QED BY <1>1, <1>3, <1>7 DEF HasRoom

CountedOf(span, key, now) == [key |-> key, at |-> now, trace |-> span.trace]

\* What of a key was counted, and when it was reported, after the first n spans
\* of a batch.
CountedAfter(A, spans, reported, n, key, now) ==
    IF key.template \in reported THEN A
    ELSE A \cup {CountedOf(spans[j], key, now) : j \in {i \in 1..n : spans[i].key = key}}

ReportedAfter(B, spans, reported, n, key, now) ==
    IF key.template \in reported THEN B \cup {now : j \in {i \in 1..n : spans[i].key = key}}
    ELSE B

\* From the counts and the reports before a span to those after it.
CountsNext(A, B, C, D, span, reported, key, now) ==
    /\ C = IF span.key = key /\ key.template \notin reported THEN A \cup {CountedOf(span, key, now)} ELSE A
    /\ D = IF span.key = key /\ key.template \in reported THEN B \cup {now} ELSE B

\* One span more of the batch.
LEMMA CountedNext ==
  ASSUME NEW A, NEW B, NEW spans, NEW reported, NEW n \in Nat, NEW key, NEW now
  PROVE  CountsNext(CountedAfter(A, spans, reported, n, key, now),
                    ReportedAfter(B, spans, reported, n, key, now),
                    CountedAfter(A, spans, reported, n + 1, key, now),
                    ReportedAfter(B, spans, reported, n + 1, key, now),
                    spans[n + 1], reported, key, now)
<1>1. PICK I, J : I = {i \in 1..n : spans[i].key = key} /\ J = {i \in 1..(n + 1) : spans[i].key = key}
  OBVIOUS
<1>2. J = IF spans[n + 1].key = key THEN I \cup {n + 1} ELSE I
  <2>1. n + 1 \in 1..(n + 1) /\ \A i \in 1..n : i \in 1..(n + 1)
    OBVIOUS
  <2>2. \A i \in 1..(n + 1) : i = n + 1 \/ i \in 1..n
    OBVIOUS
  <2> QED BY <1>1, <2>1, <2>2
<1>3. PICK r : r = [j \in J |-> CountedOf(spans[j], key, now)]
  OBVIOUS
<1>4. I \subseteq J /\ \A j \in J : r[j] = CountedOf(spans[j], key, now)
  BY <1>2, <1>3
<1>5. {r[j] : j \in J} = IF spans[n + 1].key = key THEN {r[j] : j \in I} \cup {r[n + 1]} ELSE {r[j] : j \in I}
  BY <1>2
<1>6. {now : j \in J} = IF spans[n + 1].key = key THEN {now : j \in I} \cup {now} ELSE {now : j \in I}
  BY <1>2
<1>7. CASE key.template \in reported
  BY <1>1, <1>6, <1>7 DEF CountedAfter, ReportedAfter, CountsNext
<1>8. CASE key.template \notin reported
  BY <1>1, <1>4, <1>5, <1>8 DEF CountedAfter, ReportedAfter, CountsNext
<1> QED BY <1>7, <1>8

\* An entry true of A and B, and whole when the one the batch came to was.
FedEntryTrue(e, A, B, w, key, start, reports, now) ==
    /\ IsEntry(e, A, B, now)
    /\ Whole(EntryOf(w, key).episodes, start, reports, now) => Whole(e.episodes, A, B, now)

\* One span of a batch, to a key that has room.
LEMMA FedOneMore ==
  ASSUME NEW now \in Nat \ {0}, NEW w, NEW start, NEW reports,
         NEW v, NEW A, NEW B, NEW key, FedEntryTrue(EntryOf(v, key), A, B, w, key, start, reports, now),
         NEW span \in SlowSpan, key = span.key => HasRoom(v, key), NEW reported,
         NEW C, NEW D, CountsNext(A, B, C, D, span, reported, key, now)
  PROVE  FedEntryTrue(EntryOf(FeedSpan(v, span, reported, now), key), C, D, w, key, start, reports, now)
<1>1. PICK u : u = FeedSpan(v, span, reported, now)
  OBVIOUS
<1>2. PICK old, new : old = EntryOf(v, key) /\ new = EntryOf(u, key)
  OBVIOUS
<1>3. /\ key # span.key => new = old
      /\ key = span.key => new = IF key.template \in reported THEN ReportedEntry(now)
                                 ELSE RecordedEntry(old, span, now)
  BY <1>1, <1>2, FedEntry
<1>4. PICK whole \in BOOLEAN : whole = Whole(EntryOf(w, key).episodes, start, reports, now)
  BY DEF Whole
<1>5. IsEntry(old, A, B, now) /\ (whole => Whole(old.episodes, A, B, now))
  BY <1>2, <1>4 DEF FedEntryTrue
<1>6. PICK rec : rec = CountedOf(span, key, now)
  OBVIOUS
<1>7. rec.at = now /\ rec.trace = span.trace
  BY <1>6 DEF CountedOf
<1>8. CASE span.key # key
  <2>1. FedEntryTrue(new, A, B, w, key, start, reports, now)
    BY <1>3, <1>4, <1>5, <1>8 DEF FedEntryTrue
  <2>2. C = A /\ D = B
    BY <1>8 DEF CountsNext
  <2> QED BY <1>1, <1>2, <2>1, <2>2
<1>9. CASE span.key = key /\ key.template \in reported
  <2>1. new = ReportedEntry(now)
    BY <1>3, <1>9
  <2>2. IsEntry(new, A, B \cup {now}, now) /\ Whole(new.episodes, A, B \cup {now}, now)
    BY <1>5, <2>1, EntryReported
  <2>3. FedEntryTrue(new, A, B \cup {now}, w, key, start, reports, now)
    BY <2>2 DEF FedEntryTrue
  <2>4. C = A /\ D = B \cup {now}
    BY <1>9 DEF CountsNext
  <2> QED BY <1>1, <1>2, <2>3, <2>4
<1>10. CASE span.key = key /\ key.template \notin reported
  <2>1. new = RecordedEntry(old, span, now)
    BY <1>3, <1>10
  <2>2. /\ IsEntry(new, A \cup {rec}, B, now)
        /\ Whole(old.episodes, A, B, now) => Whole(new.episodes, A \cup {rec}, B, now)
    BY <1>5, <1>7, <2>1, EntryRecorded
  <2>3. FedEntryTrue(new, A \cup {rec}, B, w, key, start, reports, now)
    BY <1>4, <1>5, <2>2 DEF FedEntryTrue
  <2>4. C = A \cup {rec} /\ D = B
    BY <1>6, <1>10 DEF CountsNext
  <2> QED BY <1>1, <1>2, <2>3, <2>4
<1> QED BY <1>8, <1>9, <1>10

\* What a batch leaves of a key that the window has in the end.
LEMMA FedKey ==
  ASSUME NEW now \in Nat \ {0}, NEW w \in SlowWindows(now), NEW spans \in Seq(SlowSpan),
         NEW reported, NEW f, FeedRun(f, w, spans, reported, now),
         NEW key \in DOMAIN f[Len(spans)],
         NEW A, NEW B, IsEntry(EntryOf(w, key), A, B, now)
  PROVE  FedEntryTrue(EntryOf(f[Len(spans)], key),
                      CountedAfter(A, spans, reported, Len(spans), key, now),
                      ReportedAfter(B, spans, reported, Len(spans), key, now),
                      w, key, A, B, now)
<1>1. PICK N \in Nat : N = Len(spans) /\ DOMAIN spans = 1..N
  OBVIOUS
<1> DEFINE CountedTo(n) == CountedAfter(A, spans, reported, n, key, now)
           ReportedTo(n) == ReportedAfter(B, spans, reported, n, key, now)
           S == {n \in 0..N : FedEntryTrue(EntryOf(f[n], key), CountedTo(n), ReportedTo(n), w, key, A, B, now)}
<1>2. 0 \in S
  <2>1. PICK I : I = {i \in 1..0 : spans[i].key = key}
    OBVIOUS
  <2>2. I = {}
    BY <2>1
  <2>3. CountedTo(0) = A /\ ReportedTo(0) = B
    BY <2>1, <2>2 DEF CountedAfter, ReportedAfter
  <2>4. f[0] = w
    BY DEF FeedRun
  <2> QED BY <2>3, <2>4 DEF FedEntryTrue
<1>3. ASSUME NEW n \in 0..(N - 1), n \in S PROVE n + 1 \in S
  <2>1. n \in Nat /\ n + 1 \in 1..N /\ n + 1 \in 0..N /\ (n + 1) - 1 = n
    OBVIOUS
  <2>2. PICK span \in SlowSpan : span = spans[n + 1]
    BY <1>1, <2>1
  <2>3. PICK v, u : v = f[n] /\ u = f[n + 1]
    OBVIOUS
  <2>4. u = FeedSpan(v, span, reported, now)
    BY <1>1, <2>1, <2>2, <2>3 DEF FeedRun
  <2>5. key = span.key => HasRoom(v, key)
    <3> SUFFICES ASSUME key = span.key PROVE HasRoom(v, key)
      OBVIOUS
    <3>1. PICK p \in 1..N : p = n + 1
      BY <2>1
    <3>2. p - 1 = n /\ spans[p].key = key
      BY <2>2, <3>1
    <3>3. HasRoom(f[p - 1], spans[p].key)
      BY <1>1, <3>2, FedHadRoom
    <3> QED BY <2>3, <3>2, <3>3
  <2>6. PICK A1, B1, A2, B2 : /\ A1 = CountedTo(n) /\ B1 = ReportedTo(n)
                              /\ A2 = CountedTo(n + 1) /\ B2 = ReportedTo(n + 1)
    OBVIOUS
  <2>7. CountsNext(A1, B1, A2, B2, spans[n + 1], reported, key, now)
    <3> HIDE DEF S
    <3> QED BY <2>1, <2>6, CountedNext
  <2>8. CountsNext(A1, B1, A2, B2, span, reported, key, now)
    BY <2>2, <2>7
  <2>9. FedEntryTrue(EntryOf(v, key), A1, B1, w, key, A, B, now)
    BY <1>3, <2>3, <2>6
  <2>10. FedEntryTrue(EntryOf(u, key), A2, B2, w, key, A, B, now)
    <3> HIDE DEF S
    <3> QED BY <2>4, <2>5, <2>8, <2>9, FedOneMore
  <2> QED BY <2>1, <2>3, <2>6, <2>10
<1>4. N \in S
  <2> HIDE DEF S
  <2>1. 0..N \subseteq S
    BY <1>2, <1>3, BoundedInduction
  <2> QED BY <2>1
<1> QED BY <1>1, <1>4

\* What the history has of a key.
SlowOf(P, key) == {s \in P : s.key = key}

\* The window holds of every key what the history says.
WindowTrue(w, P, R, D, now) ==
    \A key : /\ IsEntry(EntryOf(w, key), SlowOf(P, key), ReportedAt(R, key), now)
             /\ key \notin D => Whole(EntryOf(w, key).episodes, SlowOf(P, key), ReportedAt(R, key), now)

\* The spans of a batch whose keys the window has after it, and the others.
HeldSpans(spans, fed) == {s \in Range(spans) : s.key \in DOMAIN fed}

\* What the history has of a batch.
FedSlow(P, spans, fed, reported, now) ==
    P \cup {[key |-> s.key, at |-> now, trace |-> s.trace] :
              s \in {h \in HeldSpans(spans, fed) : h.key.template \notin reported}}

FedReports(R, spans, fed, reported, now) ==
    R \cup {[key |-> s.key, at |-> now, by |-> "batch"] :
              s \in {h \in HeldSpans(spans, fed) : h.key.template \in reported}}

FedAway(D, spans, fed) == D \cup {s.key : s \in Range(spans) \ HeldSpans(spans, fed)}

\* What it has of a key held: all its spans of the batch.
LEMMA FedSlowOf ==
  ASSUME NEW P, NEW A, NEW spans \in Seq(A), NEW fed, NEW reported, NEW now, NEW key \in DOMAIN fed
  PROVE  SlowOf(FedSlow(P, spans, fed, reported, now), key)
           = CountedAfter(SlowOf(P, key), spans, reported, Len(spans), key, now)
<1>1. PICK N \in Nat : N = Len(spans) /\ DOMAIN spans = 1..N
  OBVIOUS
<1>2. PICK L, C : /\ L = SlowOf(FedSlow(P, spans, fed, reported, now), key)
                  /\ C = CountedAfter(SlowOf(P, key), spans, reported, N, key, now)
  OBVIOUS
<1>3. ASSUME NEW x \in L PROVE x \in C
  <2>1. x \in FedSlow(P, spans, fed, reported, now) /\ x.key = key
    BY <1>2 DEF SlowOf
  <2>2. CASE x \in P
    BY <1>2, <2>1, <2>2 DEF SlowOf, CountedAfter
  <2>3. CASE x \notin P
    <3>1. PICK s \in Range(spans) : /\ s.key.template \notin reported
                                    /\ x = [key |-> s.key, at |-> now, trace |-> s.trace]
      BY <2>1, <2>3 DEF FedSlow, HeldSpans
    <3>2. PICK j \in 1..N : s = spans[j]
      BY <1>1 DEF Range
    <3>3. s.key = key
      BY <2>1, <3>1
    <3>4. x = CountedOf(spans[j], key, now) /\ j \in {i \in 1..N : spans[i].key = key}
      BY <3>1, <3>2, <3>3 DEF CountedOf
    <3> QED BY <1>2, <3>1, <3>3, <3>4 DEF CountedAfter
  <2> QED BY <2>2, <2>3
<1>4. ASSUME NEW x \in C PROVE x \in L
  <2>1. CASE x \in SlowOf(P, key)
    BY <1>2, <2>1 DEF SlowOf, FedSlow
  <2>2. CASE x \notin SlowOf(P, key)
    <3>1. key.template \notin reported
      BY <1>2, <2>2 DEF CountedAfter
    <3>2. PICK j \in 1..N : spans[j].key = key /\ x = CountedOf(spans[j], key, now)
      BY <1>2, <2>2 DEF CountedAfter
    <3>3. PICK s \in Range(spans) : s = spans[j]
      BY <1>1 DEF Range
    <3>4. s \in HeldSpans(spans, fed) /\ s.key.template \notin reported
      BY <3>1, <3>2, <3>3 DEF HeldSpans
    <3>5. x = [key |-> s.key, at |-> now, trace |-> s.trace] /\ x.key = key
      BY <3>2, <3>3 DEF CountedOf
    <3>6. x \in FedSlow(P, spans, fed, reported, now)
      BY <3>4, <3>5 DEF FedSlow
    <3> QED BY <1>2, <3>5, <3>6 DEF SlowOf
  <2> QED BY <2>1, <2>2
<1> QED BY <1>1, <1>2, <1>3, <1>4

\* When it says the key was reported.
LEMMA FedReportedAt ==
  ASSUME NEW R, NEW A, NEW spans \in Seq(A), NEW fed, NEW reported, NEW now, NEW key \in DOMAIN fed
  PROVE  ReportedAt(FedReports(R, spans, fed, reported, now), key)
           = ReportedAfter(ReportedAt(R, key), spans, reported, Len(spans), key, now)
<1>1. PICK N \in Nat : N = Len(spans) /\ DOMAIN spans = 1..N
  OBVIOUS
<1>2. PICK L, C : /\ L = ReportedAt(FedReports(R, spans, fed, reported, now), key)
                  /\ C = ReportedAfter(ReportedAt(R, key), spans, reported, N, key, now)
  OBVIOUS
<1>3. ASSUME NEW x \in L PROVE x \in C
  <2>1. PICK r \in FedReports(R, spans, fed, reported, now) : r.key = key /\ x = r.at
    BY <1>2 DEF ReportedAt
  <2>2. CASE r \in R
    BY <1>2, <2>1, <2>2 DEF ReportedAt, ReportedAfter
  <2>3. CASE r \notin R
    <3>1. PICK s \in Range(spans) : /\ s.key.template \in reported
                                    /\ r = [key |-> s.key, at |-> now, by |-> "batch"]
      BY <2>1, <2>3 DEF FedReports, HeldSpans
    <3>2. PICK j \in 1..N : s = spans[j]
      BY <1>1 DEF Range
    <3>3. s.key = key /\ x = now
      BY <2>1, <3>1
    <3>4. j \in {i \in 1..N : spans[i].key = key}
      BY <3>2, <3>3
    <3> QED BY <1>2, <3>1, <3>3, <3>4 DEF ReportedAfter
  <2> QED BY <2>2, <2>3
<1>4. ASSUME NEW x \in C PROVE x \in L
  <2>1. CASE x \in ReportedAt(R, key)
    BY <1>2, <2>1 DEF ReportedAt, FedReports
  <2>2. CASE x \notin ReportedAt(R, key)
    <3>1. key.template \in reported
      BY <1>2, <2>2 DEF ReportedAfter
    <3>2. PICK j \in 1..N : spans[j].key = key /\ x = now
      BY <1>2, <2>2 DEF ReportedAfter
    <3>3. PICK s \in Range(spans) : s = spans[j]
      BY <1>1 DEF Range
    <3>4. s \in HeldSpans(spans, fed) /\ s.key.template \in reported
      BY <3>1, <3>2, <3>3 DEF HeldSpans
    <3>5. PICK r : r = [key |-> s.key, at |-> now, by |-> "batch"]
      OBVIOUS
    <3>6. r \in FedReports(R, spans, fed, reported, now) /\ r.key = key /\ x = r.at
      BY <3>2, <3>3, <3>4, <3>5 DEF FedReports
    <3> QED BY <1>2, <3>6 DEF ReportedAt
  <2> QED BY <2>1, <2>2
<1> QED BY <1>1, <1>2, <1>3, <1>4

\* Nothing, of a key that is not held.
LEMMA FedNothing ==
  ASSUME NEW P, NEW R, NEW spans, NEW fed, NEW reported, NEW now, NEW key, key \notin DOMAIN fed
  PROVE  /\ SlowOf(FedSlow(P, spans, fed, reported, now), key) = SlowOf(P, key)
         /\ ReportedAt(FedReports(R, spans, fed, reported, now), key) = ReportedAt(R, key)
<1>1. PICK P1, R1 : /\ P1 = FedSlow(P, spans, fed, reported, now)
                    /\ R1 = FedReports(R, spans, fed, reported, now)
  OBVIOUS
<1>2. P \subseteq P1 /\ R \subseteq R1
  BY <1>1 DEF FedSlow, FedReports
<1>3. \A s \in P1 : s \in P \/ s.key # key
  BY <1>1 DEF FedSlow, HeldSpans
<1>4. \A r \in R1 : r \in R \/ r.key # key
  BY <1>1 DEF FedReports, HeldSpans
<1>5. SlowOf(P1, key) = SlowOf(P, key)
  BY <1>2, <1>3 DEF SlowOf
<1>6. {r \in R1 : r.key = key} = {r \in R : r.key = key}
  BY <1>2, <1>4
<1> QED BY <1>1, <1>5, <1>6 DEF ReportedAt

\* The window is true of the history when it is fed.
LEMMA FedTrue ==
  ASSUME NEW now \in Nat \ {0}, NEW w \in SlowWindows(now), NEW spans \in Seq(SlowSpan),
         NEW reported, NEW f, FeedRun(f, w, spans, reported, now),
         NEW P, NEW R, NEW D, WindowTrue(w, P, R, D, now), NEW fed, fed = f[Len(spans)]
  PROVE  WindowTrue(fed, FedSlow(P, spans, fed, reported, now),
                    FedReports(R, spans, fed, reported, now), FedAway(D, spans, fed), now)
<1>1. PICK P1, R1, D1 : /\ P1 = FedSlow(P, spans, fed, reported, now)
                        /\ R1 = FedReports(R, spans, fed, reported, now)
                        /\ D1 = FedAway(D, spans, fed)
  OBVIOUS
<1>2. ASSUME NEW key
      PROVE  /\ IsEntry(EntryOf(fed, key), SlowOf(P1, key), ReportedAt(R1, key), now)
             /\ key \notin D1 => Whole(EntryOf(fed, key).episodes, SlowOf(P1, key), ReportedAt(R1, key), now)
  <2>1. PICK A, B, e : A = SlowOf(P, key) /\ B = ReportedAt(R, key) /\ e = EntryOf(w, key)
    OBVIOUS
  <2>2. IsEntry(e, A, B, now) /\ (key \notin D => Whole(e.episodes, A, B, now))
    BY <2>1 DEF WindowTrue
  <2>3. key \notin D1 => key \notin D
    BY <1>1 DEF FedAway
  <2>4. PICK A1, B1, e1 : A1 = SlowOf(P1, key) /\ B1 = ReportedAt(R1, key) /\ e1 = EntryOf(fed, key)
    OBVIOUS
  <2>5. CASE key \in DOMAIN fed
    <3>1. A1 = CountedAfter(A, spans, reported, Len(spans), key, now)
      BY <1>1, <2>1, <2>4, <2>5, FedSlowOf
    <3>2. B1 = ReportedAfter(B, spans, reported, Len(spans), key, now)
      BY <1>1, <2>1, <2>4, <2>5, FedReportedAt
    <3>3. FedEntryTrue(e1, A1, B1, w, key, A, B, now)
      BY <2>1, <2>2, <2>4, <2>5, <3>1, <3>2, FedKey
    <3> QED BY <2>1, <2>2, <2>3, <2>4, <3>3 DEF FedEntryTrue
  <2>6. CASE key \notin DOMAIN fed
    <3>1. A1 = A /\ B1 = B
      BY <1>1, <2>1, <2>4, <2>6, FedNothing
    <3>2. DOMAIN w \subseteq DOMAIN fed
      <4>1. 0 \in 0..Len(spans) /\ f[0] = w
        BY DEF FeedRun
      <4> QED BY <4>1, FedKeysStay
    <3>3. e1 = e
      BY <2>1, <2>4, <2>6, <3>2 DEF EntryOf
    <3> QED BY <2>2, <2>3, <2>4, <3>1, <3>3
  <2> QED BY <2>5, <2>6
<1>3. WindowTrue(fed, P1, R1, D1, now)
  BY <1>2 DEF WindowTrue
<1> QED BY <1>1, <1>3

\* A key that was never slow has nothing to expire.
LEMMA NothingExpired ==
  ASSUME NEW now, NEW e, e = [episodes |-> <<>>, reported |-> Never]
  PROVE  Expire(e, now) = e
<1>1. PICK eps \in Seq({}) : eps = <<>>
  <2>1. <<>> \in Seq({})
    OBVIOUS
  <2> QED BY <2>1
<1>2. PICK young : young = {x \in Range(eps) : now < x.start + SlowWindowMs}
  OBVIOUS
<1>3. Sifted(eps, young) \in Seq({}) /\ Len(Sifted(eps, young)) <= Len(eps) /\ Len(eps) = 0
  BY <1>1, SiftedRange
<1>4. PICK r \in Seq({}) : r = Sifted(eps, young)
  BY <1>3
<1>5. r = <<>>
  BY <1>3, <1>4
<1>6. e.episodes = eps /\ e.reported = Never
  BY <1>1
<1>7. Expire(e, now) = [episodes |-> r, reported |-> IF InCooldown(e, now) THEN e.reported ELSE Never]
  BY <1>2, <1>4, <1>6 DEF Expire
<1> QED BY <1>5, <1>6, <1>7

\* What a sweep does to the entry of a key.
LEMMA SweptEntry ==
  ASSUME NEW now, NEW w, NEW s, s = Sweep(w, now), NEW key
  PROVE  /\ key \in s.recurring <=> key \in DOMAIN w /\ Recurs(Expire(EntryOf(w, key), now), now)
         /\ key \in s.recurring => EntryOf(s.entries, key) = ReportedEntry(now)
         /\ key \notin s.recurring => EntryOf(s.entries, key) = Expire(EntryOf(w, key), now)
<1> DEFINE expired == [k \in DOMAIN w |-> Expire(w[k], now)]
           recurring == {k \in DOMAIN w : Recurs(expired[k], now)}
           swept == [k \in DOMAIN w |-> IF k \in recurring THEN [episodes |-> <<>>, reported |-> now]
                                        ELSE expired[k]]
           left == {k \in DOMAIN w : swept[k].episodes # <<>> \/ swept[k].reported # Never}
<1>1. s.entries = Restrict(swept, left) /\ s.recurring = recurring
  BY DEF Sweep
<1>2. PICK E, K, W, L : E = expired /\ K = recurring /\ W = swept /\ L = left
  OBVIOUS
<1>3. /\ \A k \in DOMAIN w : E[k] = Expire(w[k], now)
      /\ K = {k \in DOMAIN w : Recurs(E[k], now)}
      /\ \A k \in DOMAIN w : W[k] = IF k \in K THEN [episodes |-> <<>>, reported |-> now] ELSE E[k]
      /\ L = {k \in DOMAIN w : W[k].episodes # <<>> \/ W[k].reported # Never}
  BY <1>2
<1>4. s.entries = Restrict(W, L) /\ s.recurring = K
  BY <1>1, <1>2
<1> HIDE DEF expired, recurring, swept, left
<1>5. PICK F : F = s.entries /\ DOMAIN F = L /\ \A k \in L : F[k] = W[k]
  BY <1>4 DEF Restrict
<1>6. PICK old, gone : old = EntryOf(w, key) /\ gone = Expire(old, now)
  OBVIOUS
<1>7. CASE key \in DOMAIN w
  <2>1. old = w[key] /\ E[key] = gone
    BY <1>3, <1>6, <1>7 DEF EntryOf
  <2>2. key \in K <=> Recurs(gone, now)
    BY <1>3, <1>7, <2>1
  <2>3. W[key] = IF key \in K THEN ReportedEntry(now) ELSE gone
    BY <1>3, <1>7, <2>1 DEF ReportedEntry
  <2>4. CASE key \in L
    BY <1>4, <1>5, <1>6, <1>7, <2>2, <2>3, <2>4 DEF EntryOf
  <2>5. CASE key \notin L
    <3>1. W[key].episodes = <<>> /\ W[key].reported = Never
      BY <1>3, <1>7, <2>5
    <3>2. W[key] = [episodes |-> <<>>, reported |-> Never]
      <4>1. CASE key \in K
        BY <2>3, <3>1, <4>1 DEF ReportedEntry
      <4>2. CASE key \notin K
        BY <2>3, <3>1, <4>2, <1>6 DEF Expire
      <4> QED BY <4>1, <4>2
    <3>3. EntryOf(F, key) = W[key]
      BY <1>5, <2>5, <3>2 DEF EntryOf
    <3> QED BY <1>4, <1>5, <1>6, <1>7, <2>2, <2>3, <3>3
  <2> QED BY <2>4, <2>5
<1>8. CASE key \notin DOMAIN w
  <2>1. old = [episodes |-> <<>>, reported |-> Never]
    BY <1>6, <1>8 DEF EntryOf
  <2>2. gone = old
    BY <1>6, <2>1, NothingExpired
  <2>3. key \notin K /\ key \notin L
    BY <1>3, <1>8
  <2>4. EntryOf(F, key) = old
    BY <1>5, <2>1, <2>3 DEF EntryOf
  <2> QED BY <1>4, <1>5, <1>6, <1>8, <2>2, <2>3, <2>4
<1> QED BY <1>7, <1>8

\* The history once the sweep has reported what recurs.
SweptReports(R, recurring, now) ==
    R \cup {[key |-> key, at |-> now, by |-> "window"] : key \in recurring}

\* When it says a key was reported.
LEMMA SweptReportedAt ==
  ASSUME NEW R, NEW recurring, NEW now, NEW key
  PROVE  ReportedAt(SweptReports(R, recurring, now), key)
           = IF key \in recurring THEN ReportedAt(R, key) \cup {now} ELSE ReportedAt(R, key)
<1>1. PICK R2 : R2 = SweptReports(R, recurring, now)
  OBVIOUS
<1>2. PICK r : r = [key |-> key, at |-> now, by |-> "window"]
  OBVIOUS
<1>3. r.key = key /\ r.at = now /\ R \subseteq R2
  BY <1>1, <1>2 DEF SweptReports
<1>4. \A x \in R2 : x.key = key => x \in R \/ (x = r /\ key \in recurring)
  BY <1>1, <1>2 DEF SweptReports
<1>5. key \in recurring => r \in R2
  BY <1>1, <1>2 DEF SweptReports
<1> QED BY <1>1, <1>3, <1>4, <1>5 DEF ReportedAt

\* The window is true of the history when it is swept.
LEMMA SweptTrue ==
  ASSUME NEW now \in Nat \ {0}, NEW w, NEW s, s = Sweep(w, now),
         NEW P, NEW R, NEW D, WindowTrue(w, P, R, D, now)
  PROVE  WindowTrue(s.entries, P, SweptReports(R, s.recurring, now), D, now)
<1>1. PICK R2, F, K : R2 = SweptReports(R, s.recurring, now) /\ F = s.entries /\ K = s.recurring
  OBVIOUS
<1>2. ASSUME NEW key
      PROVE  /\ IsEntry(EntryOf(F, key), SlowOf(P, key), ReportedAt(R2, key), now)
             /\ key \notin D => Whole(EntryOf(F, key).episodes, SlowOf(P, key), ReportedAt(R2, key), now)
  <2>1. PICK A, B, e, x : /\ A = SlowOf(P, key) /\ B = ReportedAt(R, key)
                          /\ e = EntryOf(w, key) /\ x = EntryOf(F, key)
    OBVIOUS
  <2>2. IsEntry(e, A, B, now) /\ (key \notin D => Whole(e.episodes, A, B, now))
    BY <2>1 DEF WindowTrue
  <2>3. PICK B2 : B2 = ReportedAt(R2, key)
    OBVIOUS
  <2>4. B2 = IF key \in K THEN B \cup {now} ELSE B
    BY <1>1, <2>1, <2>3, SweptReportedAt
  <2>5. CASE key \in K
    <3>1. x = ReportedEntry(now)
      BY <1>1, <2>1, <2>5, SweptEntry
    <3> QED BY <2>1, <2>2, <2>3, <2>4, <2>5, <3>1, EntryReported
  <2>6. CASE key \notin K
    <3>1. x = Expire(e, now)
      BY <1>1, <2>1, <2>6, SweptEntry
    <3> QED BY <2>1, <2>2, <2>3, <2>4, <2>6, <3>1, EntryExpired
  <2> QED BY <2>5, <2>6
<1>3. WindowTrue(F, P, R2, D, now)
  BY <1>2 DEF WindowTrue
<1> QED BY <1>1, <1>3

\* What is left of an entry is in the window.
LEMMA ExpiredIsYoung ==
  ASSUME NEW now \in Nat \ {0}, NEW e, NEW A, NEW B, IsEntry(e, A, B, now),
         NEW x, x = Expire(e, now)
  PROVE  /\ \A i \in 1..Len(x.episodes) : now < x.episodes[i].start + SlowWindowMs
         /\ x.reported # Never => e.reported \in B /\ now < e.reported + SlowWindowMs
                                  /\ InCooldown(x, now)
<1>1. PICK eps \in Seq(Episode(now)) : eps = e.episodes
  BY DEF IsEntry
<1>2. PICK young : young = {y \in Range(eps) : now < y.start + SlowWindowMs}
  OBVIOUS
<1>3. PICK r \in Seq(Episode(now)) : r = Sifted(eps, young)
  BY SiftedFacts
<1>4. Range(r) = Range(eps) \cap young
  BY <1>3, SiftedRange
<1>5. x.episodes = r
  BY <1>1, <1>2, <1>3 DEF Expire
<1>6. x.reported = IF InCooldown(e, now) THEN e.reported ELSE Never
  BY DEF Expire
<1>7. \A i \in 1..Len(r) : now < r[i].start + SlowWindowMs
  <2> TAKE i \in 1..Len(r)
  <2>1. r[i] \in Range(r)
    BY FiniteSequence DEF Range
  <2> QED BY <1>2, <1>4, <2>1
<1>8. ASSUME x.reported # Never
      PROVE  e.reported \in B /\ now < e.reported + SlowWindowMs /\ InCooldown(x, now)
  <2>1. InCooldown(e, now) /\ x.reported = e.reported
    BY <1>6, <1>8
  <2>2. e.reported \in B
    BY <2>1 DEF IsEntry, Marks, InCooldown
  <2> QED BY <2>1, <2>2 DEF InCooldown
<1> QED BY <1>5, <1>7, <1>8

\* Where the key was slow, of its episodes.
LEMMA StartsAreSlow ==
  ASSUME NEW P, NEW key, NEW eps, Holds(eps, SlowOf(P, key)), NEW i \in 1..Len(eps)
  PROVE  eps[i].start \in SlowAt(P, key)
<1>1. PICK a \in SlowOf(P, key) : a.at = eps[i].start
  BY DEF Holds
<1> QED BY <1>1 DEF SlowOf, SlowAt

\* A recurrence the window reports is reported once per window, and for slow
\* instants an episode apart.
LEMMA RecurrenceJustified ==
  ASSUME NEW now \in Nat \ {0}, NEW w, NEW s, s = Sweep(w, now),
         NEW P, NEW R, NEW D, WindowTrue(w, P, R, D, now), NEW key \in s.recurring,
         NEW r, r.key = key, r.at = now
  PROVE  ReportJustified(P, SweptReports(R, s.recurring, now), r)
<1>1. PICK A, B, e : A = SlowOf(P, key) /\ B = ReportedAt(R, key) /\ e = EntryOf(w, key)
  OBVIOUS
<1>2. IsEntry(e, A, B, now)
  BY <1>1 DEF WindowTrue
<1>3. PICK x : x = Expire(e, now)
  OBVIOUS
<1>4. Recurs(x, now)
  BY <1>1, <1>3, SweptEntry
<1>5. IsEntry(x, A, B, now)
  BY <1>2, <1>3, EntryExpired
<1>6. PICK R2 : R2 = SweptReports(R, s.recurring, now)
  OBVIOUS
<1>7. ReportedAt(R2, key) = B \cup {now}
  BY <1>1, <1>6, SweptReportedAt
<1>8. x.reported = Never
  <2>1. x.reported # Never => InCooldown(x, now)
    BY <1>2, <1>3, ExpiredIsYoung
  <2> QED BY <1>4, <2>1 DEF Recurs
<1>9. \A t \in B : t + SlowWindowMs <= now
  <2>1. Marks(Never, B, now) /\ B \in SUBSET (1..now)
    BY <1>5, <1>8 DEF IsEntry
  <2> QED BY <2>1 DEF Marks, Never
<1>10. PICK eps \in Seq(Episode(now)) : eps = x.episodes
  BY <1>5 DEF IsEntry
<1>11. PICK n \in Nat : n = Len(eps) /\ DOMAIN eps = 1..n
  OBVIOUS
<1>12. SlowMinOccurrences <= n
  <2>1. PICK worsts : worsts = EpisodeSpans(x)
    OBVIOUS
  <2>2. worsts = [i \in 1..n |-> eps[i].worst]
    BY <1>10, <1>11, <2>1 DEF EpisodeSpans
  <2>3. Len(worsts) = n
    BY <2>2
  <2> QED BY <1>4, <2>1, <2>3, SlowAssumption DEF Recurs, SpansTraces
<1>13. PICK S : S = 1..SlowMinOccurrences
  OBVIOUS
<1>14. \A i \in S : i \in 1..n /\ i \in Nat
  BY <1>12, <1>13, SlowAssumption
<1>15. /\ Holds(eps, A)
       /\ \A i, j \in 1..n : i < j => eps[i].start + SlowEpisodeMs <= eps[j].start
       /\ \A i \in 1..n : eps[i].start \in 1..now
       /\ \A i \in 1..n : now < eps[i].start + SlowWindowMs
  <2>1. Holds(eps, A)
    BY <1>5, <1>10 DEF IsEntry
  <2>2. \A i, j \in 1..n : i < j => eps[i].start + SlowEpisodeMs <= eps[j].start
    BY <1>11, <2>1 DEF Holds
  <2>3. \A i \in 1..n : eps[i].start \in 1..now
    BY <1>11, EpisodeStarts
  <2>4. \A i \in 1..n : now < eps[i].start + SlowWindowMs
    BY <1>2, <1>3, <1>10, <1>11, ExpiredIsYoung
  <2> QED BY <2>1, <2>2, <2>3, <2>4
<1>16. PICK start : start = [i \in S |-> eps[i].start]
  OBVIOUS
<1>17. PICK instants : instants = {start[i] : i \in S}
  OBVIOUS
<1>18. instants \in SUBSET Within(SlowAt(P, key), now)
  <2> SUFFICES ASSUME NEW i \in S PROVE start[i] \in Within(SlowAt(P, key), now)
    BY <1>17
  <2>1. start[i] = eps[i].start /\ i \in 1..n
    BY <1>14, <1>16
  <2>2. eps[i].start \in SlowAt(P, key)
    BY <1>1, <1>11, <1>15, <2>1, StartsAreSlow
  <2>3. eps[i].start <= now /\ now < eps[i].start + SlowWindowMs
    BY <1>15, <2>1
  <2> QED BY <2>1, <2>2, <2>3 DEF Within
<1>19. Cardinality(instants) = SlowMinOccurrences
  <2>1. IsFiniteSet(S) /\ Cardinality(S) = SlowMinOccurrences
    BY <1>13, SlowAssumption, FirstNumbers
  <2>2. \A i, j \in S : start[i] = start[j] => i = j
    <3> SUFFICES ASSUME NEW i \in S, NEW j \in S, i < j PROVE start[i] # start[j]
      BY <1>14
    <3>1. start[i] = eps[i].start /\ start[j] = eps[j].start /\ i \in 1..n /\ j \in 1..n
      BY <1>14, <1>16
    <3>2. eps[i].start + SlowEpisodeMs <= eps[j].start /\ eps[i].start \in Nat
      BY <1>15, <3>1
    <3> QED BY <3>1, <3>2, SlowAssumption
  <2> QED BY <1>16, <1>17, <2>1, <2>2, DistinctImage
<1>20. ASSUME NEW t \in instants, NEW u \in instants, t < u PROVE t + SlowEpisodeMs <= u
  <2>1. PICK i \in S : t = start[i]
    BY <1>17
  <2>2. PICK j \in S : u = start[j]
    BY <1>17
  <2>3. t = eps[i].start /\ u = eps[j].start /\ i \in 1..n /\ j \in 1..n
    BY <1>14, <1>16, <2>1, <2>2
  <2>4. CASE i < j
    BY <1>15, <2>3, <2>4
  <2>5. CASE ~ (i < j)
    <3>1. i = j \/ eps[j].start + SlowEpisodeMs <= eps[i].start
      BY <1>15, <2>3, <2>5
    <3>2. eps[i].start \in Nat /\ eps[j].start \in Nat
      BY <1>15, <2>3
    <3> QED BY <1>20, <2>3, <3>1, <3>2, SlowAssumption
  <2> QED BY <2>4, <2>5
<1>21. \A t \in ReportedAt(R2, r.key) : t < r.at => t + SlowWindowMs <= r.at
  BY <1>7, <1>9
<1> QED BY <1>6, <1>18, <1>19, <1>20, <1>21 DEF ReportJustified

\* Two episodes of a key that was slow in traces of its own ended in two
\* traces.
LEMMA TwoTraces ==
  ASSUME NEW now \in Nat \ {0}, NEW P, NEW key, InSeparateEpisodes(P, key),
         \A a \in SlowOf(P, key) : a.at \in 1..now,
         NEW eps \in Seq(Episode(now)), Holds(eps, SlowOf(P, key)), Len(eps) >= 2,
         NEW x, x.episodes = eps
  PROVE  Cardinality(TracesOf(EpisodeSpans(x))) >= 2
<1>1. PICK n \in Nat : n = Len(eps) /\ DOMAIN eps = 1..n /\ n >= 2
  OBVIOUS
<1>2. PICK A : A = SlowOf(P, key)
  OBVIOUS
<1>3. PICK a \in A : a.trace = eps[1].worst.trace /\ a.at < eps[1].start + SlowEpisodeMs
  <2>1. 1 \in 1..n
    BY <1>1
  <2> QED BY <1>1, <1>2, <2>1 DEF Holds
<1>4. PICK b \in A : b.trace = eps[2].worst.trace /\ eps[2].start <= b.at
  <2>1. 2 \in 1..n
    BY <1>1
  <2> QED BY <1>1, <1>2, <2>1 DEF Holds
<1>5. eps[1].start + SlowEpisodeMs <= eps[2].start /\ eps[1].start \in Nat /\ eps[2].start \in Nat
  <2>1. 1 \in 1..n /\ 2 \in 1..n /\ 1 < 2
    BY <1>1
  <2>2. eps[1].start + SlowEpisodeMs <= eps[2].start
    BY <1>1, <2>1 DEF Holds
  <2> QED BY <1>1, <2>1, <2>2, EpisodeStarts
<1>6. a.at # b.at
  <2>1. PICK i \in 1..now : i = a.at
    BY <1>2, <1>3
  <2>2. PICK j \in 1..now : j = b.at
    BY <1>2, <1>4
  <2>3. PICK k \in Nat, l \in Nat : k = eps[1].start /\ l = eps[2].start
    BY <1>5
  <2>4. i < k + SlowEpisodeMs /\ k + SlowEpisodeMs <= l /\ l <= j
    BY <1>3, <1>4, <1>5, <2>1, <2>2, <2>3
  <2>5. i # j
    BY <2>4, SlowAssumption
  <2> QED BY <2>1, <2>2, <2>5
<1>7. a.trace # b.trace
  BY <1>2, <1>6 DEF InSeparateEpisodes, SlowOf
<1>8. PICK worsts : worsts = [i \in 1..n |-> eps[i].worst]
  OBVIOUS
<1>9. EpisodeSpans(x) = worsts
  BY <1>1, <1>8 DEF EpisodeSpans
<1>10. PICK N : N = 1..n
  OBVIOUS
<1>11. PICK traces : traces = [i \in N |-> worsts[i].trace]
  OBVIOUS
<1>12. TracesOf(worsts) = {traces[i] : i \in N}
  BY <1>8, <1>10, <1>11 DEF TracesOf
<1>13. PICK T : T = TracesOf(worsts)
  OBVIOUS
<1>14. IsFiniteSet(T)
  <2>1. IsFiniteSet(N)
    BY <1>10, FirstNumbers
  <2> QED BY <1>11, <1>12, <1>13, <2>1, FiniteImage
<1>15. a.trace \in T /\ b.trace \in T
  <2>1. 1 \in N /\ 2 \in N
    BY <1>1, <1>10
  <2>2. traces[1] = a.trace /\ traces[2] = b.trace
    BY <1>3, <1>4, <1>8, <1>10, <1>11, <2>1
  <2> QED BY <1>12, <1>13, <2>1, <2>2
<1>16. PICK u, v : u = a.trace /\ v = b.trace
  OBVIOUS
<1>17. IsFiniteSet({u}) /\ Cardinality({u}) = 1
  BY FS_Singleton
<1>18. PICK U : U = {u} \cup {v}
  OBVIOUS
<1>19. IsFiniteSet(U) /\ Cardinality(U) = 2
  <2>1. v \notin {u}
    BY <1>7, <1>16
  <2>2. PICK W : W = {u}
    OBVIOUS
  <2>3. IsFiniteSet(W) /\ v \notin W
    BY <1>17, <2>1, <2>2
  <2>4. IsFiniteSet(W \cup {v}) /\ Cardinality(W \cup {v}) = Cardinality(W) + 1
    BY <2>3, FS_AddElement
  <2>5. Cardinality(W) = 1
    BY <1>17, <2>2
  <2>6. U = W \cup {v}
    BY <1>18, <2>2
  <2>7. Cardinality(W) + 1 = 2
    BY <2>5
  <2>8. Cardinality(U) = Cardinality(W) + 1
    BY <2>4, <2>6
  <2> QED BY <2>4, <2>6, <2>7, <2>8
<1>20. U \in SUBSET T
  BY <1>15, <1>16, <1>18
<1>21. Cardinality(U) <= Cardinality(T)
  BY <1>14, <1>20, FS_Subset
<1>22. Cardinality(T) \in Nat
  BY <1>14, FS_CardinalityType
<1> QED BY <1>9, <1>13, <1>19, <1>21, <1>22

\* A key that is due was reported in its batch, or recurs now.
LEMMA DueRecurs ==
  ASSUME NEW now \in Nat \ {0}, NEW w, NEW s, s = Sweep(w, now),
         NEW P, NEW R, NEW D, WindowTrue(w, P, R, D, now), NEW key, key \notin D,
         IsDue(P, SweptReports(R, s.recurring, now), key, now)
  PROVE  now \in ReportedAt(SweptReports(R, s.recurring, now), key)
<1>1. PICK R2, B2 : R2 = SweptReports(R, s.recurring, now) /\ B2 = ReportedAt(R2, key)
  OBVIOUS
<1> SUFFICES ASSUME now \notin B2 PROVE key \in s.recurring
  BY <1>1, SweptReportedAt
<1>2. PICK A, B, e : A = SlowOf(P, key) /\ B = ReportedAt(R, key) /\ e = EntryOf(w, key)
  OBVIOUS
<1>3. IsEntry(e, A, B, now) /\ Whole(e.episodes, A, B, now)
  BY <1>2 DEF WindowTrue
<1>4. PICK x : x = Expire(e, now)
  OBVIOUS
<1>5. IsEntry(x, A, B, now) /\ Whole(x.episodes, A, B, now)
  BY <1>3, <1>4, EntryExpired
<1>6. PICK before : before = ReportedAt({r \in R2 : r.at < now}, key)
  OBVIOUS
<1>7. B \in SUBSET (1..now) /\ now \notin B
  <2>1. B \in SUBSET (1..now)
    BY <1>3 DEF IsEntry
  <2>2. B \subseteq B2
    BY <1>1, <1>2, SweptReportedAt
  <2> QED BY <2>1, <2>2
<1>8. before = B
  <2>1. ASSUME NEW t \in before PROVE t \in B
    <3>1. PICK r \in R2 : r.key = key /\ r.at = t /\ r.at < now
      BY <1>6, <2>1 DEF ReportedAt
    <3>2. t \in B2 /\ t # now
      BY <1>1, <3>1, <1>7 DEF ReportedAt
    <3> QED BY <1>1, <1>2, <3>2, SweptReportedAt
  <2>2. ASSUME NEW t \in B PROVE t \in before
    <3>1. PICK r \in R : r.key = key /\ r.at = t
      BY <1>2 DEF ReportedAt
    <3>2. r \in R2 /\ t < now
      BY <1>1, <1>7, <3>1 DEF SweptReports
    <3> QED BY <1>6, <3>1, <3>2 DEF ReportedAt
  <2> QED BY <2>1, <2>2
<1>9. PICK instants : instants = {t \in Within(SlowAt(P, key), now) : \A r \in before : r < t}
  OBVIOUS
<1>10. /\ InSeparateEpisodes(P, key)
       /\ now \in instants
       /\ Within(before, now) = {}
       /\ Cardinality(instants) >= SlowMinOccurrences /\ Cardinality(instants) >= 2
  BY <1>1, <1>6, <1>9 DEF IsDue
<1>11. PICK eps \in Seq(Episode(now)) : eps = x.episodes
  BY <1>5 DEF IsEntry
<1>12. PICK n \in Nat : n = Len(eps) /\ DOMAIN eps = 1..n
  OBVIOUS
<1>13. IsApart(A)
  BY <1>2, <1>10 DEF InSeparateEpisodes, IsApart, SlowAt, SlowOf
<1>14. ASSUME NEW t \in instants PROVE \E i \in 1..n : eps[i].start = t
  <2>1. t \in SlowAt(P, key) /\ now < t + SlowWindowMs /\ (\A r \in B : r < t)
    BY <1>8, <1>9 DEF Within
  <2>2. PICK a \in A : a.at = t
    BY <1>2, <2>1 DEF SlowAt, SlowOf
  <2>3. t \in 1..now
    BY <1>5, <2>2 DEF IsEntry
  <2>4. ~ (a.at + SlowWindowMs <= now) /\ ~ \E r \in B : a.at <= r
    BY <1>7, <2>1, <2>2, <2>3, SlowAssumption
  <2> QED BY <1>5, <1>11, <1>12, <1>13, <2>2, <2>4 DEF Whole
<1>15. Cardinality(instants) <= n /\ Cardinality(instants) \in Nat
  <2>1. PICK N : N = 1..n
    OBVIOUS
  <2>2. PICK starts : starts = [i \in N |-> eps[i].start]
    OBVIOUS
  <2>3. PICK T : T = {starts[i] : i \in N}
    OBVIOUS
  <2>4. IsFiniteSet(N) /\ Cardinality(N) = n
    BY <2>1, FirstNumbers
  <2>5. IsFiniteSet(T) /\ Cardinality(T) <= n
    BY <2>2, <2>3, <2>4, FiniteImage
  <2>6. instants \in SUBSET T
    BY <1>14, <2>1, <2>2, <2>3
  <2>7. IsFiniteSet(instants) /\ Cardinality(instants) <= Cardinality(T)
    BY <2>5, <2>6, FS_Subset
  <2>8. Cardinality(instants) \in Nat /\ Cardinality(T) \in Nat
    BY <2>5, <2>7, FS_CardinalityType
  <2> QED BY <2>5, <2>7, <2>8
<1>16. n >= SlowMinOccurrences /\ n >= 2
  BY <1>10, <1>15, SlowAssumption
<1>17. Holds(eps, A) /\ \A i \in 1..n : eps[i].start \in 1..now
  BY <1>5, <1>11, <1>12, EpisodeStarts DEF IsEntry
<1>18. eps # <<>> /\ Last(eps).start = now
  <2>1. PICK i \in 1..n : eps[i].start = now
    BY <1>10, <1>14
  <2>2. n \in 1..n
    BY <1>16
  <2>3. i < n => eps[i].start + SlowEpisodeMs <= eps[n].start
    BY <1>12, <1>17, <2>2 DEF Holds
  <2>4. i = n
    BY <1>17, <2>1, <2>2, <2>3, SlowAssumption
  <2> QED BY <1>12, <1>16, <2>1, <2>4 DEF Last
<1>19. x.reported = Never
  <2> SUFFICES ASSUME x.reported # Never PROVE FALSE
    OBVIOUS
  <2>1. e.reported \in B /\ now < e.reported + SlowWindowMs
    BY <1>3, <1>4, ExpiredIsYoung
  <2>2. e.reported \in 1..now /\ e.reported <= now
    <3>1. PICK t \in 1..now : t = e.reported
      BY <1>7, <2>1
    <3> QED BY <3>1
  <2>3. e.reported \in Within(before, now)
    BY <1>8, <2>1, <2>2 DEF Within
  <2> QED BY <1>10, <2>3
<1>20. SpansTraces(EpisodeSpans(x))
  <2>1. Cardinality(TracesOf(EpisodeSpans(x))) >= 2
    <3>1. \A a \in A : a.at \in 1..now
      BY <1>3 DEF IsEntry
    <3>2. eps \in Seq(Episode(now)) /\ Holds(eps, A) /\ Len(eps) >= 2
      BY <1>12, <1>16, <1>17
    <3>3. InSeparateEpisodes(P, key)
      BY <1>10
    <3> QED BY <1>2, <1>11, <3>1, <3>2, <3>3, TwoTraces
  <2>2. PICK worsts : worsts = EpisodeSpans(x)
    OBVIOUS
  <2>3. worsts = [i \in 1..n |-> eps[i].worst]
    BY <1>11, <1>12, <2>2 DEF EpisodeSpans
  <2>4. Len(worsts) = n
    BY <2>3
  <2> QED BY <1>16, <2>1, <2>2, <2>4 DEF SpansTraces
<1>21. Recurs(x, now)
  BY <1>11, <1>18, <1>19, <1>20 DEF Recurs, InCooldown
<1>22. key \in DOMAIN w
  <2> SUFFICES ASSUME key \notin DOMAIN w PROVE FALSE
    OBVIOUS
  <2>1. e = [episodes |-> <<>>, reported |-> Never]
    BY <1>2 DEF EntryOf
  <2>2. x = e
    BY <1>4, <2>1, NothingExpired
  <2> QED BY <1>11, <1>18, <2>1, <2>2
<1> QED BY <1>2, <1>4, <1>21, <1>22, SweptEntry

\* What was justified stays so.
LEMMA JustifiedStays ==
  ASSUME NEW now \in Nat, NEW P, NEW R, NEW Q, P \subseteq Q, NEW S,
         \A x \in S : x \in R \/ x.at = now, NEW r, r.at \in Nat, r.at <= now,
         ReportJustified(P, R, r)
  PROVE  ReportJustified(Q, S, r)
<1>1. \A t \in ReportedAt(S, r.key) : t < r.at => t \in ReportedAt(R, r.key)
  BY DEF ReportedAt
<1>2. Within(SlowAt(P, r.key), r.at) \subseteq Within(SlowAt(Q, r.key), r.at)
  BY DEF Within, SlowAt
<1> QED BY <1>1, <1>2 DEF ReportJustified

\* The window and the promise, once it was fed some spans and swept.
AnalysedTrue(w, spans, fed, reported, recurring, P, R, D, now) ==
    LET P1 == FedSlow(P, spans, fed, reported, now)
        R2 == SweptReports(FedReports(R, spans, fed, reported, now), recurring, now)
        D1 == FedAway(D, spans, fed)
    IN  WindowTrue(w, P1, R2, D1, now) /\ RecurrencesTrue(P1, R2, D1, now)

\* A batch keeps the promise: what it reports is justified, what was reported
\* stays so, and what is due is reported.
LEMMA BatchKeepsPromise ==
  ASSUME NEW now \in Nat \ {0}, NEW w \in SlowWindows(now), NEW spans \in Seq(SlowSpan),
         NEW reported, NEW f, FeedRun(f, w, spans, reported, now), NEW fed, fed = f[Len(spans)],
         NEW P, NEW R, NEW D, WindowTrue(w, P, R, D, now), RecurrencesTrue(P, R, D, now),
         NEW s, s = Sweep(fed, now)
  PROVE  AnalysedTrue(s.entries, spans, fed, reported, s.recurring, P, R, D, now)
<1>1. PICK P1, R1, D1 : /\ P1 = FedSlow(P, spans, fed, reported, now)
                        /\ R1 = FedReports(R, spans, fed, reported, now)
                        /\ D1 = FedAway(D, spans, fed)
  OBVIOUS
<1>2. WindowTrue(fed, P1, R1, D1, now)
  BY <1>1, FedTrue
<1>3. PICK R2 : R2 = SweptReports(R1, s.recurring, now)
  OBVIOUS
<1>4. WindowTrue(s.entries, P1, R2, D1, now)
  BY <1>2, <1>3, SweptTrue
<1>5. P \subseteq P1 /\ \A x \in R2 : x \in R \/ x.at = now
  BY <1>1, <1>3 DEF FedSlow, FedReports, SweptReports
<1>6. ASSUME NEW r \in R2, r.by = "window" PROVE ReportJustified(P1, R2, r)
  <2>1. CASE r \in R
    <3>1. ReportJustified(P, R, r)
      BY <1>6, <2>1 DEF RecurrencesTrue
    <3>2. PICK key, A, B, e : key = r.key /\ A = SlowOf(P, key) /\ B = ReportedAt(R, key) /\ e = EntryOf(w, key)
      OBVIOUS
    <3>3. IsEntry(e, A, B, now)
      BY <3>2 DEF WindowTrue
    <3>4. r.at \in B
      BY <2>1, <3>2 DEF ReportedAt
    <3>5. r.at \in 1..now
      BY <3>3, <3>4 DEF IsEntry
    <3>6. r.at \in Nat /\ r.at <= now
      BY <3>5
    <3> QED BY <1>5, <3>1, <3>6, JustifiedStays
  <2>2. CASE r \in R1 /\ r \notin R
    BY <1>1, <1>6, <2>2 DEF FedReports
  <2>3. CASE r \notin R1
    <3>1. PICK key \in s.recurring : r.key = key /\ r.at = now
      BY <1>3, <2>3 DEF SweptReports
    <3> QED BY <1>2, <1>3, <3>1, RecurrenceJustified
  <2> QED BY <2>1, <2>2, <2>3
<1>7. ASSUME NEW key, key \notin D1, IsDue(P1, R2, key, now)
      PROVE  now \in ReportedAt(R2, key)
  BY <1>2, <1>3, <1>7, DueRecurs
<1>8. RecurrencesTrue(P1, R2, D1, now)
  BY <1>6, <1>7 DEF RecurrencesTrue
<1> QED BY <1>1, <1>3, <1>4, <1>8 DEF AnalysedTrue

\* Time passing keeps it: nothing is due before it is slow again.
LEMMA TimeKeepsPromise ==
  ASSUME NEW now \in Nat, NEW w, NEW P, NEW R, NEW D,
         WindowTrue(w, P, R, D, now), RecurrencesTrue(P, R, D, now)
  PROVE  WindowTrue(w, P, R, D, now + 1) /\ RecurrencesTrue(P, R, D, now + 1)
<1>1. PICK later \in Nat : later = now + 1 /\ now <= later
  OBVIOUS
<1>2. ASSUME NEW key
      PROVE  /\ IsEntry(EntryOf(w, key), SlowOf(P, key), ReportedAt(R, key), later)
             /\ key \notin D => Whole(EntryOf(w, key).episodes, SlowOf(P, key), ReportedAt(R, key), later)
             /\ ~ IsDue(P, R, key, later)
  <2>1. PICK A, B, e : A = SlowOf(P, key) /\ B = ReportedAt(R, key) /\ e = EntryOf(w, key)
    OBVIOUS
  <2>2. IsEntry(e, A, B, now) /\ (key \notin D => Whole(e.episodes, A, B, now))
    BY <2>1 DEF WindowTrue
  <2>3. IsEntry(e, A, B, later) /\ (key \notin D => Whole(e.episodes, A, B, later))
    BY <1>1, <2>2, EntryAges
  <2>4. \A a \in A : a.at # later
    <3>1. \A a \in A : a.at \in 1..now
      BY <2>2 DEF IsEntry
    <3> QED BY <1>1, <3>1
  <2>5. later \notin SlowAt(P, key)
    BY <2>1, <2>4 DEF SlowAt, SlowOf
  <2>6. ~ IsDue(P, R, key, later)
    BY <2>5 DEF IsDue, Within
  <2> QED BY <2>1, <2>3, <2>6
<1>3. WindowTrue(w, P, R, D, later)
  BY <1>2 DEF WindowTrue
<1>4. RecurrencesTrue(P, R, D, later)
  BY <1>2 DEF RecurrencesTrue
<1> QED BY <1>1, <1>3, <1>4

\* The slow window and its history, where it is on.
RecurrenceInv ==
    /\ FoundInv /\ PastShape
    /\ On("slow") =>
          /\ WindowTrue(slow, past.slowSpans, past.reports, past.turnedAway, Now)
          /\ RecurrencesTrue(past.slowSpans, past.reports, past.turnedAway, Now)

\* What a batch makes of the slow window.
SlowTaken(batch) ==
    LET fed == Feed(slow, batch, Now)
    IN  slow' = Sweep(fed, Now).entries /\ past' = RememberSlow(batch, fed, Sweep(fed, Now).recurring)

\* The batch taken up keeps the promise.
LEMMA AnalyseRecurrences ==
  ASSUME RecurrenceInv, Analyse, On("slow")
  PROVE  /\ WindowTrue(slow', past'.slowSpans, past'.reports, past'.turnedAway, Now)
         /\ RecurrencesTrue(past'.slowSpans, past'.reports, past'.turnedAway, Now)
<1>1. PICK b \in Setups[setup].batches : SlowTaken(Dated(b))
  BY DEF Analyse, SlowTaken
<1>2. PICK now \in Nat \ {0} : now = Now
  BY DEF RecurrenceInv, FoundInv, SetupInv, Now
<1>3. PICK batch, w : batch = Dated(b) /\ w = slow
  OBVIOUS
<1>4. IsDated(batch) /\ w \in SlowWindows(now)
  BY <1>2, <1>3, DatedBatch DEF RecurrenceInv, FoundInv, SetupInv, SlowInv
<1>5. PICK spans \in Seq(SlowSpan) : spans = SlowSpans(batch)
  BY <1>4, SlowSpansTyped
<1>6. PICK reported : reported = {x.template : x \in BatchSlowFindings(batch)}
  OBVIOUS
<1>7. spans \in Seq(Range(spans))
  BY <1>5 DEF Range
<1>8. PICK f : FeedRun(f, w, spans, reported, now)
  BY <1>7, FeedRuns
<1>9. PICK fed, s : fed = f[Len(spans)] /\ s = Sweep(fed, now)
  OBVIOUS
<1>10. Feed(w, batch, now) = FeedAll(w, spans, reported, now)
  BY <1>5, <1>6 DEF Feed, FeedAll
<1>11. fed = Feed(w, batch, now)
  BY <1>8, <1>9, <1>10 DEF FeedRun
<1>12. slow' = s.entries /\ past' = RememberSlow(batch, fed, s.recurring)
  BY <1>1, <1>2, <1>3, <1>9, <1>11 DEF SlowTaken
<1>13. PICK P, R, D : P = past.slowSpans /\ R = past.reports /\ D = past.turnedAway
  OBVIOUS
<1>14. WindowTrue(w, P, R, D, now) /\ RecurrencesTrue(P, R, D, now)
  BY <1>2, <1>3, <1>13 DEF RecurrenceInv
<1>15. AnalysedTrue(s.entries, spans, fed, reported, s.recurring, P, R, D, now)
  BY <1>4, <1>8, <1>9, <1>14, BatchKeepsPromise
<1>16. /\ past'.slowSpans = FedSlow(P, spans, fed, reported, now)
       /\ past'.reports = SweptReports(FedReports(R, spans, fed, reported, now), s.recurring, now)
       /\ past'.turnedAway = FedAway(D, spans, fed)
  BY <1>2, <1>5, <1>6, <1>12, <1>13
     DEF RememberSlow, RecurrenceInv, PastShape, PastFields, FedSlow, FedReports, SweptReports, FedAway,
         HeldSpans
<1> QED BY <1>2, <1>12, <1>15, <1>16 DEF AnalysedTrue

\* Every step keeps it.
LEMMA RecurrenceStep ==
  ASSUME RecurrenceInv, [Next]_vars
  PROVE  RecurrenceInv'
<1>1. FoundInv' /\ PastShape' /\ clock \in Nat
  BY FoundStep, PastStep DEF RecurrenceInv, FoundInv, SetupInv
<1>2. setup' = setup
  BY DEF Next, Analyse, StoreFindings, RetainTraces, IngestFindings, ChargeServices, FreezeCapture,
     SettleCapture, ObserveEpisodes, DrainEpisodes, BillBroker, Tick, vars
<1>3. CASE Analyse
  <2>1. Now' = Now
    BY <1>3 DEF Analyse, brokerVars, Now
  <2>2. On("slow")' <=> On("slow")
    BY <1>2 DEF On
  <2> QED BY <1>1, <1>3, <2>1, <2>2, AnalyseRecurrences DEF RecurrenceInv
<1>4. ASSUME slow' = slow, clock' = clock, past'.slowSpans = past.slowSpans,
             past'.reports = past.reports, past'.turnedAway = past.turnedAway
      PROVE  RecurrenceInv'
  BY <1>1, <1>2, <1>4 DEF RecurrenceInv, On, Now
<1>5. CASE StoreFindings \/ RetainTraces
  BY <1>4, <1>5 DEF StoreFindings, RetainTraces, brokerVars, RecurrenceInv, PastShape, PastFields
<1>6. CASE IngestFindings
  BY <1>4, <1>6 DEF IngestFindings, brokerVars, RecurrenceInv, PastShape, PastFields
<1>7. CASE ChargeServices
  BY <1>4, <1>7 DEF ChargeServices, RememberWaste, brokerVars, RecurrenceInv, PastShape, PastFields
<1>8. CASE FreezeCapture \/ SettleCapture
  BY <1>4, <1>8 DEF FreezeCapture, SettleCapture, brokerVars, RecurrenceInv, PastShape, PastFields
<1>9. CASE ObserveEpisodes \/ DrainEpisodes
  BY <1>4, <1>9 DEF ObserveEpisodes, DrainEpisodes, brokerVars, RecurrenceInv, PastShape, PastFields
<1>10. CASE BillBroker
  BY <1>4, <1>10, BrokerKeepsTime DEF BillBroker, storeVars
<1>11. CASE UNCHANGED vars
  BY <1>4, <1>11 DEF vars, brokerVars
<1>12. CASE Tick
  <2>1. slow' = slow /\ past' = past /\ Now' = Now + 1 /\ Now \in Nat
    BY <1>1, <1>12 DEF Tick, AdvanceClock, storeVars, Now
  <2>2. On("slow")' <=> On("slow")
    BY <1>2 DEF On
  <2>3. PICK now \in Nat : now = Now
    BY <2>1
  <2>4. PICK w, P, R, D : /\ w = slow /\ P = past.slowSpans /\ R = past.reports
                          /\ D = past.turnedAway
    OBVIOUS
  <2>5. On("slow") => WindowTrue(w, P, R, D, now) /\ RecurrencesTrue(P, R, D, now)
    BY <2>3, <2>4 DEF RecurrenceInv
  <2>6. On("slow") => WindowTrue(w, P, R, D, now + 1) /\ RecurrencesTrue(P, R, D, now + 1)
    BY <2>5, TimeKeepsPromise
  <2> QED BY <1>1, <2>1, <2>2, <2>3, <2>4, <2>6 DEF RecurrenceInv
<1> QED BY <1>3, <1>5, <1>6, <1>7, <1>8, <1>9, <1>10, <1>11, <1>12 DEF Next

\* It starts so.
LEMMA RecurrenceInit == Init => RecurrenceInv
<1> SUFFICES ASSUME Init PROVE RecurrenceInv
  OBVIOUS
<1>1. FoundInv /\ PastShape
  BY FoundInit DEF Init, PastShape, PastFields
<1>2. PICK P, R, D, w : /\ w = slow /\ P = past.slowSpans /\ R = past.reports
                        /\ D = past.turnedAway
  OBVIOUS
<1>3. P = {} /\ R = {} /\ D = {} /\ w = NoKeys
  BY <1>2 DEF Init
<1>4. PICK now \in Nat \ {0} : now = Now
  BY <1>1 DEF FoundInv, SetupInv, Now
<1>5. ASSUME NEW key
      PROVE  /\ IsEntry(EntryOf(w, key), SlowOf(P, key), ReportedAt(R, key), now)
             /\ Whole(EntryOf(w, key).episodes, SlowOf(P, key), ReportedAt(R, key), now)
  <2>1. PICK e : e = EntryOf(w, key)
    OBVIOUS
  <2>2. e = [episodes |-> <<>>, reported |-> Never]
    BY <1>3, <2>1 DEF EntryOf, NoKeys
  <2>3. PICK eps \in Seq(Episode(now)) : eps = <<>>
    <3>1. <<>> \in Seq(Episode(now))
      OBVIOUS
    <3> QED BY <3>1
  <2>4. e.episodes = eps /\ e.reported = Never /\ Len(eps) = 0 /\ 1..0 = {}
    BY <2>2, <2>3
  <2>5. e \in [episodes : Seq(Episode(now)), reported : 0..now]
    BY <2>2, <2>3 DEF Never
  <2>6. PICK A, B : A = SlowOf(P, key) /\ B = ReportedAt(R, key) /\ A = {} /\ B = {}
    BY <1>3 DEF SlowOf, ReportedAt
  <2>7. Holds(eps, A) /\ Marks(Never, B, now) /\ Whole(eps, A, B, now)
    BY <2>4, <2>6 DEF Holds, Marks, Whole
  <2>8. IsEntry(e, A, B, now)
    BY <2>4, <2>5, <2>6, <2>7 DEF IsEntry
  <2> QED BY <2>1, <2>4, <2>6, <2>7, <2>8
<1>6. WindowTrue(w, P, R, D, now)
  BY <1>5 DEF WindowTrue
<1>7. RecurrencesTrue(P, R, D, now)
  BY <1>3 DEF RecurrencesTrue
<1> QED BY <1>1, <1>2, <1>4, <1>6, <1>7 DEF RecurrenceInv

\* A template slow again and again is reported in the batch that completes its
\* recurrence, never twice in a window and never for spans of too few episodes,
\* whatever the batches report themselves (SlowWindowTracker), for any window,
\* any episode, any cap on the keys and any batches.
THEOREM RecurrencesAreReported == Spec => []RecurrencesReported
<1>1. RecurrenceInv => RecurrencesReported
  BY DEF RecurrenceInv, RecurrencesReported
<1> QED BY <1>1, RecurrenceInit, RecurrenceStep, PTL DEF Spec
=============================================================================
