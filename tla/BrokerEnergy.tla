---------------------------- MODULE BrokerEnergy ----------------------------
(***************************************************************************)
(* The broker's energy: two sources of one timeline.  The Alumet scraper   *)
(* banks the energy of each scrape window (score/alumet), the operator's   *)
(* declaration bills the wall clock since it last billed                   *)
(* (score/broker_static.rs), and the event loop decides, each time it      *)
(* builds the context of a batch, which of the two fills the window        *)
(* (take_broker_energy in daemon/event_loop.rs).  The scraper is a task of *)
(* its own: it banks before it stamps, and the loop looks at the stamps    *)
(* before it takes.                                                        *)
(*                                                                         *)
(* Energy is the set of the time units it covers, so that what is billed   *)
(* twice can be seen: a scrape covers the scrape interval before it.       *)
(***************************************************************************)
EXTENDS Naturals, FiniteSets

CONSTANTS ScrapeInterval,   \* [green.alumet] scrape_interval
          MinBillable,      \* MIN_BILLABLE_MS
          MaxBillable       \* MAX_BILLABLE_MS

ASSUME BrokerAssumption ==
    /\ ScrapeInterval \in Nat \ {0}
    /\ MinBillable \in Nat \ {0}
    /\ MaxBillable \in Nat \ {0}
    /\ MinBillable <= MaxBillable

VARIABLES clock,      \* monotonic_ms
          series,     \* the broker's DbEnergyState
          declared,   \* StaticBrokerState
          scraper,    \* the scrape in hand, and when the last one landed
          take,       \* the loop's take_broker_energy
          measuredBilled, declaredBilled   \* history: what was published, and as what

brokerVars == <<clock, series, declared, scraper, take, measuredBilled, declaredBilled>>

\* The time units after a, up to b.
Units(a, b) == (a + 1)..b

\* A series is kept alive for three scrape intervals.
Staleness == 3 * ScrapeInterval

Elapsed(since, t) == IF t >= since THEN t - since ELSE 0

BrokerInit ==
    /\ clock = 0
    /\ series = [cumulative |-> {}, consumed |-> {}, lastUpdate |-> 0,
                 lastSample |-> 0, everSampled |-> FALSE]
    /\ declared = [last |-> 0, outage |-> FALSE]
    /\ scraper = [step |-> "wait", at |-> 0]
    /\ take = [step |-> "idle", at |-> 0]
    /\ measuredBilled = {}
    /\ declaredBilled = {}

--------------------------------------------------------------------------
(* The scraper.                                                            *)

\* A scrape that answers with the broker's label: its energy is banked ...
BankSample ==
    /\ scraper.step = "wait"
    /\ clock >= scraper.at + ScrapeInterval
    /\ scraper' = [step |-> "banked", at |-> clock]
    /\ series' = [series EXCEPT !.cumulative =
                     @ \cup Units(clock - ScrapeInterval, clock)]
    /\ UNCHANGED <<clock, declared, take, measuredBilled, declaredBilled>>

\* ... then the endpoint is stamped, then the series.
StampUpdate ==
    /\ scraper.step = "banked"
    /\ scraper' = [scraper EXCEPT !.step = "updated"]
    /\ series' = [series EXCEPT !.lastUpdate = scraper.at]
    /\ UNCHANGED <<clock, declared, take, measuredBilled, declaredBilled>>

StampSample ==
    /\ scraper.step = "updated"
    /\ scraper' = [scraper EXCEPT !.step = "wait"]
    /\ series' = [series EXCEPT !.lastSample = scraper.at, !.everSampled = TRUE]
    /\ UNCHANGED <<clock, declared, take, measuredBilled, declaredBilled>>

\* A scrape that answers without the label keeps what is banked alive.
MarkAlive ==
    /\ scraper.step = "wait"
    /\ clock >= scraper.at + ScrapeInterval
    /\ scraper' = [scraper EXCEPT !.at = clock]
    /\ series' = [series EXCEPT !.lastUpdate = clock]
    /\ UNCHANGED <<clock, declared, take, measuredBilled, declaredBilled>>

--------------------------------------------------------------------------
(* The loop.                                                               *)

HasRecentSample(t) == series.everSampled /\ Elapsed(series.lastSample, t) <= Staleness

\* take_broker_energy reads the stamps ...
LookAtSeries ==
    /\ take.step = "idle"
    /\ take' = [step |-> IF HasRecentSample(clock)
                         THEN IF declared.outage THEN "recover" ELSE "own"
                         ELSE IF declared.outage THEN "drop" ELSE "bank",
                at |-> clock]
    /\ UNCHANGED <<clock, series, declared, scraper, measuredBilled, declaredBilled>>

\* ... and on the first tick after an outage the declaration billed, drops
\* what reaches back over it, as it does on every stale tick until then.
DiscardPending ==
    /\ take.step \in {"recover", "drop"}
    /\ series' = [series EXCEPT !.consumed = series.cumulative]
    /\ take' = [take EXCEPT !.step = IF @ = "recover" THEN "own" ELSE "declare"]
    /\ declared' = [declared EXCEPT !.outage = @ /\ take.step = "drop"]
    /\ UNCHANGED <<clock, scraper, measuredBilled, declaredBilled>>

\* The consumed marker moves only while the endpoint is alive.
WindowBanked ==
    IF Elapsed(series.lastUpdate, take.at) > Staleness THEN {}
    ELSE series.cumulative \ series.consumed

TakeSeries ==
    /\ measuredBilled' = measuredBilled \cup WindowBanked
    /\ series' = IF Elapsed(series.lastUpdate, take.at) > Staleness THEN series
                 ELSE [series EXCEPT !.consumed = series.cumulative]

\* StaticBrokerState::take_window_kwh: what a take would bill, and the
\* marker after it.
WindowDeclared ==
    LET elapsed == Elapsed(declared.last, take.at)
    IN  IF elapsed < MinBillable THEN {}
        ELSE Units(take.at - (IF elapsed <= MaxBillable THEN elapsed ELSE MaxBillable),
                   take.at)

\* Mutant: a take published by the series leaves the declared marker where it was.
MarkerLeftBehind == declared

AdvanceDeclared ==
    IF WindowDeclared = {} THEN declared ELSE [declared EXCEPT !.last = take.at]

\* The series owns the timeline: the declared marker moves along unpublished.
TakeMeasured ==
    /\ take.step = "own"
    /\ TakeSeries
    /\ declared' = AdvanceDeclared
    /\ take' = [take EXCEPT !.step = "idle"]
    /\ UNCHANGED <<clock, scraper, declaredBilled>>

\* The series is stale, and nothing billed since: what it banked while it was
\* live goes first.
TakeBanked ==
    /\ take.step = "bank"
    /\ TakeSeries
    /\ IF WindowBanked # {}
       THEN declared' = AdvanceDeclared /\ take' = [take EXCEPT !.step = "idle"]
       ELSE declared' = declared /\ take' = [take EXCEPT !.step = "declare"]
    /\ UNCHANGED <<clock, scraper, declaredBilled>>

TakeDeclared ==
    /\ take.step = "declare"
    /\ declaredBilled' = declaredBilled \cup WindowDeclared
    /\ declared' = [AdvanceDeclared EXCEPT !.outage = @ \/ WindowDeclared # {}]
    /\ take' = [take EXCEPT !.step = "idle"]
    /\ UNCHANGED <<clock, series, scraper, measuredBilled>>

\* Neither the stamping of a scrape nor a take, each a few stores apart, lasts
\* as long as a unit of time.
AdvanceClock ==
    /\ scraper.step = "wait" /\ take.step = "idle"
    /\ clock' = clock + 1
    /\ UNCHANGED <<series, declared, scraper, take, measuredBilled, declaredBilled>>

BrokerNext ==
    \/ BankSample \/ StampUpdate \/ StampSample \/ MarkAlive
    \/ LookAtSeries \/ DiscardPending \/ TakeMeasured \/ TakeBanked \/ TakeDeclared

--------------------------------------------------------------------------
(* What is published is energy the broker drew once, whichever source the  *)
(* loop publishes it from: no stretch long enough to bill is billed both   *)
(* as measured and as declared, across outages, recoveries and labels that *)
(* come and go.  A shorter one may be: a take under MIN_BILLABLE_MS leaves *)
(* the declared marker where it is.                                        *)
BilledOnce ==
    \A t \in measuredBilled :
       ~ (Units(t - 1, t - 1 + MinBillable) \subseteq measuredBilled \cap declaredBilled)
=============================================================================
