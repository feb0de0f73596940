----------------------------- MODULE EventLedger -----------------------------
(***************************************************************************)
(* What the daemon promises about the events it accepts, whatever its      *)
(* queues and windows look like: an accepted event is held until exactly   *)
(* one thing becomes of it, and the daemon does not stop cleanly while it  *)
(* still holds one.                                                        *)
(*                                                                         *)
(*   analysed     went through detection and scoring                       *)
(*   shed         evicted while the analysis queue could not take it       *)
(*   overwritten  pushed out of its trace's ring by newer events           *)
(*   unsampled    its trace is not in the sample                           *)
(*   lost         gone with an analysis worker that panicked               *)
(***************************************************************************)
EXTENDS Naturals

CONSTANT Events   \* the events that may ever be sent

VARIABLES fate,   \* what became of each event
          stage   \* "open", "draining" (shutting down), "closed", "crashed"

ledgerVars == <<fate, stage>>

Settled == {"analysed", "shed", "overwritten", "unsampled", "lost"}

LedgerTypeOK ==
    /\ fate \in [Events -> {"unsent", "held"} \cup Settled]
    /\ stage \in {"open", "draining", "closed", "crashed"}

LedgerInit ==
    /\ fate = [e \in Events |-> "unsent"]
    /\ stage = "open"

Becomes(outcomes) ==
    \A e \in Events : \/ fate'[e] = fate[e]
                      \/ fate[e] = "held" /\ fate'[e] \in outcomes

\* New events are accepted while the daemon serves.
Admit ==
    /\ stage = "open"
    /\ \A e \in Events : \/ fate'[e] = fate[e]
                         \/ fate[e] = "unsent" /\ fate'[e] = "held"
    /\ fate' # fate
    /\ UNCHANGED stage

Settle ==
    /\ stage = "open"
    /\ Becomes(Settled \ {"lost"})
    /\ fate' # fate
    /\ UNCHANGED stage

BeginDrain ==
    /\ stage = "open"
    /\ stage' = "draining"
    /\ UNCHANGED fate

\* Once the daemon drains, a full analysis queue sheds nothing any more.
SettleDraining ==
    /\ stage = "draining"
    /\ Becomes(Settled \ {"lost", "shed"})
    /\ fate' # fate
    /\ UNCHANGED stage

\* A clean stop leaves no accepted event behind.
Close ==
    /\ stage = "draining"
    /\ \A e \in Events : fate[e] # "held"
    /\ stage' = "closed"
    /\ UNCHANGED fate

\* The worker is gone: what it held is lost, nothing is promised any more
\* except that an event that was settled stays settled.
Crash ==
    /\ stage \in {"open", "draining"}
    /\ stage' = "crashed"
    /\ Becomes({"lost"})

Aftermath ==
    /\ stage = "crashed"
    /\ \A e \in Events : \/ fate'[e] = fate[e]
                         \/ fate[e] = "unsent" /\ fate'[e] = "held"
                         \/ fate[e] = "held" /\ fate'[e] \in Settled \ {"analysed"}
    /\ fate' # fate
    /\ UNCHANGED stage

LedgerNext ==
    \/ Admit
    \/ Settle
    \/ BeginDrain
    \/ SettleDraining
    \/ Close
    \/ Crash
    \/ Aftermath

LedgerSpec == LedgerInit /\ [][LedgerNext]_ledgerVars
==============================================================================
