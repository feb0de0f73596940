------------------------------ MODULE MCArchive ------------------------------
(* Instances of Archive for TLC: what fails, and how long it goes on.       *)
EXTENDS Archive

Setup(faults, rollups, windows, days, most) ==
    [faults |-> faults, rollups |-> rollups, windows |-> windows, days |-> days,
     most |-> most]

WindowFaults == {"write", "truncate", "seal", "rename", "create", "prune", "torn"}

\* Every fault of the window files within a day; the rollups over midnight,
\* refused and accepted, beside window lines and alone; every fault of their
\* files; the clock.
EachHalf == {Setup(WindowFaults, {}, TRUE, 1, 4),
             Setup({"snapshot"}, {"nothing"}, TRUE, 3, 4),
             Setup({"snapshot"}, {"nothing"}, FALSE, 3, 5),
             Setup({}, {"nothing"}, FALSE, 3, 4),
             Setup({}, {"fragment", "line", "torn"}, FALSE, 3, 4),
             Setup({"snapshot", "clock"}, {"nothing"}, FALSE, 3, 4)}

OnlyPrune   == {Setup({"prune"}, {}, TRUE, 1, 6)}
OnlyTorn    == {Setup({"torn"}, {}, TRUE, 1, 6)}

Refusing    == {Setup({}, {"nothing"}, FALSE, 3, 6)}
==============================================================================
