------------------------------ MODULE MCLending ------------------------------
(* Small instances of the lending ledger, with the limits of                 *)
(* DefaultDebtLimits except for two active loans a maker.                    *)
EXTENDS Lending, TLC

CONSTANTS lena, bob

MCMakers == {lena, bob}

\* bob as setupLedger of lending_test.go has him, with a shorter history;
\* lena has yet to register.
MCReps == [m \in MCMakers |->
  IF m = bob THEN [totalLoans |-> 10, successfulRepays |-> 8, defaults |-> 0,
                   totalDelivered |-> 7000, penalty |-> 0, age |-> 90]
             ELSE None]

MCBalances == [m \in MCMakers |-> IF m = lena THEN 14000 ELSE 500]

\* Two amounts that fit into each other's limits, and one that takes instead
\* of giving.
MCAmounts == {-4000, 400, 1900}

MCSymmetry == Permutations(OfferIds) \cup Permutations(LoanIds)
=============================================================================
