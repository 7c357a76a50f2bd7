------------------------------ MODULE MCBuilds ------------------------------
(* Small instances of the build queue.  A spec of 10 characters costs the    *)
(* minimum, one of 600 costs more, one of 50,000 meets the cap.              *)
EXTENDS Builds, TLC

MCSymmetry == Permutations(Requests) \cup Permutations(BuildIds)
                \cup Permutations(Factories)

\* The cost is a price in 10..200 that grows with the spec, and a factory
\* never earns more than the build cost nor less than nothing.
ASSUME \A n \in 10..50000 :
         /\ EstimateCost(n) \in 10..200
         /\ n < 50000 => EstimateCost(n) =< EstimateCost(n + 1)
         /\ Payout(EstimateCost(n)) \in 8..EstimateCost(n)
=============================================================================
